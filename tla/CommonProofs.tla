---------------------------- MODULE CommonProofs ----------------------------
(***************************************************************************)
(* What the proofs rely on: where reads end, prefixes of sequences, the    *)
(* layout of locals and globals, and induction and recursion along a rank. *)
(* The library's theorems on the last two take an operator as a parameter; *)
(* here a property is the set of the values that have it, and the body of a*)
(* recursive definition a function of the position and of the values found *)
(* so far.  Then what counting the opcodes of a body gives, for all data.  *)
(***************************************************************************)
EXTENDS ControlFlow, WasmModule, SequenceTheorems, FiniteSetTheorems, WellFoundedInduction, TLAPS

\* Operands that are not cut short end inside the data, and no read goes back.
LEMMA AfterBounds ==
  ASSUME NEW data, Len(data) \in Nat, NEW pos \in 0 .. Len(data), NEW layout,
         After(layout, data, pos) # Failed
  PROVE  After(layout, data, pos) \in pos .. Len(data)
BY DEF After, AfterType, AfterBytes, AfterNumbers, LiteralBytes, Failed

\* The first n elements of a sequence.
LEMMA PrefixOf ==
  ASSUME NEW S, NEW s \in Seq(S), NEW n \in 0 .. Len(s)
  PROVE  /\ SubSeq(s, 1, n) \in Seq(S)
         /\ Len(SubSeq(s, 1, n)) = n
         /\ \A i \in 1 .. n : SubSeq(s, 1, n)[i] = s[i]
BY SubSeqProperties, ElementOfSeq, LenProperties

\* n elements of a sequence, behind the first m.
LEMMA SuffixOf ==
  ASSUME NEW S, NEW s \in Seq(S), NEW m \in Nat, NEW n \in Nat, m + n <= Len(s)
  PROVE  /\ SubSeq(s, m + 1, m + n) \in Seq(S)
         /\ Len(SubSeq(s, m + 1, m + n)) = n
<1>1. \A i \in m + 1 .. m + n : s[i] \in S
  BY ElementOfSeq, LenProperties
<1> QED BY <1>1, SubSeqProperties

\* A function on the first n positions is a sequence.
LEMMA FunctionIsSeq ==
  ASSUME NEW S, NEW n \in Nat, NEW s \in [1 .. n -> S]
  PROVE  s \in Seq(S) /\ Len(s) = n
OBVIOUS

-----------------------------------------------------------------------------
(* Induction and recursion.                                                *)

\* A set of naturals that is not empty has a least element.
LEMMA LeastNat ==
  ASSUME NEW T \in SUBSET Nat, T # {}
  PROVE  \E m \in T : \A n \in T : m <= n
<1> DEFINE R == OpToRel(<, Nat)
<1>1. IsWellFoundedOn(R, Nat)
  BY NatLessThanWellFounded
<1>2. \A x, y \in Nat : <<y, x>> \in R <=> y < x
  BY DEF OpToRel
<1> HIDE DEF R
<1>3. PICK m \in T : \A n \in T : <<n, m>> \notin R
  BY <1>1, WFMin
<1>4. \A n \in T : ~ (n < m)
  BY <1>2, <1>3
<1> QED BY <1>3, <1>4

\* Induction over the naturals.
LEMMA NatSetInduction ==
  ASSUME NEW S, 0 \in S, \A n \in Nat : n \in S => n + 1 \in S
  PROVE  Nat \subseteq S
<1> SUFFICES ASSUME Nat \ S # {} PROVE FALSE
  OBVIOUS
<1>1. PICK m \in Nat \ S : \A n \in Nat \ S : m <= n
  BY LeastNat
<1>2. m - 1 \in Nat /\ m = (m - 1) + 1
  BY <1>1
<1>3. m - 1 \in S
  BY <1>1, <1>2
<1> QED BY <1>1, <1>2, <1>3

\* Induction along a rank: what holds of a value whenever it holds of those
\* of lower rank holds of all.
LEMMA RankInduction ==
  ASSUME NEW D, NEW rank \in [D -> Nat], NEW T,
         \A p \in D : (\A q \in D : rank[q] < rank[p] => q \in T) => p \in T
  PROVE  D \subseteq T
<1> DEFINE ranks == {rank[p] : p \in D \ T}
<1> SUFFICES ASSUME D \ T # {} PROVE FALSE
  OBVIOUS
<1>1. ranks \in SUBSET Nat /\ ranks # {}
  OBVIOUS
<1>2. PICK m \in ranks : \A n \in ranks : m <= n
  BY <1>1, LeastNat
<1>3. PICK p \in D \ T : rank[p] = m
  BY <1>2
<1>4. \A q \in D : rank[q] < rank[p] => q \in T
  <2> SUFFICES ASSUME NEW q \in D, rank[q] < rank[p], q \notin T PROVE FALSE
    OBVIOUS
  <2>1. rank[q] \in ranks /\ rank[q] \in Nat /\ rank[p] \in Nat
    OBVIOUS
  <2> HIDE DEF ranks
  <2>2. m <= rank[q]
    BY <1>2, <2>1
  <2> QED BY <1>3, <2>1, <2>2
<1> QED BY <1>3, <1>4

\* A definition recurs only to values of lower rank, and ranks are bounded:
\* body[p][g] is the value at p, given the values g.
Recurs(D, V, rank, bound, body) ==
  /\ rank \in [D -> Nat] /\ bound \in Nat /\ \A p \in D : rank[p] < bound
  /\ V # {} /\ body \in [D -> [[D -> V] -> V]]
  /\ \A p \in D : \A g, h \in [D -> V] :
       (\A q \in D : rank[q] < rank[p] => g[q] = h[q]) => body[p][g] = body[p][h]

\* Then there is a function that satisfies the definition.
LEMMA RecursionExists ==
  ASSUME NEW D, NEW V, NEW rank, NEW bound, NEW body, Recurs(D, V, rank, bound, body)
  PROVE  \E g \in [D -> V] : \A p \in D : g[p] = body[p][g]
<1> USE DEF Recurs
<1> DEFINE Upto(m, g) == \A p \in D : rank[p] < m => g[p] = body[p][g]
           S == {m \in Nat : \E g \in [D -> V] : Upto(m, g)}
<1>1. 0 \in S
  <2>1. \A p \in D : ~ (rank[p] < 0)
    OBVIOUS
  <2>2. PICK v \in V : TRUE
    OBVIOUS
  <2>3. [p \in D |-> v] \in [D -> V]
    OBVIOUS
  <2> QED BY <2>1, <2>3
<1>2. ASSUME NEW m \in Nat, m \in S
      PROVE  m + 1 \in S
  <2>1. PICK g \in [D -> V] : Upto(m, g)
    BY <1>2
  <2> DEFINE h == [p \in D |-> IF rank[p] < m THEN g[p] ELSE body[p][g]]
  <2>2. h \in [D -> V]
    OBVIOUS
  <2>3. ASSUME NEW p \in D, rank[p] < m + 1
        PROVE  h[p] = body[p][h]
    <3>1. \A q \in D : rank[q] < rank[p] => g[q] = h[q]
      BY <2>3
    <3>2. body[p][g] = body[p][h]
      BY <2>2, <3>1
    <3>3. h[p] = body[p][g]
      BY <2>1
    <3> QED BY <3>2, <3>3
  <2> HIDE DEF h
  <2>4. Upto(m + 1, h)
    BY <2>3
  <2> QED BY <2>2, <2>4
<1>3. bound \in S
  BY <1>1, <1>2, NatSetInduction
<1> QED BY <1>3
-----------------------------------------------------------------------------
(* The layout of locals and globals: what offsets_of_types computes, for   *)
(* all lists of types, places that follow each other and fill a frame.     *)

\* The words before the first type, and before each next one.
LEMMA WordsEquation ==
  ASSUME NEW types, Len(types) \in Nat
  PROVE  /\ WordsBefore(types) \in [0 .. Len(types) -> Nat]
         /\ WordsBefore(types)[0] = 0
         /\ \A i \in 1 .. Len(types) :
              WordsBefore(types)[i] = WordsBefore(types)[i - 1] + Words(types[i])
<1> DEFINE D == 0 .. Len(types)
           rank == [i \in D |-> i]
           bound == Len(types) + 1
           E(i, g) == IF i = 0 THEN 0 ELSE g[i - 1] + Words(types[i])
           body == [i \in D |-> [g \in [D -> Nat] |-> E(i, g)]]
           upto[i \in D] == E(i, upto)
<1>1. \A t : Words(t) \in Nat
  BY DEF Words
<1>2. rank \in [D -> Nat] /\ bound \in Nat /\ \A i \in D : rank[i] < bound
  OBVIOUS
<1>3. \A i \in D : i # 0 => i - 1 \in D /\ rank[i - 1] < rank[i]
  OBVIOUS
<1>4. body \in [D -> [[D -> Nat] -> Nat]]
  BY <1>1, <1>3
<1>5. ASSUME NEW i \in D, NEW g \in [D -> Nat], NEW h \in [D -> Nat],
             \A q \in D : rank[q] < rank[i] => g[q] = h[q]
      PROVE  body[i][g] = body[i][h]
  <2>1. i # 0 => g[i - 1] = h[i - 1]
    BY <1>3, <1>5
  <2> QED BY <2>1
<1>6. \E g \in [D -> Nat] : \A i \in D : g[i] = body[i][g]
  <2> HIDE DEF body, D, rank, bound
  <2>1. Recurs(D, Nat, rank, bound, body)
    BY <1>2, <1>4, <1>5 DEF Recurs
  <2> QED BY <2>1, RecursionExists
<1>7. PICK g \in [D -> Nat] : \A i \in D : g[i] = body[i][g]
  BY <1>6
<1>8. g = [i \in D |-> E(i, g)]
  BY <1>7
<1>9. upto = [i \in D |-> E(i, upto)]
  <2> HIDE DEF E
  <2> QED BY <1>8 DEF upto
<1>10. WordsBefore(types) = upto
  BY DEF WordsBefore, upto, E
<1> HIDE DEF upto
<1>11. upto = [i \in D |-> upto[i]] /\ \A i \in D : upto[i] = E(i, upto)
  <2> HIDE DEF E
  <2> QED BY <1>9
<1> DEFINE T == {i \in D : upto[i] \in Nat}
<1>12. ASSUME NEW i \in D, \A q \in D : rank[q] < rank[i] => q \in T
       PROVE  i \in T
  <2>1. i # 0 => upto[i - 1] \in Nat
    BY <1>3, <1>12
  <2>2. upto[i] = E(i, upto)
    BY <1>11
  <2> QED BY <1>1, <2>1, <2>2
<1>13. D \subseteq T
  <2> HIDE DEF D, T, rank
  <2> QED BY <1>2, <1>12, RankInduction
<1>14. upto \in [D -> Nat]
  BY <1>11, <1>13
<1> QED BY <1>10, <1>11, <1>14

\* Places follow each other: each ends where the next one starts, or before.
LEMMA WordsGrow ==
  ASSUME NEW types, Len(types) \in Nat, NEW i \in 0 .. Len(types), NEW j \in 0 .. Len(types), i <= j
  PROVE  WordsBefore(types)[i] <= WordsBefore(types)[j]
<1> DEFINE W == WordsBefore(types)
           S == {n \in Nat : i + n <= Len(types) => W[i] <= W[i + n]}
<1>1. /\ \A k \in 0 .. Len(types) : W[k] \in Nat
      /\ \A k \in 1 .. Len(types) : W[k] = W[k - 1] + Words(types[k])
      /\ \A t : Words(t) \in Nat
  BY WordsEquation DEF Words
<1> HIDE DEF W
<1>2. 0 \in S
  BY <1>1
<1>3. ASSUME NEW n \in Nat, n \in S
      PROVE  n + 1 \in S
  <2> SUFFICES ASSUME i + (n + 1) <= Len(types) PROVE W[i] <= W[i + (n + 1)]
    OBVIOUS
  <2>1. /\ i + n \in 0 .. Len(types) /\ i + (n + 1) \in 1 .. Len(types)
        /\ (i + (n + 1)) - 1 = i + n
    OBVIOUS
  <2>2. W[i + (n + 1)] = W[i + n] + Words(types[i + (n + 1)]) /\ W[i] <= W[i + n]
    BY <1>1, <1>3, <2>1
  <2> QED BY <1>1, <2>1, <2>2
<1>4. Nat \subseteq S
  <2> HIDE DEF S
  <2> QED BY <1>2, <1>3, NatSetInduction
<1>5. j - i \in Nat /\ i + (j - i) = j
  OBVIOUS
<1>6. j - i \in S
  BY <1>4, <1>5
<1> QED BY <1>5, <1>6 DEF W

\* The types of a second list are placed behind those of the first.
LEMMA WordsConcat ==
  ASSUME NEW S, NEW ps \in Seq(S), NEW own \in Seq(S)
  PROVE  \A k \in 0 .. Len(own) :
           WordsBefore(ps \o own)[Len(ps) + k] = WordsOf(ps) + WordsBefore(own)[k]
<1> DEFINE all == ps \o own
           n == Len(ps)
           W == WordsBefore(all)
           P == WordsBefore(ps)
           O == WordsBefore(own)
<1>1. /\ n \in Nat /\ Len(own) \in Nat /\ Len(all) \in Nat /\ Len(all) = n + Len(own)
      /\ \A i \in 1 .. n : all[i] = ps[i]
      /\ \A i \in 1 .. Len(own) : all[n + i] = own[i]
  BY ConcatProperties, LenProperties
<1>2. /\ W[0] = 0 /\ P[0] = 0 /\ O[0] = 0
      /\ \A i \in 0 .. Len(all) : W[i] \in Nat
      /\ \A i \in 0 .. n : P[i] \in Nat
      /\ \A i \in 0 .. Len(own) : O[i] \in Nat
      /\ \A i \in 1 .. Len(all) : W[i] = W[i - 1] + Words(all[i])
      /\ \A i \in 1 .. n : P[i] = P[i - 1] + Words(ps[i])
      /\ \A i \in 1 .. Len(own) : O[i] = O[i - 1] + Words(own[i])
  <2> HIDE DEF all
  <2> QED BY <1>1, WordsEquation
<1>3. \A t : Words(t) \in Nat
  BY DEF Words
<1>4. WordsOf(ps) = P[n]
  BY DEF WordsOf
<1> HIDE DEF all, n, W, P, O
<1> DEFINE First  == {i \in Nat : i <= n => W[i] = P[i]}
           Second == {i \in Nat : i <= Len(own) => W[n + i] = P[n] + O[i]}
<1>5. 0 \in First
  BY <1>2
<1>6. ASSUME NEW i \in Nat, i \in First PROVE i + 1 \in First
  <2> SUFFICES ASSUME i + 1 <= n PROVE W[i + 1] = P[i + 1]
    OBVIOUS
  <2>1. i + 1 \in 1 .. n /\ i + 1 \in 1 .. Len(all) /\ (i + 1) - 1 = i
    BY <1>1
  <2>2. W[i + 1] = W[i] + Words(all[i + 1]) /\ P[i + 1] = P[i] + Words(ps[i + 1])
    BY <1>2, <2>1
  <2>3. W[i] = P[i] /\ all[i + 1] = ps[i + 1]
    BY <1>1, <1>6, <2>1
  <2> QED BY <2>2, <2>3
<1>7. n \in First
  <2> HIDE DEF First
  <2> QED BY <1>1, <1>5, <1>6, NatSetInduction
<1>8. 0 \in Second
  BY <1>1, <1>2, <1>7
<1>9. ASSUME NEW i \in Nat, i \in Second PROVE i + 1 \in Second
  <2> SUFFICES ASSUME i + 1 <= Len(own) PROVE W[n + (i + 1)] = P[n] + O[i + 1]
    OBVIOUS
  <2>1. /\ i + 1 \in 1 .. Len(own) /\ n + (i + 1) \in 1 .. Len(all) /\ (i + 1) - 1 = i
        /\ (n + (i + 1)) - 1 = n + i /\ n \in 0 .. n /\ i \in 0 .. Len(own)
    BY <1>1
  <2>2. /\ W[n + (i + 1)] = W[n + i] + Words(all[n + (i + 1)])
        /\ O[i + 1] = O[i] + Words(own[i + 1])
    BY <1>2, <2>1
  <2>3. W[n + i] = P[n] + O[i] /\ all[n + (i + 1)] = own[i + 1]
    BY <1>1, <1>9, <2>1
  <2>4. P[n] \in Nat /\ O[i] \in Nat /\ Words(own[i + 1]) \in Nat
    BY <1>2, <1>3, <2>1
  <2> QED BY <2>2, <2>3, <2>4
<1>10. Nat \subseteq Second
  <2> HIDE DEF Second
  <2> QED BY <1>8, <1>9, NatSetInduction
<1>11. \A k \in 0 .. Len(own) : W[n + k] = P[n] + O[k]
  BY <1>1, <1>10
<1> QED BY <1>4, <1>11 DEF all, n, W, O

\* Each type of a list has a place of its own, behind those before it: what
\* init_globals and evaluate write at one offset never reaches another.
THEOREM OffsetsDisjoint ==
  ASSUME NEW S, NEW types \in Seq(S)
  PROVE  /\ OffsetsOfTypes(types) \in [DOMAIN types -> Nat]
         /\ \A i \in DOMAIN types :
              OffsetsOfTypes(types)[i] + Words(types[i]) <= WordsOf(types)
         /\ \A i, j \in DOMAIN types :
              i < j => OffsetsOfTypes(types)[i] + Words(types[i]) <= OffsetsOfTypes(types)[j]
<1> DEFINE W == WordsBefore(types)
<1>1. Len(types) \in Nat /\ DOMAIN types = 1 .. Len(types)
  BY LenProperties
<1>2. /\ \A k \in 0 .. Len(types) : W[k] \in Nat
      /\ \A k \in 1 .. Len(types) : W[k] = W[k - 1] + Words(types[k])
  BY <1>1, WordsEquation
<1>3. \A i, j \in 0 .. Len(types) : i <= j => W[i] <= W[j]
  BY <1>1, WordsGrow
<1>4. /\ OffsetsOfTypes(types) = [i \in DOMAIN types |-> W[i - 1]]
      /\ WordsOf(types) = W[Len(types)]
  BY DEF OffsetsOfTypes, WordsOf
<1> HIDE DEF W
<1>5. ASSUME NEW i \in DOMAIN types
      PROVE  /\ OffsetsOfTypes(types)[i] \in Nat
             /\ OffsetsOfTypes(types)[i] + Words(types[i]) = W[i]
  <2>1. i \in 1 .. Len(types) /\ i - 1 \in 0 .. Len(types)
    BY <1>1
  <2> QED BY <1>2, <1>4, <2>1
<1>6. ASSUME NEW i \in DOMAIN types
      PROVE  W[i] <= WordsOf(types)
  <2>1. i \in 0 .. Len(types) /\ Len(types) \in 0 .. Len(types) /\ i <= Len(types)
    BY <1>1
  <2> QED BY <1>3, <1>4, <2>1
<1>7. ASSUME NEW i \in DOMAIN types, NEW j \in DOMAIN types, i < j
      PROVE  W[i] <= OffsetsOfTypes(types)[j]
  <2>1. i \in 0 .. Len(types) /\ j - 1 \in 0 .. Len(types) /\ i <= j - 1
    BY <1>1, <1>7
  <2> QED BY <1>3, <1>4, <2>1
<1> QED BY <1>4, <1>5, <1>6, <1>7

\* The parameters and locals of a body lie inside its frame, which is
\* params_len and non_param_locals_len words long.
LEMMA FrameLayout ==
  ASSUME NEW S, NEW ps \in Seq(S), NEW own \in Seq(S)
  PROVE  /\ WordsOf(ps) \in Nat /\ WordsOf(own) \in Nat
         /\ OffsetsOfTypes(ps \o own) \in [DOMAIN (ps \o own) -> Nat]
         /\ \A i \in DOMAIN (ps \o own) :
              OffsetsOfTypes(ps \o own)[i] + Words((ps \o own)[i]) <= WordsOf(ps) + WordsOf(own)
<1>1. Len(ps) \in Nat /\ Len(own) \in Nat /\ ps \o own \in Seq(S) /\ Len(ps \o own) = Len(ps) + Len(own)
  BY ConcatProperties, LenProperties
<1>2. WordsOf(ps) \in Nat /\ WordsOf(own) \in Nat
  BY <1>1, WordsEquation DEF WordsOf
<1>3. WordsOf(ps \o own) = WordsOf(ps) + WordsOf(own)
  BY <1>1, WordsConcat DEF WordsOf
<1> QED BY <1>1, <1>2, <1>3, OffsetsDisjoint
-----------------------------------------------------------------------------
(* The opcodes of a body, and the blocks they open and close.              *)

\* The opcodes from a position are the one there and those after its operands.
LEMMA OpcodesEquation ==
  ASSUME NEW data \in Seq(Byte), NEW pos \in 0 .. Len(data)
  PROVE  LET next == After(ParseLayout(At(data, pos)), data, pos + 1)
         IN  Opcodes(data, pos) =
               IF pos = Len(data) THEN {}
               ELSE {pos} \cup (IF next = Failed THEN {} ELSE Opcodes(data, next))
<1> DEFINE Next(p) == After(ParseLayout(At(data, p)), data, p + 1)
           D == 0 .. Len(data)
           V == SUBSET D
           rank == [p \in D |-> Len(data) - p]
           bound == Len(data) + 1
           E(p, g) == IF p = Len(data) THEN {}
                      ELSE {p} \cup (IF Next(p) = Failed THEN {} ELSE g[Next(p)])
           body == [p \in D |-> [g \in [D -> V] |-> E(p, g)]]
           from[p \in D] == E(p, from)
<1>1. Len(data) \in Nat
  BY LenProperties
<1>2. \A p \in D : p # Len(data) /\ Next(p) # Failed => Next(p) \in D /\ Next(p) > p
  BY <1>1, AfterBounds
<1> HIDE DEF Next
<1>3. body \in [D -> [[D -> V] -> V]]
  BY <1>1, <1>2
<1>4. rank \in [D -> Nat] /\ bound \in Nat /\ \A p \in D : rank[p] < bound
  BY <1>1
<1>5. ASSUME NEW p \in D, NEW g \in [D -> V], NEW h \in [D -> V],
             \A q \in D : rank[q] < rank[p] => g[q] = h[q]
      PROVE  body[p][g] = body[p][h]
  <2>1. p # Len(data) /\ Next(p) # Failed => g[Next(p)] = h[Next(p)]
    <3> HAVE p # Len(data) /\ Next(p) # Failed
    <3>1. Next(p) \in D /\ rank[Next(p)] < rank[p]
      BY <1>1, <1>2
    <3> QED BY <1>5, <3>1
  <2>2. E(p, g) = E(p, h)
    BY <2>1
  <2> QED BY <2>2
<1>6. \E g \in [D -> V] : \A p \in D : g[p] = body[p][g]
  <2> HIDE DEF body, D, V, rank, bound
  <2>1. V # {}
    BY DEF V
  <2>2. Recurs(D, V, rank, bound, body)
    BY <1>3, <1>4, <1>5, <2>1 DEF Recurs
  <2> QED BY <2>2, RecursionExists
<1>7. PICK g \in [D -> V] : \A p \in D : g[p] = body[p][g]
  BY <1>6
<1>8. g = [p \in D |-> E(p, g)]
  BY <1>7
<1>9. from = [p \in D |-> E(p, from)]
  <2> HIDE DEF E
  <2> QED BY <1>8 DEF from
<1>10. \A p : Opcodes(data, p) = from[p]
  BY DEF Opcodes, from, E, Next
<1>11. from[pos] = E(pos, from)
  <2> HIDE DEF E, from
  <2> QED BY <1>9
<1> HIDE DEF from
<1> QED BY <1>11, <1>10 DEF Next

\* Opcodes are found from the position on, inside the data.
LEMMA OpcodesInside ==
  ASSUME NEW data \in Seq(Byte), NEW pos \in 0 .. Len(data)
  PROVE  Opcodes(data, pos) \subseteq pos .. Len(data) - 1
<1> DEFINE D == 0 .. Len(data)
           rank == [p \in D |-> Len(data) - p]
           T == {p \in D : Opcodes(data, p) \subseteq p .. Len(data) - 1}
<1>1. Len(data) \in Nat
  BY LenProperties
<1>2. rank \in [D -> Nat]
  BY <1>1
<1>3. ASSUME NEW p \in D, \A q \in D : rank[q] < rank[p] => q \in T
      PROVE  p \in T
  <2> DEFINE next == After(ParseLayout(At(data, p)), data, p + 1)
  <2>1. Opcodes(data, p) = IF p = Len(data) THEN {}
                           ELSE {p} \cup (IF next = Failed THEN {} ELSE Opcodes(data, next))
    BY OpcodesEquation
  <2>2. CASE p = Len(data)
    BY <2>1, <2>2
  <2>3. CASE p # Len(data) /\ next = Failed
    BY <1>1, <2>1, <2>3
  <2>4. CASE p # Len(data) /\ next # Failed
    <3>1. next \in p + 1 .. Len(data)
      BY <1>1, <2>4, AfterBounds
    <3> HIDE DEF next
    <3>2. next \in T
      BY <1>1, <1>3, <3>1
    <3> QED BY <1>1, <2>1, <2>4, <3>1, <3>2
  <2> QED BY <2>2, <2>3, <2>4
<1>4. D \subseteq T
  <2> HIDE DEF D, T, rank
  <2> QED BY <1>2, <1>3, RankInduction
<1> QED BY <1>4

\* From any opcode on, the opcodes found are those found from the start.
LEMMA OpcodesOnwards ==
  ASSUME NEW data \in Seq(Byte), NEW pos \in 0 .. Len(data), NEW next \in Opcodes(data, pos)
  PROVE  Opcodes(data, next) = {q \in Opcodes(data, pos) : q >= next}
<1> DEFINE D == 0 .. Len(data)
           rank == [p \in D |-> Len(data) - p]
           Onwards(p, q) == Opcodes(data, q) = {r \in Opcodes(data, p) : r >= q}
           T == {p \in D : \A q \in Opcodes(data, p) : Onwards(p, q)}
<1>1. Len(data) \in Nat
  BY LenProperties
<1>2. rank \in [D -> Nat]
  BY <1>1
<1>3. ASSUME NEW p \in D, \A q \in D : rank[q] < rank[p] => q \in T
      PROVE  p \in T
  <2> DEFINE follow == After(ParseLayout(At(data, p)), data, p + 1)
  <2>1. Opcodes(data, p) = IF p = Len(data) THEN {}
                           ELSE {p} \cup (IF follow = Failed THEN {} ELSE Opcodes(data, follow))
    BY OpcodesEquation
  <2>2. Opcodes(data, p) \subseteq p .. Len(data) - 1
    BY OpcodesInside
  <2>3. Onwards(p, p)
    <3>1. \A r \in Opcodes(data, p) : r >= p
      BY <1>1, <2>2
    <3> QED BY <3>1
  <2>4. ASSUME NEW q \in Opcodes(data, p), q # p
        PROVE  Onwards(p, q)
    <3>1. p # Len(data) /\ follow # Failed
      BY <2>1, <2>4
    <3>2. follow \in p + 1 .. Len(data)
      BY <1>1, <3>1, AfterBounds
    <3> HIDE DEF follow
    <3>3. follow \in T /\ q \in Opcodes(data, follow)
      BY <1>1, <1>3, <2>1, <2>4, <3>1, <3>2
    <3>4. Opcodes(data, q) = {r \in Opcodes(data, follow) : r >= q}
      BY <3>3
    <3>5. q > p
      BY <1>1, <2>2, <2>4
    <3>6. \A r : r \in Opcodes(data, p) /\ r >= q <=> r \in Opcodes(data, follow) /\ r >= q
      <4>1. ~(p >= q)
        BY <1>1, <2>2, <3>5
      <4> QED BY <2>1, <3>1, <4>1
    <3> QED BY <3>4, <3>6
  <2>5. \A q \in Opcodes(data, p) : Onwards(p, q)
    BY <2>3, <2>4
  <2> QED BY <2>5
<1>4. D \subseteq T
  <2> HIDE DEF D, T, rank
  <2> QED BY <1>2, <1>3, RankInduction
<1>5. pos \in T
  BY <1>4
<1> QED BY <1>5

LEMMA OpcodesFinite ==
  ASSUME NEW data \in Seq(Byte), NEW pos \in 0 .. Len(data)
  PROVE  IsFiniteSet(Opcodes(data, pos))
<1>1. Len(data) \in Nat
  BY LenProperties
<1>2. IsFiniteSet(pos .. Len(data) - 1)
  BY <1>1, FS_Interval
<1> QED BY <1>2, OpcodesInside, FS_Subset

-----------------------------------------------------------------------------
(* The number of open blocks.                                              *)

\* Passing a position adds one to what is counted if it is counted.
LEMMA CountStep ==
  ASSUME NEW S \in SUBSET Int, IsFiniteSet(S), NEW p \in Int
  PROVE  /\ Cardinality({q \in S : q < p}) \in Nat
         /\ Cardinality({q \in S : q < p + 1}) =
              Cardinality({q \in S : q < p}) + (IF p \in S THEN 1 ELSE 0)
<1>0. \A q \in S : (q < p + 1) <=> (q < p \/ q = p)
  OBVIOUS
<1>1. IsFiniteSet({q \in S : q < p})
  BY FS_Subset
<1>2. Cardinality({q \in S : q < p}) \in Nat
  BY <1>1, FS_CardinalityType
<1>3. CASE p \in S
  <2>1. {q \in S : q < p + 1} = {q \in S : q < p} \cup {p} /\ p \notin {q \in S : q < p}
    <3>1. ~ (p < p)
      OBVIOUS
    <3>2. \A q : q \in {r \in S : r < p + 1} <=> q \in {r \in S : r < p} \cup {p}
      BY <1>3, <1>0
    <3> QED BY <3>1, <3>2, Zenon
  <2>2. Cardinality({q \in S : q < p} \cup {p}) = Cardinality({q \in S : q < p}) + 1
    BY <1>1, <2>1, FS_AddElement
  <2> QED BY <1>2, <1>3, <2>1, <2>2
<1>4. CASE p \notin S
  <2>1. {q \in S : q < p + 1} = {q \in S : q < p}
    BY <1>4, <1>0
  <2> QED BY <1>2, <1>4, <2>1
<1> QED BY <1>3, <1>4

\* An opcode that opens a block adds one to the depth, an end takes one away,
\* and nothing else changes it.
LEMMA DepthStep ==
  ASSUME NEW ops \in SUBSET Int, IsFiniteSet(ops), NEW data, NEW p \in Int
  PROVE  /\ Depth(ops, data, p) \in Int
         /\ Depth(ops, data, p + 1) =
              Depth(ops, data, p)
                + (IF p \in ops /\ At(data, p) \in Openers THEN 1
                   ELSE IF p \in ops /\ At(data, p) = \h0B THEN -1 ELSE 0)
<1> DEFINE opens == {q \in ops : At(data, q) \in Openers}
           ends  == {q \in ops : At(data, q) = \h0B}
           Below(S, m) == {q \in S : q < m}
<1>1. opens \in SUBSET Int /\ ends \in SUBSET Int /\ IsFiniteSet(opens) /\ IsFiniteSet(ends)
  BY FS_Subset
<1>2. \A m : Depth(ops, data, m) = Cardinality(Below(opens, m)) - Cardinality(Below(ends, m))
  <2> TAKE m
  <2>1. {q \in {r \in ops : r < m} : At(data, q) \in Openers} = Below(opens, m)
    OBVIOUS
  <2>2. {q \in {r \in ops : r < m} : At(data, q) = \h0B} = Below(ends, m)
    OBVIOUS
  <2> QED BY <2>1, <2>2 DEF Depth
<1> HIDE DEF opens, ends
<1>3. /\ Cardinality(Below(opens, p)) \in Nat
      /\ Cardinality(Below(opens, p + 1)) = Cardinality(Below(opens, p)) + (IF p \in opens THEN 1 ELSE 0)
  BY <1>1, CountStep
<1>4. /\ Cardinality(Below(ends, p)) \in Nat
      /\ Cardinality(Below(ends, p + 1)) = Cardinality(Below(ends, p)) + (IF p \in ends THEN 1 ELSE 0)
  BY <1>1, CountStep
<1>5. /\ p \in opens <=> p \in ops /\ At(data, p) \in Openers
      /\ p \in ends <=> p \in ops /\ At(data, p) = \h0B
      /\ \h0B \notin Openers
  BY DEF opens, ends, Openers
<1> HIDE DEF Below
<1> QED BY <1>2, <1>3, <1>4, <1>5

\* Before the first opcode no block is open.
LEMMA DepthStart ==
  ASSUME NEW data \in Seq(Byte), NEW start \in 0 .. Len(data)
  PROVE  Depth(Opcodes(data, start), data, start) = 0
<1>1. \A q \in Opcodes(data, start) : ~ (q < start)
  BY OpcodesInside, LenProperties
<1>2. {q \in Opcodes(data, start) : q < start} = {}
  BY <1>1
<1>3. {q \in {} : At(data, q) \in Openers} = {} /\ {q \in {} : At(data, q) = \h0B} = {}
  OBVIOUS
<1>4. Cardinality({}) - Cardinality({}) = 0
  BY FS_EmptySet
<1> QED BY <1>2, <1>3, <1>4 DEF Depth

\* The depth changes at opcodes only.
LEMMA DepthGap ==
  ASSUME NEW ops \in SUBSET Int, NEW bytes, NEW p \in Int, NEW q \in Int, p <= q,
         \A r \in ops : p <= r => q <= r
  PROVE  Depth(ops, bytes, q) = Depth(ops, bytes, p)
<1>1. {r \in ops : r < p} = {r \in ops : r < q}
  <2>1. \A r \in ops : r < p <=> r < q
    OBVIOUS
  <2> QED BY <2>1
<1> QED BY <1>1 DEF Depth

\* A block that is open somewhere and closed further on has an end between,
\* at its level.
LEMMA CloserExists ==
  ASSUME NEW ops \in SUBSET Nat, IsFiniteSet(ops), NEW data, NEW p \in Nat, NEW e \in Nat, p <= e,
         Depth(ops, data, e) < Depth(ops, data, p)
  PROVE  \E q \in ops : /\ p <= q /\ q < e /\ At(data, q) = \h0B
                       /\ Depth(ops, data, q) = Depth(ops, data, p)
<1> DEFINE d(q) == Depth(ops, data, q)
           lower == {q \in p .. e : d(q) < d(p)}
<1>1. \A q \in Nat : /\ d(q) \in Int
                    /\ d(q + 1) = d(q) + (IF q \in ops /\ At(data, q) \in Openers THEN 1
                                         ELSE IF q \in ops /\ At(data, q) = \h0B THEN -1 ELSE 0)
  BY DepthStep
<1> HIDE DEF d
<1>2. e \in lower /\ lower \in SUBSET Nat
  BY DEF d
<1>3. PICK m \in lower : \A n \in lower : m <= n
  BY <1>2, LeastNat
<1>4. m \in Nat /\ p <= m /\ m <= e /\ d(m) < d(p) /\ d(m) \in Int /\ d(p) \in Int
  BY <1>1, <1>3
<1>5. p < m
  <2>1. ~ (d(p) < d(p)) /\ p # m
    BY <1>4
  <2> QED BY <1>4, <2>1
<1>6. PICK q \in Nat : q < e /\ p <= q /\ q < m /\ m = q + 1
  <2>1. m - 1 \in Nat /\ m - 1 < e /\ p <= m - 1 /\ m - 1 < m /\ m = (m - 1) + 1
    BY <1>4, <1>5
  <2> QED BY <2>1
<1>7. d(q) \in Int /\ d(q) >= d(p)
  <2>1. q \in p .. e /\ ~ (m <= q) /\ d(q) \in Int
    BY <1>1, <1>4, <1>6
  <2>2. ~ (d(q) < d(p))
    BY <1>3, <2>1
  <2> QED BY <1>4, <2>1, <2>2
<1>8. d(m) = d(q) + (IF q \in ops /\ At(data, q) \in Openers THEN 1
                     ELSE IF q \in ops /\ At(data, q) = \h0B THEN -1 ELSE 0)
  BY <1>1, <1>6
<1>9. q \in ops /\ At(data, q) = \h0B /\ d(q) = d(p)
  BY <1>4, <1>7, <1>8
<1> QED BY <1>6, <1>9 DEF d

LEMMA LeastFacts ==
  ASSUME NEW S \in SUBSET Nat, S # {}
  PROVE  Least(S) \in S /\ \A d \in S : Least(S) <= d
BY LeastNat DEF Least

LEMMA LeastIs ==
  ASSUME NEW S \in SUBSET Nat, NEW q \in S, \A r \in S : q <= r
  PROVE  Least(S) = q
<1>1. Least(S) \in S /\ Least(S) <= q
  BY LeastFacts
<1>2. q <= Least(S) /\ Least(S) \in Nat /\ q \in Nat
  BY <1>1
<1> HIDE DEF Least
<1> QED BY <1>1, <1>2

-----------------------------------------------------------------------------
(* A body that ends.                                                       *)

\* The end of a body is an opcode at which no block is open, and before it
\* never more blocks are closed than were opened.
LEMMA BodyEndFacts ==
  ASSUME NEW data \in Seq(Byte), NEW start \in 0 .. Len(data), BodyEnds(data, start) # {}
  PROVE  LET ops == Opcodes(data, start)
             end == Least(BodyEnds(data, start))
         IN  /\ end \in ops /\ end \in start .. Len(data) - 1 /\ At(data, end) = \h0B
             /\ Depth(ops, data, end) = 0
             /\ \A p \in start .. end : Depth(ops, data, p) \in Nat
<1> DEFINE ops == Opcodes(data, start)
           end == Least(BodyEnds(data, start))
           d(p) == Depth(ops, data, p)
<1>1. Len(data) \in Nat /\ ops \in SUBSET (start .. Len(data) - 1) /\ IsFiniteSet(ops)
  BY LenProperties, OpcodesInside, OpcodesFinite
<1>2. BodyEnds(data, start) \in SUBSET Nat
  BY <1>1 DEF BodyEnds
<1>3. end \in BodyEnds(data, start) /\ \A q \in BodyEnds(data, start) : end <= q
  BY <1>2, LeastFacts
<1>4. end \in ops /\ end \in start .. Len(data) - 1 /\ At(data, end) = \h0B /\ d(end) = 0
  BY <1>1, <1>3 DEF BodyEnds
<1>5. ASSUME NEW p \in Nat, p < end
      PROVE  ~ (p \in ops /\ At(data, p) = \h0B /\ d(p) = 0)
  <2>1. p \notin BodyEnds(data, start)
    BY <1>3, <1>4, <1>5
  <2> QED BY <2>1 DEF BodyEnds
<1>6. \A p \in Nat : /\ d(p) \in Int
                    /\ d(p + 1) = d(p) + (IF p \in ops /\ At(data, p) \in Openers THEN 1
                                         ELSE IF p \in ops /\ At(data, p) = \h0B THEN -1 ELSE 0)
  <2> TAKE p \in Nat
  <2>1. ops \in SUBSET Int /\ p \in Int
    BY <1>1
  <2> HIDE DEF ops
  <2> QED BY <1>1, <2>1, DepthStep
<1>7. d(start) = 0
  BY DepthStart
<1> HIDE DEF d, end, ops
<1> DEFINE S == {n \in Nat : start + n <= end => d(start + n) \in Nat}
<1>8. 0 \in S
  BY <1>7
<1>9. ASSUME NEW n \in Nat, n \in S
      PROVE  n + 1 \in S
  <2> SUFFICES ASSUME start + (n + 1) <= end PROVE d(start + (n + 1)) \in Nat
    OBVIOUS
  <2> DEFINE p == start + n
  <2>1. p \in Nat /\ p < end /\ start + (n + 1) = p + 1 /\ d(p) \in Nat
    BY <1>4, <1>9
  <2> HIDE DEF p
  <2>2. /\ d(p + 1) = d(p) + (IF p \in ops /\ At(data, p) \in Openers THEN 1
                              ELSE IF p \in ops /\ At(data, p) = \h0B THEN -1 ELSE 0)
        /\ ~ (p \in ops /\ At(data, p) = \h0B /\ d(p) = 0)
    BY <1>5, <1>6, <2>1
  <2>3. d(p + 1) \in Nat
    BY <2>1, <2>2
  <2> QED BY <2>1, <2>3
<1>10. Nat \subseteq S
  <2> HIDE DEF S
  <2> QED BY <1>8, <1>9, NatSetInduction
<1>11. ASSUME NEW p \in start .. end
       PROVE  d(p) \in Nat
  <2>1. p - start \in Nat /\ start + (p - start) = p /\ p <= end
    BY <1>4
  <2> QED BY <1>10, <2>1
<1> QED BY <1>4, <1>11 DEF d, end, ops
\* Where blocks are open before the body's end, the innermost one is closed
\* between there and the end.
LEMMA ClosedInBody ==
  ASSUME NEW data \in Seq(Byte), NEW start \in 0 .. Len(data), BodyEnds(data, start) # {},
         NEW pos \in Opcodes(data, start), pos < Least(BodyEnds(data, start)),
         At(data, pos) \in Openers \cup {\h05},
         At(data, pos) = \h05 => Depth(Opcodes(data, start), data, pos) # 0
  PROVE  /\ Closers(data, start, pos, \h0B) # {}
         /\ Least(Closers(data, start, pos, \h0B)) \in pos + 1 .. Least(BodyEnds(data, start)) - 1
<1> DEFINE ops == Opcodes(data, start)
           end == Least(BodyEnds(data, start))
           d(p) == Depth(ops, data, p)
           level == d(pos) + (IF At(data, pos) = \h05 THEN 0 ELSE 1)
           closers == Closers(data, start, pos, \h0B)
<1>1. Len(data) \in Nat /\ ops \in SUBSET Nat /\ ops \in SUBSET Int /\ IsFiniteSet(ops)
      /\ pos \in Nat /\ pos \in Int /\ start <= pos
  BY LenProperties, OpcodesInside, OpcodesFinite
<1>2. end \in ops /\ end \in Nat /\ d(end) = 0 /\ \A p \in start .. end : d(p) \in Nat
  BY <1>1, BodyEndFacts
<1>3. d(pos + 1) = d(pos) + (IF pos \in ops /\ At(data, pos) \in Openers THEN 1
                             ELSE IF pos \in ops /\ At(data, pos) = \h0B THEN -1 ELSE 0)
  <2> HIDE DEF ops
  <2> QED BY <1>1, DepthStep
<1>4. closers = {q \in ops : q > pos /\ At(data, q) = \h0B /\ d(q) = level}
  BY DEF Closers
<1> HIDE DEF ops, end, d, closers
<1>5. d(pos) \in Nat /\ pos < end /\ (At(data, pos) = \h05 => d(pos) # 0)
  BY <1>1, <1>2 DEF end, d, ops
<1>6. d(pos + 1) = level /\ level \in Nat /\ 0 < level
  BY <1>3, <1>5 DEF Openers, ops
<1> HIDE DEF level
<1>7. \E q \in ops : /\ pos + 1 <= q /\ q < end /\ At(data, q) = \h0B
                    /\ d(q) = level
  <2>1. pos + 1 \in Nat /\ pos + 1 <= end /\ d(end) < d(pos + 1)
    BY <1>1, <1>2, <1>5, <1>6
  <2> QED BY <1>1, <1>2, <1>6, <2>1, CloserExists DEF d
<1>8. PICK q \in ops : q > pos /\ q < end /\ At(data, q) = \h0B /\ d(q) = level
  BY <1>1, <1>7
<1>9. q \in closers /\ closers \in SUBSET Nat
  BY <1>1, <1>4, <1>8
<1>10. Least(closers) \in closers /\ Least(closers) <= q
  BY <1>9, LeastFacts
<1>11. Least(closers) \in Nat /\ Least(closers) > pos /\ Least(closers) < end
  BY <1>1, <1>2, <1>4, <1>8, <1>9, <1>10
<1> QED BY <1>1, <1>2, <1>9, <1>11 DEF closers, end

\* An else that is not misplaced is met with its if open.
LEMMA ElseInIf ==
  ASSUME NEW data \in Seq(Byte), NEW start \in 0 .. Len(data), BodyEnds(data, start) # {},
         MisplacedElses(data, start) = {},
         NEW pos \in Opcodes(data, start), pos < Least(BodyEnds(data, start)), At(data, pos) = \h05
  PROVE  Depth(Opcodes(data, start), data, pos) # 0
<1> DEFINE ops == Opcodes(data, start)
           ends == BodyEnds(data, start)
           Met(p) == {r \in Closers(data, start, p, \h05) \cup Closers(data, start, p, \h0B) : r <= pos}
<1>1. ends \in SUBSET Nat /\ ops \in SUBSET Nat /\ pos \in Nat
  BY OpcodesInside DEF BodyEnds
<1>2. \A e \in ends : pos < e
  BY <1>1, LeastFacts
<1>3. PICK p \in {r \in ops : r < pos /\ At(data, r) = \h04} : {pos} = Met(p)
  BY <1>2 DEF MisplacedElses
<1>4. pos \in Closers(data, start, p, \h05) \cup Closers(data, start, p, \h0B)
  BY <1>3
<1>5. Depth(ops, data, pos) = Depth(ops, data, p) + 1
  BY <1>3, <1>4 DEF Closers
<1>6. Depth(ops, data, p) \in Nat
  <2>1. p \in start .. Least(ends)
    BY <1>1, <1>3, OpcodesInside, BodyEndFacts
  <2> QED BY <2>1, BodyEndFacts
<1> QED BY <1>5, <1>6
\* A target lies after its opcode and inside the code, not on its last byte:
\* even the else jump, which goes one byte further, stays in the code.
LEMMA TargetInside ==
  ASSUME NEW data \in Seq(Byte), NEW start \in 0 .. Len(data), BodyEnds(data, start) # {},
         MisplacedElses(data, start) = {},
         NEW pos \in Opcodes(data, start), pos < Least(BodyEnds(data, start)),
         At(data, pos) \in Openers \cup {\h05}
  PROVE  Target(data, start, pos) \in pos + 2 - start .. Least(BodyEnds(data, start)) - start
<1> DEFINE e == Closers(data, start, pos, \h0B)
           elses == {q \in Closers(data, start, pos, \h05) : e = {} \/ q < Least(e)}
           end == Least(BodyEnds(data, start))
<1>1. Opcodes(data, start) \in SUBSET Nat /\ start \in Nat /\ pos \in Nat /\ start <= pos /\ end \in Nat
  BY OpcodesInside, BodyEndFacts, LenProperties
<1>2. e # {} /\ Least(e) \in pos + 1 .. end - 1
  BY ElseInIf, ClosedInBody
<1>3. ASSUME elses # {}
      PROVE  Least(elses) \in pos + 1 .. end - 1
  <2>1. elses \in SUBSET Nat /\ \A q \in elses : q > pos
    BY <1>1 DEF Closers
  <2>2. \A q \in elses : q < Least(e)
    BY <1>2
  <2> HIDE DEF elses
  <2>3. Least(elses) \in elses
    BY <1>3, <2>1, LeastFacts
  <2>4. Least(elses) \in Nat /\ Least(elses) > pos /\ Least(elses) < Least(e)
    BY <2>1, <2>2, <2>3
  <2> HIDE DEF e, end
  <2> QED BY <1>1, <1>2, <2>4 DEF end
<1>4. Target(data, start, pos) =
        IF At(data, pos) = \h04 /\ elses # {} THEN Least(elses) + 1 - start ELSE Least(e) + 1 - start
  BY DEF Target
<1> HIDE DEF elses, e, end
<1>5. CASE At(data, pos) = \h04 /\ elses # {}
  BY <1>1, <1>3, <1>4, <1>5 DEF end
<1>6. CASE ~ (At(data, pos) = \h04 /\ elses # {})
  BY <1>1, <1>2, <1>4, <1>6 DEF end
<1> QED BY <1>5, <1>6

\* A body that is read: where the reader stands behind it, its code, and the
\* jumps in it.
THEOREM BodyDelivers ==
  ASSUME NEW data \in Seq(Byte), NEW start \in 0 .. Len(data)
  PROVE  /\ AfterBody(data, start) \in {Failed, Panicked} \cup (start + 1 .. Len(data))
         /\ AfterBody(data, start) \notin {Failed, Panicked} =>
              /\ BodyCode(data, start) \in Seq(Byte)
              /\ start + Len(BodyCode(data, start)) = AfterBody(data, start)
              /\ DOMAIN BodyTargets(data, start) \in SUBSET Nat
              /\ \A k \in DOMAIN BodyTargets(data, start) :
                   BodyTargets(data, start)[k] \in 2 .. Len(BodyCode(data, start)) - 1
<1> DEFINE end == Least(BodyEnds(data, start))
           code == BodyCode(data, start)
           targets == BodyTargets(data, start)
<1>1. Len(data) \in Nat /\ start \in Nat
  BY LenProperties
<1>2. CASE MisplacedElses(data, start) # {} \/ BodyEnds(data, start) = {}
  BY <1>2 DEF AfterBody
<1>3. CASE MisplacedElses(data, start) = {} /\ BodyEnds(data, start) # {}
  <2>1. AfterBody(data, start) = end + 1 /\ end \in start .. Len(data) - 1
    BY <1>3, BodyEndFacts DEF AfterBody
  <2>2. code \in Seq(Byte) /\ Len(code) = end + 1 - start
    <3> HIDE DEF end
    <3>1. start + 1 \in 1 .. Len(data) + 1 /\ end + 1 \in start .. Len(data)
      BY <1>1, <2>1
    <3>2. code = SubSeq(data, start + 1, end + 1)
      BY DEF BodyCode, end
    <3> DEFINE n == end + 1 - start
    <3>3. n \in Nat /\ start + n = end + 1 /\ start + n <= Len(data)
      BY <1>1, <2>1, <3>1
    <3> HIDE DEF n
    <3>4. /\ SubSeq(data, start + 1, start + n) \in Seq(Byte)
          /\ Len(SubSeq(data, start + 1, start + n)) = n
      BY <1>1, <3>3, SuffixOf
    <3> QED BY <3>2, <3>3, <3>4 DEF n
  <2>3. /\ DOMAIN targets = {q \in Opcodes(data, start) :
                              q < end /\ At(data, q) \in Openers \cup {\h05}}
        /\ \A k \in DOMAIN targets : targets[k] = Target(data, start, k)
    BY DEF BodyTargets
  <2>4. DOMAIN targets \in SUBSET Nat
    BY <1>1, <2>3, OpcodesInside
  <2>5. ASSUME NEW k \in DOMAIN targets
        PROVE  targets[k] \in 2 .. Len(code) - 1
    <3>1. targets[k] \in k + 2 - start .. end - start
      BY <1>3, <2>3, TargetInside
    <3>2. k \in Nat /\ start <= k
      BY <1>1, <2>3, OpcodesInside
    <3> HIDE DEF end, code, targets
    <3> QED BY <1>1, <2>1, <2>2, <3>1, <3>2
  <2> HIDE DEF end, code, targets
  <2>6. AfterBody(data, start) \in start + 1 .. Len(data) /\ start + Len(code) = AfterBody(data, start)
    BY <1>1, <2>1, <2>2
  <2> QED BY <2>2, <2>4, <2>5, <2>6 DEF code, targets
<1> QED BY <1>2, <1>3
=============================================================================
