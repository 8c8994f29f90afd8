----------------------------- MODULE BootProofs -----------------------------
(***************************************************************************)
(* Theorems about Boot, for all files, host functions and memories: the    *)
(* parse is that of ModuleParser, and what the host starts with is where   *)
(* the module that was delivered says.                                     *)
(***************************************************************************)
EXTENDS Boot, ModuleParserProofs

-----------------------------------------------------------------------------
(* Initial values.                                                         *)

\* Numbers are integers, and so is what is left of one without its last bytes.
LEMMA SignedInt ==
  ASSUME NEW bytes \in Seq(Byte), NEW at \in Nat, AfterNumbers(bytes, at, 1) # Failed
  PROVE  Signed(bytes, at) \in Int
<1> DEFINE last == AfterNumbers(bytes, at, 1)
<1>1. last \in at + 1 .. Len(bytes)
  BY LenProperties, NumbersEnd
<1> HIDE DEF last
<1>2. Unsigned(bytes, at) \in Nat
  BY UnsignedNat
<1>3. last - at \in Nat
  BY <1>1
<1>4. 128 ^ (last - at) \in Int
  BY <1>3
<1> QED BY <1>2, <1>4 DEF Signed, last

LEMMA ShiftedInt ==
  ASSUME NEW v \in Int, NEW n \in Nat
  PROVE  Shifted(v, n) \in [0 .. n -> Int]
<1> DEFINE D == 0 .. n
           rank == [i \in D |-> i]
           bound == n + 1
           E(i, g) == IF i = 0 THEN v ELSE g[i - 1] \div 256
           body == [i \in D |-> [g \in [D -> Int] |-> E(i, g)]]
           rest[i \in D] == E(i, rest)
<1>1. rank \in [D -> Nat] /\ bound \in Nat /\ \A i \in D : rank[i] < bound
  OBVIOUS
<1>2. \A i \in D : i # 0 => i - 1 \in D /\ rank[i - 1] < rank[i]
  OBVIOUS
<1>3. body \in [D -> [[D -> Int] -> Int]]
  <2> SUFFICES ASSUME NEW i \in D, NEW g \in [D -> Int] PROVE E(i, g) \in Int
    OBVIOUS
  <2>1. i # 0 => g[i - 1] \in Int
    BY <1>2
  <2>2. \A x \in Int : x \div 256 \in Int
    OBVIOUS
  <2> QED BY <2>1, <2>2
<1>4. ASSUME NEW i \in D, NEW g \in [D -> Int], NEW h \in [D -> Int],
             \A q \in D : rank[q] < rank[i] => g[q] = h[q]
      PROVE  body[i][g] = body[i][h]
  <2>1. i # 0 => g[i - 1] = h[i - 1]
    BY <1>2, <1>4
  <2>2. E(i, g) = E(i, h)
    BY <2>1
  <2> QED BY <2>2
<1>5. \E g \in [D -> Int] : \A i \in D : g[i] = body[i][g]
  <2> HIDE DEF body, D, rank, bound
  <2>1. Recurs(D, Int, rank, bound, body)
    BY <1>1, <1>3, <1>4 DEF Recurs
  <2> QED BY <2>1, RecursionExists
<1>6. PICK g \in [D -> Int] : \A i \in D : g[i] = body[i][g]
  BY <1>5
<1>7. g = [i \in D |-> E(i, g)]
  BY <1>6
<1>8. rest = [i \in D |-> E(i, rest)]
  <2> HIDE DEF E
  <2> QED BY <1>7 DEF rest
<1>9. Shifted(v, n) = rest
  BY DEF Shifted, rest, E
<1> HIDE DEF rest
<1>10. rest = [i \in D |-> rest[i]] /\ \A i \in D : rest[i] = E(i, rest)
  <2> HIDE DEF E
  <2> QED BY <1>8
<1> DEFINE T == {i \in D : rest[i] \in Int}
<1>11. ASSUME NEW i \in D, \A q \in D : rank[q] < rank[i] => q \in T
       PROVE  i \in T
  <2>1. i # 0 => rest[i - 1] \in Int
    BY <1>2, <1>11
  <2>2. \A x \in Int : x \div 256 \in Int
    OBVIOUS
  <2>3. E(i, rest) \in Int
    BY <2>1, <2>2
  <2>4. rest[i] = E(i, rest)
    BY <1>10
  <2> QED BY <2>3, <2>4
<1>12. D \subseteq T
  <2> HIDE DEF D, T, rank
  <2> QED BY <1>1, <1>11, RankInduction
<1>13. rest \in [D -> Int]
  BY <1>10, <1>12
<1> QED BY <1>9, <1>13

LEMMA LittleEndianBytes ==
  ASSUME NEW v \in Int, NEW n \in Nat
  PROVE  LittleEndian(v, n) \in Seq(Byte) /\ Len(LittleEndian(v, n)) = n
<1>1. \A i \in 1 .. n : Shifted(v, n)[i - 1] % 256 \in Byte
  <2> TAKE i \in 1 .. n
  <2>1. i - 1 \in 0 .. n
    OBVIOUS
  <2>2. Shifted(v, n)[i - 1] \in Int
    BY <2>1, ShiftedInt
  <2>3. \A x \in Int : x % 256 \in 0 .. 255
    OBVIOUS
  <2> QED BY <2>2, <2>3 DEF Byte
<1>2. LittleEndian(v, n) \in [1 .. n -> Byte]
  BY <1>1 DEF LittleEndian
<1> QED BY <1>2

\* The instruction at p is a constant that can be read.
ReadsConstant(code, p) ==
  /\ p \in 0 .. Len(code) - 1 /\ At(code, p) \in \h41 .. \h44
  /\ After(ExecLayout(At(code, p)), code, p + 1) # Failed

LEMMA LastConstantFacts ==
  ASSUME NEW code \in Seq(Byte)
  PROVE  LastConstant(code) \in Int /\ (LastConstant(code) >= 0 => ReadsConstant(code, LastConstant(code)))
<1> DEFINE Behind(p) == After(ExecLayout(At(code, p)), code, p + 1)
           Long(p) == At(code, p) = \h41 /\ ~IsI32(Signed(code, p + 1))
           D == 0 .. Len(code)
           rank == [p \in D |-> Len(code) - p]
           bound == Len(code) + 1
           E(p, g) == IF p = Len(code) THEN NoConstant
                      ELSE IF At(code, p) = \h0B THEN NoConstant
                      ELSE IF At(code, p) \notin \h41 .. \h44 THEN Panicked
                      ELSE IF Behind(p) = Failed THEN Failed
                      ELSE IF Long(p) THEN Panicked
                      ELSE IF g[Behind(p)] = NoConstant THEN p ELSE g[Behind(p)]
           body == [p \in D |-> [g \in [D -> Int] |-> E(p, g)]]
           from[p \in D] == E(p, from)
<1>1. Len(code) \in Nat
  BY LenProperties
<1>2. \A p \in D : p # Len(code) /\ Behind(p) # Failed => Behind(p) \in D /\ Behind(p) > p
  BY <1>1, AfterBounds
<1>3. LastConstant(code) = from[0]
  BY DEF LastConstant, from, E, Behind, Long
<1> HIDE DEF Behind, Long
<1>4. rank \in [D -> Nat] /\ bound \in Nat /\ \A p \in D : rank[p] < bound
  BY <1>1
<1>5. \A p \in D : p # Len(code) /\ Behind(p) # Failed => Behind(p) \in D /\ rank[Behind(p)] < rank[p]
  BY <1>1, <1>2
<1>6. body \in [D -> [[D -> Int] -> Int]]
  BY <1>1, <1>2 DEF NoConstant, Failed, Panicked
<1>7. ASSUME NEW p \in D, NEW g \in [D -> Int], NEW h \in [D -> Int],
             \A q \in D : rank[q] < rank[p] => g[q] = h[q]
      PROVE  body[p][g] = body[p][h]
  <2>1. p # Len(code) /\ Behind(p) # Failed => g[Behind(p)] = h[Behind(p)]
    BY <1>5, <1>7
  <2>2. E(p, g) = E(p, h)
    BY <2>1
  <2> QED BY <2>2
<1>8. \E g \in [D -> Int] : \A p \in D : g[p] = body[p][g]
  <2>1. Int # {}
    OBVIOUS
  <2> HIDE DEF body, D, rank, bound, E, from
  <2>2. Recurs(D, Int, rank, bound, body)
    BY <1>4, <1>6, <1>7, <2>1 DEF Recurs
  <2> QED BY <2>2, RecursionExists
<1>9. PICK g \in [D -> Int] : \A p \in D : g[p] = body[p][g]
  BY <1>8
<1>10. g = [p \in D |-> E(p, g)]
  BY <1>9
<1>11. from = [p \in D |-> E(p, from)]
  <2> HIDE DEF E
  <2> QED BY <1>10 DEF from
<1> HIDE DEF from
<1>12. \A p \in D : from[p] = E(p, from)
  <2> HIDE DEF E
  <2> QED BY <1>11
<1> DEFINE T == {p \in D : from[p] \in Int /\ (from[p] >= 0 => ReadsConstant(code, from[p]))}
<1>13. ASSUME NEW p \in D, \A q \in D : rank[q] < rank[p] => q \in T
       PROVE  p \in T
  <2>1. from[p] = E(p, from)
    BY <1>12
  <2>2. p # Len(code) /\ Behind(p) # Failed => Behind(p) \in T
    BY <1>5, <1>13
  <2>3. p # Len(code) /\ Behind(p) # Failed /\ At(code, p) \in \h41 .. \h44 => ReadsConstant(code, p)
    BY <1>1 DEF ReadsConstant, Behind
  <2>4. NoConstant \in Int /\ Failed \in Int /\ Panicked \in Int /\ ~ (NoConstant >= 0)
        /\ ~ (Failed >= 0) /\ ~ (Panicked >= 0) /\ p \in Int
    BY DEF NoConstant, Failed, Panicked
  <2>5. from[p] \in {NoConstant, Failed, Panicked, p} \/ (p # Len(code) /\ Behind(p) # Failed /\ from[p] = from[Behind(p)])
    BY <2>1
  <2>6. from[p] = p => (p # Len(code) /\ Behind(p) # Failed /\ At(code, p) \in \h41 .. \h44)
                       \/ from[p] \in {NoConstant, Failed, Panicked}
    BY <2>1
  <2> QED
    <3> HIDE DEF E
    <3> QED BY <2>2, <2>3, <2>4, <2>5, <2>6
<1>14. D \subseteq T
  <2> HIDE DEF D, T, rank
  <2> QED BY <1>4, <1>13, RankInduction
<1>15. 0 \in T
  BY <1>1, <1>14
<1> QED BY <1>3, <1>15

\* A value of a type is as wide as the type.
LEMMA InitialValueFacts ==
  ASSUME NEW code \in Seq(Byte)
  PROVE  LET value == InitialValue(code)
         IN  value.type \in ValueType => value.bytes \in Seq(Byte) /\ Len(value.bytes) = 4 * Words(value.type)
<1> DEFINE p == LastConstant(code)
           q == After(ExecLayout(At(code, p)), code, p + 1)
           v == Signed(code, p + 1)
<1>1. CASE p < 0
  <2>1. InitialValue(code).type = "None"
    BY <1>1 DEF InitialValue
  <2> QED BY <2>1 DEF ValueType
<1>2. CASE ~ (p < 0)
  <2>1. InitialValue(code) = Constant(code, p)
    BY <1>2 DEF InitialValue
  <2>2. p \in 0 .. Len(code) - 1 /\ At(code, p) \in \h41 .. \h44 /\ q # Failed /\ Len(code) \in Nat
    BY <1>2, LastConstantFacts, LenProperties DEF ReadsConstant
  <2> HIDE DEF p
  <2>3. CASE At(code, p) \in {\h41, \h42}
    <3>0. ExecLayout(\h41) = "number" /\ ExecLayout(\h42) = "number"
      BY DEF ExecLayout, LocalOps, GlobalOps, Loads, Stores
    <3>1. ExecLayout(At(code, p)) = "number"
      BY <2>3, <3>0
    <3>2. AfterNumbers(code, p + 1, 1) # Failed
      BY <2>2, <3>1 DEF After, Numbers
    <3>3. v \in Int
      BY <2>2, <3>2, SignedInt
    <3> HIDE DEF v
    <3>4. CASE At(code, p) = \h41
      <4>1. Constant(code, p) = [type |-> "I32", value |-> v, bytes |-> LittleEndian(v, 4)]
        BY <3>4 DEF Constant, v
      <4>2. LittleEndian(v, 4) \in Seq(Byte) /\ Len(LittleEndian(v, 4)) = 4
        BY <3>3, LittleEndianBytes
      <4>3. 4 * Words("I32") = 4
        BY DEF Words
      <4> HIDE DEF v
      <4>4. /\ InitialValue(code).type = "I32" /\ InitialValue(code).bytes = LittleEndian(v, 4)
        BY <2>1, <4>1
      <4> QED BY <4>2, <4>3, <4>4
    <3>5. CASE At(code, p) = \h42
      <4>1. Constant(code, p) = [type |-> "I64", value |-> v, bytes |-> LittleEndian(v, 8)]
        BY <3>5 DEF Constant, v
      <4>2. LittleEndian(v, 8) \in Seq(Byte) /\ Len(LittleEndian(v, 8)) = 8
        BY <3>3, LittleEndianBytes
      <4>3. 4 * Words("I64") = 8
        BY DEF Words
      <4> HIDE DEF v
      <4>4. /\ InitialValue(code).type = "I64" /\ InitialValue(code).bytes = LittleEndian(v, 8)
        BY <2>1, <4>1
      <4> QED BY <4>2, <4>3, <4>4
    <3> QED BY <2>3, <3>4, <3>5
  <2>4. ASSUME NEW n \in {4, 8}, q = AfterBytes(code, p + 1, n)
        PROVE  SubSeq(code, p + 2, q) \in Seq(Byte) /\ Len(SubSeq(code, p + 2, q)) = n
    <3>1. q = p + 1 + n /\ q \in p + 2 .. Len(code)
      BY <2>2, <2>4 DEF AfterBytes
    <3> HIDE DEF q
    <3>2. p + 2 \in Int /\ q \in Int /\ \A i \in p + 2 .. q : code[i] \in Byte
      <4>1. \A i \in p + 2 .. q : i \in 1 .. Len(code)
        BY <2>2, <3>1
      <4> QED BY <2>2, <3>1, <4>1, ElementOfSeq
    <3>3. /\ SubSeq(code, p + 2, q) \in Seq(Byte)
          /\ Len(SubSeq(code, p + 2, q)) = IF p + 2 <= q THEN q - (p + 2) + 1 ELSE 0
      BY <3>2, SubSeqProperties
    <3> QED BY <2>2, <3>1, <3>3
  <2>5. CASE At(code, p) = \h43
    <3>1. q = AfterBytes(code, p + 1, 4)
      BY <2>5 DEF After, LiteralBytes, ExecLayout
    <3>2. Constant(code, p) = [type |-> "F32", value |-> 0, bytes |-> SubSeq(code, p + 2, q)]
      BY <2>5 DEF Constant
    <3> HIDE DEF q
    <3> QED BY <2>1, <2>4, <3>1, <3>2 DEF Words
  <2>6. CASE At(code, p) = \h44
    <3>1. q = AfterBytes(code, p + 1, 8)
      BY <2>6 DEF After, LiteralBytes, ExecLayout
    <3>2. Constant(code, p) = [type |-> "F64", value |-> 0, bytes |-> SubSeq(code, p + 2, q)]
      BY <2>6 DEF Constant
    <3> HIDE DEF q
    <3> QED BY <2>1, <2>4, <3>1, <3>2 DEF Words
  <2> QED BY <2>2, <2>3, <2>5, <2>6
<1>3. p \in Int
  BY LastConstantFacts
<1> QED BY <1>1, <1>2, <1>3

-----------------------------------------------------------------------------
(* The invariant.                                                          *)

\* The functions of which n are linked, the globals of which n are
\* initialised, the memory with n segments written.
LinkedUpto(n) ==
  /\ n \in 0 .. Len(parsed.functions)
  /\ (\A i \in 1 .. n : parsed.functions[i].body = NoBody) => Len(imports) = n
  /\ BodylessFirst =>
       \A i \in 1 .. n : parsed.functions[i].body = NoBody =>
         i \in 1 .. Len(imports) /\ imports[i] = parsed.functions[i].name

InitializersTyped(n) == \A i \in 1 .. n : Initial(i).type = Kinds[i]

GlobalAt(i) == SubSeq(globals, 4 * WordsBefore(Kinds)[i - 1] + 1, 4 * WordsBefore(Kinds)[i])

GlobalsUpto(n) ==
  /\ n \in 0 .. Len(parsed.globals)
  /\ InitializersTyped(n) =>
       /\ Len(globals) = 4 * WordsBefore(Kinds)[n]
       /\ \A i \in 1 .. n : GlobalAt(i) = Initial(i).bytes

MemoryUpto(n) ==
  /\ n \in 0 .. Len(parsed.data_segments)
  /\ \A i \in 1 .. MemoryBytes :
       /\ (\A k \in 1 .. n : ~Covers(k, i)) => memory[i] = 0
       /\ \A k \in 1 .. n :
            Covers(k, i) /\ (\A l \in 1 .. n : k < l => ~Covers(l, i)) =>
              memory[i] = SegmentData(k)[Place(k, i)]

BootIInv ==
  /\ IInv
  /\ phase \in {"parse", "link", "globals", "memory", "ready", "failed"}
  /\ phase \notin {"parse", "failed"} => status = "done"
  /\ imports \in Seq(HostFunctions)
  /\ globals \in Seq(Byte)
  /\ DOMAIN memory = 1 .. MemoryBytes
  /\ phase = "parse" => imports = <<>>
  /\ phase \in {"parse", "link"} => globals = <<>>
  /\ phase \in {"parse", "link", "globals"} => memory = [i \in 1 .. MemoryBytes |-> 0]
  /\ phase = "link" => LinkedUpto(next)
  /\ phase \in {"globals", "memory", "ready"} => LinkedUpto(Len(parsed.functions))
  /\ phase = "globals" => GlobalsUpto(next)
  /\ phase \in {"memory", "ready"} => GlobalsUpto(Len(parsed.globals))
  /\ phase = "memory" => MemoryUpto(next)
  /\ phase = "ready" => MemoryUpto(Len(parsed.data_segments))


LEMMA BootInitHolds == BootInit => BootIInv
<1> SUFFICES ASSUME BootInit PROVE BootIInv
  OBVIOUS
<1>1. IInv
  BY IInvHoldsFirst DEF BootInit
<1>2. imports \in Seq(HostFunctions) /\ globals \in Seq(Byte) /\ imports = <<>> /\ globals = <<>>
  BY EmptySeq DEF BootInit
<1>3. DOMAIN memory = 1 .. MemoryBytes /\ memory = [i \in 1 .. MemoryBytes |-> 0] /\ phase = "parse"
  BY DEF BootInit
<1> QED BY <1>1, <1>2, <1>3 DEF BootIInv

\* Nothing of the module changes once it is parsed.
LEMMA ModuleKept ==
  ASSUME IInv, UNCHANGED vars
  PROVE  /\ IInv' /\ parsed' = parsed /\ status' = status /\ Kinds' = Kinds
         /\ \A n : InitializersTyped(n)' <=> InitializersTyped(n)
         /\ BodylessFirst' <=> BodylessFirst
<1>1. parsed' = parsed /\ status' = status
  BY DEF vars
<1>2. Kinds' = Kinds
  BY <1>1 DEF Kinds
<1>3. IInv'
  BY IInvHoldsNext
<1> QED BY <1>1, <1>2, <1>3 DEF InitializersTyped, Initial, BodylessFirst

LEMMA LinkedKept ==
  ASSUME IInv, UNCHANGED <<vars, imports>>, NEW n, LinkedUpto(n)
  PROVE  LinkedUpto(n)'
BY ModuleKept DEF LinkedUpto

LEMMA GlobalsKept ==
  ASSUME IInv, UNCHANGED <<vars, globals>>, NEW n, GlobalsUpto(n)
  PROVE  GlobalsUpto(n)'
BY ModuleKept DEF GlobalsUpto, GlobalAt, Initial

LEMMA MemoryKept ==
  ASSUME IInv, UNCHANGED <<vars, memory>>, NEW n, MemoryUpto(n)
  PROVE  MemoryUpto(n)'
BY ModuleKept DEF MemoryUpto, Covers, Place, SegmentData

-----------------------------------------------------------------------------
(* Steps.                                                                  *)

\* What a concatenation holds where its parts were.
LEMMA SameSlice ==
  ASSUME NEW S, NEW s \in Seq(S), NEW t \in Seq(S), NEW m \in Nat, NEW n \in Nat,
         n <= Len(s), \A i \in 1 .. n : i <= Len(t) /\ t[i] = s[i]
  PROVE  SubSeq(t, m + 1, n) = SubSeq(s, m + 1, n)
<1>1. Len(s) \in Nat /\ Len(t) \in Nat
  BY LenProperties
<1>2. \A i \in m + 1 .. n : i \in 1 .. n /\ i \in 1 .. Len(s) /\ i \in 1 .. Len(t)
  BY <1>1
<1>3. (\A i \in m + 1 .. n : s[i] \in S) /\ (\A i \in m + 1 .. n : t[i] \in S)
  BY <1>2, ElementOfSeq
<1>4. /\ SubSeq(s, m + 1, n) \in Seq(S) /\ SubSeq(t, m + 1, n) \in Seq(S)
      /\ Len(SubSeq(s, m + 1, n)) = Len(SubSeq(t, m + 1, n))
      /\ Len(SubSeq(s, m + 1, n)) = IF m + 1 <= n THEN n - (m + 1) + 1 ELSE 0
      /\ \A i \in 1 .. n - (m + 1) + 1 : SubSeq(s, m + 1, n)[i] = s[m + 1 + i - 1]
      /\ \A i \in 1 .. n - (m + 1) + 1 : SubSeq(t, m + 1, n)[i] = t[m + 1 + i - 1]
  BY <1>3, SubSeqProperties
<1>5. \A i \in 1 .. Len(SubSeq(s, m + 1, n)) : SubSeq(s, m + 1, n)[i] = SubSeq(t, m + 1, n)[i]
  <2> TAKE i \in 1 .. Len(SubSeq(s, m + 1, n))
  <2>1. i \in 1 .. n - (m + 1) + 1 /\ m + 1 + i - 1 \in 1 .. n
    BY <1>4
  <2> QED BY <1>4, <2>1
<1> QED BY <1>4, <1>5, SeqEqual

LEMMA SliceBehind ==
  ASSUME NEW S, NEW s \in Seq(S), NEW t \in Seq(S), NEW m \in Nat, Len(t) = m + Len(s),
         \A i \in 1 .. m + Len(s) : i > m => t[i] = s[i - m]
  PROVE  SubSeq(t, m + 1, Len(t)) = s
<1>1. Len(s) \in Nat /\ Len(t) \in Nat
  BY LenProperties
<1>2. \A i \in m + 1 .. Len(t) : t[i] \in S
  <2>1. \A i \in m + 1 .. Len(t) : i \in 1 .. Len(t)
    BY <1>1
  <2> QED BY <1>1, <2>1, ElementOfSeq
<1>3. /\ SubSeq(t, m + 1, Len(t)) \in Seq(S)
      /\ Len(SubSeq(t, m + 1, Len(t))) = IF m + 1 <= Len(t) THEN Len(t) - (m + 1) + 1 ELSE 0
      /\ \A i \in 1 .. Len(t) - (m + 1) + 1 : SubSeq(t, m + 1, Len(t))[i] = t[m + 1 + i - 1]
  BY <1>1, <1>2, SubSeqProperties
<1>4. Len(SubSeq(t, m + 1, Len(t))) = Len(s)
  BY <1>1, <1>3
<1>5. \A i \in 1 .. Len(s) : SubSeq(t, m + 1, Len(t))[i] = s[i]
  <2> TAKE i \in 1 .. Len(s)
  <2>1. i \in 1 .. Len(t) - (m + 1) + 1 /\ m + 1 + i - 1 = m + i /\ m + i \in 1 .. m + Len(s)
        /\ m + i > m /\ (m + i) - m = i
    BY <1>1
  <2> QED BY <1>3, <2>1
<1> QED BY <1>3, <1>4, <1>5, SeqEqual

LEMMA ParseKeeps == BootIInv /\ (Parse \/ ParseReturns) => BootIInv'
<1> SUFFICES ASSUME BootIInv, Parse \/ ParseReturns PROVE BootIInv'
  OBVIOUS
<1>1. IInv /\ parsed \in Parsed /\ Len(parsed.functions) \in Nat
  BY ParsedParts DEF BootIInv
<1>2. CASE Parse
  <2>1. IInv' /\ UNCHANGED bootVars /\ phase = "parse"
    BY <1>1, <1>2, IInvHoldsNext DEF Parse, Next
  <2> QED BY <2>1 DEF BootIInv, bootVars
<1>3. CASE ParseReturns
  <2>1. IInv' /\ status' = status /\ parsed' = parsed /\ UNCHANGED <<imports, globals, memory>>
    BY <1>1, <1>3, ModuleKept DEF ParseReturns, Fail
  <2>2. CASE status = "done"
    <3>1. phase = "parse" /\ phase' = "link" /\ next' = 0 /\ imports' = <<>>
      BY <1>3, <2>1, <2>2 DEF ParseReturns, GoTo, BootIInv
    <3>2. Len(<<>>) = 0 /\ \A j \in 1 .. 0 : FALSE
      BY EmptySeq
    <3>3. LinkedUpto(next)'
      BY <1>1, <2>1, <3>1, <3>2 DEF LinkedUpto
    <3> QED BY <2>1, <2>2, <3>1, <3>3 DEF BootIInv
  <2>3. CASE status # "done"
    <3>1. phase' = "failed"
      BY <1>3, <2>3 DEF ParseReturns, Fail
    <3> QED BY <2>1, <3>1 DEF BootIInv
  <2> QED BY <2>2, <2>3
<1> QED BY <1>2, <1>3

LEMMA LinkNextKeeps == BootIInv /\ LinkNext => BootIInv'
<1> SUFFICES ASSUME BootIInv, LinkNext PROVE BootIInv'
  OBVIOUS
<1>1. /\ IInv /\ IInv' /\ parsed' = parsed /\ status' = status /\ (BodylessFirst' <=> BodylessFirst)
      /\ UNCHANGED <<globals, memory>> /\ phase = "link"
  BY ModuleKept DEF BootIInv, LinkNext
<1>2. LinkedUpto(next) /\ imports \in Seq(HostFunctions) /\ Len(imports) \in Nat
  BY <1>1, LenProperties DEF BootIInv
<1>3. CASE phase' = "failed" /\ imports' = imports
  BY <1>1, <1>3 DEF BootIInv
<1>4. CASE Callee.body # NoBody
  <2>1. imports' = imports /\ next' = next + 1 /\ phase' = phase
    BY <1>4 DEF LinkNext
  <2>2. next \in 0 .. Len(parsed.functions) /\ next < Len(parsed.functions) /\ Len(parsed.functions) \in Nat
    BY <1>1, <1>2, ParsedParts DEF LinkedUpto, LinkNext
  <2>3. ~ (\A i \in 1 .. next + 1 : parsed.functions[i].body = NoBody)
    <3>1. next + 1 \in 1 .. next + 1
      BY <2>2
    <3> QED BY <1>4, <3>1 DEF Callee
  <2>4. ASSUME BodylessFirst, NEW i \in 1 .. next + 1, parsed.functions[i].body = NoBody
        PROVE  i \in 1 .. Len(imports) /\ imports[i] = parsed.functions[i].name
    <3>1. i # next + 1
      BY <1>4, <2>4 DEF Callee
    <3>2. i \in 1 .. next
      BY <2>2, <3>1
    <3> QED BY <1>2, <2>4, <3>2 DEF LinkedUpto
  <2>5. LinkedUpto(next)'
    <3>1. next' \in 0 .. Len(parsed'.functions)
      BY <1>1, <2>1, <2>2
    <3> QED BY <1>1, <2>1, <2>3, <2>4, <3>1 DEF LinkedUpto
  <2> QED BY <1>1, <2>1, <2>5 DEF BootIInv
<1>5. CASE Callee.body = NoBody /\ Callee.name \in HostFunctions
  <2>1. imports' = Append(imports, Callee.name) /\ next' = next + 1 /\ phase' = phase
    BY <1>5 DEF LinkNext
  <2>2. next \in 0 .. Len(parsed.functions) /\ next < Len(parsed.functions) /\ Len(parsed.functions) \in Nat
    BY <1>1, <1>2, ParsedParts DEF LinkedUpto, LinkNext
  <2>3. /\ imports' \in Seq(HostFunctions) /\ Len(imports') = Len(imports) + 1
        /\ \A i \in 1 .. Len(imports) : imports'[i] = imports[i]
        /\ imports'[Len(imports) + 1] = Callee.name
    BY <1>2, <1>5, <2>1, AppendProperties
  <2>4. ASSUME \A i \in 1 .. next + 1 : parsed.functions[i].body = NoBody
        PROVE  Len(imports') = next + 1
    <3>1. \A i \in 1 .. next : parsed.functions[i].body = NoBody
      BY <2>2, <2>4
    <3> QED BY <1>2, <2>3, <3>1 DEF LinkedUpto
  <2>5. ASSUME BodylessFirst, NEW i \in 1 .. next + 1, parsed.functions[i].body = NoBody
        PROVE  i \in 1 .. Len(imports') /\ imports'[i] = parsed.functions[i].name
    <3>1. CASE i \in 1 .. next
      <4>1. i \in 1 .. Len(imports) /\ imports[i] = parsed.functions[i].name
        BY <1>2, <2>5, <3>1 DEF LinkedUpto
      <4> QED BY <1>2, <2>3, <4>1
    <3>2. CASE i = next + 1
      <4>1. \A j \in 1 .. next : parsed.functions[j].body = NoBody
        <5> TAKE j \in 1 .. next
        <5>1. DOMAIN parsed.functions = 1 .. Len(parsed.functions)
          BY <1>1, ParsedParts, LenProperties
        <5>2. j \in DOMAIN parsed.functions /\ next + 1 \in DOMAIN parsed.functions /\ j < next + 1
          BY <2>2, <5>1
        <5> QED BY <2>5, <3>2, <5>2 DEF BodylessFirst
      <4>2. Len(imports) = next
        BY <1>2, <4>1 DEF LinkedUpto
      <4> QED BY <1>2, <2>3, <3>2, <4>2 DEF Callee
    <3> QED BY <2>2, <3>1, <3>2
  <2>6. LinkedUpto(next)'
    <3>1. next' \in 0 .. Len(parsed'.functions)
      BY <1>1, <2>1, <2>2
    <3> QED BY <1>1, <2>1, <2>4, <2>5, <3>1 DEF LinkedUpto
  <2> QED BY <1>1, <2>1, <2>3, <2>6 DEF BootIInv
<1> QED BY <1>3, <1>4, <1>5 DEF LinkNext

LEMMA LinkedKeeps == BootIInv /\ Linked => BootIInv'
<1> SUFFICES ASSUME BootIInv, Linked PROVE BootIInv'
  OBVIOUS
<1>1. /\ IInv /\ IInv' /\ parsed' = parsed /\ status' = status /\ Kinds' = Kinds
      /\ UNCHANGED <<imports, globals, memory>> /\ phase = "link" /\ phase' = "globals" /\ next' = 0
      /\ next = Len(parsed.functions)
  BY ModuleKept DEF BootIInv, Linked, GoTo
<1>2. LinkedUpto(Len(parsed.functions))'
  BY <1>1, LinkedKept DEF BootIInv, Linked
<1>3. GlobalsUpto(0)'
  <2>1. parsed.globals \in Seq(Globals) /\ Len(parsed.globals) \in Nat
    BY <1>1, ParsedParts, LenProperties
  <2>2. Len(Kinds) \in Nat
    <3>1. Kinds = [i \in 1 .. Len(parsed.globals) |-> parsed.globals[i].kind]
      BY <2>1, LenProperties DEF Kinds
    <3> QED BY <2>1, <3>1
  <2>3. WordsBefore(Kinds)[0] = 0
    BY <2>2, WordsEquation
  <2>4. Len(globals) = 0 /\ \A i \in 1 .. 0 : FALSE
    BY <1>1, EmptySeq DEF BootIInv
  <2> QED BY <1>1, <2>1, <2>3, <2>4 DEF GlobalsUpto
<1> QED BY <1>1, <1>2, <1>3 DEF BootIInv

\* The global that is appended starts where those before it end, and these
\* stay in their places.
LEMMA InitGlobalKeeps == BootIInv /\ InitGlobal => BootIInv'
<1> SUFFICES ASSUME BootIInv, InitGlobal PROVE BootIInv'
  OBVIOUS
<1>1. /\ IInv /\ IInv' /\ parsed' = parsed /\ status' = status /\ Kinds' = Kinds
      /\ UNCHANGED <<imports, memory>> /\ phase = "globals"
  BY ModuleKept DEF BootIInv, InitGlobal
<1>2. LinkedUpto(Len(parsed.functions))'
  BY <1>1, LinkedKept DEF BootIInv, InitGlobal
<1> DEFINE W == WordsBefore(Kinds)
           value == Initial(next + 1)
           N == Len(parsed.globals)
<1>3. CASE value.type \notin ValueType
  <2>1. phase' = "failed" /\ globals' = globals
    BY <1>3 DEF InitGlobal, Initial
  <2> QED BY <1>1, <2>1 DEF BootIInv
<1>4. CASE value.type \in ValueType
  <2>1. globals' = globals \o value.bytes /\ next' = next + 1 /\ phase' = phase
    BY <1>4 DEF InitGlobal, Initial, Placed
  <2>2. /\ parsed.globals \in Seq(Globals) /\ N \in Nat /\ next \in 0 .. N /\ next < N
        /\ GlobalsUpto(next) /\ globals \in Seq(Byte)
    BY <1>1, ParsedParts, LenProperties DEF BootIInv, GlobalsUpto, InitGlobal
  <2>3. value.bytes \in Seq(Byte) /\ Len(value.bytes) = 4 * Words(value.type)
    <3>1. parsed.globals[next + 1] \in Globals
      <4>1. next + 1 \in 1 .. N
        BY <2>2
      <4> QED BY <2>2, <4>1, ElementOfSeq
    <3>2. parsed.globals[next + 1].initializer \in Seq(Byte)
      BY <3>1 DEF Globals
    <3> QED BY <1>4, <3>2, InitialValueFacts DEF Initial
  <2>4. /\ Len(Kinds) = N
        /\ \A i \in 0 .. N : W[i] \in Nat
        /\ \A i \in 1 .. N : W[i] = W[i - 1] + Words(Kinds[i])
        /\ \A t : Words(t) \in Nat
    <3>1. Kinds = [i \in 1 .. N |-> parsed.globals[i].kind]
      BY <2>2, LenProperties DEF Kinds
    <3>2. Len(Kinds) = N
      BY <2>2, <3>1
    <3> QED BY <2>2, <3>2, WordsEquation DEF Words
  <2>5. \A i, j \in 0 .. N : i <= j => W[i] <= W[j]
    BY <2>2, <2>4, WordsGrow
  <2> HIDE DEF W, N, value
  <2>6. /\ globals' \in Seq(Byte) /\ Len(globals') = Len(globals) + Len(value.bytes) /\ Len(globals) \in Nat
        /\ \A i \in 1 .. Len(globals) + Len(value.bytes) :
             globals'[i] = IF i <= Len(globals) THEN globals[i] ELSE value.bytes[i - Len(globals)]
    BY <2>1, <2>2, <2>3, ConcatProperties, LenProperties
  <2>7. ASSUME InitializersTyped(next + 1)
        PROVE  /\ Len(globals') = 4 * W[next + 1]
               /\ \A i \in 1 .. next + 1 : SubSeq(globals', 4 * W[i - 1] + 1, 4 * W[i]) = Initial(i).bytes
    <3>1. InitializersTyped(next)
      BY <2>2, <2>7 DEF InitializersTyped
    <3>2. Len(globals) = 4 * W[next] /\ \A i \in 1 .. next : GlobalAt(i) = Initial(i).bytes
      BY <2>2, <3>1 DEF GlobalsUpto, W
    <3>3. next + 1 \in 1 .. N /\ next + 1 \in 1 .. next + 1 /\ (next + 1) - 1 = next /\ next \in 0 .. N
      BY <2>2
    <3>4. W[next + 1] = W[next] + Words(value.type)
      BY <2>4, <2>7, <3>3 DEF InitializersTyped, value
    <3>5. W[next] \in Nat /\ Words(value.type) \in Nat
      BY <2>4, <3>3
    <3>6. Len(globals') = 4 * W[next + 1]
      BY <2>3, <2>6, <3>2, <3>4, <3>5
    <3>7. ASSUME NEW i \in 1 .. next
          PROVE  SubSeq(globals', 4 * W[i - 1] + 1, 4 * W[i]) = Initial(i).bytes
      <4>1. i \in 0 .. N /\ i - 1 \in 0 .. N /\ i <= next
        BY <2>2
      <4>2. W[i] \in Nat /\ W[i - 1] \in Nat /\ W[i] <= W[next]
        BY <2>4, <2>5, <3>3, <4>1
      <4>3. SubSeq(globals', 4 * W[i - 1] + 1, 4 * W[i]) = SubSeq(globals, 4 * W[i - 1] + 1, 4 * W[i])
        <5> DEFINE m == 4 * W[i - 1]
                   n == 4 * W[i]
        <5>1. m \in Nat /\ n \in Nat
          BY <4>2
        <5>2. n <= 4 * W[next]
          BY <3>5, <4>2
        <5> HIDE DEF m, n
        <5>3. n <= Len(globals)
          BY <3>2, <5>2
        <5>4. \A j \in 1 .. n : j <= Len(globals') /\ globals'[j] = globals[j]
          BY <2>3, <2>6, <5>1, <5>3
        <5>5. SubSeq(globals', m + 1, n) = SubSeq(globals, m + 1, n)
          BY <2>2, <2>6, <5>1, <5>3, <5>4, SameSlice
        <5> QED BY <5>5 DEF m, n
      <4> QED BY <3>2, <4>3 DEF GlobalAt, W
    <3>8. SubSeq(globals', 4 * W[next] + 1, 4 * W[next + 1]) = value.bytes
      <4> DEFINE m == 4 * W[next]
      <4>1. m \in Nat /\ m = Len(globals)
        BY <3>2, <3>5
      <4>2. \A j \in 1 .. m + Len(value.bytes) : j > m => globals'[j] = value.bytes[j - m]
        <5> HIDE DEF m
        <5> TAKE j \in 1 .. m + Len(value.bytes)
        <5> HAVE j > m
        <5>1. j \in 1 .. Len(globals) + Len(value.bytes) /\ ~ (j <= Len(globals))
          BY <2>3, <2>6, <4>1
        <5>2. globals'[j] = value.bytes[j - Len(globals)]
          BY <2>6, <5>1
        <5> QED BY <4>1, <5>2
      <4> HIDE DEF m
      <4>3. SubSeq(globals', m + 1, Len(globals')) = value.bytes
        BY <2>3, <2>6, <4>1, <4>2, SliceBehind
      <4> QED BY <3>6, <4>3 DEF m
    <3>9. \A i \in 1 .. next + 1 : i \in 1 .. next \/ i = next + 1
      BY <2>2
    <3> QED BY <3>3, <3>6, <3>7, <3>8, <3>9 DEF value
  <2>8. GlobalsUpto(next)'
    <3>1. next' \in 0 .. Len(parsed'.globals)
      BY <1>1, <2>1, <2>2 DEF N
    <3>2. InitializersTyped(next)' <=> InitializersTyped(next + 1)
      BY <1>1, <2>1 DEF InitializersTyped, Initial
    <3>3. \A i : Initial(i)' = Initial(i)
      BY <1>1 DEF Initial
    <3> QED BY <1>1, <2>1, <2>7, <3>1, <3>2, <3>3 DEF GlobalsUpto, GlobalAt, W
  <2> QED BY <1>1, <1>2, <2>1, <2>6, <2>8 DEF BootIInv
<1> QED BY <1>3, <1>4

LEMMA GlobalsInitialisedKeeps == BootIInv /\ GlobalsInitialised => BootIInv'
<1> SUFFICES ASSUME BootIInv, GlobalsInitialised PROVE BootIInv'
  OBVIOUS
<1>1. /\ IInv /\ IInv' /\ parsed' = parsed /\ status' = status /\ Kinds' = Kinds
      /\ UNCHANGED <<imports, globals, memory>> /\ phase = "globals" /\ phase' = "memory" /\ next' = 0
      /\ next = Len(parsed.globals)
  BY ModuleKept DEF BootIInv, GlobalsInitialised, GoTo
<1>2. LinkedUpto(Len(parsed.functions))' /\ GlobalsUpto(Len(parsed.globals))'
  BY <1>1, LinkedKept, GlobalsKept DEF BootIInv, GlobalsInitialised
<1>3. MemoryUpto(0)'
  <2>1. Len(parsed.data_segments) \in Nat
    BY <1>1, ParsedParts, LenProperties
  <2>2. \A i \in 1 .. MemoryBytes : memory[i] = 0
    BY <1>1 DEF BootIInv
  <2>3. \A k \in 1 .. 0 : FALSE
    OBVIOUS
  <2> QED BY <1>1, <2>1, <2>2, <2>3 DEF MemoryUpto
<1> QED BY <1>1, <1>2, <1>3 DEF BootIInv

\* The segment that is written covers those before it, and nothing else
\* changes.
LEMMA InitSegmentKeeps == BootIInv /\ InitSegment => BootIInv'
<1> SUFFICES ASSUME BootIInv, InitSegment PROVE BootIInv'
  OBVIOUS
<1>1. /\ IInv /\ IInv' /\ parsed' = parsed /\ status' = status
      /\ UNCHANGED <<imports, globals>> /\ phase = "memory"
  BY ModuleKept DEF BootIInv, InitSegment
<1>2. LinkedUpto(Len(parsed.functions))' /\ GlobalsUpto(Len(parsed.globals))'
  BY <1>1, LinkedKept, GlobalsKept DEF BootIInv, InitSegment
<1> DEFINE segment == parsed.data_segments[next + 1]
           value == InitialValue(segment.offset)
<1>3. CASE ~ Fits(value, segment.data)
  <2>1. phase' = "failed" /\ memory' = memory
    BY <1>3 DEF InitSegment
  <2> QED BY <1>1, <2>1 DEF BootIInv
<1>4. CASE Fits(value, segment.data)
  <2>1. memory' = Copied(segment.data, value.value) /\ next' = next + 1 /\ phase' = phase
    BY <1>4 DEF InitSegment
  <2>2. next \in 0 .. Len(parsed.data_segments) /\ next < Len(parsed.data_segments)
        /\ Len(parsed.data_segments) \in Nat /\ DOMAIN memory = 1 .. MemoryBytes /\ MemoryUpto(next)
    BY <1>1, ParsedParts, LenProperties DEF BootIInv, MemoryUpto, InitSegment
  <2>3. /\ DOMAIN memory' = 1 .. MemoryBytes
        /\ \A i \in 1 .. MemoryBytes :
             memory'[i] = IF Covers(next + 1, i) THEN SegmentData(next + 1)[Place(next + 1, i)] ELSE memory[i]
    BY <2>1, <2>2 DEF Copied, Covers, SegmentData, Place
  <2>4. ASSUME NEW i \in 1 .. MemoryBytes, \A k \in 1 .. next + 1 : ~Covers(k, i)
        PROVE  memory'[i] = 0
    <3>1. next + 1 \in 1 .. next + 1 /\ \A k \in 1 .. next : k \in 1 .. next + 1
      BY <2>2
    <3>2. memory[i] = 0
      BY <2>2, <2>4, <3>1 DEF MemoryUpto
    <3> QED BY <2>3, <2>4, <3>1, <3>2
  <2>5. ASSUME NEW i \in 1 .. MemoryBytes, NEW k \in 1 .. next + 1, Covers(k, i),
               \A l \in 1 .. next + 1 : k < l => ~Covers(l, i)
        PROVE  memory'[i] = SegmentData(k)[Place(k, i)]
    <3>1. CASE k = next + 1
      BY <2>3, <2>5, <3>1
    <3>2. CASE k # next + 1
      <4>1. k \in 1 .. next /\ next + 1 \in 1 .. next + 1 /\ k < next + 1
            /\ \A l \in 1 .. next : l \in 1 .. next + 1
        BY <2>2, <3>2
      <4>2. ~Covers(next + 1, i)
        BY <2>5, <4>1
      <4>3. memory[i] = SegmentData(k)[Place(k, i)]
        BY <2>2, <2>5, <4>1 DEF MemoryUpto
      <4> QED BY <2>3, <4>2, <4>3
    <3> QED BY <3>1, <3>2
  <2>6. MemoryUpto(next)'
    <3>1. next' \in 0 .. Len(parsed'.data_segments)
      BY <1>1, <2>1, <2>2
    <3>2. \A k, i : /\ Covers(k, i)' <=> Covers(k, i)
                    /\ SegmentData(k)' = SegmentData(k) /\ Place(k, i)' = Place(k, i)
      BY <1>1 DEF Covers, SegmentData, Place
    <3> QED BY <2>1, <2>4, <2>5, <3>1, <3>2 DEF MemoryUpto
  <2> QED BY <1>1, <1>2, <2>1, <2>3, <2>6 DEF BootIInv
<1> QED BY <1>3, <1>4

LEMMA MemoryInitialisedKeeps == BootIInv /\ MemoryInitialised => BootIInv'
<1> SUFFICES ASSUME BootIInv, MemoryInitialised PROVE BootIInv'
  OBVIOUS
<1>1. /\ IInv /\ IInv' /\ parsed' = parsed /\ status' = status
      /\ UNCHANGED <<imports, globals, memory>> /\ phase = "memory" /\ phase' = "ready"
      /\ next = Len(parsed.data_segments)
  BY ModuleKept DEF BootIInv, MemoryInitialised, GoTo
<1>2. /\ LinkedUpto(Len(parsed.functions))' /\ GlobalsUpto(Len(parsed.globals))'
      /\ MemoryUpto(Len(parsed.data_segments))'
  BY <1>1, LinkedKept, GlobalsKept, MemoryKept DEF BootIInv, MemoryInitialised
<1> QED BY <1>1, <1>2 DEF BootIInv

LEMMA BootIInvHoldsNext == BootIInv /\ [BootStep \/ Booted]_<<vars, bootVars>> => BootIInv'
<1> SUFFICES ASSUME BootIInv, [BootStep \/ Booted]_<<vars, bootVars>> PROVE BootIInv'
  OBVIOUS
<1>1. CASE BootStep
  BY <1>1, ParseKeeps, LinkNextKeeps, LinkedKeeps, InitGlobalKeeps, GlobalsInitialisedKeeps,
     InitSegmentKeeps, MemoryInitialisedKeeps DEF BootStep
<1>2. CASE UNCHANGED <<vars, bootVars>>
  <2>1. /\ IInv /\ UNCHANGED vars /\ status' = status /\ parsed' = parsed
        /\ UNCHANGED <<phase, next, imports, globals, memory>>
    BY <1>2 DEF BootIInv, bootVars, vars
  <2>2. IInv' /\ \A n : /\ LinkedUpto(n) => LinkedUpto(n)'
                        /\ GlobalsUpto(n) => GlobalsUpto(n)'
                        /\ MemoryUpto(n) => MemoryUpto(n)'
    BY <2>1, ModuleKept, LinkedKept, GlobalsKept, MemoryKept
  <2>3. /\ LinkedUpto(next) => LinkedUpto(next)'
        /\ LinkedUpto(Len(parsed.functions)) => LinkedUpto(Len(parsed.functions))'
        /\ GlobalsUpto(next) => GlobalsUpto(next)'
        /\ GlobalsUpto(Len(parsed.globals)) => GlobalsUpto(Len(parsed.globals))'
        /\ MemoryUpto(next) => MemoryUpto(next)'
        /\ MemoryUpto(Len(parsed.data_segments)) => MemoryUpto(Len(parsed.data_segments))'
    BY <2>1, LinkedKept, GlobalsKept, MemoryKept
  <2> QED BY <2>1, <2>2, <2>3 DEF BootIInv
<1> QED BY <1>1, <1>2 DEF Booted

LEMMA BootIInvHolds == BootSpec => []BootIInv
BY BootInitHolds, BootIInvHoldsNext, PTL DEF BootSpec

-----------------------------------------------------------------------------
(* Theorems.                                                               *)

\* What the host does with a module, seen without its own state, is to parse
\* it: each step of Boot is a step of ModuleParser or leaves the parser alone.
THEOREM BootParses == BootSpec => Spec
<1>1. BootInit => Init
  BY DEF BootInit
<1>2. [BootStep \/ Booted]_<<vars, bootVars>> => [Next]_vars
  BY DEF BootStep, Booted, Parse, ParseReturns, LinkNext, Linked, InitGlobal, GlobalsInitialised,
         InitSegment, MemoryInitialised, Next
<1> QED BY <1>1, <1>2, PTL DEF BootSpec, Spec

\* The application is started with a module that evaluate can run, or not at
\* all.
THEOREM StartsRunnable == BootSpec => [](phase = "ready" => IsRunnable(Delivered, NoBody))
<1>1. BootIInv => (phase = "ready" => status = "done")
  BY DEF BootIInv
<1>2. DeliversRunnable /\ status = "done" => IsRunnable(Delivered, NoBody)
  BY DEF DeliversRunnable
<1> QED BY <1>1, <1>2, BootIInvHolds, BootParses, Runnable, PTL

\* Whatever the module, if its initializers have the types of its globals,
\* each global is where evaluate looks for it.
THEOREM GlobalsPlaced == BootSpec => []GlobalsInPlace
<1>1. BootIInv => GlobalsInPlace
  <2> SUFFICES ASSUME BootIInv, phase \in {"memory", "ready"},
                      \A i \in DOMAIN parsed.globals : Initial(i).type = Kinds[i],
                      NEW i \in DOMAIN parsed.globals
               PROVE  LET at == 4 * parsed.globals_offsets[i]
                      IN  at + Len(Initial(i).bytes) <= Len(globals)
                            /\ SubSeq(globals, at + 1, at + Len(Initial(i).bytes)) = Initial(i).bytes
    BY DEF GlobalsInPlace
  <2> DEFINE W == WordsBefore(Kinds)
             N == Len(parsed.globals)
             bytes == Initial(i).bytes
  <2>1. /\ parsed.globals \in Seq(Globals) /\ N \in Nat /\ DOMAIN parsed.globals = 1 .. N
        /\ AllValues(Kinds) /\ parsed.globals_offsets = OffsetsOfTypes(Kinds)
        /\ GlobalsUpto(N)
    BY ParsedParts, LenProperties DEF BootIInv, IInv
  <2>2. DOMAIN Kinds = 1 .. N /\ Len(Kinds) = N
    BY <2>1 DEF Kinds
  <2>3. /\ \A k \in 0 .. N : W[k] \in Nat
        /\ \A k \in 1 .. N : W[k] = W[k - 1] + Words(Kinds[k])
        /\ \A k \in 0 .. N : k <= N => W[k] <= W[N]
    BY <2>1, <2>2, WordsEquation, WordsGrow
  <2>4. Len(bytes) = 4 * Words(Kinds[i])
    <3>1. parsed.globals[i] \in Globals
      BY <2>1, ElementOfSeq
    <3>2. parsed.globals[i].initializer \in Seq(Byte) /\ Initial(i).type \in ValueType
      BY <2>1, <2>2, <3>1 DEF Globals, AllValues
    <3> QED BY <3>2, InitialValueFacts DEF Initial
  <2>5. parsed.globals_offsets[i] = W[i - 1]
    BY <2>1, <2>2 DEF OffsetsOfTypes
  <2>6. Len(globals) = 4 * W[N] /\ SubSeq(globals, 4 * W[i - 1] + 1, 4 * W[i]) = bytes
    BY <2>1 DEF GlobalsUpto, InitializersTyped, GlobalAt
  <2>7. i \in 0 .. N /\ i - 1 \in 0 .. N /\ i \in 1 .. N /\ Words(Kinds[i]) \in Nat
    BY <2>1 DEF Words
  <2> HIDE DEF W, N, bytes
  <2>8. 4 * W[i - 1] + Len(bytes) = 4 * W[i] /\ 4 * W[i] <= 4 * W[N]
    <3>1. W[i] = W[i - 1] + Words(Kinds[i]) /\ W[i - 1] \in Nat
      BY <2>3, <2>7
    <3>2. W[i] <= W[N] /\ W[i] \in Nat /\ W[N] \in Nat
      BY <2>1, <2>3, <2>7
    <3>3. \A a, b, c \in Nat : a = b + c => 4 * b + 4 * c = 4 * a
      OBVIOUS
    <3>4. \A a, b \in Nat : a <= b => 4 * a <= 4 * b
      OBVIOUS
    <3>5. 4 * W[i - 1] + 4 * Words(Kinds[i]) = 4 * W[i]
      BY <2>7, <3>1, <3>2, <3>3
    <3>6. 4 * W[i] <= 4 * W[N]
      BY <3>2, <3>4
    <3> QED BY <2>4, <3>5, <3>6
  <2> QED BY <2>5, <2>6, <2>8 DEF bytes
<1> QED BY <1>1, BootIInvHolds, PTL

\* Whatever the segments, the memory is their overlay in the order of the
\* module, on zeros.
THEOREM MemoryPlaced == BootSpec => []MemoryOverlaid
<1>1. BootIInv => MemoryOverlaid
  <2>1. IInv => DOMAIN parsed.data_segments = 1 .. Len(parsed.data_segments)
    BY ParsedParts, LenProperties
  <2> QED BY <2>1 DEF BootIInv, MemoryUpto, MemoryOverlaid
<1> QED BY <1>1, BootIInvHolds, PTL

\* Whatever the functions, if those without a body come first, the index by
\* which one is called is that of its host function.
THEOREM ImportsPlaced == BootSpec => []ImportsByIndex
<1>1. BootIInv => ImportsByIndex
  <2>1. BootIInv => /\ DOMAIN parsed.functions = 1 .. Len(parsed.functions)
                    /\ DOMAIN imports = 1 .. Len(imports)
    BY ParsedParts, LenProperties DEF BootIInv
  <2> QED BY <2>1 DEF BootIInv, LinkedUpto, ImportsByIndex
<1> QED BY <1>1, BootIInvHolds, PTL
=============================================================================
