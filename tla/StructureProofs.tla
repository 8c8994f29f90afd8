-------------------------- MODULE StructureProofs --------------------------
(***************************************************************************)
(* The theorem that evaluate runs code with the blocks that the code has   *)
(* open (RunsStructure of Interpreter), for every module whose bodies have *)
(* no if and are read by the scan and by evaluate alike.                   *)
(*                                                                         *)
(* What is said of a frame is said of a body, a position and a list of     *)
(* blocks; most lemmas are about these alone, one for each way in which an *)
(* instruction goes on.                                                    *)
(***************************************************************************)
EXTENDS InterpreterProofs, ValidCode

PlainModules == \A m \in Modules : IsPlain(m)

\* No end at level n lies between p and q: the block at p, if that is its
\* level, is still open at q.
Still(code, n, p, q) ==
  \A r \in Ops(code) : p < r /\ r < q /\ At(code, r) = \h0B => Level(code, r) # n

\* What a block on the block stack is: the j-th is at level j, and open at p.
BlockFits(b, p, j, block) ==
  \E o \in Ops(b.code) :
    /\ block.offset = b.offset + o /\ o < p
    /\ At(b.code, o) \in {\h02, \h03}
    /\ block.kind = (IF At(b.code, o) = \h02 THEN "Block" ELSE "Loop")
    /\ block.body_offset = Beyond(b.code, o)
    /\ Level(b.code, o) = j - 1 /\ Still(b.code, j, o, p)

\* A reader at p with these blocks: the invariant of a frame.
Structured(b, p, blocks) ==
  p < Len(b.code) =>
    /\ p \in Ops(b.code) /\ Level(b.code, p) = Len(blocks)
    /\ \A j \in 1 .. Len(blocks) : BlockFits(b, p, j, blocks[j])
    /\ \A j, k \in 1 .. Len(blocks) : j < k => blocks[j].offset < blocks[k].offset

-----------------------------------------------------------------------------
(* The opcodes of a body.                                                  *)

LEMMA OpsOf ==
  ASSUME NEW code \in Seq(Byte)
  PROVE  /\ Len(code) \in Nat /\ Ops(code) \in SUBSET Nat /\ Ops(code) \in SUBSET Int
         /\ IsFiniteSet(Ops(code)) /\ Ops(code) \subseteq 0 .. Len(code) - 1
<1>1. Len(code) \in Nat /\ 0 \in 0 .. Len(code)
  BY LenProperties
<1>2. Ops(code) \subseteq 0 .. Len(code) - 1 /\ IsFiniteSet(Ops(code))
  BY <1>1, OpcodesInside, OpcodesFinite DEF Ops
<1> QED BY <1>1, <1>2

\* A body ends with its last opcode, at which no block is open, and at no
\* earlier end; without an if it has no else.
LEMMA EndOf ==
  ASSUME NEW b, b.code \in Seq(Byte), PlainBody(b)
  PROVE  LET end == Len(b.code) - 1
         IN  /\ end \in Ops(b.code) /\ Level(b.code, end) = 0 /\ At(b.code, end) = \h0B
             /\ BodyEnds(b.code, 0) # {} /\ Least(BodyEnds(b.code, 0)) = end
             /\ \A p \in Ops(b.code) : p # end =>
                  /\ p < end /\ Level(b.code, p) \in Nat
                  /\ At(b.code, p) \notin {\h04, \h05}
                  /\ At(b.code, p) = \h0B => Level(b.code, p) # 0
<1> DEFINE code == b.code
           end == Len(code) - 1
           ends == BodyEnds(code, 0)
<1>1. /\ Len(code) \in Nat /\ 0 \in 0 .. Len(code)
      /\ Ops(code) \subseteq 0 .. Len(code) - 1 /\ Ops(code) \in SUBSET Nat
  BY OpsOf
<1>2. MisplacedElses(code, 0) = {} /\ ends # {} /\ Least(ends) = end
  <2>1. ends \in SUBSET Nat
    BY <1>1 DEF BodyEnds, Ops
  <2>2. AfterBody(code, 0) \notin {Failed, Panicked}
    BY <1>1 DEF PlainBody, Failed, Panicked
  <2>3. MisplacedElses(code, 0) = {} /\ ends # {} /\ AfterBody(code, 0) = Least(ends) + 1
    BY <2>2 DEF AfterBody
  <2>4. Least(ends) \in Nat
    BY <2>1, <2>3, LeastFacts
  <2> QED BY <1>1, <2>3, <2>4 DEF PlainBody
<1>3. /\ end \in Ops(code) /\ At(code, end) = \h0B /\ Level(code, end) = 0
      /\ \A p \in 0 .. end : Level(code, p) \in Nat
  BY <1>1, <1>2, BodyEndFacts DEF Ops, Level
<1>4. ASSUME NEW p \in Ops(code), p # end
      PROVE  /\ p < end /\ Level(code, p) \in Nat
             /\ At(code, p) = \h0B => Level(code, p) # 0
             /\ At(code, p) \notin {\h04, \h05}
  <2>1. p < end /\ p \in 0 .. end
    BY <1>1, <1>4
  <2>2. ends \in SUBSET Nat /\ \A e \in ends : end <= e
    <3>1. ends \in SUBSET Nat
      BY <1>1 DEF BodyEnds, Ops
    <3> QED BY <1>2, <3>1, LeastFacts
  <2>3. p \notin ends /\ \A e \in ends : p < e
    BY <1>1, <2>1, <2>2
  <2>4. At(code, p) = \h0B => Level(code, p) # 0
    BY <2>3 DEF BodyEnds, Ops, Level
  <2>5. \A r \in Ops(code) : At(code, r) # \h04
    BY DEF PlainBody, Ops
  <2>6. At(code, p) # \h05
    BY <1>2, <2>3, <2>5 DEF MisplacedElses, Ops
  <2> QED BY <1>3, <2>1, <2>4, <2>5, <2>6
<1> QED BY <1>2, <1>3, <1>4

\* The opcode behind one at p, and the level there.
LEMMA NextOf ==
  ASSUME NEW b, b.code \in Seq(Byte), PlainBody(b), NEW p \in Ops(b.code), p # Len(b.code) - 1
  PROVE  LET next == Beyond(b.code, p)
         IN  /\ next \in Ops(b.code) /\ p < next /\ next < Len(b.code)
             /\ \A r \in Ops(b.code) : r < next <=> r < p \/ r = p
             /\ Level(b.code, next) =
                  Level(b.code, p) + (IF At(b.code, p) \in Openers THEN 1
                                      ELSE IF At(b.code, p) = \h0B THEN -1 ELSE 0)
<1> DEFINE code == b.code
           end == Len(code) - 1
           next == Beyond(code, p)
<1>1. /\ Len(code) \in Nat /\ 0 \in 0 .. Len(code) /\ Ops(code) \subseteq 0 .. Len(code) - 1
      /\ Ops(code) \in SUBSET Int /\ IsFiniteSet(Ops(code)) /\ p \in 0 .. Len(code) /\ p \in Int
  BY OpsOf
<1>2. end \in Ops(code) /\ p < end
  BY EndOf
<1>3. {q \in Ops(code) : q >= p} = {p} \cup (IF next = Failed THEN {} ELSE Opcodes(code, next))
  <2>1. Opcodes(code, p) = {q \in Ops(code) : q >= p}
    BY <1>1, OpcodesOnwards DEF Ops
  <2>2. Opcodes(code, p) = {p} \cup (IF next = Failed THEN {} ELSE Opcodes(code, next))
    BY <1>1, <1>2, OpcodesEquation DEF Beyond
  <2> QED BY <2>1, <2>2
<1> HIDE DEF code
<1>4. next # Failed /\ end \in Opcodes(code, next)
  BY <1>1, <1>2, <1>3
<1>5. next \in p + 1 .. Len(code)
  BY <1>1, <1>2, <1>4, AfterBounds DEF Beyond
<1>6. Opcodes(code, next) \subseteq next .. Len(code) - 1
  BY <1>1, <1>5, OpcodesInside DEF code
<1> HIDE DEF next, end
<1>7. next \in Opcodes(code, next) /\ next < Len(code)
  <2>1. next < Len(code)
    BY <1>1, <1>4, <1>5, <1>6
  <2>2. next \in 0 .. Len(code) /\ next # Len(code)
    BY <1>1, <1>5, <2>1
  <2> QED BY <2>1, <2>2, OpcodesEquation DEF code
<1>8. next \in Ops(code)
  BY <1>3, <1>4, <1>7
<1>9. \A r \in Ops(code) : r < next <=> r < p \/ r = p
  <2> TAKE r \in Ops(code)
  <2>1. r >= p <=> r = p \/ r \in Opcodes(code, next)
    BY <1>1, <1>3, <1>4
  <2>2. r \in Opcodes(code, next) => next <= r
    BY <1>1, <1>5, <1>6
  <2> QED BY <1>1, <1>5, <2>1, <2>2
<1>10. Level(code, next) = Level(code, p + 1)
  <2>1. \A r \in Ops(code) : p + 1 <= r => next <= r
    BY <1>1, <1>5, <1>9
  <2>2. p + 1 \in Int /\ next \in Int /\ p + 1 <= next
    BY <1>1, <1>5
  <2> QED BY <1>1, <2>1, <2>2, DepthGap DEF Level
<1>11. Level(code, p + 1) = Level(code, p) + (IF At(code, p) \in Openers THEN 1
                                              ELSE IF At(code, p) = \h0B THEN -1 ELSE 0)
  <2>1. Depth(Ops(code), code, p + 1) =
          Depth(Ops(code), code, p)
            + (IF p \in Ops(code) /\ At(code, p) \in Openers THEN 1
               ELSE IF p \in Ops(code) /\ At(code, p) = \h0B THEN -1 ELSE 0)
    BY <1>1, DepthStep
  <2> QED BY <2>1 DEF Level, code
<1> QED BY <1>1, <1>5, <1>7, <1>8, <1>9, <1>10, <1>11 DEF code, next

\* The end of a block: its level, what lies between, and the jump to it.
LEMMA CloserOf ==
  ASSUME NEW b, b.code \in Seq(Byte), PlainBody(b), NEW o \in Ops(b.code),
         At(b.code, o) \in {\h02, \h03}
  PROVE  LET e == Least(Closers(b.code, 0, o, \h0B))
         IN  /\ e \in Ops(b.code) /\ o < e /\ e < Len(b.code) - 1 /\ At(b.code, e) = \h0B
             /\ Level(b.code, e) = Level(b.code, o) + 1
             /\ Still(b.code, Level(b.code, o) + 1, o, e)
             /\ \A r \in Nat : o < r /\ r <= e => Level(b.code, r) >= Level(b.code, o) + 1
             /\ b.offset + o \in DOMAIN b.jump_targets
             /\ b.jump_targets[b.offset + o] = e + 1
<1> DEFINE code == b.code
           end == Len(code) - 1
           closers == Closers(code, 0, o, \h0B)
           e == Least(closers)
           n == Level(code, o) + 1
<1>1. /\ Len(code) \in Nat /\ 0 \in 0 .. Len(code) /\ Ops(code) \in SUBSET Nat
      /\ Ops(code) \in SUBSET Int /\ IsFiniteSet(Ops(code)) /\ o \in Nat /\ o \in Int
  BY OpsOf
<1>2. /\ BodyEnds(code, 0) # {} /\ Least(BodyEnds(code, 0)) = end
      /\ o < end /\ Level(code, o) \in Nat
  <2>1. At(code, end) = \h0B /\ o # end
    BY EndOf
  <2> QED BY <2>1, EndOf
<1>3. closers # {} /\ e \in o + 1 .. end - 1
  <2>1. At(code, o) \in Openers \cup {\h05} /\ At(code, o) # \h05
    BY DEF Openers
  <2> QED BY <1>1, <1>2, <2>1, ClosedInBody DEF Ops
<1>4. closers = {q \in Ops(code) : q > o /\ At(code, q) = \h0B /\ Level(code, q) = n}
  BY DEF Closers, Ops, Level
<1>5. e \in closers /\ \A q \in closers : e <= q
  <2>1. closers \in SUBSET Nat
    BY <1>1, <1>4
  <2> QED BY <1>3, <2>1, LeastFacts
<1>6. b.offset + o \in DOMAIN b.jump_targets /\ b.jump_targets[b.offset + o] = e + 1
  <2>1. o \in DOMAIN BodyTargets(code, 0)
    BY <1>2 DEF BodyTargets, Ops, Openers
  <2>2. BodyTargets(code, 0)[o] = Target(code, 0, o)
    BY <2>1 DEF BodyTargets
  <2>3. Target(code, 0, o) = e + 1
    <3>1. Target(code, 0, o) = e + 1 - 0
      BY DEF Target
    <3>2. e \in Nat
      BY <1>1, <1>4, <1>5
    <3> HIDE DEF e
    <3> QED BY <3>1, <3>2
  <2> QED BY <2>1, <2>2, <2>3 DEF PlainBody
<1> HIDE DEF e, closers
<1>7. e \in Ops(code) /\ o < e /\ e < end /\ At(code, e) = \h0B /\ Level(code, e) = n
  BY <1>1, <1>2, <1>3, <1>4, <1>5
<1>8. Still(code, n, o, e)
  <2>1. ASSUME NEW r \in Ops(code), o < r, r < e, At(code, r) = \h0B, Level(code, r) = n
        PROVE  FALSE
    <3>1. r \in closers
      BY <1>1, <1>4, <2>1
    <3>2. e <= r /\ e \in Nat /\ r \in Nat
      BY <1>1, <1>5, <1>7, <3>1
    <3> QED BY <2>1, <3>2
  <2> QED BY <2>1 DEF Still
<1>9. ASSUME NEW r \in Nat, o < r, r <= e
      PROVE  Level(code, r) >= n
  <2>1. /\ Level(code, r) \in Int
        /\ Level(code, o + 1) = n
    <3>1. \A p \in Int : /\ Depth(Ops(code), code, p) \in Int
                          /\ Depth(Ops(code), code, p + 1) = Depth(Ops(code), code, p)
                               + (IF p \in Ops(code) /\ At(code, p) \in Openers THEN 1
                                  ELSE IF p \in Ops(code) /\ At(code, p) = \h0B THEN -1 ELSE 0)
      BY <1>1, DepthStep
    <3>2. At(code, o) \in Openers
      BY DEF Openers
    <3> QED BY <1>1, <3>1, <3>2 DEF Level
  <2> SUFFICES ASSUME Level(code, r) < Level(code, o + 1) PROVE FALSE
    BY <1>2, <2>1
  <2>2. o + 1 \in Nat /\ o + 1 <= r
    BY <1>1, <1>9
  <2>3. \E q \in Ops(code) : /\ o + 1 <= q /\ q < r /\ At(code, q) = \h0B
                             /\ Level(code, q) = Level(code, o + 1)
    BY <1>1, <2>2, CloserExists DEF Level
  <2>4. PICK q \in Ops(code) : o < q /\ q < r /\ At(code, q) = \h0B /\ Level(code, q) = n
    BY <1>1, <2>1, <2>3
  <2>5. q < e
    BY <1>1, <1>7, <1>9, <2>4
  <2> QED BY <1>8, <2>4, <2>5 DEF Still
<1> QED BY <1>6, <1>7, <1>8, <1>9 DEF e, closers

-----------------------------------------------------------------------------
(* A reader and its blocks, over one instruction.                          *)

\* The blocks of a reader, taken apart: where each was opened, and that an
\* outer one was opened before an inner one.
LEMMA BlocksAre ==
  ASSUME NEW b, b.code \in Seq(Byte), b.offset \in Nat, NEW p, NEW bs, Len(bs) \in Nat,
         Structured(b, p, bs), p < Len(b.code)
  PROVE  /\ p \in Ops(b.code) /\ p \in Nat /\ Level(b.code, p) = Len(bs)
         /\ \A i \in 1 .. Len(bs) : \E o \in Ops(b.code) :
              /\ o \in Nat /\ bs[i].offset = b.offset + o /\ o < p
              /\ At(b.code, o) \in {\h02, \h03}
              /\ bs[i].kind = (IF At(b.code, o) = \h02 THEN "Block" ELSE "Loop")
              /\ bs[i].body_offset = Beyond(b.code, o)
              /\ Level(b.code, o) = i - 1 /\ Still(b.code, i, o, p)
         /\ \A i, j \in 1 .. Len(bs) : i < j => bs[i].offset < bs[j].offset
<1>1. Ops(b.code) \in SUBSET Nat
  BY OpsOf
<1>2. \A i \in 1 .. Len(bs) : BlockFits(b, p, i, bs[i])
  BY DEF Structured
<1>3. p \in Ops(b.code) /\ Level(b.code, p) = Len(bs) /\ \A i, j \in 1 .. Len(bs) : i < j => bs[i].offset < bs[j].offset
  BY DEF Structured
<1> QED BY <1>1, <1>2, <1>3 DEF BlockFits

\* A block that the instruction at p does not close fits behind it, too.
LEMMA FitsBeyond ==
  ASSUME NEW b, b.code \in Seq(Byte), PlainBody(b), NEW p \in Ops(b.code), p # Len(b.code) - 1,
         NEW j, NEW block, BlockFits(b, p, j, block),
         At(b.code, p) = \h0B => Level(b.code, p) # j
  PROVE  BlockFits(b, Beyond(b.code, p), j, block)
<1> DEFINE next == Beyond(b.code, p)
<1>1. PICK o \in Ops(b.code) :
        /\ block.offset = b.offset + o /\ o < p
        /\ At(b.code, o) \in {\h02, \h03}
        /\ block.kind = (IF At(b.code, o) = \h02 THEN "Block" ELSE "Loop")
        /\ block.body_offset = Beyond(b.code, o)
        /\ Level(b.code, o) = j - 1 /\ Still(b.code, j, o, p)
  BY DEF BlockFits
<1>2. Ops(b.code) \in SUBSET Nat
  BY OpsOf
<1>3. next \in Ops(b.code) /\ p < next /\ \A r \in Ops(b.code) : r < next <=> r < p \/ r = p
  BY NextOf
<1> HIDE DEF next
<1>4. o < next
  BY <1>1, <1>3
<1>5. Still(b.code, j, o, next)
  BY <1>1, <1>3 DEF Still
<1> QED BY <1>1, <1>4, <1>5 DEF BlockFits, next

\* An instruction that opens and closes nothing.
LEMMA GoesStraight ==
  ASSUME NEW b, b.code \in Seq(Byte), PlainBody(b), NEW p, p < Len(b.code),
         NEW bs, Len(bs) \in Nat, Structured(b, p, bs), At(b.code, p) \notin Openers \cup {\h0B}
  PROVE  Structured(b, Beyond(b.code, p), bs)
<1>1. p \in Ops(b.code) /\ Level(b.code, p) = Len(bs) /\ p # Len(b.code) - 1
  BY EndOf DEF Structured
<1>2. Beyond(b.code, p) \in Ops(b.code) /\ Level(b.code, Beyond(b.code, p)) = Len(bs)
  <2>1. At(b.code, p) \notin Openers /\ At(b.code, p) # \h0B
    OBVIOUS
  <2>2. /\ Beyond(b.code, p) \in Ops(b.code)
        /\ Level(b.code, Beyond(b.code, p)) = Level(b.code, p) + 0
    BY <1>1, <2>1, NextOf, Zenon
  <2> QED BY <1>1, <2>2
<1>3. \A j \in 1 .. Len(bs) : BlockFits(b, Beyond(b.code, p), j, bs[j])
  <2> TAKE j \in 1 .. Len(bs)
  <2>1. BlockFits(b, p, j, bs[j])
    BY DEF Structured
  <2> QED BY <1>1, <2>1, FitsBeyond
<1> QED BY <1>2, <1>3 DEF Structured

\* block and loop.
LEMMA OpensBlock ==
  ASSUME NEW b, b.code \in Seq(Byte), b.offset \in Nat, PlainBody(b), NEW p, p < Len(b.code),
         NEW bs, NEW all, Len(bs) \in Nat, Structured(b, p, bs), At(b.code, p) \in {\h02, \h03},
         Len(all) = Len(bs) + 1, \A j \in 1 .. Len(bs) : all[j] = bs[j],
         all[Len(bs) + 1].kind = (IF At(b.code, p) = \h02 THEN "Block" ELSE "Loop"),
         all[Len(bs) + 1].offset = b.offset + p,
         all[Len(bs) + 1].body_offset = Beyond(b.code, p)
  PROVE  Structured(b, Beyond(b.code, p), all)
<1> DEFINE next == Beyond(b.code, p)
           n == Len(bs)
<1>1. /\ p \in Ops(b.code) /\ p \in Nat /\ Level(b.code, p) = n /\ p # Len(b.code) - 1
      /\ Ops(b.code) \in SUBSET Nat
  BY EndOf, OpsOf DEF Structured
<1>2. /\ next \in Ops(b.code) /\ p < next /\ Level(b.code, next) = n + 1
      /\ \A r \in Ops(b.code) : r < next <=> r < p \/ r = p
  <2>1. At(b.code, p) \in Openers
    BY DEF Openers
  <2> QED BY <1>1, <2>1, NextOf
<1>3. \A j \in 1 .. n : BlockFits(b, next, j, all[j]) /\ all[j].offset < all[n + 1].offset
  <2> TAKE j \in 1 .. n
  <2>1. BlockFits(b, p, j, bs[j]) /\ all[j] = bs[j]
    BY DEF Structured
  <2>2. PICK o \in Ops(b.code) : bs[j].offset = b.offset + o /\ o < p
    BY <2>1 DEF BlockFits
  <2>3. BlockFits(b, next, j, bs[j])
    BY <1>1, <2>1, FitsBeyond
  <2>4. b.offset + o < b.offset + p
    BY <1>1, <2>2
  <2> QED BY <2>1, <2>2, <2>3, <2>4
<1>4. BlockFits(b, next, n + 1, all[n + 1])
  <2>1. Still(b.code, n + 1, p, next)
    <3>1. \A r \in Ops(b.code) : ~ (p < r /\ r < next)
      <4> HIDE DEF next
      <4> QED BY <1>1, <1>2
    <3> QED BY <3>1 DEF Still
  <2>2. n = (n + 1) - 1
    OBVIOUS
  <2> QED BY <1>1, <1>2, <2>1, <2>2 DEF BlockFits
<1>5. \A j, k \in 1 .. n : j < k => bs[j].offset < bs[k].offset
  BY DEF Structured
<1> HIDE DEF next
<1>6. \A j \in 1 .. Len(all) : BlockFits(b, next, j, all[j])
  <2> TAKE j \in 1 .. Len(all)
  <2>1. j \in 1 .. n \/ j = n + 1
    OBVIOUS
  <2> QED BY <1>3, <1>4, <2>1
<1>7. \A j, k \in 1 .. Len(all) : j < k => all[j].offset < all[k].offset
  <2> SUFFICES ASSUME NEW j \in 1 .. n + 1, NEW k \in 1 .. n + 1, j < k
               PROVE  all[j].offset < all[k].offset
    OBVIOUS
  <2>1. j \in 1 .. n /\ (k \in 1 .. n \/ k = n + 1)
    <3>1. n \in Nat
      OBVIOUS
    <3> HIDE DEF n
    <3> QED BY <3>1
  <2>2. CASE k \in 1 .. n
    BY <1>5, <2>1, <2>2
  <2>3. CASE k = n + 1
    BY <1>3, <2>1, <2>3
  <2> QED BY <2>1, <2>2, <2>3
<1> QED BY <1>2, <1>6, <1>7 DEF Structured, next

\* end: of the innermost block, or of the body.
LEMMA EndsBlock ==
  ASSUME NEW b, b.code \in Seq(Byte), PlainBody(b), NEW p, p < Len(b.code),
         NEW bs, Len(bs) \in Nat, Structured(b, p, bs), At(b.code, p) = \h0B,
         NEW rest, Len(bs) > 0 => Len(rest) = Len(bs) - 1 /\ \A j \in 1 .. Len(bs) - 1 : rest[j] = bs[j],
         NEW next \in Nat, next = Beyond(b.code, p), p < Len(b.code) - 1 \/ next >= Len(b.code)
  PROVE  Structured(b, next, rest)
<1>1. /\ p \in Ops(b.code) /\ p \in Nat /\ Level(b.code, p) = Len(bs) /\ Len(b.code) \in Nat
  BY OpsOf DEF Structured
<1>2. CASE p = Len(b.code) - 1
  <2>1. ~ (next < Len(b.code))
    BY <1>1, <1>2
  <2> QED BY <2>1 DEF Structured
<1>3. CASE p # Len(b.code) - 1
  <2>1. Len(bs) > 0 /\ Len(rest) = Len(bs) - 1 /\ \A j \in 1 .. Len(rest) : rest[j] = bs[j]
    <3>1. Level(b.code, p) # 0
      BY <1>1, <1>3, EndOf
    <3> QED BY <1>1, <3>1
  <2>2. next \in Ops(b.code) /\ Level(b.code, next) = Len(rest)
    <3>1. At(b.code, p) \notin Openers
      BY DEF Openers
    <3> QED BY <1>1, <1>3, <2>1, <3>1, NextOf
  <2>3. \A j \in 1 .. Len(rest) : BlockFits(b, next, j, rest[j])
    <3> TAKE j \in 1 .. Len(rest)
    <3>1. j \in 1 .. Len(bs) /\ j # Len(bs) /\ rest[j] = bs[j]
      BY <2>1
    <3>2. BlockFits(b, p, j, bs[j])
      BY <3>1 DEF Structured
    <3> QED BY <1>1, <1>3, <3>1, <3>2, FitsBeyond
  <2>4. \A j, k \in 1 .. Len(rest) : j < k => rest[j].offset < rest[k].offset
    BY <2>1 DEF Structured
  <2> QED BY <2>2, <2>3, <2>4 DEF Structured
<1> QED BY <1>2, <1>3

\* A branch out of the i-th block: its blocks are the first i, and it goes on
\* at the end of a block, or in the body of a loop.
LEMMA LeavesBlocks ==
  ASSUME NEW b, b.code \in Seq(Byte), b.offset \in Nat, PlainBody(b), NEW p, p < Len(b.code),
         NEW bs, Len(bs) \in Nat, Structured(b, p, bs), NEW i \in 1 .. Len(bs),
         NEW outer, Len(outer) = i, \A j \in 1 .. i : outer[j] = bs[j],
         NEW next, next = (IF bs[i].kind = "Block" THEN b.jump_targets[bs[i].offset] - 1
                           ELSE bs[i].body_offset)
  PROVE  Structured(b, next, outer)
<1>1. PICK o \in Ops(b.code) :
        /\ o \in Nat /\ bs[i].offset = b.offset + o /\ o < p
        /\ At(b.code, o) \in {\h02, \h03}
        /\ bs[i].kind = (IF At(b.code, o) = \h02 THEN "Block" ELSE "Loop")
        /\ bs[i].body_offset = Beyond(b.code, o)
        /\ Level(b.code, o) = i - 1 /\ Still(b.code, i, o, p)
  BY BlocksAre
<1>2. /\ p \in Ops(b.code) /\ p \in Nat /\ Ops(b.code) \in SUBSET Nat
      /\ Len(b.code) \in Nat /\ i \in Nat
  BY BlocksAre, OpsOf
\* Where it goes on: inside the i-th block, before or at its end.
<1>3. /\ next \in Ops(b.code) /\ Level(b.code, next) = i /\ o < next
      /\ Still(b.code, i, o, next)
      /\ \A r \in Ops(b.code) : o < r /\ r < next => r < p \/ Level(b.code, r) >= i
  <2>1. CASE At(b.code, o) = \h02
    <3> DEFINE e == Least(Closers(b.code, 0, o, \h0B))
    <3>1. /\ e \in Ops(b.code) /\ o < e /\ At(b.code, e) = \h0B
          /\ Level(b.code, e) = Level(b.code, o) + 1
          /\ Still(b.code, Level(b.code, o) + 1, o, e)
          /\ \A r \in Nat : o < r /\ r <= e => Level(b.code, r) >= Level(b.code, o) + 1
          /\ b.jump_targets[b.offset + o] = e + 1
      BY <1>1, CloserOf
    <3> HIDE DEF e
    <3>2. Level(b.code, o) + 1 = i
      BY <1>1, <1>2
    <3>3. next = e
      <4>1. bs[i].kind = "Block" /\ next = b.jump_targets[b.offset + o] - 1
        BY <1>1, <2>1
      <4>2. e \in Nat
        BY <1>2, <3>1
      <4> QED BY <3>1, <4>1, <4>2
    <3>4. \A r \in Ops(b.code) : o < r /\ r < e => Level(b.code, r) >= i
      BY <1>2, <3>1, <3>2
    <3> QED BY <3>1, <3>2, <3>3, <3>4
  <2>2. CASE At(b.code, o) = \h03
    <3>1. next = Beyond(b.code, o)
      BY <1>1, <2>2
    <3>2. o # Len(b.code) - 1 /\ At(b.code, o) \in Openers
      BY <2>2, EndOf DEF Openers
    <3>3. /\ next \in Ops(b.code) /\ o < next
          /\ \A r \in Ops(b.code) : r < next <=> r < o \/ r = o
          /\ Level(b.code, next) = Level(b.code, o) + 1
      <4>1. Beyond(b.code, o) \in Ops(b.code) /\ o < Beyond(b.code, o)
        BY <3>2, NextOf
      <4>2. \A r \in Ops(b.code) : r < Beyond(b.code, o) <=> r < o \/ r = o
        BY <3>2, NextOf
      <4>3. Level(b.code, Beyond(b.code, o)) = Level(b.code, o) + 1
        BY <3>2, NextOf
      <4> QED BY <3>1, <4>1, <4>2, <4>3
    <3>4. \A r \in Ops(b.code) : ~ (o < r /\ r < next)
      BY <1>1, <1>2, <3>3
    <3>5. Level(b.code, next) = i
      BY <1>1, <1>2, <3>3
    <3> QED BY <3>3, <3>4, <3>5 DEF Still
  <2> QED BY <1>1, <2>1, <2>2
<1>4. \A j \in 1 .. i : BlockFits(b, next, j, outer[j])
  <2> TAKE j \in 1 .. i
  <2>1. j \in 1 .. Len(bs) /\ outer[j] = bs[j] /\ j \in Nat
    BY <1>2
  <2>2. PICK q \in Ops(b.code) :
          /\ q \in Nat /\ bs[j].offset = b.offset + q /\ q < p
          /\ At(b.code, q) \in {\h02, \h03}
          /\ bs[j].kind = (IF At(b.code, q) = \h02 THEN "Block" ELSE "Loop")
          /\ bs[j].body_offset = Beyond(b.code, q)
          /\ Level(b.code, q) = j - 1 /\ Still(b.code, j, q, p)
    BY <2>1, BlocksAre
  <2>3. q <= o /\ (j = i => q = o)
    <3>1. CASE j = i
      BY <1>1, <2>2, <3>1
    <3>2. CASE j < i
      <4>1. bs[j].offset < bs[i].offset
        BY <2>1, <3>2 DEF Structured
      <4>2. b.offset + q < b.offset + o
        BY <1>1, <2>2, <4>1
      <4> QED BY <1>1, <2>2, <3>2, <4>2
    <3> QED BY <1>2, <2>1, <3>1, <3>2
  <2>4. Still(b.code, j, q, next)
    <3> SUFFICES ASSUME NEW r \in Ops(b.code), q < r, r < next, At(b.code, r) = \h0B,
                        Level(b.code, r) = j
                 PROVE  FALSE
      BY DEF Still
    <3>1. r \in Nat /\ next \in Nat
      BY <1>2, <1>3
    <3>2. ~ (r < p)
      BY <2>2 DEF Still
    <3>3. o < r
      BY <1>1, <1>2, <3>1, <3>2
    <3>4. Level(b.code, r) >= i /\ j # i
      BY <1>3, <3>2, <3>3 DEF Still
    <3> QED BY <1>2, <2>1, <3>4
  <2>5. q < next
    <3>1. next \in Nat /\ o \in Nat /\ o < next
      BY <1>1, <1>2, <1>3
    <3>2. q \in Nat /\ q <= o
      BY <2>2, <2>3
    <3>3. \A x, y, z \in Nat : x <= y /\ y < z => x < z
      OBVIOUS
    <3> QED BY <3>1, <3>2, <3>3
  <2> QED BY <2>1, <2>2, <2>4, <2>5 DEF BlockFits
<1>5. \A j, k \in 1 .. i : j < k => outer[j].offset < outer[k].offset
  <2>1. \A j \in 1 .. i : j \in 1 .. Len(bs)
    OBVIOUS
  <2> QED BY <2>1 DEF Structured
<1> QED BY <1>3, <1>4, <1>5 DEF Structured

\* A function starts with no blocks.
LEMMA StartsBody ==
  ASSUME NEW b, b.code \in Seq(Byte), PlainBody(b)
  PROVE  Structured(b, 0, <<>>)
<1>1. 0 \in 0 .. Len(b.code) /\ Len(<<>>) = 0
  BY LenProperties
<1>2. 0 < Len(b.code) => 0 \in Ops(b.code)
  BY <1>1, OpcodesEquation DEF Ops
<1>3. Level(b.code, 0) = 0
  BY <1>1, DepthStart DEF Level, Ops
<1>4. 1 .. 0 = {}
  OBVIOUS
<1> QED BY <1>1, <1>2, <1>3, <1>4 DEF Structured

OffsetsOf(bs)      == {bs[j].offset : j \in 1 .. Len(bs)}
OpenOffsets(b, p) == {q + b.offset : q \in OpenAt(b.code, p)}

\* The blocks of a reader are those the code has open.
LEMMA BlocksAreOpen ==
  ASSUME NEW b, b.code \in Seq(Byte), b.offset \in Nat, PlainBody(b), NEW p, p < Len(b.code),
         NEW bs, Len(bs) \in Nat, Structured(b, p, bs)
  PROVE  OffsetsOf(bs) = OpenOffsets(b, p)
<1> DEFINE Closer(o) == Least(Closers(b.code, 0, o, \h0B))
<1>1. /\ p \in Ops(b.code) /\ p \in Nat /\ Level(b.code, p) = Len(bs)
      /\ Len(b.code) \in Nat /\ Ops(b.code) \in SUBSET Nat
      /\ Ops(b.code) \in SUBSET Int /\ IsFiniteSet(Ops(b.code))
  BY BlocksAre, OpsOf
<1>2. ASSUME NEW o \in Ops(b.code), At(b.code, o) \in {\h02, \h03}
      PROVE  /\ Closer(o) \in Ops(b.code) /\ o < Closer(o) /\ At(b.code, Closer(o)) = \h0B
             /\ Level(b.code, Closer(o)) = Level(b.code, o) + 1
             /\ \A r \in Nat : o < r /\ r <= Closer(o) => Level(b.code, r) >= Level(b.code, o) + 1
  BY <1>2, CloserOf
<1>3. OpenAt(b.code, p) =
        {o \in Ops(b.code) : o < p /\ At(b.code, o) \in Openers /\ p <= Closer(o)}
  BY DEF OpenAt, Ops
<1> HIDE DEF Closer
<1>4. ASSUME NEW j \in 1 .. Len(bs)
      PROVE  bs[j].offset \in {q + b.offset : q \in OpenAt(b.code, p)}
  <2>1. PICK o \in Ops(b.code) :
          /\ o \in Nat /\ bs[j].offset = b.offset + o /\ o < p
          /\ At(b.code, o) \in {\h02, \h03}
          /\ Level(b.code, o) = j - 1 /\ Still(b.code, j, o, p)
    BY BlocksAre
  <2>2. Closer(o) \in Ops(b.code) /\ Level(b.code, Closer(o)) = j
    BY <1>2, <2>1
  <2>3. p <= Closer(o)
    <3>1. ~ (Closer(o) < p)
      BY <1>2, <2>1, <2>2 DEF Still
    <3> QED BY <1>1, <2>2, <3>1
  <2>4. o \in OpenAt(b.code, p) /\ bs[j].offset = o + b.offset
    BY <1>3, <2>1, <2>3 DEF Openers
  <2> QED BY <2>4
<1>5. ASSUME NEW q \in OpenAt(b.code, p)
      PROVE  q + b.offset \in {bs[j].offset : j \in 1 .. Len(bs)}
  <2>1. /\ q \in Ops(b.code) /\ q \in Nat /\ q < p /\ p <= Closer(q)
        /\ At(b.code, q) \in {\h02, \h03}
    <3>1. \A r \in Ops(b.code) : At(b.code, r) # \h04
      BY DEF PlainBody, Ops
    <3> QED BY <1>1, <1>3, <3>1 DEF Openers
  <2> DEFINE j == Level(b.code, q) + 1
  <2>2. /\ j \in 1 .. Len(bs) /\ Level(b.code, q) \in Nat
        /\ \A r \in Nat : q < r /\ r <= p => Level(b.code, r) >= j
    <3>1. \A r \in Nat : q < r /\ r <= p => r <= Closer(q)
      <4>1. Closer(q) \in Nat
        BY <1>1, <1>2, <2>1
      <4> QED BY <1>1, <2>1, <4>1
    <3>2. Level(b.code, q) \in Nat
      <4>1. q # Len(b.code) - 1
        BY <2>1, EndOf
      <4> QED BY <2>1, <4>1, EndOf
    <3>3. \A r \in Nat : q < r /\ r <= p => Level(b.code, r) >= j
      BY <1>2, <2>1, <3>1
    <3>4. Len(bs) >= j
      BY <1>1, <2>1, <3>3
    <3> QED BY <3>2, <3>3, <3>4
  <2>3. PICK o \in Ops(b.code) :
          /\ o \in Nat /\ bs[j].offset = b.offset + o /\ o < p
          /\ At(b.code, o) \in {\h02, \h03}
          /\ Level(b.code, o) = j - 1 /\ Still(b.code, j, o, p)
    BY <2>2, BlocksAre
  <2>4. Level(b.code, o) = Level(b.code, q)
    BY <2>2, <2>3
  <2>5. ~ (q < o)
    <3> SUFFICES ASSUME q < o PROVE FALSE
      OBVIOUS
    <3>1. Level(b.code, o) >= j
      BY <1>1, <2>2, <2>3
    <3> QED BY <2>2, <2>4, <3>1
  <2>6. ~ (o < q)
    <3> SUFFICES ASSUME o < q PROVE FALSE
      OBVIOUS
    <3>1. Level(b.code, o + 1) = j
      <4>1. At(b.code, o) \in Openers
        BY <2>3 DEF Openers
      <4>2. Depth(Ops(b.code), b.code, o + 1) = Depth(Ops(b.code), b.code, o)
              + (IF o \in Ops(b.code) /\ At(b.code, o) \in Openers THEN 1
                 ELSE IF o \in Ops(b.code) /\ At(b.code, o) = \h0B THEN -1 ELSE 0)
        BY <1>1, <2>3, DepthStep
      <4> QED BY <2>2, <2>4, <4>1, <4>2 DEF Level
    <3>2. o + 1 \in Nat /\ o + 1 <= q /\ Level(b.code, q) < Level(b.code, o + 1)
      BY <2>1, <2>2, <2>3, <3>1
    <3>3. \E r \in Ops(b.code) : /\ o + 1 <= r /\ r < q /\ At(b.code, r) = \h0B
                                 /\ Level(b.code, r) = Level(b.code, o + 1)
      BY <1>1, <2>1, <3>2, CloserExists DEF Level
    <3>4. PICK r \in Ops(b.code) : /\ o < r /\ r < p /\ At(b.code, r) = \h0B /\ Level(b.code, r) = j
      BY <1>1, <2>1, <2>3, <3>1, <3>3
    <3> QED BY <2>3, <3>4 DEF Still
  <2>7. o = q
    BY <2>1, <2>3, <2>5, <2>6
  <2> HIDE DEF j
  <2>8. q + b.offset = bs[j].offset
    BY <2>1, <2>3, <2>7
  <2> QED BY <2>2, <2>8
<1> QED BY <1>4, <1>5 DEF OffsetsOf, OpenOffsets

-----------------------------------------------------------------------------
(* The frames of a context.                                                *)

FitsCode(m, f) == Structured(m.functions[f.func_idx + 1].body, f.pos, f.blocks)

\* The inductive invariant, besides IInv.
InStructure == \A i \in 1 .. Len(call_stack) : FitsCode(module, call_stack[i])

\* What the topmost frame finds, in the terms of the lemmas above.
LEMMA FetchesCode ==
  ASSUME PlainModules, IInv, InStructure, Fetches
  PROVE  /\ PlainBody(Func) /\ Func.code \in Seq(Byte) /\ Func.offset \in Nat
         /\ Len(Func.code) \in Nat /\ Frame.pos \in Nat /\ Frame.pos < Len(Func.code)
         /\ Frame.blocks \in Seq(Block) /\ Len(Frame.blocks) \in Nat
         /\ Structured(Func, Frame.pos, Frame.blocks)
         /\ Op = At(Func.code, Frame.pos) /\ Op \notin {\h04, \h05}
         /\ Decodes /\ Follow = Beyond(Func.code, Frame.pos) /\ Follow \in Nat
         /\ Frame.pos < Len(Func.code) - 1 \/ Follow >= Len(Func.code)
<1>1. Active /\ Frame.pos < Len(Func.code)
  BY DEF Fetches, Code
<1>2. /\ FrameOK(Frame) /\ IsBody(Func)
      /\ Len(call_stack) \in 1 .. Len(call_stack)
  BY <1>1, FrameFacts
<1>3. /\ Func.code \in Seq(Byte) /\ Func.offset \in Nat /\ Len(Func.code) \in Nat
      /\ Frame.blocks \in Seq(Block) /\ Len(Frame.blocks) \in Nat /\ Frame.pos \in Nat
  BY <1>2 DEF IsBody, FrameOK, FrameType
<1>4. PlainBody(Func)
  <2>1. HasBody(Frame.func_idx) /\ module \in Modules
    BY <1>2 DEF FrameOK, IInv
  <2> QED BY <2>1 DEF HasBody, Func, Body, PlainModules, IsPlain
<1>5. Structured(Func, Frame.pos, Frame.blocks)
  BY <1>2 DEF InStructure, FitsCode, Func, Body, Frame
<1>6. Op = At(Func.code, Frame.pos) /\ Frame.pos \in Ops(Func.code)
  BY <1>1, <1>5 DEF Op, Code, Structured
<1>7. Op \notin {\h04, \h05}
  <2>1. At(Func.code, Len(Func.code) - 1) = \h0B
    BY <1>3, <1>4, EndOf
  <2>2. Frame.pos # Len(Func.code) - 1 => At(Func.code, Frame.pos) \notin {\h04, \h05}
    BY <1>3, <1>4, <1>6, EndOf
  <2> QED BY <1>6, <2>1, <2>2
<1>8. Follow = Beyond(Func.code, Frame.pos)
  BY <1>4, <1>6 DEF PlainBody, Ops, Beyond, Follow, Code
<1>9. Decodes
  <2>1. CASE Frame.pos = Len(Func.code) - 1
    <3>1. At(Func.code, Frame.pos) = \h0B
      BY <1>3, <1>4, <2>1, EndOf
    <3>2. Beyond(Func.code, Frame.pos) = Frame.pos + 1
      BY <3>1 DEF Beyond, ParseLayout, After, LocalOps, GlobalOps, Loads
    <3> QED BY <1>3, <1>8, <3>2 DEF Decodes, Failed
  <2>2. CASE Frame.pos # Len(Func.code) - 1
    <3>1. Beyond(Func.code, Frame.pos) \in Ops(Func.code) /\ Ops(Func.code) \in SUBSET Nat
      BY <1>3, <1>4, <1>6, <2>2, NextOf, OpsOf
    <3> QED BY <1>8, <3>1 DEF Decodes, Failed
  <2> QED BY <2>1, <2>2
<1>10. Follow \in Frame.pos + 1 .. Len(Func.code)
  <2>1. Frame.pos + 1 \in 0 .. Len(Func.code)
    BY <1>1, <1>3
  <2> QED BY <1>3, <1>9, <2>1, AfterBounds DEF Follow, Decodes, Code
<1>11. Follow \in Nat /\ (Frame.pos < Len(Func.code) - 1 \/ Follow >= Len(Func.code))
  BY <1>1, <1>3, <1>10
<1> QED BY <1>1, <1>3, <1>4, <1>5, <1>6, <1>7, <1>8, <1>9, <1>11

LEMMA RunsCode ==
  ASSUME PlainModules, IInv, InStructure, NEW ops, Executes(ops)
  PROVE  /\ Active /\ Op \in ops
         /\ PlainBody(Func) /\ Func.code \in Seq(Byte) /\ Func.offset \in Nat
         /\ Frame.pos < Len(Func.code)
         /\ Frame.blocks \in Seq(Block) /\ Len(Frame.blocks) \in Nat
         /\ Structured(Func, Frame.pos, Frame.blocks)
         /\ Op = At(Func.code, Frame.pos) /\ Op \notin {\h04, \h05}
         /\ Follow = Beyond(Func.code, Frame.pos) /\ Follow \in Nat
         /\ Frame.pos < Len(Func.code) - 1 \/ Follow >= Len(Func.code)
<1>1. Fetches /\ Active /\ Op \in ops
  BY DEF Executes, Fetches
<1> QED BY <1>1, FetchesCode

\* The topmost frame goes on in its body, the others stay.
LEMMA KeepsStructure ==
  ASSUME IInv, InStructure, Active, UNCHANGED module, NEW next, NEW bs,
         SetFrame([Frame EXCEPT !.pos = next, !.blocks = bs]), Structured(Func, next, bs)
  PROVE  InStructure'
<1> DEFINE f == [Frame EXCEPT !.pos = next, !.blocks = bs]
           n == Len(call_stack)
<1>1. Frame \in FrameType /\ n \in 1 .. n
  BY FrameFacts DEF FrameOK
<1>2. f.func_idx = Frame.func_idx /\ f.pos = next /\ f.blocks = bs
  BY <1>1 DEF FrameType
<1>3. FitsCode(module, f)
  BY <1>2 DEF FitsCode, Func, Body
<1>4. call_stack \in Seq(FrameType) /\ call_stack' = [call_stack EXCEPT ![n] = f]
  BY DEF IInv, FramesOK, SetFrame
<1> HIDE DEF f
<1>5. Len(call_stack') = n /\ \A i \in 1 .. n : call_stack'[i] = IF i = n THEN f ELSE call_stack[i]
  BY <1>1, <1>4
<1>6. \A i \in 1 .. Len(call_stack') : FitsCode(module', call_stack'[i])
  BY <1>3, <1>5 DEF InStructure
<1> QED BY <1>6 DEF InStructure

\* An instruction that neither opens nor closes a block and goes on behind it.
LEMMA AdvanceKeepsStructure ==
  ASSUME PlainModules, IInv, InStructure, NEW ops, Executes(ops), UNCHANGED module, Advance,
         \A op \in ops : op \notin {\h02, \h03, \h0B}
  PROVE  InStructure'
<1>1. At(Func.code, Frame.pos) \notin Openers \cup {\h0B}
  <2>1. Op \in ops /\ Op # \h04 /\ Op = At(Func.code, Frame.pos)
    BY RunsCode
  <2> QED BY <2>1 DEF Openers
<1>2. Structured(Func, Follow, Frame.blocks)
  BY <1>1, RunsCode, GoesStraight
<1>3. [Frame EXCEPT !.pos = Follow] = [Frame EXCEPT !.pos = Follow, !.blocks = Frame.blocks]
  <2>1. Active
    BY RunsCode
  <2> QED BY <2>1, FrameFacts DEF FrameOK, FrameType
<1>4. SetFrame([Frame EXCEPT !.pos = Follow, !.blocks = Frame.blocks]) /\ Active
  BY <1>3, RunsCode DEF Advance
<1> QED BY <1>2, <1>4, KeepsStructure

LEMMA EnterBlockKeepsStructure ==
  ASSUME PlainModules, IInv, InStructure, EnterBlock PROVE InStructure'
<1> DEFINE block == [kind |-> IF Op = \h02 THEN "Block" ELSE "Loop",
                     offset |-> Func.offset + Frame.pos, body_offset |-> Follow]
           bs    == Append(Frame.blocks, block)
<1>1. Executes({\h02, \h03}) /\ SetFrame([Frame EXCEPT !.pos = Follow, !.blocks = bs]) /\ UNCHANGED module
  BY DEF EnterBlock
<1>2. /\ Active /\ Op \in {\h02, \h03} /\ Op = At(Func.code, Frame.pos)
      /\ Follow = Beyond(Func.code, Frame.pos)
      /\ Frame.blocks \in Seq(Block) /\ Len(Frame.blocks) \in Nat
      /\ PlainBody(Func) /\ Func.code \in Seq(Byte) /\ Func.offset \in Nat
      /\ Frame.pos < Len(Func.code) /\ Structured(Func, Frame.pos, Frame.blocks)
  BY <1>1, RunsCode
<1>3. /\ block.kind = (IF At(Func.code, Frame.pos) = \h02 THEN "Block" ELSE "Loop")
      /\ block.offset = Func.offset + Frame.pos
      /\ block.body_offset = Beyond(Func.code, Frame.pos)
  BY <1>2
<1> HIDE DEF block
<1>4. /\ Len(bs) = Len(Frame.blocks) + 1 /\ bs[Len(Frame.blocks) + 1] = block
      /\ \A j \in 1 .. Len(Frame.blocks) : bs[j] = Frame.blocks[j]
  BY <1>2
<1> HIDE DEF bs
<1>5. Structured(Func, Follow, bs)
  BY <1>2, <1>3, <1>4, OpensBlock
<1> QED BY <1>1, <1>2, <1>5, KeepsStructure

LEMMA EndKeepsStructure ==
  ASSUME PlainModules, IInv, InStructure, End PROVE InStructure'
<1> DEFINE n  == Len(Frame.blocks)
           bs == SubSeq(Frame.blocks, 1, n - 1)
<1>1. Executes({\h0B}) /\ SetFrame([Frame EXCEPT !.pos = Follow, !.blocks = bs]) /\ UNCHANGED module
  BY DEF End
<1>2. /\ Active /\ At(Func.code, Frame.pos) = \h0B
      /\ Follow = Beyond(Func.code, Frame.pos) /\ Follow \in Nat
      /\ Frame.pos < Len(Func.code) - 1 \/ Follow >= Len(Func.code)
      /\ Frame.blocks \in Seq(Block) /\ n \in Nat
      /\ PlainBody(Func) /\ Func.code \in Seq(Byte)
      /\ Frame.pos < Len(Func.code) /\ Structured(Func, Frame.pos, Frame.blocks)
  BY <1>1, RunsCode
<1>3. n > 0 => Len(bs) = n - 1 /\ \A j \in 1 .. n - 1 : bs[j] = Frame.blocks[j]
  <2> HAVE n > 0
  <2>1. n - 1 \in 0 .. Len(Frame.blocks)
    BY <1>2
  <2> QED BY <1>2, <2>1, PrefixOf
<1> HIDE DEF bs
<1>4. Structured(Func, Follow, bs)
  BY <1>2, <1>3, EndsBlock
<1> QED BY <1>1, <1>2, <1>4, KeepsStructure

\* do_branch
LEMMA BranchKeepsStructure ==
  ASSUME PlainModules, IInv, InStructure, NEW ops, Executes(ops), UNCHANGED module,
         NEW depth, Branches(depth), Branch(depth)
  PROVE  InStructure'
<1>1. /\ Active /\ Frame.blocks \in Seq(Block) /\ Len(Frame.blocks) \in Nat
      /\ PlainBody(Func) /\ Func.code \in Seq(Byte) /\ Func.offset \in Nat
      /\ Frame.pos < Len(Func.code) /\ Structured(Func, Frame.pos, Frame.blocks)
  BY RunsCode
<1>2. PICK i \in 1 .. Len(Frame.blocks) : Len(Frame.blocks) - i = depth
  BY <1>1 DEF Branches
<1>3. Len(Frame.blocks) - depth = i
  BY <1>1, <1>2
<1> DEFINE bs    == SubSeq(Frame.blocks, 1, i)
           next  == IF Frame.blocks[i].kind = "Block" THEN Func.jump_targets[Frame.blocks[i].offset] - 1
                    ELSE Frame.blocks[i].body_offset
<1>4. SetFrame([Frame EXCEPT !.blocks = bs, !.pos = next])
  BY <1>3 DEF Branch
<1>5. Len(bs) = i /\ \A j \in 1 .. i : bs[j] = Frame.blocks[j]
  <2>1. i \in 0 .. Len(Frame.blocks)
    BY <1>1
  <2> QED BY <1>1, <2>1, PrefixOf
<1>6. [Frame EXCEPT !.blocks = bs, !.pos = next] = [Frame EXCEPT !.pos = next, !.blocks = bs]
  BY <1>1, FrameFacts DEF FrameOK, FrameType
<1>7. next = (IF Frame.blocks[i].kind = "Block" THEN Func.jump_targets[Frame.blocks[i].offset] - 1
              ELSE Frame.blocks[i].body_offset)
  OBVIOUS
<1> HIDE DEF bs, next
<1>8. Structured(Func, next, bs)
  BY <1>1, <1>5, <1>7, LeavesBlocks
<1> QED BY <1>1, <1>4, <1>6, <1>8, KeepsStructure

\* br, br_if, br_table
LEMMA BranchesKeepStructure ==
  ASSUME PlainModules, IInv, InStructure, Br \/ BrIf \/ BrTable PROVE InStructure'
<1>1. CASE Br
  <2>1. Executes({\h0C}) /\ Branch(Operand) /\ UNCHANGED module
    BY <1>1 DEF Br
  <2>2. Branches(Operand)
    BY <2>1, ExecutesFacts DEF NoPanic
  <2> QED BY <2>1, <2>2, BranchKeepsStructure
<1>2. CASE BrTable
  <2>1. Executes({\h0E}) /\ Branch(SelectedDepth) /\ UNCHANGED module
    BY <1>2 DEF BrTable
  <2>2. Branches(SelectedDepth)
    BY <2>1, ExecutesFacts DEF NoPanic
  <2> QED BY <2>1, <2>2, BranchKeepsStructure
<1>3. CASE BrIf
  <2>1. Executes({\h0D}) /\ UNCHANGED module
    BY <1>3 DEF BrIf
  <2>2. CASE stack[Len(stack)] # 0
    <3>1. Branch(Operand)
      BY <1>3, <2>2 DEF BrIf
    <3>2. Branches(Operand)
      BY <2>1, <2>2, ExecutesFacts DEF NoPanic
    <3> QED BY <2>1, <3>1, <3>2, BranchKeepsStructure
  <2>3. CASE stack[Len(stack)] = 0
    <3>1. Advance
      BY <1>3, <2>3 DEF BrIf
    <3> QED BY <2>1, <3>1, AdvanceKeepsStructure
  <2> QED BY <2>2, <2>3
<1> QED BY <1>1, <1>2, <1>3

\* return goes on at the end of the code, where nothing is read.
LEMMA ReturnKeepsStructure ==
  ASSUME PlainModules, IInv, InStructure, Return PROVE InStructure'
<1>1. /\ Executes({\h0F}) /\ UNCHANGED module
      /\ SetFrame([Frame EXCEPT !.pos = Len(Code)])
  BY DEF Return
<1>2. Active
  BY <1>1, RunsCode
<1>3. [Frame EXCEPT !.pos = Len(Code)] = [Frame EXCEPT !.pos = Len(Code), !.blocks = Frame.blocks]
  BY <1>2, FrameFacts DEF FrameOK, FrameType
<1>4. Structured(Func, Len(Code), Frame.blocks)
  <2>1. Len(Func.code) \in Nat
    BY <1>2, FrameFacts DEF IsBody
  <2> QED BY <2>1 DEF Structured, Code
<1> QED BY <1>1, <1>2, <1>3, <1>4, KeepsStructure

\* The instructions that only advance the reader.
LEMMA OthersKeepStructure ==
  ASSUME PlainModules, IInv, InStructure,
         \/ CallImport \/ Drop \/ Select \/ VarGet \/ LocalSet \/ GlobalSet \/ ConstI32 \/ ConstI64
         \/ Produce \/ Store
  PROVE  InStructure'
<1> DEFINE others == {\h10, \h11, \h1A, \h1B, \h43, \h44, \h41, \h42} \cup LocalOps \cup GlobalOps
                       \cup Loads \cup Stores \cup Unary \cup Binary
<1>1. Executes(others) /\ Advance /\ UNCHANGED module
  BY DEF CallImport, Drop, Select, VarGet, LocalSet, GlobalSet, ConstI32, ConstI64, Produce, Store,
         Executes, LocalOps, GlobalOps
<1>2. \A op \in others : op \notin {\h02, \h03, \h0B}
  BY DEF LocalOps, GlobalOps, Loads, Stores, Unary, Binary
<1> HIDE DEF others
<1> QED BY <1>1, <1>2, AdvanceKeepsStructure

\* if and else are not executed in plain modules.
LEMMA InPlaceKeepsStructure ==
  ASSUME PlainModules, IInv, InStructure, InPlace PROVE InStructure'
<1>1. ~ If /\ ~ Else
  <2>1. ASSUME NEW op, Executes({op})
        PROVE  op \notin {\h04, \h05}
    BY <2>1, RunsCode
  <2> QED BY <2>1 DEF If, Else
<1> QED
  BY <1>1, EnterBlockKeepsStructure, EndKeepsStructure, BranchesKeepStructure,
     ReturnKeepsStructure, OthersKeepStructure DEF InPlace

\* do_call: the caller goes on behind the call, the callee starts.
LEMMA CallKeepsStructure ==
  ASSUME PlainModules, IInv, InStructure, CallBody PROVE InStructure'
<1> DEFINE callee == Callee(Op, Operand)
           n == Len(call_stack)
           caller == [Frame EXCEPT !.pos = Follow]
           frame == NewFrame(callee, Len(locals))
<1>1. /\ Executes({\h10, \h11}) /\ HasBody(callee) /\ UNCHANGED module
      /\ call_stack' = Append([call_stack EXCEPT ![n].pos = Follow], frame)
  BY DEF CallBody
<1>2. Structured(Func, Follow, Frame.blocks) /\ Active
  <2>1. At(Func.code, Frame.pos) \notin Openers \cup {\h0B}
    <3>1. Op \in {\h10, \h11} /\ Op = At(Func.code, Frame.pos)
      BY <1>1, RunsCode
    <3> QED BY <3>1 DEF Openers
  <2> QED BY <1>1, <2>1, RunsCode, GoesStraight
<1>3. call_stack \in Seq(FrameType) /\ n \in 1 .. n /\ n \in Nat /\ Frame \in FrameType
  BY <1>2, FrameFacts DEF IInv, FramesOK, FrameOK
<1>4. FitsCode(module, caller)
  <2>1. caller.func_idx = Frame.func_idx /\ caller.pos = Follow /\ caller.blocks = Frame.blocks
    BY <1>3 DEF FrameType
  <2> QED BY <1>2, <2>1 DEF FitsCode, Func, Body
<1>5. FitsCode(module, frame)
  <2>1. frame.func_idx = callee /\ frame.pos = 0 /\ frame.blocks = <<>>
    BY DEF NewFrame
  <2>2. PlainBody(Body(callee)) /\ Body(callee).code \in Seq(Byte)
    BY <1>1, BodyFacts DEF IInv, PlainModules, IsPlain, HasBody, Body, IsBody
  <2>3. Structured(Body(callee), 0, <<>>)
    BY <2>2, StartsBody
  <2> QED BY <2>1, <2>3 DEF FitsCode, Body
<1>6. /\ Len(call_stack') = n + 1
      /\ \A i \in 1 .. n + 1 :
           call_stack'[i] = IF i = n + 1 THEN frame ELSE IF i = n THEN caller ELSE call_stack[i]
  <2> DEFINE below == [call_stack EXCEPT ![n].pos = Follow]
  <2>1. below = [call_stack EXCEPT ![n] = caller]
    BY <1>3 DEF Frame
  <2> HIDE DEF caller, frame
  <2>2. /\ below \in Seq(FrameType \cup {caller}) /\ Len(below) = n
        /\ \A i \in 1 .. n : below[i] = IF i = n THEN caller ELSE call_stack[i]
    BY <1>3, <2>1
  <2> HIDE DEF below
  <2>3. below \in Seq(FrameType \cup {caller, frame})
    BY <2>2
  <2>4. call_stack' = Append(below, frame)
    BY <1>1 DEF below
  <2> QED BY <1>3, <2>2, <2>3, <2>4, AppendProperties
<1> HIDE DEF caller, frame
<1>7. \A i \in 1 .. Len(call_stack') : FitsCode(module', call_stack'[i])
  <2> TAKE i \in 1 .. Len(call_stack')
  <2>1. i \in 1 .. n + 1 /\ (i = n + 1 \/ i = n \/ i \in 1 .. n)
    BY <1>3, <1>6
  <2>2. i \in 1 .. n => FitsCode(module, call_stack[i])
    BY DEF InStructure
  <2> QED BY <1>1, <1>4, <1>5, <1>6, <2>1, <2>2
<1> QED BY <1>7 DEF InStructure

LEMMA EnterKeepsStructure ==
  ASSUME PlainModules, IInv, EnterFunction PROVE InStructure'
<1>1. PICK c \in Calls : CallOutcome(c) = "Entered" /\ call_stack' = <<NewFrame(FuncIdx(c.name), 0)>>
  BY DEF EnterFunction
<1> DEFINE idx == FuncIdx(c.name)
           frame == NewFrame(idx, 0)
<1>2. HasBody(idx) /\ UNCHANGED module
  BY <1>1 DEF CallOutcome, EnterFunction
<1>3. FitsCode(module, frame)
  <2>1. frame.func_idx = idx /\ frame.pos = 0 /\ frame.blocks = <<>>
    BY DEF NewFrame
  <2>2. PlainBody(Body(idx)) /\ Body(idx).code \in Seq(Byte)
    BY <1>2, BodyFacts DEF IInv, PlainModules, IsPlain, HasBody, Body, IsBody
  <2>3. Structured(Body(idx), 0, <<>>)
    BY <2>2, StartsBody
  <2> QED BY <2>1, <2>3 DEF FitsCode, Body
<1> HIDE DEF frame
<1>4. Len(call_stack') = 1 /\ call_stack'[1] = frame
  BY <1>1 DEF frame
<1>5. \A i \in 1 .. Len(call_stack') : FitsCode(module', call_stack'[i])
  BY <1>2, <1>3, <1>4
<1> QED BY <1>5 DEF InStructure

LEMMA NextInStructure ==
  ASSUME PlainModules, IInv, InStructure, [Next]_vars PROVE InStructure'
<1>1. CASE InPlace
  BY <1>1, InPlaceKeepsStructure
<1>2. CASE CallBody
  BY <1>2, CallKeepsStructure
<1>3. CASE EndOfCode
  <2> DEFINE n == Len(call_stack)
  <2>1. Active /\ UNCHANGED module /\ call_stack' = SubSeq(call_stack, 1, n - 1)
    BY <1>3 DEF EndOfCode
  <2>2. n - 1 \in 0 .. Len(call_stack) /\ n \in Nat /\ call_stack \in Seq(FrameType)
    BY <2>1, FrameFacts DEF IInv, FramesOK
  <2>3. Len(call_stack') = n - 1 /\ \A i \in 1 .. n - 1 : call_stack'[i] = call_stack[i]
    BY <2>1, <2>2, PrefixOf
  <2>4. \A i \in 1 .. Len(call_stack') : FitsCode(module', call_stack'[i])
    BY <2>1, <2>2, <2>3 DEF InStructure
  <2> QED BY <2>4 DEF InStructure
<1>4. CASE EnterFunction
  BY <1>4, EnterKeepsStructure
<1>5. CASE FramesKept
  <2>1. UNCHANGED <<module, call_stack>>
    BY <1>5, FramesKeptFacts
  <2> QED BY <2>1 DEF InStructure
<1> QED BY <1>1, <1>2, <1>3, <1>4, <1>5, StepKinds

-----------------------------------------------------------------------------

\* Every frame executes opcodes that the parser saw, with the blocks on its
\* block stack that the code has open there, after any branches, calls,
\* returns and failed calls: for all plain modules, of any size and nesting.
THEOREM StructureRuns == ASSUME PlainModules PROVE Spec => []RunsStructure
<1>1. Init => InStructure
  BY DEF Init, InStructure
<1>2. IInv /\ InStructure /\ [Next]_vars => InStructure'
  BY NextInStructure
<1>3. IInv /\ InStructure => RunsStructure
  <2> SUFFICES ASSUME IInv, InStructure, NEW i \in 1 .. Len(call_stack),
                      call_stack[i].pos < Len(Body(call_stack[i].func_idx).code)
               PROVE  LET f == call_stack[i]
                          b == Body(f.func_idx)
                      IN  /\ f.pos \in Opcodes(b.code, 0)
                          /\ {f.blocks[j].offset : j \in 1 .. Len(f.blocks)}
                               = {q + b.offset : q \in OpenAt(b.code, f.pos)}
                          /\ \A j, k \in 1 .. Len(f.blocks) : j < k => f.blocks[j].offset < f.blocks[k].offset
    BY DEF RunsStructure
  <2> DEFINE f == call_stack[i]
             b == Body(f.func_idx)
  <2>1. FrameOK(f) /\ module \in Modules
    BY DEF IInv, FramesOK
  <2>2. HasBody(f.func_idx) /\ f.blocks \in Seq(Block) /\ Len(f.blocks) \in Nat
    BY <2>1 DEF FrameOK, FrameType
  <2>3. PlainBody(b) /\ b.code \in Seq(Byte) /\ b.offset \in Nat
    BY <2>1, <2>2, BodyFacts DEF PlainModules, IsPlain, HasBody, Body, IsBody
  <2>4. Structured(b, f.pos, f.blocks)
    BY DEF InStructure, FitsCode, Body
  <2> HIDE DEF f, b
  <2>5. f.pos < Len(b.code)
    BY DEF f, b
  <2>6. {f.blocks[j].offset : j \in 1 .. Len(f.blocks)} = {q + b.offset : q \in OpenAt(b.code, f.pos)}
    <3>1. OffsetsOf(f.blocks) = OpenOffsets(b, f.pos)
      BY <2>2, <2>3, <2>4, <2>5, BlocksAreOpen
    <3> QED BY <3>1 DEF OffsetsOf, OpenOffsets
  <2>7. /\ f.pos \in Opcodes(b.code, 0)
        /\ \A j, k \in 1 .. Len(f.blocks) : j < k => f.blocks[j].offset < f.blocks[k].offset
    BY <2>4, <2>5 DEF Structured, Ops
  <2> QED BY <2>6, <2>7 DEF f, b
<1> QED BY <1>1, <1>2, <1>3, Invariance, PTL DEF Spec
=============================================================================
