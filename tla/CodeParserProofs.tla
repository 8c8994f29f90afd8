-------------------------- MODULE CodeParserProofs --------------------------
(***************************************************************************)
(* Theorems about CodeParser, for every set of inputs: the scan keeps every*)
(* block either open or resolved, never replaces a target, and puts each   *)
(* target where a jump of evaluate stays inside the code.                  *)
(***************************************************************************)
EXTENDS CodeParser, CommonProofs

BlockBefore(p) == [kind : {"Block", "Loop", "If", "Else"}, offset : func_offset .. p - 1]

Offsets(bs) == {bs[i].offset : i \in 1 .. Len(bs)}

\* Blocks were pushed in the order in which they lie in the body; so their
\* offsets differ, and resolving the innermost one touches no other.
Nested(bs) == \A i, j \in 1 .. Len(bs) : i < j => bs[i].offset < bs[j].offset

\* The inductive invariant.
IInv == TypeOK /\ EveryBlockResolved /\ TargetsInside /\ Nested(blocks)

-----------------------------------------------------------------------------
(* The block stack.                                                        *)

\* The scan moves on; what lay before it still does.
LEMMA StillBefore ==
  ASSUME func_offset \in Nat, NEW p \in Nat, NEW q \in Nat, p <= q,
         NEW bs \in Seq(BlockBefore(p))
  PROVE  bs \in Seq(BlockBefore(q))
<1>1. BlockBefore(p) \subseteq BlockBefore(q)
  BY DEF BlockBefore
<1> QED BY <1>1

\* Without its innermost block, the stack is as good.
LEMMA OuterFacts ==
  ASSUME func_offset \in Nat, NEW p \in Nat, blocks \in Seq(BlockBefore(p)), Nested(blocks),
         blocks # <<>>
  PROVE  /\ Outer \in Seq(BlockBefore(p)) /\ Nested(Outer)
         /\ Innermost.offset \in func_offset .. p - 1
         /\ Offsets(blocks) = Offsets(Outer) \cup {Innermost.offset}
         /\ Innermost.offset \notin Offsets(Outer)
<1>1. Len(blocks) \in Nat /\ Len(blocks) >= 1
  BY EmptySeq, LenProperties
<1>2. \A i \in 1 .. Len(blocks) : blocks[i] \in BlockBefore(p)
  BY ElementOfSeq
<1>3. /\ Outer \in Seq(BlockBefore(p)) /\ Len(Outer) = Len(blocks) - 1
      /\ \A i \in 1 .. Len(blocks) - 1 : Outer[i] = blocks[i]
  <2>1. Len(blocks) - 1 \in 0 .. Len(blocks)
    BY <1>1
  <2> QED BY <2>1, PrefixOf DEF Outer
<1>4. Nested(Outer)
  BY <1>1, <1>3 DEF Nested
<1>5. Innermost.offset \in func_offset .. p - 1
  BY <1>1, <1>2 DEF Innermost, BlockBefore
<1>6. Offsets(blocks) = Offsets(Outer) \cup {Innermost.offset}
  BY <1>1, <1>3 DEF Offsets, Innermost
<1>7. Innermost.offset \notin Offsets(Outer)
  <2>1. \A i \in 1 .. Len(blocks) - 1 : blocks[i].offset < Innermost.offset /\ blocks[i].offset \in Int
    BY <1>1, <1>2 DEF Nested, Innermost, BlockBefore
  <2> QED BY <1>1, <1>3, <1>5, <2>1 DEF Offsets
<1> QED BY <1>3, <1>4, <1>5, <1>6, <1>7

\* A block pushed at p.
LEMMA PushFacts ==
  ASSUME func_offset \in Nat, NEW p \in Nat, func_offset <= p,
         NEW bs \in Seq(BlockBefore(p)), Nested(bs),
         NEW kind \in {"Block", "Loop", "If", "Else"}, NEW q \in Nat, p < q,
         NEW new, new = Append(bs, [kind |-> kind, offset |-> p])
  PROVE  /\ new \in Seq(BlockBefore(q)) /\ Nested(new)
         /\ Offsets(new) = Offsets(bs) \cup {p}
         /\ p \notin Offsets(bs)
<1> DEFINE block == [kind |-> kind, offset |-> p]
<1>1. Len(bs) \in Nat /\ \A i \in 1 .. Len(bs) : bs[i] \in BlockBefore(p)
  BY ElementOfSeq, LenProperties
<1>2. bs \in Seq(BlockBefore(q)) /\ block \in BlockBefore(q)
  <2>1. bs \in Seq(BlockBefore(q))
    BY StillBefore
  <2>2. p \in func_offset .. q - 1
    OBVIOUS
  <2> QED BY <2>1, <2>2 DEF BlockBefore
<1>3. /\ new \in Seq(BlockBefore(q)) /\ Len(new) = Len(bs) + 1
      /\ \A i \in 1 .. Len(bs) : new[i] = bs[i]
      /\ new[Len(bs) + 1] = block
  BY <1>2, AppendProperties
<1>4. \A i \in 1 .. Len(bs) : bs[i].offset < p /\ bs[i].offset \in Int
  BY <1>1 DEF BlockBefore
<1>5. Nested(new)
  <2> SUFFICES ASSUME NEW i \in 1 .. Len(new), NEW j \in 1 .. Len(new), i < j
               PROVE  new[i].offset < new[j].offset
    BY DEF Nested
  <2>1. CASE j = Len(bs) + 1
    BY <1>1, <1>3, <1>4, <2>1
  <2>2. CASE j \in 1 .. Len(bs)
    BY <1>1, <1>3, <2>2 DEF Nested
  <2> QED BY <1>1, <1>3, <2>1, <2>2
<1>6. Offsets(new) = Offsets(bs) \cup {p}
  BY <1>1, <1>3 DEF Offsets
<1>7. p \notin Offsets(bs)
  BY <1>1, <1>4 DEF Offsets
<1> QED BY <1>3, <1>5, <1>6, <1>7

-----------------------------------------------------------------------------
(* Steps.                                                                  *)

\* The opcode and its operands lie inside the data.
LEMMA ScansFacts ==
  ASSUME TypeOK, NEW ops, Scans(ops)
  PROVE  /\ status = "scanning" /\ Op \in ops
         /\ func_offset \in Nat /\ pos \in Nat /\ func_offset <= pos
         /\ Follow \in Nat /\ pos + 1 <= Follow /\ Follow <= Len(data)
         /\ blocks \in Seq(BlockBefore(pos))
<1>1. Len(data) \in Nat /\ func_offset \in Nat /\ pos \in Nat /\ func_offset <= pos
  BY LenProperties DEF TypeOK
<1>2. status = "scanning" /\ Op \in ops /\ pos < Len(data) /\ Follow # Failed
  BY DEF Scans
<1>3. Follow \in pos + 1 .. Len(data)
  BY <1>1, <1>2, AfterBounds DEF Follow
<1>4. blocks \in Seq(BlockBefore(pos))
  BY DEF TypeOK, BlockBefore
<1> QED BY <1>1, <1>2, <1>3, <1>4

\* The innermost block, which has no target yet, gets one.
LEMMA ResolveFacts ==
  ASSUME IInv, blocks # <<>>, Resolve
  PROVE  /\ Innermost.offset \notin DOMAIN jump_targets
         /\ DOMAIN jump_targets' = DOMAIN jump_targets \cup {Innermost.offset}
         /\ jump_targets'[Innermost.offset] = pos + 1 - func_offset
         /\ \A k \in DOMAIN jump_targets : jump_targets'[k] = jump_targets[k]
<1>1. Len(blocks) \in 1 .. Len(blocks)
  BY EmptySeq, LenProperties DEF IInv, TypeOK
<1>2. Innermost.offset \notin DOMAIN jump_targets
  BY <1>1 DEF IInv, EveryBlockResolved, Innermost
<1> QED BY <1>2 DEF Resolve, Insert

LEMMA Grows ==
  ASSUME NEW from \in Nat, NEW p \in Nat, NEW q \in Nat, from <= p, p + 1 <= q
  PROVE  p \in from .. q - 1 /\ from .. p - 1 \subseteq from .. q - 1
OBVIOUS

\* What a step that goes on must do to keep the invariant.
LEMMA GoesOn ==
  ASSUME IInv, status = "scanning", status' \in {"scanning", "done"}, UNCHANGED <<data, func_offset>>,
         pos' \in Nat, pos + 1 <= pos', pos' <= Len(data),
         blocks' \in Seq(BlockBefore(pos')), Nested(blocks'),
         opened' \subseteq opened \cup {pos},
         opened' = DOMAIN jump_targets' \cup Offsets(blocks'),
         DOMAIN jump_targets' \cap Offsets(blocks') = {},
         \A k \in DOMAIN jump_targets' :
           \/ k \in DOMAIN jump_targets /\ jump_targets'[k] = jump_targets[k]
           \/ k \in Offsets(blocks) /\ jump_targets'[k] = pos + 1 - func_offset,
         status' = "done" => blocks' = <<>> /\ jump_targets' = jump_targets
  PROVE  IInv'
<1>1. /\ Len(data) \in Nat /\ func_offset \in Nat /\ pos \in Nat
      /\ func_offset <= pos /\ func_offset <= Len(data) /\ data \in Seq(Byte)
  BY LenProperties DEF IInv, TypeOK
<1>2. \A k \in Offsets(blocks) : k \in func_offset .. pos - 1
  <2>1. blocks \in Seq(BlockBefore(pos))
    BY DEF IInv, TypeOK, BlockBefore
  <2>2. \A i \in 1 .. Len(blocks) : blocks[i] \in BlockBefore(pos)
    BY <2>1, ElementOfSeq
  <2>3. \A i \in 1 .. Len(blocks) : blocks[i].offset \in func_offset .. pos - 1
    BY <2>2 DEF BlockBefore
  <2> QED BY <2>3 DEF Offsets
<1>3. \A k \in DOMAIN jump_targets' :
        /\ k \in func_offset .. pos - 1
        /\ jump_targets'[k] \in Nat
        /\ k + 1 < jump_targets'[k] + func_offset /\ jump_targets'[k] + func_offset <= pos + 1
  <2>1. \A k \in DOMAIN jump_targets :
          /\ k \in func_offset .. pos - 1 /\ jump_targets[k] \in Nat
          /\ k + 1 < jump_targets[k] + func_offset /\ jump_targets[k] + func_offset <= pos
    BY DEF IInv, TypeOK, TargetsInside
  <2> TAKE k \in DOMAIN jump_targets'
  <2>2. CASE k \in DOMAIN jump_targets /\ jump_targets'[k] = jump_targets[k]
    BY <1>1, <2>1, <2>2
  <2>3. CASE k \in Offsets(blocks) /\ jump_targets'[k] = pos + 1 - func_offset
    BY <1>1, <1>2, <2>3
  <2> QED BY <2>2, <2>3
<1>4. TypeOK'
  <2>1. opened' \subseteq func_offset .. pos' - 1
    <3>1. opened \subseteq func_offset .. pos - 1
      BY DEF IInv, TypeOK
    <3>2. pos \in func_offset .. pos' - 1 /\ func_offset .. pos - 1 \subseteq func_offset .. pos' - 1
      BY <1>1, Grows
    <3> QED BY <3>1, <3>2
  <2>2. blocks' \in Seq([kind : {"Block", "Loop", "If", "Else"}, offset : func_offset' .. pos' - 1])
    BY DEF BlockBefore
  <2> QED BY <1>1, <1>3, <2>1, <2>2 DEF TypeOK
<1>5. EveryBlockResolved'
  <2>1. Offsets(blocks') = {blocks'[i].offset : i \in 1 .. Len(blocks')}
    BY DEF Offsets
  <2>2. blocks' = <<>> => Offsets(blocks') = {}
    BY DEF Offsets
  <2> QED BY <2>1, <2>2 DEF EveryBlockResolved
<1>6. TargetsInside'
  <2>1. SUFFICES ASSUME NEW k \in DOMAIN jump_targets'
                 PROVE  /\ k + 1 < jump_targets'[k] + func_offset'
                        /\ jump_targets'[k] + func_offset' <= pos'
                        /\ status' = "done" => jump_targets'[k] < pos' - func_offset'
    BY DEF TargetsInside
  <2>2. status' = "done" => jump_targets'[k] + func_offset <= pos
    BY DEF IInv, TargetsInside
  <2> QED BY <1>1, <1>3, <2>2
<1> QED BY <1>4, <1>5, <1>6 DEF IInv, Nested

LEMMA OffsetsOfInvariant ==
  ASSUME IInv
  PROVE  /\ opened = DOMAIN jump_targets \cup Offsets(blocks)
         /\ DOMAIN jump_targets \cap Offsets(blocks) = {}
         /\ pos \notin opened
BY DEF IInv, TypeOK, EveryBlockResolved, Offsets
-----------------------------------------------------------------------------
(* The steps keep the invariant.                                           *)

LEMMA InitIInv == ASSUME Init PROVE IInv
<1>1. PICK in \in Inputs : data = in.data /\ func_offset = in.func_offset
  BY DEF Init
<1>2. /\ data \in Seq(Byte) /\ func_offset \in 0 .. Len(data)
      /\ pos = func_offset /\ blocks = <<>> /\ jump_targets = <<>>
      /\ status = "scanning" /\ opened = {}
  BY <1>1, InputsAssumption DEF Init
<1>3. Len(data) \in Nat /\ DOMAIN jump_targets = {} /\ Len(blocks) = 0
  BY <1>2, LenProperties
<1>4. TypeOK
  BY <1>2, <1>3 DEF TypeOK
<1>5. EveryBlockResolved
  BY <1>2, <1>3 DEF EveryBlockResolved
<1>6. TargetsInside /\ Nested(blocks)
  BY <1>2, <1>3 DEF TargetsInside, Nested
<1> QED BY <1>4, <1>5, <1>6 DEF IInv

LEMMA OpenBlockIInv == ASSUME IInv, OpenBlock PROVE IInv'
<1>1. /\ Scans(Openers) /\ TypeOK /\ Nested(blocks)
      /\ blocks' = Append(blocks, [kind |-> Kind(Op), offset |-> pos])
      /\ opened' = opened \cup {pos} /\ pos' = Follow
      /\ UNCHANGED <<data, func_offset, jump_targets, status>>
  BY DEF OpenBlock, IInv
<1>2. Kind(Op) \in {"Block", "Loop", "If", "Else"}
  BY DEF Kind
<1>3. /\ blocks' \in Seq(BlockBefore(pos')) /\ Nested(blocks')
      /\ Offsets(blocks') = Offsets(blocks) \cup {pos}
  <2>1. /\ func_offset \in Nat /\ pos \in Nat /\ func_offset <= pos
        /\ pos' \in Nat /\ pos < pos' /\ blocks \in Seq(BlockBefore(pos))
    <3>1. /\ func_offset \in Nat /\ pos \in Nat /\ func_offset <= pos
          /\ Follow \in Nat /\ pos + 1 <= Follow /\ blocks \in Seq(BlockBefore(pos))
      BY <1>1, ScansFacts
    <3> QED BY <1>1, <3>1
  <2> QED BY <1>1, <1>2, <2>1, PushFacts
<1> QED BY <1>1, <1>3, ScansFacts, OffsetsOfInvariant, GoesOn

LEMMA ElseIInv == ASSUME IInv, Else PROVE IInv'
<1>1. /\ Scans({\h05}) /\ TypeOK /\ Nested(blocks) /\ blocks # <<>> /\ Resolve
      /\ blocks' = Append(Outer, [kind |-> "Else", offset |-> pos])
      /\ opened' = opened \cup {pos} /\ pos' = Follow
      /\ UNCHANGED <<data, func_offset, status>>
  BY DEF Else, IInv
<1>2. /\ Outer \in Seq(BlockBefore(pos)) /\ Nested(Outer)
      /\ Offsets(blocks) = Offsets(Outer) \cup {Innermost.offset}
      /\ Innermost.offset \notin Offsets(Outer)
  BY <1>1, ScansFacts, OuterFacts
<1>3. /\ blocks' \in Seq(BlockBefore(pos')) /\ Nested(blocks')
      /\ Offsets(blocks') = Offsets(Outer) \cup {pos}
  <2>1. /\ func_offset \in Nat /\ pos \in Nat /\ func_offset <= pos
        /\ pos' \in Nat /\ pos < pos'
    BY <1>1, ScansFacts
  <2>2. blocks' = Append(Outer, [kind |-> "Else", offset |-> pos])
    BY <1>1
  <2>3. "Else" \in {"Block", "Loop", "If", "Else"}
    OBVIOUS
  <2>4. \A bs \in Seq(BlockBefore(pos)) : \A new :
          Nested(bs) /\ new = Append(bs, [kind |-> "Else", offset |-> pos])
            => /\ new \in Seq(BlockBefore(pos')) /\ Nested(new)
               /\ Offsets(new) = Offsets(bs) \cup {pos}
    BY <2>1, <2>3, PushFacts
  <2> QED BY <1>2, <2>2, <2>4
<1> QED BY <1>1, <1>2, <1>3, ScansFacts, ResolveFacts, OffsetsOfInvariant, GoesOn

LEMMA EndBlockIInv == ASSUME IInv, EndBlock PROVE IInv'
<1>1. /\ Scans({\h0B}) /\ TypeOK /\ Nested(blocks) /\ blocks # <<>> /\ Resolve
      /\ blocks' = Outer /\ pos' = Follow
      /\ UNCHANGED <<data, func_offset, status, opened>>
  BY DEF EndBlock, IInv
<1>2. /\ Outer \in Seq(BlockBefore(pos)) /\ Nested(Outer)
      /\ Offsets(blocks) = Offsets(Outer) \cup {Innermost.offset}
      /\ Innermost.offset \notin Offsets(Outer)
  BY <1>1, ScansFacts, OuterFacts
<1>3. blocks' \in Seq(BlockBefore(pos'))
  BY <1>1, <1>2, ScansFacts, StillBefore
<1> QED BY <1>1, <1>2, <1>3, ScansFacts, ResolveFacts, OffsetsOfInvariant, GoesOn

\* EndBody and Plain: the block stack stays as it is.
LEMMA MovesOnIInv ==
  ASSUME IInv, NEW ops, Scans(ops), pos' = Follow, status' \in {"scanning", "done"},
         status' = "done" => blocks = <<>>,
         UNCHANGED <<data, func_offset, blocks, jump_targets, opened>>
  PROVE  IInv'
<1>1. TypeOK /\ Nested(blocks)
  BY DEF IInv
<1>2. blocks' \in Seq(BlockBefore(pos'))
  BY <1>1, ScansFacts, StillBefore
<1> QED BY <1>1, <1>2, ScansFacts, OffsetsOfInvariant, GoesOn

\* ReadFails, MisplacedElse: the scan stops where it is.
LEMMA StopsIInv ==
  ASSUME IInv, status' \in {"error", "panicked"},
         UNCHANGED <<data, func_offset, pos, blocks, jump_targets, opened>>
  PROVE  IInv'
<1>1. TypeOK'
  BY DEF IInv, TypeOK
<1>2. EveryBlockResolved'
  BY DEF IInv, EveryBlockResolved
<1>3. TargetsInside' /\ Nested(blocks)'
  BY DEF IInv, TargetsInside, Nested
<1> QED BY <1>1, <1>2, <1>3 DEF IInv

LEMMA NextIInv == ASSUME IInv, [Next]_vars PROVE IInv'
<1>1. CASE OpenBlock
  BY <1>1, OpenBlockIInv
<1>2. CASE Else
  BY <1>2, ElseIInv
<1>3. CASE EndBlock
  BY <1>3, EndBlockIInv
<1>4. CASE EndBody
  BY <1>4, MovesOnIInv DEF EndBody
<1>5. CASE Plain
  <2>1. status' = "scanning"
    BY <1>5 DEF Plain, Scans
  <2> QED BY <1>5, <2>1, MovesOnIInv DEF Plain
<1>6. CASE ReadFails \/ MisplacedElse
  BY <1>6, StopsIInv DEF ReadFails, MisplacedElse
<1>7. CASE UNCHANGED vars
  BY <1>7 DEF vars, IInv, TypeOK, EveryBlockResolved, TargetsInside, Nested
<1> QED BY <1>1, <1>2, <1>3, <1>4, <1>5, <1>6, <1>7 DEF Next, Step, Returned

-----------------------------------------------------------------------------

\* The inductive invariant holds for every input.
THEOREM Invariance == Spec => []IInv
<1>1. Init => IInv
  BY InitIInv
<1>2. IInv /\ [Next]_vars => IInv'
  BY NextIInv
<1> QED BY <1>1, <1>2, PTL DEF Spec

\* Every state of the scan is well typed: positions inside the data, blocks
\* and targets only for opcodes already scanned.
THEOREM TypeCorrect == Spec => []TypeOK
<1>1. IInv => TypeOK
  BY DEF IInv
<1> QED BY <1>1, Invariance, PTL

\* Each block met is open or resolved, never both, and a scan that returns
\* Ok leaves none without a target: jump_targets of evaluate has every key.
THEOREM BlocksAreResolved == Spec => []EveryBlockResolved
<1>1. IInv => EveryBlockResolved
  BY DEF IInv
<1> QED BY <1>1, Invariance, PTL

\* Targets lie behind their block and strictly inside the code.
THEOREM TargetsStayInside == Spec => []TargetsInside
<1>1. IInv => TargetsInside
  BY DEF IInv
<1> QED BY <1>1, Invariance, PTL

\* No step replaces or removes a target.
THEOREM TargetsStayStable == Spec => TargetsStable
<1> DEFINE Kept == \A k \in DOMAIN jump_targets :
                     k \in DOMAIN jump_targets' /\ jump_targets'[k] = jump_targets[k]
<1>1. IInv /\ [Next]_vars => [Kept]_vars
  <2> SUFFICES ASSUME IInv, Next PROVE Kept
    OBVIOUS
  <2>1. CASE Else \/ EndBlock
    <3>1. blocks # <<>> /\ Resolve
      BY <2>1 DEF Else, EndBlock
    <3> QED BY <3>1, ResolveFacts
  <2>2. CASE UNCHANGED jump_targets
    BY <2>2
  <2>3. Next => Else \/ EndBlock \/ UNCHANGED jump_targets
    BY DEF Next, Step, Returned, vars, OpenBlock, EndBody, Plain, ReadFails, MisplacedElse
  <2> QED BY <2>1, <2>2, <2>3
<1> QED BY <1>1, Invariance, PTL DEF Spec, TargetsStable

\* What ModulesAssumption of Interpreter asks of jump_targets holds of every
\* body that parse_code returns: its code is the data from func_offset to
\* pos, and each target lies in 2 .. Len(code) - 1.
TargetsInCode ==
  LET code == SubSeq(data, func_offset + 1, pos)
  IN  status = "done" =>
        \A k \in DOMAIN jump_targets : jump_targets[k] \in 2 .. Len(code) - 1

\* The interpreter may assume it of every module that parse delivers.
THEOREM DeliversTargets == Spec => []TargetsInCode
<1>1. IInv => TargetsInCode
  <2> SUFFICES ASSUME IInv, status = "done", NEW k \in DOMAIN jump_targets
               PROVE  jump_targets[k] \in 2 .. Len(SubSeq(data, func_offset + 1, pos)) - 1
    BY DEF TargetsInCode
  <2>1. /\ data \in Seq(Byte) /\ func_offset \in 0 .. Len(data) /\ pos \in func_offset .. Len(data)
        /\ k \in func_offset .. pos - 1 /\ jump_targets[k] \in Nat
        /\ k + 1 < jump_targets[k] + func_offset /\ jump_targets[k] < pos - func_offset
    BY DEF IInv, TypeOK, TargetsInside
  <2>2. Len(data) \in Nat
    BY <2>1, LenProperties
  <2>3. Len(SubSeq(data, func_offset + 1, pos)) = pos - func_offset
    BY <2>1, <2>2, SubSeqProperties
  <2> QED BY <2>1, <2>2, <2>3
<1> QED BY <1>1, Invariance, PTL

-----------------------------------------------------------------------------
(* The scan and the structure of the body.                                 *)

Ops     == Opcodes(data, func_offset)
Open(p) == Depth(Ops, data, p)

\* The level of the block or else at p, and whether no else or end at level n
\* lies between p and q.
Level(p)       == Open(p) + (IF At(data, p) = \h05 THEN 0 ELSE 1)
Quiet(n, p, q) == \A r \in Ops : p < r /\ r < q /\ At(data, r) \in {\h05, \h0B} => Open(r) # n

\* The else at q belongs to an if.
Matched(q) ==
  \E p \in Ops : p < q /\ At(data, p) = \h04 /\ Open(q) = Level(p) /\ Quiet(Level(p), p, q)

\* What is known of the opcodes before pos: those from pos on are still to
\* come, the stack holds the blocks that are open, each at its level and not
\* closed yet, the others have their target, and nothing has ended the scan.
Counts == {q \in Ops : q >= pos} = Opcodes(data, pos) /\ Open(pos) = Len(blocks)

Stacked ==
  \A i \in 1 .. Len(blocks) :
    /\ Level(blocks[i].offset) = i /\ Quiet(i, blocks[i].offset, pos)
    /\ blocks[i].kind = "If" <=> At(data, blocks[i].offset) = \h04

Targeted ==
  /\ jump_targets = [k \in DOMAIN jump_targets |-> Target(data, func_offset, k)]
  /\ \A k \in DOMAIN jump_targets : ~Quiet(Level(k), k, pos)

GoneBy ==
  /\ opened = {q \in Ops : q < pos /\ At(data, q) \in Openers \cup {\h05}}
  /\ \A q \in Ops : q < pos /\ At(data, q) = \h0B => Open(q) # 0
  /\ \A q \in Ops : q < pos /\ At(data, q) = \h05 => Matched(q)

Structured == Counts /\ Stacked /\ Targeted /\ GoneBy

AInv == IInv /\ (status = "scanning" => Structured) /\ AgreesWithStructure

\* What the structure of the body is made of does not change during the scan.
LEMMA StructureKept ==
  ASSUME UNCHANGED <<data, func_offset>>
  PROVE  /\ Ops' = Ops
         /\ \A p : Open(p)' = Open(p) /\ Level(p)' = Level(p)
         /\ \A n, p, q : Quiet(n, p, q)' <=> Quiet(n, p, q)
         /\ \A q : Matched(q)' <=> Matched(q)
BY DEF Ops, Open, Level, Quiet, Matched

LEMMA OpsFacts ==
  ASSUME TypeOK
  PROVE  /\ Ops \in SUBSET Nat /\ Ops \in SUBSET Int /\ IsFiniteSet(Ops)
         /\ Ops \subseteq func_offset .. Len(data) - 1
         /\ \A p \in Int : Open(p) \in Int /\ Level(p) \in Int
<1>1. data \in Seq(Byte) /\ func_offset \in 0 .. Len(data) /\ Len(data) \in Nat
  BY LenProperties DEF TypeOK
<1>2. /\ Ops \in SUBSET Nat /\ Ops \in SUBSET Int /\ IsFiniteSet(Ops)
      /\ Ops \subseteq func_offset .. Len(data) - 1
  BY <1>1, OpcodesInside, OpcodesFinite DEF Ops
<1>3. \A p \in Int : Open(p) \in Int
  <2> HIDE DEF Ops
  <2> QED BY <1>2, DepthStep DEF Open
<1>4. ASSUME NEW p \in Int PROVE Level(p) \in Int
  <2>1. Open(p) \in Int
    BY <1>3
  <2> QED BY <2>1 DEF Level
<1> QED BY <1>2, <1>3, <1>4

\* The opcode at pos is the next one, and there is none before Follow.
LEMMA NextOpcode ==
  ASSUME TypeOK, Counts, pos < Len(data)
  PROVE  /\ pos \in Ops
         /\ Follow = Failed => \A r \in Ops : r >= pos => r = pos
         /\ Follow # Failed =>
              /\ Follow \in pos + 1 .. Len(data)
              /\ {q \in Ops : q >= Follow} = Opcodes(data, Follow)
              /\ \A r \in Ops : r < Follow <=> r < pos \/ r = pos
              /\ Open(Follow) = Open(pos) + (IF Op \in Openers THEN 1 ELSE IF Op = \h0B THEN -1 ELSE 0)
<1>1. /\ data \in Seq(Byte) /\ pos \in 0 .. Len(data) /\ Len(data) \in Nat /\ pos \in Int
      /\ Ops \in SUBSET Int /\ IsFiniteSet(Ops)
  BY LenProperties, OpsFacts DEF TypeOK
<1>2. {q \in Ops : q >= pos} = {pos} \cup (IF Follow = Failed THEN {} ELSE Opcodes(data, Follow))
  <2>1. Opcodes(data, pos) = {pos} \cup (IF Follow = Failed THEN {} ELSE Opcodes(data, Follow))
    BY <1>1, OpcodesEquation DEF Follow, Op
  <2> QED BY <2>1 DEF Counts
<1>3. pos \in Ops
  BY <1>2
<1>4. CASE Follow = Failed
  <2>1. \A r \in Ops : r >= pos => r = pos
    BY <1>2, <1>4
  <2> QED BY <1>3, <1>4, <2>1
<1>5. CASE Follow # Failed
  <2>1. Follow \in pos + 1 .. Len(data)
    BY <1>1, <1>5, AfterBounds DEF Follow
  <2>2. Opcodes(data, Follow) \subseteq Follow .. Len(data) - 1
    BY <1>1, <2>1, OpcodesInside
  <2>3. \A r \in Ops : r >= pos <=> r = pos \/ r \in Opcodes(data, Follow)
    BY <1>1, <1>2, <1>5
  <2> HIDE DEF Ops
  <2>4. \A r \in Ops : r < Follow <=> r < pos \/ r = pos
    BY <1>1, <2>1, <2>2, <2>3
  <2>5. {q \in Ops : q >= Follow} = Opcodes(data, Follow)
    <3>1. Opcodes(data, Follow) \subseteq Ops
      BY <1>2, <1>5
    <3>2. \A r \in Ops : r >= Follow <=> r \in Opcodes(data, Follow)
      <4> TAKE r \in Ops
      <4>1. r \in Opcodes(data, Follow) => r >= Follow
        BY <1>1, <2>1, <2>2
      <4>2. r >= Follow => r >= pos /\ r # pos
        BY <1>1, <2>1
      <4> QED BY <2>3, <4>1, <4>2
    <3> QED BY <3>1, <3>2
  <2>6. Open(pos + 1) = Open(pos) + (IF Op \in Openers THEN 1 ELSE IF Op = \h0B THEN -1 ELSE 0)
    <3>1. Depth(Ops, data, pos + 1) =
            Depth(Ops, data, pos)
              + (IF pos \in Ops /\ At(data, pos) \in Openers THEN 1
                 ELSE IF pos \in Ops /\ At(data, pos) = \h0B THEN -1 ELSE 0)
      BY <1>1, DepthStep
    <3> QED BY <1>3, <3>1 DEF Open, Op
  <2>7. Open(Follow) = Open(pos + 1)
    <3>1. \A r \in Ops : pos + 1 <= r => Follow <= r
      BY <1>1, <2>1, <2>4
    <3>2. pos + 1 \in Int /\ Follow \in Int /\ pos + 1 <= Follow
      BY <1>1, <2>1
    <3> QED BY <1>1, <3>1, <3>2, DepthGap DEF Open
  <2> QED BY <1>3, <1>5, <2>1, <2>4, <2>5, <2>6, <2>7
<1> QED BY <1>4, <1>5

\* It stays quiet unless the opcode at pos is an else or end of that level.
LEMMA QuietStep ==
  ASSUME TypeOK, Counts, pos < Len(data), Follow # Failed
  PROVE  \A n, p : /\ Quiet(n, p, pos) /\ (Op \in {\h05, \h0B} => Open(pos) # n) => Quiet(n, p, Follow)
                   /\ ~Quiet(n, p, pos) => ~Quiet(n, p, Follow)
BY NextOpcode DEF Quiet, Op

\* The first else or end that an if meets at its level, and the first end
\* that another block or an else meets, is where it continues.
LEMMA TargetIs ==
  ASSUME TypeOK, NEW o \in Ops, NEW q \in Ops, o < q, Open(q) = Level(o), Quiet(Level(o), o, q),
         At(data, q) = \h0B \/ (At(data, q) = \h05 /\ At(data, o) = \h04)
  PROVE  Target(data, func_offset, o) = q + 1 - func_offset
<1> DEFINE C(op) == Closers(data, func_offset, o, op)
           end == C(\h0B)
           elses == {r \in C(\h05) : end = {} \/ r < Least(end)}
<1>1. Ops \in SUBSET Nat /\ o \in Nat /\ q \in Nat
  BY OpsFacts
<1>2. \A op : C(op) = {r \in Ops : r > o /\ At(data, r) = op /\ Open(r) = Level(o)}
  BY DEF Closers, Ops, Open, Level
<1>3. Target(data, func_offset, o) =
        IF At(data, o) = \h04 /\ elses # {} THEN Least(elses) + 1 - func_offset
        ELSE Least(end) + 1 - func_offset
  BY DEF Target
<1> HIDE DEF C
<1>4. \A r \in C(\h0B) \cup C(\h05) : r \in Nat /\ q <= r
  <2> TAKE r \in C(\h0B) \cup C(\h05)
  <2>1. r \in Ops /\ r > o /\ At(data, r) \in {\h05, \h0B} /\ Open(r) = Level(o)
    BY <1>2
  <2>2. ~ (r < q)
    BY <2>1 DEF Quiet
  <2> QED BY <1>1, <2>1, <2>2
<1>5. C(\h0B) \in SUBSET Nat /\ C(\h05) \in SUBSET Nat
  BY <1>4
<1>6. CASE At(data, q) = \h0B
  <2>1. q \in end
    BY <1>2, <1>6
  <2>2. Least(end) = q
    BY <1>4, <1>5, <2>1, LeastIs
  <2>3. elses = {}
    <3>1. \A r \in C(\h05) : ~ (r < q)
      BY <1>1, <1>4
    <3> QED BY <2>1, <2>2, <3>1
  <2> QED BY <1>3, <2>2, <2>3
<1>7. CASE At(data, q) = \h05 /\ At(data, o) = \h04
  <2>1. q \in C(\h05) /\ q \notin end
    BY <1>2, <1>7
  <2>2. end = {} \/ q < Least(end)
    <3> SUFFICES ASSUME end # {} PROVE q < Least(end)
      OBVIOUS
    <3>1. Least(end) \in end
      BY <1>5, LeastFacts
    <3>2. Least(end) \in Nat /\ q <= Least(end) /\ q # Least(end)
      BY <1>4, <2>1, <3>1
    <3> QED BY <1>1, <3>2
  <2>3. q \in elses /\ elses \in SUBSET Nat /\ \A r \in elses : q <= r
    BY <1>4, <1>5, <2>1, <2>2
  <2> HIDE DEF elses, end
  <2>4. Least(elses) = q
    BY <2>3, LeastIs
  <2> QED BY <1>3, <1>7, <2>3, <2>4
<1> QED BY <1>6, <1>7

\* The innermost block is the one at the level where the scan stands.
LEMMA InnermostFacts ==
  ASSUME IInv, Structured, blocks # <<>>
  PROVE  LET o == Innermost.offset
         IN  /\ o \in Ops /\ o < pos /\ At(data, o) \in Openers \cup {\h05}
             /\ Open(pos) = Len(blocks) /\ Level(o) = Len(blocks) /\ Quiet(Len(blocks), o, pos)
             /\ Innermost.kind = "If" <=> At(data, o) = \h04
<1>1. Len(blocks) \in 1 .. Len(blocks)
  BY EmptySeq, LenProperties DEF IInv, TypeOK
<1>2. Innermost.offset \in opened
  BY <1>1, OffsetsOfInvariant DEF Offsets, Innermost
<1> QED BY <1>1, <1>2 DEF Structured, Counts, Stacked, GoneBy, Innermost

-----------------------------------------------------------------------------
(* The steps keep what is known of the structure.                          *)

\* Structured in the next state, about a body that is the same.
LEMMA StructuredNext ==
  ASSUME UNCHANGED <<data, func_offset>>,
         {q \in Ops : q >= pos'} = Opcodes(data, pos'), Open(pos') = Len(blocks'),
         \A i \in 1 .. Len(blocks') :
           /\ Level(blocks'[i].offset) = i /\ Quiet(i, blocks'[i].offset, pos')
           /\ blocks'[i].kind = "If" <=> At(data, blocks'[i].offset) = \h04,
         jump_targets' = [k \in DOMAIN jump_targets' |-> Target(data, func_offset, k)],
         \A k \in DOMAIN jump_targets' : ~Quiet(Level(k), k, pos'),
         opened' = {q \in Ops : q < pos' /\ At(data, q) \in Openers \cup {\h05}},
         \A q \in Ops : q < pos' /\ At(data, q) = \h0B => Open(q) # 0,
         \A q \in Ops : q < pos' /\ At(data, q) = \h05 => Matched(q)
  PROVE  Structured'
<1>1. Counts'
  BY DEF Counts, Ops, Open
<1>2. Stacked'
  BY DEF Stacked, Quiet, Level, Open, Ops
<1>3. Targeted'
  BY DEF Targeted, Quiet, Level, Open, Ops
<1>4. GoneBy'
  BY StructureKept DEF GoneBy
<1> QED BY <1>1, <1>2, <1>3, <1>4 DEF Structured

\* A step that scans on at Follow keeps it, if the stack it leaves is right
\* and the targets it adds are.
LEMMA ScansOn ==
  ASSUME IInv, Structured, NEW ops, Scans(ops), pos' = Follow, UNCHANGED <<data, func_offset>>,
         Open(Follow) = Len(blocks'),
         opened' = opened \cup (IF Op \in Openers \cup {\h05} THEN {pos} ELSE {}),
         Op = \h0B => Open(pos) # 0, Op = \h05 => Matched(pos),
         \A i \in 1 .. Len(blocks') :
           /\ Level(blocks'[i].offset) = i /\ Quiet(i, blocks'[i].offset, Follow)
           /\ blocks'[i].kind = "If" <=> At(data, blocks'[i].offset) = \h04,
         jump_targets' = [k \in DOMAIN jump_targets' |-> Target(data, func_offset, k)],
         \A k \in DOMAIN jump_targets' : k \in DOMAIN jump_targets \/ ~Quiet(Level(k), k, Follow)
  PROVE  Structured'
<1>1. TypeOK /\ Counts /\ Targeted /\ GoneBy /\ pos < Len(data) /\ Follow # Failed
  BY DEF IInv, Structured, Scans
<1>2. /\ {q \in Ops : q >= Follow} = Opcodes(data, Follow) /\ pos \in Ops
      /\ \A r \in Ops : r < Follow <=> r < pos \/ r = pos
  BY <1>1, NextOpcode
<1>3. opened' = {q \in Ops : q < Follow /\ At(data, q) \in Openers \cup {\h05}}
  <2>1. opened = {q \in Ops : q < pos /\ At(data, q) \in Openers \cup {\h05}}
    BY <1>1 DEF GoneBy
  <2>2. \A q : q \in opened' <=> q \in Ops /\ q < Follow /\ At(data, q) \in Openers \cup {\h05}
    BY <1>2, <2>1 DEF Op
  <2>3. \A q : q \in opened' <=> q \in {r \in Ops : r < Follow /\ At(data, r) \in Openers \cup {\h05}}
    BY <2>2
  <2> QED BY <2>1, <2>3
<1>4. /\ \A q \in Ops : q < Follow /\ At(data, q) = \h0B => Open(q) # 0
      /\ \A q \in Ops : q < Follow /\ At(data, q) = \h05 => Matched(q)
  BY <1>1, <1>2 DEF GoneBy, Op
<1>5. \A k \in DOMAIN jump_targets' : ~Quiet(Level(k), k, Follow)
  BY <1>1, QuietStep DEF Targeted
<1> HIDE DEF Follow
<1> QED BY <1>2, <1>3, <1>4, <1>5, StructuredNext

\* What the scan knows at an opcode.
LEMMA AtOpcode ==
  ASSUME IInv, Structured, NEW ops, Scans(ops)
  PROVE  /\ Op \in ops /\ Op = At(data, pos) /\ pos \in Ops /\ Open(pos) = Len(blocks)
         /\ Len(blocks) \in Nat /\ pos \in Nat /\ pos < Follow
         /\ Open(Follow) = Len(blocks) + (IF Op \in Openers THEN 1 ELSE IF Op = \h0B THEN -1 ELSE 0)
         /\ \A n : Quiet(n, pos, Follow)
         /\ \A i \in 1 .. Len(blocks) :
              /\ Level(blocks[i].offset) = i
              /\ ~(Op \in {\h05, \h0B} /\ i = Len(blocks)) => Quiet(i, blocks[i].offset, Follow)
              /\ blocks[i].kind = "If" <=> At(data, blocks[i].offset) = \h04
<1>1. /\ TypeOK /\ Counts /\ Stacked /\ pos < Len(data) /\ Follow # Failed /\ Op \in ops
      /\ Open(pos) = Len(blocks)
  BY DEF IInv, Structured, Scans, Counts
<1>2. Len(blocks) \in Nat /\ pos \in Nat /\ Ops \in SUBSET Nat
  BY <1>1, ScansFacts, LenProperties, OpsFacts
<1>3. /\ pos \in Ops /\ Follow \in pos + 1 .. Len(data)
      /\ \A r \in Ops : r < Follow <=> r < pos \/ r = pos
      /\ Open(Follow) = Open(pos) + (IF Op \in Openers THEN 1 ELSE IF Op = \h0B THEN -1 ELSE 0)
  BY <1>1, NextOpcode
<1>4. pos < Follow
  BY <1>2, <1>3
<1>5. \A n : Quiet(n, pos, Follow)
  BY <1>2, <1>3 DEF Quiet
<1>6. ASSUME NEW i \in 1 .. Len(blocks)
      PROVE  /\ Level(blocks[i].offset) = i
             /\ ~(Op \in {\h05, \h0B} /\ i = Len(blocks)) => Quiet(i, blocks[i].offset, Follow)
             /\ blocks[i].kind = "If" <=> At(data, blocks[i].offset) = \h04
  BY <1>1, QuietStep DEF Stacked
<1> QED BY <1>1, <1>2, <1>3, <1>4, <1>5, <1>6 DEF Op

\* An else or end at pos closes the innermost block, which gets its target.
LEMMA ResolvesInnermost ==
  ASSUME IInv, Structured, NEW ops, Scans(ops), blocks # <<>>, Resolve,
         Op = \h0B \/ (Op = \h05 /\ Innermost.kind = "If")
  PROVE  /\ jump_targets' = [k \in DOMAIN jump_targets' |-> Target(data, func_offset, k)]
         /\ \A k \in DOMAIN jump_targets' : k \in DOMAIN jump_targets \/ ~Quiet(Level(k), k, Follow)
         /\ Op = \h05 => Matched(pos)
<1> DEFINE o == Innermost.offset
<1>1. /\ o \in Ops /\ o < pos /\ Open(pos) = Level(o) /\ Quiet(Level(o), o, pos)
      /\ Innermost.kind = "If" <=> At(data, o) = \h04
  BY InnermostFacts
<1>2. Op = At(data, pos) /\ pos \in Ops /\ pos < Follow /\ TypeOK /\ Targeted
  BY AtOpcode DEF IInv, Structured
<1>3. At(data, pos) = \h0B \/ (At(data, pos) = \h05 /\ At(data, o) = \h04)
  BY <1>1, <1>2
<1> HIDE DEF o
<1>4. Target(data, func_offset, o) = pos + 1 - func_offset
  BY <1>1, <1>2, <1>3, TargetIs
<1>5. ~Quiet(Level(o), o, Follow)
  BY <1>1, <1>2, <1>3 DEF Quiet
<1>6. jump_targets' = [k \in DOMAIN jump_targets \cup {o} |->
                         IF k = o THEN pos + 1 - func_offset ELSE jump_targets[k]]
  BY DEF Resolve, Insert, o
<1>7. \A k \in DOMAIN jump_targets : jump_targets[k] = Target(data, func_offset, k)
  BY <1>2 DEF Targeted
<1>8. jump_targets' = [k \in DOMAIN jump_targets \cup {o} |-> Target(data, func_offset, k)]
  <2>1. \A k \in DOMAIN jump_targets \cup {o} :
          (IF k = o THEN pos + 1 - func_offset ELSE jump_targets[k]) = Target(data, func_offset, k)
    BY <1>4, <1>7
  <2> QED BY <1>6, <2>1
<1>9. DOMAIN jump_targets' = DOMAIN jump_targets \cup {o}
  BY <1>8
<1>10. Op = \h05 => Matched(pos)
  BY <1>1, <1>2, <1>3 DEF Matched
<1> QED BY <1>5, <1>8, <1>9, <1>10

LEMMA OpenBlockStructured == ASSUME IInv, Structured, OpenBlock PROVE Structured'
<1>1. /\ Scans(Openers) /\ pos' = Follow
      /\ blocks' = Append(blocks, [kind |-> Kind(Op), offset |-> pos])
      /\ opened' = opened \cup {pos}
      /\ UNCHANGED <<data, func_offset, jump_targets, status>>
  BY DEF OpenBlock
<1>2. /\ Op \in Openers /\ Op \notin {\h05, \h0B} /\ Op = At(data, pos)
      /\ Len(blocks) \in Nat /\ Open(pos) = Len(blocks) /\ Open(Follow) = Len(blocks) + 1
      /\ \A n : Quiet(n, pos, Follow)
      /\ \A i \in 1 .. Len(blocks) :
           /\ Level(blocks[i].offset) = i /\ Quiet(i, blocks[i].offset, Follow)
           /\ blocks[i].kind = "If" <=> At(data, blocks[i].offset) = \h04
  BY <1>1, AtOpcode DEF Openers
<1>3. /\ Len(blocks') = Len(blocks) + 1
      /\ \A i \in 1 .. Len(blocks) : blocks'[i] = blocks[i]
      /\ blocks'[Len(blocks) + 1] = [kind |-> Kind(Op), offset |-> pos]
  <2>1. blocks \in Seq(BlockBefore(pos))
    BY DEF IInv, TypeOK, BlockBefore
  <2>2. blocks \in Seq(BlockBefore(pos) \cup {[kind |-> Kind(Op), offset |-> pos]})
    BY <2>1
  <2> QED BY <1>1, <2>2, AppendProperties
<1>4. Level(pos) = Len(blocks) + 1 /\ (Kind(Op) = "If" <=> Op = \h04)
  BY <1>2 DEF Level, Kind, Openers
<1>5. ASSUME NEW i \in 1 .. Len(blocks')
      PROVE  /\ Level(blocks'[i].offset) = i /\ Quiet(i, blocks'[i].offset, Follow)
             /\ blocks'[i].kind = "If" <=> At(data, blocks'[i].offset) = \h04
  <2>1. CASE i \in 1 .. Len(blocks)
    BY <1>2, <1>3, <2>1
  <2>2. CASE i = Len(blocks) + 1
    <3>1. blocks'[i].kind = Kind(Op) /\ blocks'[i].offset = pos
      BY <1>3, <2>2
    <3> QED BY <1>2, <1>4, <2>2, <3>1
  <2> QED BY <1>2, <1>3, <2>1, <2>2
<1>6. jump_targets' = [k \in DOMAIN jump_targets' |-> Target(data, func_offset, k)]
  BY <1>1 DEF Structured, Targeted
<1>7. Open(Follow) = Len(blocks')
  BY <1>2, <1>3
<1>8. opened' = opened \cup (IF Op \in Openers \cup {\h05} THEN {pos} ELSE {})
  BY <1>1, <1>2
<1> QED BY <1>1, <1>2, <1>5, <1>6, <1>7, <1>8, ScansOn

LEMMA ElseStructured == ASSUME IInv, Structured, Else PROVE Structured'
<1>1. /\ Scans({\h05}) /\ blocks # <<>> /\ Innermost.kind = "If" /\ Resolve /\ pos' = Follow
      /\ blocks' = Append(Outer, [kind |-> "Else", offset |-> pos])
      /\ opened' = opened \cup {pos}
      /\ UNCHANGED <<data, func_offset, status>>
  BY DEF Else
<1>2. /\ Op = \h05 /\ Op \notin Openers /\ Op = At(data, pos)
      /\ Len(blocks) \in Nat /\ Open(pos) = Len(blocks) /\ Open(Follow) = Len(blocks)
      /\ \A n : Quiet(n, pos, Follow)
      /\ \A i \in 1 .. Len(blocks) :
           /\ Level(blocks[i].offset) = i
           /\ i # Len(blocks) => Quiet(i, blocks[i].offset, Follow)
           /\ blocks[i].kind = "If" <=> At(data, blocks[i].offset) = \h04
  BY <1>1, AtOpcode DEF Openers
<1>3. /\ Len(blocks') = Len(blocks) /\ Len(blocks) >= 1
      /\ \A i \in 1 .. Len(blocks) - 1 : blocks'[i] = blocks[i]
      /\ blocks'[Len(blocks)] = [kind |-> "Else", offset |-> pos]
  <2>1. blocks \in Seq(BlockBefore(pos))
    BY DEF IInv, TypeOK, BlockBefore
  <2>2. Len(blocks) >= 1
    BY <1>1, <2>1, EmptySeq, LenProperties
  <2>3. Len(blocks) - 1 \in 0 .. Len(blocks)
    BY <1>2, <2>2
  <2>4. /\ Outer \in Seq(BlockBefore(pos)) /\ Len(Outer) = Len(blocks) - 1
        /\ \A i \in 1 .. Len(blocks) - 1 : Outer[i] = blocks[i]
    BY <2>1, <2>3, PrefixOf DEF Outer
  <2>5. Outer \in Seq(BlockBefore(pos) \cup {[kind |-> "Else", offset |-> pos]})
    BY <2>4
  <2>6. /\ Len(blocks') = Len(Outer) + 1
        /\ \A i \in 1 .. Len(Outer) : blocks'[i] = Outer[i]
        /\ blocks'[Len(Outer) + 1] = [kind |-> "Else", offset |-> pos]
    BY <1>1, <2>5, AppendProperties
  <2> QED BY <1>2, <2>2, <2>4, <2>6
<1>4. Level(pos) = Len(blocks)
  BY <1>2 DEF Level
<1>5. ASSUME NEW i \in 1 .. Len(blocks')
      PROVE  /\ Level(blocks'[i].offset) = i /\ Quiet(i, blocks'[i].offset, Follow)
             /\ blocks'[i].kind = "If" <=> At(data, blocks'[i].offset) = \h04
  <2>1. CASE i \in 1 .. Len(blocks) - 1
    BY <1>2, <1>3, <2>1
  <2>2. CASE i = Len(blocks)
    <3>1. blocks'[i].kind = "Else" /\ blocks'[i].offset = pos
      BY <1>3, <2>2
    <3> QED BY <1>2, <1>4, <2>2, <3>1
  <2> QED BY <1>2, <1>3, <2>1, <2>2
<1>6. opened' = opened \cup (IF Op \in Openers \cup {\h05} THEN {pos} ELSE {})
  BY <1>1, <1>2
<1>7. /\ jump_targets' = [k \in DOMAIN jump_targets' |-> Target(data, func_offset, k)]
      /\ \A k \in DOMAIN jump_targets' : k \in DOMAIN jump_targets \/ ~Quiet(Level(k), k, Follow)
      /\ Op = \h05 => Matched(pos)
  BY <1>1, <1>2, ResolvesInnermost
<1>8. Open(Follow) = Len(blocks') /\ (Op = \h0B => Open(pos) # 0)
  BY <1>2, <1>3
<1> QED BY <1>1, <1>5, <1>6, <1>7, <1>8, ScansOn

LEMMA EndBlockStructured == ASSUME IInv, Structured, EndBlock PROVE Structured'
<1>1. /\ Scans({\h0B}) /\ blocks # <<>> /\ Resolve /\ blocks' = Outer /\ pos' = Follow
      /\ UNCHANGED <<data, func_offset, status, opened>>
  BY DEF EndBlock
<1>2. /\ Op = \h0B /\ Op \notin Openers \cup {\h05} /\ Op = At(data, pos)
      /\ Len(blocks) \in Nat /\ Open(pos) = Len(blocks) /\ Open(Follow) = Len(blocks) - 1
      /\ \A i \in 1 .. Len(blocks) :
           /\ Level(blocks[i].offset) = i
           /\ i # Len(blocks) => Quiet(i, blocks[i].offset, Follow)
           /\ blocks[i].kind = "If" <=> At(data, blocks[i].offset) = \h04
  BY <1>1, AtOpcode DEF Openers
<1>3. /\ Len(blocks') = Len(blocks) - 1 /\ Len(blocks) >= 1
      /\ \A i \in 1 .. Len(blocks) - 1 : blocks'[i] = blocks[i]
  <2>1. blocks \in Seq(BlockBefore(pos))
    BY DEF IInv, TypeOK, BlockBefore
  <2>2. Len(blocks) >= 1
    BY <1>1, <2>1, EmptySeq, LenProperties
  <2>3. Len(blocks) - 1 \in 0 .. Len(blocks)
    BY <1>2, <2>2
  <2> QED BY <1>1, <2>1, <2>2, <2>3, PrefixOf DEF Outer
<1>4. ASSUME NEW i \in 1 .. Len(blocks')
      PROVE  /\ Level(blocks'[i].offset) = i /\ Quiet(i, blocks'[i].offset, Follow)
             /\ blocks'[i].kind = "If" <=> At(data, blocks'[i].offset) = \h04
  <2>1. i \in 1 .. Len(blocks) /\ i # Len(blocks) /\ blocks'[i] = blocks[i]
    BY <1>2, <1>3
  <2> QED BY <1>2, <2>1
<1>5. opened' = opened \cup (IF Op \in Openers \cup {\h05} THEN {pos} ELSE {})
  BY <1>1, <1>2
<1>6. /\ jump_targets' = [k \in DOMAIN jump_targets' |-> Target(data, func_offset, k)]
      /\ \A k \in DOMAIN jump_targets' : k \in DOMAIN jump_targets \/ ~Quiet(Level(k), k, Follow)
  BY <1>1, <1>2, ResolvesInnermost
<1>7. Open(Follow) = Len(blocks') /\ Open(pos) # 0 /\ Op # \h05
  BY <1>2, <1>3
<1> QED BY <1>1, <1>4, <1>5, <1>6, <1>7, ScansOn

LEMMA PlainStructured == ASSUME IInv, Structured, Plain PROVE Structured'
<1>1. /\ Scans(Byte \ (Openers \cup {\h05, \h0B})) /\ pos' = Follow
      /\ UNCHANGED <<data, func_offset, blocks, jump_targets, status, opened>>
  BY DEF Plain
<1>2. /\ Op \notin Openers \cup {\h05, \h0B}
      /\ Len(blocks) \in Nat /\ Open(Follow) = Len(blocks)
      /\ \A i \in 1 .. Len(blocks) :
           /\ Level(blocks[i].offset) = i /\ Quiet(i, blocks[i].offset, Follow)
           /\ blocks[i].kind = "If" <=> At(data, blocks[i].offset) = \h04
  BY <1>1, AtOpcode
<1>3. opened' = opened \cup (IF Op \in Openers \cup {\h05} THEN {pos} ELSE {})
  BY <1>1, <1>2
<1>4. jump_targets' = [k \in DOMAIN jump_targets' |-> Target(data, func_offset, k)]
  BY <1>1 DEF Structured, Targeted
<1> QED BY <1>1, <1>2, <1>3, <1>4, ScansOn

-----------------------------------------------------------------------------
(* The scan ends as the structure of the body says.                        *)

\* The elses that ControlFlow calls misplaced are those that match no if.
LEMMA MisplacedIs ==
  ASSUME TypeOK
  PROVE  MisplacedElses(data, func_offset) =
           {q \in Ops : /\ At(data, q) = \h05
                        /\ \A e \in BodyEnds(data, func_offset) : q < e
                        /\ ~Matched(q)}
<1> DEFINE Met(p, q) == {r \in Closers(data, func_offset, p, \h05)
                                 \cup Closers(data, func_offset, p, \h0B) : r <= q}
<1>1. \A p, q, r : r \in Met(p, q) <=> /\ r \in Ops /\ r > p /\ r <= q /\ Open(r) = Level(p)
                                       /\ At(data, r) \in {\h05, \h0B}
  BY DEF Closers, Ops, Open, Level
<1>2. Ops \in SUBSET Nat
  BY OpsFacts
<1> HIDE DEF Met
<1>3. ASSUME NEW q \in Ops, At(data, q) = \h05, NEW p \in Ops, p < q
      PROVE  Open(q) = Level(p) /\ Quiet(Level(p), p, q) <=> {q} = Met(p, q)
  <2>1. ASSUME Open(q) = Level(p), Quiet(Level(p), p, q) PROVE {q} = Met(p, q)
    <3>1. q \in Met(p, q)
      BY <1>1, <1>2, <1>3, <2>1
    <3>2. \A r \in Met(p, q) : r = q
      <4> TAKE r \in Met(p, q)
      <4>1. r \in Ops /\ p < r /\ r <= q /\ Open(r) = Level(p) /\ At(data, r) \in {\h05, \h0B}
        BY <1>1, <1>2
      <4>2. ~(r < q)
        BY <2>1, <4>1 DEF Quiet
      <4> QED BY <1>2, <4>1, <4>2
    <3> QED BY <3>1, <3>2
  <2>2. ASSUME {q} = Met(p, q) PROVE Open(q) = Level(p) /\ Quiet(Level(p), p, q)
    <3>1. Open(q) = Level(p)
      BY <1>1, <2>2
    <3>2. ASSUME NEW r \in Ops, p < r, r < q, At(data, r) \in {\h05, \h0B}, Open(r) = Level(p)
          PROVE  FALSE
      <4>1. r \in Met(p, q)
        BY <1>1, <1>2, <3>2
      <4> QED BY <1>2, <2>2, <3>2, <4>1
    <3> QED BY <3>1, <3>2 DEF Quiet
  <2> QED BY <2>1, <2>2
<1>4. \A q \in Ops : At(data, q) = \h05 =>
        (Matched(q) <=> \E p \in {r \in Ops : r < q /\ At(data, r) = \h04} : {q} = Met(p, q))
  BY <1>3 DEF Matched
<1>5. MisplacedElses(data, func_offset) =
        {q \in Ops : /\ At(data, q) = \h05
                     /\ \A e \in BodyEnds(data, func_offset) : q < e
                     /\ \A p \in {r \in Ops : r < q /\ At(data, r) = \h04} : {q} # Met(p, q)}
  BY DEF MisplacedElses, Ops, Met
<1> QED BY <1>4, <1>5

LEMMA BodyEndsIs ==
  BodyEnds(data, func_offset) = {q \in Ops : At(data, q) = \h0B /\ Open(q) = 0}
BY DEF BodyEnds, Ops, Open

\* Else and end have no operands: reading them does not fail.
LEMMA NoOperands ==
  ASSUME Op \in {\h05, \h0B}, pos \in Nat
  PROVE  Follow = pos + 1 /\ Follow # Failed
BY DEF Follow, ParseLayout, After, Failed, LocalOps, GlobalOps, Loads

\* Ok: the end at pos is the first that closes no block.
LEMMA EndBodyAgrees == ASSUME IInv, Structured, EndBody PROVE AgreesWithStructure'
<1> DEFINE ends == BodyEnds(data, func_offset)
<1>1. /\ Scans({\h0B}) /\ blocks = <<>> /\ status' = "done" /\ pos' = Follow
      /\ UNCHANGED <<data, func_offset, blocks, jump_targets, opened>>
      /\ TypeOK /\ Targeted /\ GoneBy
  BY DEF EndBody, IInv, Structured
<1>2. /\ At(data, pos) = \h0B /\ Op = \h0B /\ pos \in Ops /\ pos \in Nat /\ Open(pos) = 0
      /\ Ops \in SUBSET Nat
  BY <1>1, AtOpcode, OpsFacts
<1>3. ends \in SUBSET Nat /\ pos \in ends /\ \A e \in ends : pos <= e
  <2>1. \A e \in ends : ~(e < pos)
    BY <1>1, BodyEndsIs DEF GoneBy
  <2>2. ends = {q \in Ops : At(data, q) = \h0B /\ Open(q) = 0}
    BY BodyEndsIs
  <2> HIDE DEF ends
  <2>3. ends \in SUBSET Nat /\ pos \in ends
    BY <1>2, <2>2
  <2> QED BY <1>2, <2>1, <2>3
<1> HIDE DEF ends
<1>4. ends # {} /\ Least(ends) = pos
  BY <1>3, LeastIs
<1>5. Follow = pos + 1
  BY <1>2, NoOperands
<1>6. MisplacedElses(data, func_offset) = {}
  <2>1. \A q \in Ops : At(data, q) = \h05 /\ (\A e \in ends : q < e) => Matched(q)
    BY <1>1, <1>3 DEF GoneBy
  <2> QED BY <1>1, <2>1, MisplacedIs DEF ends
<1>7. AfterBody(data, func_offset) = Follow
  BY <1>4, <1>5, <1>6 DEF AfterBody, ends
<1>8. jump_targets = BodyTargets(data, func_offset)
  <2>1. DOMAIN jump_targets = opened
    BY <1>1, OffsetsOfInvariant DEF Offsets
  <2>2. opened = {q \in Ops : q < pos /\ At(data, q) \in Openers \cup {\h05}}
    BY <1>1 DEF GoneBy
  <2>3. BodyTargets(data, func_offset) =
          [q \in {r \in Ops : r < pos /\ At(data, r) \in Openers \cup {\h05}}
             |-> Target(data, func_offset, q)]
    BY <1>4 DEF BodyTargets, Ops, ends
  <2> QED BY <1>1, <2>1, <2>2, <2>3 DEF Targeted
<1> QED BY <1>1, <1>7, <1>8 DEF AgreesWithStructure

\* Err: the body does not end, and no else of it is misplaced.
LEMMA ReadFailsAgrees == ASSUME IInv, Structured, ReadFails PROVE AgreesWithStructure'
<1>1. /\ status' = "error" /\ UNCHANGED <<data, func_offset>>
      /\ TypeOK /\ Counts /\ GoneBy /\ (pos < Len(data) => Follow = Failed)
  BY DEF ReadFails, IInv, Structured
<1>2. /\ data \in Seq(Byte) /\ Len(data) \in Nat /\ pos \in 0 .. Len(data) /\ pos \in Nat
      /\ Ops \in SUBSET Nat
  BY <1>1, LenProperties, OpsFacts DEF TypeOK
<1>3. \A q \in Ops : At(data, q) \in {\h05, \h0B} => q < pos
  <2> SUFFICES ASSUME NEW q \in Ops, q >= pos, At(data, q) \in {\h05, \h0B} PROVE FALSE
    BY <1>2
  <2>1. CASE pos = Len(data)
    <3>1. Opcodes(data, pos) = {}
      BY <1>2, <2>1, OpcodesEquation
    <3> QED BY <1>1, <3>1 DEF Counts
  <2>2. CASE pos < Len(data)
    <3>1. q = pos
      BY <1>1, <2>2, NextOpcode
    <3> QED BY <1>1, <1>2, <2>2, <3>1, NoOperands DEF Op
  <2> QED BY <1>2, <2>1, <2>2
<1>4. BodyEnds(data, func_offset) = {}
  BY <1>1, <1>3, BodyEndsIs DEF GoneBy
<1>5. MisplacedElses(data, func_offset) = {}
  <2>1. \A q \in Ops : At(data, q) = \h05 => Matched(q)
    BY <1>1, <1>3 DEF GoneBy
  <2> QED BY <1>1, <2>1, MisplacedIs
<1>6. AfterBody(data, func_offset) = Failed
  BY <1>4, <1>5 DEF AfterBody
<1> QED BY <1>1, <1>6 DEF AgreesWithStructure

\* A panic: the else at pos belongs to no if.
LEMMA MisplacedElseAgrees == ASSUME IInv, Structured, MisplacedElse PROVE AgreesWithStructure'
<1>1. /\ Scans({\h05}) /\ (blocks # <<>> => Innermost.kind # "If")
      /\ status' = "panicked" /\ UNCHANGED <<data, func_offset>>
      /\ TypeOK /\ Stacked /\ Targeted /\ GoneBy
  BY DEF MisplacedElse, IInv, Structured
<1>2. /\ At(data, pos) = \h05 /\ pos \in Ops /\ pos \in Nat /\ Open(pos) = Len(blocks)
      /\ Len(blocks) \in Nat /\ Ops \in SUBSET Nat
  BY <1>1, AtOpcode, OpsFacts
<1>3. \A e \in BodyEnds(data, func_offset) : pos < e
  <2> TAKE e \in BodyEnds(data, func_offset)
  <2>1. e \in Ops /\ At(data, e) = \h0B /\ Open(e) = 0
    BY BodyEndsIs
  <2>2. ~(e < pos) /\ e # pos
    BY <1>1, <1>2, <2>1 DEF GoneBy
  <2> QED BY <1>2, <2>1, <2>2
<1>4. ~Matched(pos)
  <2> SUFFICES ASSUME NEW p \in Ops, p < pos, At(data, p) = \h04,
                      Open(pos) = Level(p), Quiet(Level(p), p, pos)
               PROVE  FALSE
    BY DEF Matched
  <2>1. p \in opened
    BY <1>1 DEF GoneBy, Openers
  <2>2. p \notin DOMAIN jump_targets
    BY <1>1 DEF Targeted
  <2>3. PICK i \in 1 .. Len(blocks) : p = blocks[i].offset
    BY <2>1, <2>2, OffsetsOfInvariant DEF Offsets
  <2>4. i = Len(blocks) /\ blocks[i].kind = "If"
    BY <1>1, <1>2, <2>3 DEF Stacked
  <2>5. blocks # <<>>
    BY <1>2, <2>3, EmptySeq
  <2> QED BY <1>1, <2>4, <2>5 DEF Innermost
<1>5. pos \in MisplacedElses(data, func_offset)
  BY <1>1, <1>2, <1>3, <1>4, MisplacedIs
<1>6. AfterBody(data, func_offset) = Panicked
  BY <1>5 DEF AfterBody
<1> QED BY <1>1, <1>6 DEF AgreesWithStructure

-----------------------------------------------------------------------------

LEMMA InitAInv == ASSUME Init PROVE AInv
<1>1. /\ IInv /\ TypeOK /\ pos = func_offset /\ blocks = <<>> /\ jump_targets = <<>>
      /\ status = "scanning" /\ opened = {}
  BY InitIInv DEF Init, IInv
<1>2. /\ data \in Seq(Byte) /\ func_offset \in 0 .. Len(data) /\ func_offset \in Nat /\ Len(data) \in Nat
      /\ Ops \in SUBSET Nat /\ \A q \in Ops : q >= func_offset
  <2>1. data \in Seq(Byte) /\ func_offset \in 0 .. Len(data)
    BY <1>1 DEF TypeOK
  <2>2. Len(data) \in Nat /\ func_offset \in Nat
    BY <2>1, LenProperties
  <2>3. Ops \in SUBSET Nat /\ Ops \subseteq func_offset .. Len(data) - 1
    BY <1>1, OpsFacts
  <2> QED BY <2>1, <2>2, <2>3
<1>3. Len(blocks) = 0 /\ DOMAIN jump_targets = {}
  BY <1>1
<1>4. Counts
  <2>1. {q \in Ops : q >= func_offset} = Ops
    BY <1>2
  <2> QED BY <1>1, <1>2, <1>3, <2>1, DepthStart DEF Counts, Open, Ops
<1>5. Stacked /\ Targeted
  BY <1>1, <1>3 DEF Stacked, Targeted
<1>6. GoneBy
  <2>1. \A q \in Ops : ~(q < pos)
    BY <1>1, <1>2
  <2> QED BY <1>1, <2>1 DEF GoneBy
<1> QED BY <1>1, <1>4, <1>5, <1>6 DEF AInv, Structured, AgreesWithStructure

LEMMA NextAInv == ASSUME AInv, [Next]_vars PROVE AInv'
<1>1. IInv /\ IInv'
  BY NextIInv DEF AInv
<1>2. ASSUME Step PROVE Structured
  BY <1>2 DEF AInv, Step, OpenBlock, Else, EndBlock, EndBody, Plain, ReadFails, MisplacedElse, Scans
<1>3. ASSUME status' = "scanning" PROVE AgreesWithStructure'
  BY <1>3 DEF AgreesWithStructure
<1>4. CASE OpenBlock
  <2>1. status' = "scanning"
    BY <1>4 DEF OpenBlock, Scans
  <2> QED BY <1>1, <1>2, <1>3, <1>4, <2>1, OpenBlockStructured DEF AInv, Step
<1>5. CASE Else
  <2>1. status' = "scanning"
    BY <1>5 DEF Else, Scans
  <2> QED BY <1>1, <1>2, <1>3, <1>5, <2>1, ElseStructured DEF AInv, Step
<1>6. CASE EndBlock
  <2>1. status' = "scanning"
    BY <1>6 DEF EndBlock, Scans
  <2> QED BY <1>1, <1>2, <1>3, <1>6, <2>1, EndBlockStructured DEF AInv, Step
<1>7. CASE Plain
  <2>1. status' = "scanning"
    BY <1>7 DEF Plain, Scans
  <2> QED BY <1>1, <1>2, <1>3, <1>7, <2>1, PlainStructured DEF AInv, Step
<1>8. CASE EndBody
  <2>1. status' = "done"
    BY <1>8 DEF EndBody
  <2> QED BY <1>1, <1>2, <1>8, <2>1, EndBodyAgrees DEF AInv, Step
<1>9. CASE ReadFails
  <2>1. status' = "error"
    BY <1>9 DEF ReadFails
  <2> QED BY <1>1, <1>2, <1>9, <2>1, ReadFailsAgrees DEF AInv, Step
<1>10. CASE MisplacedElse
  <2>1. status' = "panicked"
    BY <1>10 DEF MisplacedElse
  <2> QED BY <1>1, <1>2, <1>10, <2>1, MisplacedElseAgrees DEF AInv, Step
<1>11. CASE UNCHANGED vars
  <2>1. UNCHANGED <<data, func_offset, pos, blocks, jump_targets, status, opened>>
    BY <1>11 DEF vars
  <2>2. AgreesWithStructure'
    BY <2>1 DEF AInv, AgreesWithStructure
  <2>3. ASSUME status' = "scanning" PROVE Structured'
    <3>1. Counts /\ Stacked /\ Targeted /\ GoneBy
      BY <2>1, <2>3 DEF AInv, Structured
    <3> QED BY <2>1, <3>1, StructuredNext DEF Counts, Stacked, Targeted, GoneBy
  <2> QED BY <1>1, <2>2, <2>3 DEF AInv
<1> QED BY <1>4, <1>5, <1>6, <1>7, <1>8, <1>9, <1>10, <1>11 DEF Next, Step, Returned

\* parse_opcode, which works with a stack of blocks, finds exactly the end
\* and the jump targets that counting gives, fails exactly on a body that
\* does not end, and panics exactly on an else without an if.
THEOREM ScanAgrees == Spec => []AgreesWithStructure
<1>1. Init => AInv
  BY InitAInv
<1>2. AInv /\ [Next]_vars => AInv'
  BY NextAInv
<1>3. AInv => AgreesWithStructure
  BY DEF AInv
<1> QED BY <1>1, <1>2, <1>3, PTL DEF Spec
=============================================================================
