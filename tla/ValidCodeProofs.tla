-------------------------- MODULE ValidCodeProofs --------------------------
(***************************************************************************)
(* The theorems about modules that are plain and balanced (ValidCode): the *)
(* operand stack holds what the certificate says, a call that succeeds     *)
(* leaves nothing behind, and code that does not trap fails for lack of    *)
(* memory only.                                                            *)
(*                                                                         *)
(* The invariant is Counted: the stack is divided among the frames.  Each  *)
(* instruction is shown to go on where the certificate looks (Successors)  *)
(* and to change the length of the stack by what the certificate counts    *)
(* (Goes); Counted is shown for that, for calls and for returns.           *)
(***************************************************************************)
EXTENDS StructureProofs

BalancedModules == \A m \in Modules : IsBalanced(m)

\* No body calls through the table.
DirectModules ==
  \A m \in Modules : \A i \in DOMAIN m.functions :
    m.functions[i].body # NoBody =>
      \A p \in Ops(m.functions[i].body.code) : At(m.functions[i].body.code, p) # \h11

\* What the certificate says of a frame: the heights of its function, its own
\* at its position, and the words that its function gives.
HeightsIn(m, f) == Certificate[m][f.func_idx + 1].height
HeightIn(m, f)  == HeightsIn(m, f)[f.pos]
GivesIn(m, f)   == WordsOf(m.functions[f.func_idx + 1].body.results)

\* A stack of size words is divided among the frames of cs: each has its
\* height above its floor, and a caller counts what its callee will give.
Stands(m, cs, size, ty, floor) ==
  /\ \A i \in 1 .. Len(cs) : floor[i] \in Nat /\ cs[i].pos \in DOMAIN HeightsIn(m, cs[i])
  /\ Len(cs) = 0 => size = Owed(ty)
  /\ Len(cs) > 0 => /\ floor[1] = 0 /\ GivesIn(m, cs[1]) = Owed(ty)
                    /\ floor[Len(cs)] + HeightIn(m, cs[Len(cs)]) = size
  /\ \A i \in 2 .. Len(cs) :
       floor[i - 1] + HeightIn(m, cs[i - 1]) = floor[i] + GivesIn(m, cs[i])

\* The inductive invariant, besides IInv and InStructure.
Counted ==
  mode = "running" =>
    /\ result = "none"
    /\ \E floor \in [1 .. Len(call_stack) -> Nat] :
         Stands(module, call_stack, Len(stack), call.ty, floor)

AllInv == IInv /\ InStructure /\ Counted

-----------------------------------------------------------------------------
(* The instruction at the reader, and its certificate.                     *)

Cert == CertificateOf(Frame)

\* Words that the instruction takes and gives, by the certificate.
Takes == Taken(module, Func, Cert, Frame.pos)
Puts  == Given(module, Func, Cert, Frame.pos)

\* A function that is called: words, and the certificate of its body.
LEMMA SignatureFacts ==
  ASSUME BalancedModules, IInv, NEW idx, HasBody(idx)
  PROVE  /\ HasCode(module, idx) /\ Balanced(module, Body(idx), Certificate[module][idx + 1])
         /\ Signature(module, idx) = [takes |-> Body(idx).params_len, gives |-> WordsOf(Body(idx).results)]
         /\ Body(idx).params_len \in Nat /\ WordsOf(Body(idx).results) \in Nat
         /\ Body(idx).results \in Seq(ValueType) /\ Len(Body(idx).code) \in Nat
<1>1. module \in Modules /\ IsBody(Body(idx))
  BY BodyFacts DEF IInv
<1>2. HasCode(module, idx)
  BY DEF HasCode, HasBody, Body
<1>3. Balanced(module, Body(idx), Certificate[module][idx + 1])
  BY <1>1 DEF HasBody, Body, BalancedModules, IsBalanced
<1>4. Body(idx).results \in Seq(ValueType)
  BY <1>3 DEF Balanced
<1>5. WordsOf(Body(idx).results) \in Nat
  <2>1. Len(Body(idx).results) \in Nat
    BY <1>4, LenProperties
  <2> QED BY <2>1, WordsEquation DEF WordsOf
<1>6. Body(idx).params_len \in Nat /\ Len(Body(idx).code) \in Nat
  BY <1>1 DEF IsBody
<1>7. Signature(module, idx) = [takes |-> Body(idx).params_len, gives |-> WordsOf(Body(idx).results)]
  BY <1>2 DEF Signature, Body
<1> QED BY <1>2, <1>3, <1>4, <1>5, <1>6, <1>7

\* What the certificate says of the topmost frame, where it fetches.
LEMMA TopFacts ==
  ASSUME PlainModules, BalancedModules, AllInv, Fetches
  PROVE  /\ Frame.pos \in DOMAIN Cert.height /\ Height(Frame) \in Nat
         /\ Height(Frame) <= Len(stack) /\ Len(stack) \in Nat
         /\ Resolves(module, Func, Cert, Frame.pos)
         /\ Takes <= Height(Frame)
         /\ \A q \in Successors(Func, Frame.pos) :
              q \in DOMAIN Cert.height /\ Cert.height[q] = Height(Frame) - Takes + Puts
<1>1. /\ Active /\ mode = "running" /\ Frame.pos < Len(Func.code) /\ Frame.pos # Len(Func.code)
      /\ Len(call_stack) \in 1 .. Len(call_stack) /\ Len(call_stack) > 0 /\ Len(call_stack) \in Nat
      /\ Frame = call_stack[Len(call_stack)]
  <2>1. Active
    BY DEF Fetches
  <2>2. Frame.pos < Len(Func.code) /\ Frame.pos \in Nat /\ Len(Func.code) \in Nat
    BY FetchesCode DEF AllInv
  <2> QED BY <2>1, <2>2, FrameFacts DEF AllInv, Active, Frame
<1>2. HasBody(Frame.func_idx)
  BY <1>1, FrameFacts DEF AllInv, FrameOK
<1>3. Balanced(module, Func, Cert)
  <2>1. Balanced(module, Body(Frame.func_idx), Certificate[module][Frame.func_idx + 1])
    BY <1>2, SignatureFacts DEF AllInv
  <2> QED BY <2>1 DEF Func, Cert, CertificateOf
<1>4. PICK floor \in [1 .. Len(call_stack) -> Nat] :
        Stands(module, call_stack, Len(stack), call.ty, floor)
  BY <1>1 DEF AllInv, Counted
<1>5. /\ Frame.pos \in DOMAIN Cert.height /\ floor[Len(call_stack)] \in Nat
      /\ floor[Len(call_stack)] + Height(Frame) = Len(stack)
  BY <1>1, <1>4 DEF Stands, Cert, HeightsIn, HeightIn, CertificateOf, Height
<1>6. Height(Frame) \in Nat /\ Height(Frame) = Cert.height[Frame.pos]
  BY <1>3, <1>5 DEF Balanced, Height, Cert
<1>7. Len(stack) \in Nat
  BY DEF AllInv, IInv, DataOK
<1>8. Height(Frame) <= Len(stack)
  BY <1>5, <1>6, <1>7
<1>9. Frame.pos \in DOMAIN Cert.height \ {Len(Func.code)}
  BY <1>1, <1>5
<1>10. /\ Resolves(module, Func, Cert, Frame.pos)
       /\ Taken(module, Func, Cert, Frame.pos) <= Cert.height[Frame.pos]
       /\ \A q \in Successors(Func, Frame.pos) :
            /\ q \in DOMAIN Cert.height
            /\ Cert.height[q] = Cert.height[Frame.pos] - Taken(module, Func, Cert, Frame.pos)
                                  + Given(module, Func, Cert, Frame.pos)
  BY <1>3, <1>9 DEF Balanced
<1> QED BY <1>5, <1>6, <1>7, <1>8, <1>10 DEF Takes, Puts

\* Heights are heights of positions.
LEMMA HeightDomain ==
  ASSUME PlainModules, BalancedModules, AllInv, Fetches
  PROVE  DOMAIN Cert.height \in SUBSET Nat
<1>1. Active /\ Func.code \in Seq(Byte) /\ Len(Func.code) \in Nat
  BY FetchesCode DEF AllInv, Fetches
<1>2. HasBody(Frame.func_idx)
  BY <1>1, FrameFacts DEF AllInv, FrameOK
<1>3. Balanced(module, Body(Frame.func_idx), Certificate[module][Frame.func_idx + 1])
  BY <1>2, SignatureFacts DEF AllInv
<1>4. Balanced(module, Func, Cert)
  BY <1>3 DEF Func, Cert, CertificateOf
<1>5. DOMAIN Cert.height \subseteq Ops(Func.code) \cup {Len(Func.code)}
  BY <1>4 DEF Balanced
<1>6. Ops(Func.code) \in SUBSET Nat
  BY <1>1, OpsOf
<1> QED BY <1>1, <1>5, <1>6

\* What is called takes and gives words.
LEMMA CallWords ==
  ASSUME PlainModules, BalancedModules, AllInv, Fetches, Op \in {\h10, \h11}
  PROVE  /\ CallAt(module, Func, Cert, Frame.pos).takes \in Nat
         /\ CallAt(module, Func, Cert, Frame.pos).gives \in Nat
<1>1. Op = At(Func.code, Frame.pos) /\ Resolves(module, Func, Cert, Frame.pos)
  BY FetchesCode, TopFacts DEF AllInv
<1>2. CASE Op = \h11
  <2>1. Cert.indirect[Frame.pos] \in [takes : Nat, gives : Nat]
    BY <1>1, <1>2 DEF Resolves
  <2> QED BY <1>1, <1>2, <2>1 DEF CallAt
<1>3. CASE Op = \h10
  <2>1. CallAt(module, Func, Cert, Frame.pos) = Signature(module, Operand)
    BY <1>1, <1>3 DEF CallAt, Operand, Code
  <2>2. CASE HasCode(module, Operand)
    <3>1. HasBody(Operand)
      BY <2>2 DEF HasCode, HasBody, Body
    <3> QED BY <2>1, <3>1, SignatureFacts DEF AllInv
  <2>3. CASE ~HasCode(module, Operand)
    <3>1. Operand \in DOMAIN Imports
      BY <1>1, <1>3, <2>3 DEF Resolves, Operand, Code
    <3> QED BY <2>1, <2>3, <3>1, HostAssumption DEF Signature
  <2> QED BY <2>2, <2>3
<1> QED BY <1>2, <1>3

\* The words of the instruction itself are those the code counts; calls come
\* on top.
LEMMA WordCounts ==
  ASSUME PlainModules, BalancedModules, AllInv, Fetches
  PROVE  /\ Needs(Op, Operand) \in Nat /\ Pushes(Op, Operand) \in Nat
         /\ Op \notin {\h10, \h11} =>
              Takes = Needs(Op, Operand) /\ Puts = Pushes(Op, Operand)
         /\ Op \in {\h10, \h11} =>
              LET c == CallAt(module, Func, Cert, Frame.pos)
              IN  /\ Takes = Needs(Op, Operand) + c.takes /\ Puts = c.gives
                  /\ Pushes(Op, Operand) = 0
<1>1. Needs(Op, Operand) \in Nat /\ Pushes(Op, Operand) \in Nat
  BY NeedsPushes
<1>2. Op = At(Func.code, Frame.pos) /\ Op # \h04
  BY FetchesCode DEF AllInv
<1>3. TypeFor(Op, Operand) = TypeAt(module, Func, Frame.pos)
  BY <1>2 DEF TypeFor, TypeAt, VarType, Operand, Code
<1>4. /\ Takes = Needs(Op, Operand) + CallAt(module, Func, Cert, Frame.pos).takes
      /\ Puts = Pushes(Op, Operand) + CallAt(module, Func, Cert, Frame.pos).gives
  BY <1>2, <1>3 DEF Takes, Puts, Taken, Given, Needs, Pushes
<1>5. CASE Op \notin {\h10, \h11}
  <2>1. CallAt(module, Func, Cert, Frame.pos) = [takes |-> 0, gives |-> 0]
    BY <1>2, <1>5 DEF CallAt
  <2>2. Takes = Needs(Op, Operand) + 0 /\ Puts = Pushes(Op, Operand) + 0
    BY <1>4, <2>1
  <2> QED BY <1>1, <1>5, <2>2
<1>6. CASE Op \in {\h10, \h11}
  <2>1. Pushes(Op, Operand) = 0
    BY <1>6 DEF Pushes, PushedWords, Loads, Unary, Binary
  <2>2. CallAt(module, Func, Cert, Frame.pos).gives \in Nat
    BY <1>6, CallWords
  <2> QED BY <1>1, <1>4, <1>6, <2>1, <2>2
<1> QED BY <1>1, <1>5, <1>6

LEMMA TakesPuts ==
  ASSUME PlainModules, BalancedModules, AllInv, Fetches
  PROVE  Takes \in Nat /\ Puts \in Nat
<1>1. CASE Op \notin {\h10, \h11}
  BY <1>1, WordCounts
<1>2. CASE Op \in {\h10, \h11}
  BY <1>2, WordCounts, CallWords
<1> QED BY <1>1, <1>2

\* The block stack has a block for each depth that a branch may select, and
\* do_branch goes where the certificate looks.
LEMMA BranchLands ==
  ASSUME NEW b, b.code \in Seq(Byte), b.offset \in Nat, PlainBody(b), NEW p, p < Len(b.code),
         NEW bs, Len(bs) \in Nat, Structured(b, p, bs),
         NEW d \in Depths(b.code, p), d \in 0 .. Level(b.code, p) - 1
  PROVE  LET i == Len(bs) - d
         IN  /\ i \in 1 .. Len(bs)
             /\ bs[i].kind = "Block" => bs[i].offset \in DOMAIN b.jump_targets
             /\ (IF bs[i].kind = "Block" THEN b.jump_targets[bs[i].offset] - 1
                 ELSE bs[i].body_offset) \in Successors(b, p)
<1> DEFINE i == Len(bs) - d
<1>1. Level(b.code, p) = Len(bs) /\ p \in Nat
  BY BlocksAre
<1>2. i \in 1 .. Len(bs) /\ d = Len(bs) - i
  BY <1>1
<1> HIDE DEF i
<1>3. PICK o \in Ops(b.code) :
        /\ o \in Nat /\ bs[i].offset = b.offset + o /\ o < p
        /\ At(b.code, o) \in {\h02, \h03}
        /\ bs[i].kind = (IF At(b.code, o) = \h02 THEN "Block" ELSE "Loop")
        /\ bs[i].body_offset = Beyond(b.code, o)
        /\ Level(b.code, o) = i - 1
  <2>1. BlockFits(b, p, i, bs[i])
    BY <1>1, <1>2 DEF Structured
  <2>2. Ops(b.code) \in SUBSET Nat
    BY OpsOf
  <2> QED BY <2>1, <2>2 DEF BlockFits
<1>4. o \in OpenAt(b.code, p)
  <2>1. OffsetsOf(bs) = OpenOffsets(b, p)
    BY BlocksAreOpen
  <2>2. bs[i].offset \in OpenOffsets(b, p)
    BY <1>2, <2>1 DEF OffsetsOf
  <2>3. PICK q \in OpenAt(b.code, p) : bs[i].offset = q + b.offset
    BY <2>2 DEF OpenOffsets
  <2>4. q \in Nat
    BY OpsOf DEF OpenAt, Ops
  <2> QED BY <1>3, <2>3, <2>4
<1>5. o \in Labels(b, p, d)
  <2>1. Level(b.code, o) = Level(b.code, p) - 1 - d
    BY <1>1, <1>2, <1>3
  <2> QED BY <1>4, <2>1 DEF Labels
<1>6. Landing(b, o) \in Successors(b, p)
  BY <1>5 DEF Successors
<1>7. Landing(b, o) = (IF bs[i].kind = "Block" THEN b.jump_targets[bs[i].offset] - 1
                       ELSE bs[i].body_offset)
  BY <1>3 DEF Landing
<1>8. bs[i].kind = "Block" => bs[i].offset \in DOMAIN b.jump_targets
  BY <1>3, CloserOf
<1> QED BY <1>2, <1>6, <1>7, <1>8 DEF i

-----------------------------------------------------------------------------
(* Instructions after which the topmost frame goes on.                     *)

\* The topmost frame goes on where the certificate looks.
GoesOnward ==
  \E f \in FrameType :
    SetFrame(f) /\ f.func_idx = Frame.func_idx /\ f.pos \in Successors(Func, Frame.pos)

\* And the stack has changed by what the certificate counts.
Goes ==
  /\ UNCHANGED <<module, mode, result, call>>
  /\ Len(stack') = Len(stack) - Takes + Puts
  /\ GoesOnward

LEMMA TopFrame ==
  ASSUME IInv, Active
  PROVE  /\ Frame \in FrameType /\ Frame.func_idx \in Nat /\ HasBody(Frame.func_idx)
         /\ Len(call_stack) \in 1 .. Len(call_stack) /\ Len(call_stack) \in Nat
         /\ call_stack \in Seq(FrameType) /\ Frame = call_stack[Len(call_stack)]
<1>1. FrameOK(Frame) /\ Len(call_stack) \in 1 .. Len(call_stack) /\ Len(call_stack) \in Nat
  BY FrameFacts
<1> QED BY <1>1 DEF FrameOK, FrameType, IInv, FramesOK, Frame

LEMMA ExecutesFetches ==
  ASSUME NEW ops, Executes(ops) PROVE Fetches /\ Active /\ Op \in ops
BY DEF Executes, Fetches

\* Instructions that go on behind themselves.
LEMMA AdvanceGoes ==
  ASSUME PlainModules, AllInv, NEW ops, Executes(ops), Advance,
         \A op \in ops : op \notin {\h00, \h0C, \h0E, \h0F}
  PROVE  GoesOnward
<1>1. Fetches /\ Active /\ Op \in ops
  BY ExecutesFetches
<1>2. Op = At(Func.code, Frame.pos) /\ Follow = Beyond(Func.code, Frame.pos) /\ Follow \in Nat
  BY <1>1, FetchesCode DEF AllInv
<1>3. Follow \in Successors(Func, Frame.pos)
  BY <1>1, <1>2 DEF Successors
<1> DEFINE f == [Frame EXCEPT !.pos = Follow]
<1>4. f \in FrameType /\ f.func_idx = Frame.func_idx /\ f.pos = Follow
  BY <1>1, <1>2, TopFrame DEF FrameType, AllInv
<1>5. SetFrame(f)
  BY DEF Advance
<1> QED BY <1>3, <1>4, <1>5 DEF GoesOnward

\* do_branch
LEMMA BranchGoes ==
  ASSUME PlainModules, BalancedModules, AllInv, Fetches,
         NEW depth \in Depths(Func.code, Frame.pos), Branch(depth)
  PROVE  GoesOnward
<1>1. /\ PlainBody(Func) /\ Func.code \in Seq(Byte) /\ Func.offset \in Nat
      /\ Frame.pos < Len(Func.code) /\ Frame.pos \in Nat
      /\ Frame.blocks \in Seq(Block) /\ Len(Frame.blocks) \in Nat
      /\ Structured(Func, Frame.pos, Frame.blocks)
  BY FetchesCode DEF AllInv
<1>2. depth \in 0 .. Level(Func.code, Frame.pos) - 1
  BY TopFacts DEF Resolves
<1> DEFINE i    == Len(Frame.blocks) - depth
           bs   == SubSeq(Frame.blocks, 1, i)
           next == IF Frame.blocks[i].kind = "Block" THEN Func.jump_targets[Frame.blocks[i].offset] - 1
                   ELSE Frame.blocks[i].body_offset
           f    == [Frame EXCEPT !.blocks = bs, !.pos = next]
<1>3. i \in 1 .. Len(Frame.blocks) /\ next \in Successors(Func, Frame.pos)
  BY <1>1, <1>2, BranchLands
<1>4. bs \in Seq(Block) /\ Len(bs) = i
  <2>1. i \in 0 .. Len(Frame.blocks)
    BY <1>3
  <2> QED BY <1>1, <2>1, PrefixOf
<1>5. next \in Nat
  <2>1. \A q \in Successors(Func, Frame.pos) : q \in DOMAIN Cert.height
    BY TopFacts
  <2>2. DOMAIN Cert.height \in SUBSET Nat
    BY HeightDomain
  <2> QED BY <1>3, <2>1, <2>2
<1>6. SetFrame(f)
  BY DEF Branch
<1>7. Frame \in FrameType
  BY TopFrame DEF Fetches, AllInv
<1> HIDE DEF bs, next
<1>8. f \in FrameType /\ f.func_idx = Frame.func_idx /\ f.pos = next
  BY <1>4, <1>5, <1>7 DEF FrameType
<1> QED BY <1>3, <1>6, <1>8 DEF GoesOnward

\* The instructions that stay in their frame go on where the certificate
\* looks.
LEMMA PlaceGoesOnward ==
  ASSUME PlainModules, BalancedModules, AllInv, InPlace
  PROVE  GoesOnward /\ UNCHANGED <<module, mode, result, call>>
<1>1. UNCHANGED <<module, mode, result, call>>
  BY InPlaceMoves DEF AllInv
<1>2. CASE EnterBlock
  <2> DEFINE block == [kind |-> IF Op = \h02 THEN "Block" ELSE "Loop",
                       offset |-> Func.offset + Frame.pos, body_offset |-> Follow]
             bs == Append(Frame.blocks, block)
             f  == [Frame EXCEPT !.pos = Follow, !.blocks = bs]
  <2>1. Executes({\h02, \h03}) /\ SetFrame(f)
    BY <1>2 DEF EnterBlock
  <2>2. Fetches /\ Active /\ Op \in {\h02, \h03}
    BY <2>1, ExecutesFetches
  <2>3. /\ Op = At(Func.code, Frame.pos) /\ Follow = Beyond(Func.code, Frame.pos) /\ Follow \in Nat
        /\ Func.offset \in Nat /\ Frame.pos \in Nat /\ Frame.blocks \in Seq(Block)
    BY <2>2, FetchesCode DEF AllInv
  <2>4. bs \in Seq(Block) /\ Frame \in FrameType
    <3>1. block \in Block
      BY <2>3 DEF Block
    <3> HIDE DEF block
    <3> QED BY <2>2, <2>3, <3>1, TopFrame DEF AllInv
  <2> HIDE DEF bs
  <2>5. f \in FrameType /\ f.func_idx = Frame.func_idx /\ f.pos = Follow
    BY <2>3, <2>4 DEF FrameType
  <2>6. Follow \in Successors(Func, Frame.pos)
    BY <2>2, <2>3 DEF Successors
  <2> QED BY <1>1, <2>1, <2>5, <2>6 DEF GoesOnward
<1>3. CASE End
  <2> DEFINE bs == SubSeq(Frame.blocks, 1, Len(Frame.blocks) - 1)
             f  == [Frame EXCEPT !.pos = Follow, !.blocks = bs]
  <2>1. Executes({\h0B}) /\ SetFrame(f)
    BY <1>3 DEF End
  <2>2. Fetches /\ Active /\ Op = \h0B
    BY <2>1, ExecutesFetches
  <2>3. /\ Op = At(Func.code, Frame.pos) /\ Follow = Beyond(Func.code, Frame.pos) /\ Follow \in Nat
        /\ Frame.blocks \in Seq(Block) /\ Len(Frame.blocks) \in Nat
    BY <2>2, FetchesCode DEF AllInv
  <2>4. bs \in Seq(Block) /\ Frame \in FrameType
    <3>1. CASE Len(Frame.blocks) = 0
      BY <2>2, <2>3, <3>1, TopFrame DEF AllInv
    <3>2. CASE Len(Frame.blocks) # 0
      <4>1. Len(Frame.blocks) - 1 \in 0 .. Len(Frame.blocks)
        BY <2>3, <3>2
      <4> QED BY <2>2, <2>3, <4>1, PrefixOf, TopFrame DEF AllInv
    <3> QED BY <3>1, <3>2
  <2> HIDE DEF bs
  <2>5. f \in FrameType /\ f.func_idx = Frame.func_idx /\ f.pos = Follow
    BY <2>3, <2>4 DEF FrameType
  <2>6. Follow \in Successors(Func, Frame.pos)
    BY <2>2, <2>3 DEF Successors
  <2> QED BY <1>1, <2>1, <2>5, <2>6 DEF GoesOnward
<1>4. CASE Br
  <2>1. Fetches /\ Op = \h0C /\ Branch(Operand)
    BY <1>4, ExecutesFetches DEF Br
  <2>2. Operand \in Depths(Func.code, Frame.pos)
    BY <2>1, FetchesCode DEF AllInv, Depths, Operand, Code
  <2> QED BY <1>1, <2>1, <2>2, BranchGoes
<1>5. CASE BrIf
  <2>1. Executes({\h0D}) /\ Fetches /\ Op = \h0D
    BY <1>5, ExecutesFetches DEF BrIf
  <2>2. Operand \in Depths(Func.code, Frame.pos)
    BY <2>1, FetchesCode DEF AllInv, Depths, Operand, Code
  <2>3. Branch(Operand) \/ Advance
    BY <1>5 DEF BrIf
  <2> QED BY <1>1, <2>1, <2>2, <2>3, BranchGoes, AdvanceGoes
<1>6. CASE BrTable
  <2>1. Executes({\h0E}) /\ Fetches /\ Op = \h0E /\ Branch(SelectedDepth)
    BY <1>6, ExecutesFetches DEF BrTable
  <2>2. Op = At(Func.code, Frame.pos) /\ Operand \in Nat
    BY <2>1, FetchesCode, TopFacts DEF AllInv, Resolves, Operand, Code
  <2>3. SelectedDepth \in Depths(Func.code, Frame.pos)
    BY <2>1, <2>2 DEF SelectedDepth, Depths, Operand, Code
  <2> QED BY <1>1, <2>1, <2>3, BranchGoes
<1>7. CASE Return
  <2> DEFINE f == [Frame EXCEPT !.pos = Len(Code)]
  <2>1. Executes({\h0F}) /\ SetFrame(f) /\ Fetches /\ Active /\ Op = \h0F
    BY <1>7, ExecutesFetches DEF Return
  <2>2. Op = At(Func.code, Frame.pos) /\ Len(Code) \in Nat
    BY <2>1, FetchesCode DEF AllInv, Code
  <2>3. f \in FrameType /\ f.func_idx = Frame.func_idx /\ f.pos = Len(Code)
    BY <2>1, <2>2, TopFrame DEF AllInv, FrameType
  <2>4. Len(Code) \in Successors(Func, Frame.pos)
    BY <2>1, <2>2 DEF Successors, Code
  <2> QED BY <1>1, <2>1, <2>3, <2>4 DEF GoesOnward
<1>8. CASE If \/ Else
  <2>1. Executes({\h04}) \/ Executes({\h05})
    BY <1>8 DEF If, Else
  <2>2. Fetches /\ Op \in {\h04, \h05}
    BY <2>1, ExecutesFetches
  <2> QED BY <2>2, FetchesCode DEF AllInv
<1>9. CASE \/ CallImport \/ Drop \/ Select \/ VarGet \/ LocalSet \/ GlobalSet
           \/ ConstI32 \/ ConstI64 \/ Produce \/ Store
  <2> DEFINE others == {\h10, \h11, \h1A, \h1B, \h43, \h44, \h41, \h42} \cup LocalOps \cup GlobalOps
                         \cup Loads \cup Stores \cup Unary \cup Binary
  <2>1. Executes(others) /\ Advance
    BY <1>9 DEF CallImport, Drop, Select, VarGet, LocalSet, GlobalSet, ConstI32, ConstI64, Produce,
         Store, Executes, LocalOps, GlobalOps
  <2>2. \A op \in others : op \notin {\h00, \h0C, \h0E, \h0F}
    BY DEF LocalOps, GlobalOps, Loads, Stores, Unary, Binary
  <2> HIDE DEF others
  <2> QED BY <1>1, <2>1, <2>2, AdvanceGoes
<1> QED BY <1>2, <1>3, <1>4, <1>5, <1>6, <1>7, <1>8, <1>9 DEF InPlace

\* Numbers of words, by opcode.
LEMMA WordTable ==
  ASSUME NEW type
  PROVE  /\ \A op \in {\h02, \h03, \h0B, \h0C, \h0F, \h20, \h23, \h41, \h42} : NeededWords(op, type) = 0
         /\ \A op \in {\h02, \h03, \h0B, \h0C, \h0D, \h0E, \h0F, \h1A, \h21, \h24} \cup Stores :
              PushedWords(op, type) = 0
         /\ \A op \in {\h0D, \h0E, \h1A} : NeededWords(op, type) = 1
         /\ NeededWords(\h1B, type) = 3 /\ PushedWords(\h1B, type) = 1
         /\ \A op \in {\h20, \h22, \h23} : PushedWords(op, type) = Words(type)
         /\ NeededWords(\h22, type) = Words(type)
         /\ PushedWords(\h41, type) = 1 /\ PushedWords(\h42, type) = 2
<1>1. \A op \in {\h02, \h03, \h0B, \h0C, \h0F, \h20, \h23, \h41, \h42} : NeededWords(op, type) = 0
  BY DEF NeededWords, Loads, Stores, Unary, Binary
<1>2. \A op \in {\h02, \h03, \h0B, \h0C, \h0D, \h0E, \h0F, \h1A, \h21, \h24} : PushedWords(op, type) = 0
  BY DEF PushedWords, Loads, Unary, Binary
<1>3. \A op \in Stores : PushedWords(op, type) = 0
  BY DEF PushedWords, Loads, Stores, Unary, Binary
<1>4. \A op \in {\h0D, \h0E, \h1A} : NeededWords(op, type) = 1
  BY DEF NeededWords
<1>5. NeededWords(\h1B, type) = 3 /\ PushedWords(\h1B, type) = 1
  BY DEF NeededWords, PushedWords, Loads
<1>6. NeededWords(\h22, type) = Words(type)
  BY DEF NeededWords, Loads
<1>7. \A op \in {\h20, \h22, \h23} : PushedWords(op, type) = Words(type)
  BY DEF PushedWords
<1>8. PushedWords(\h41, type) = 1 /\ PushedWords(\h42, type) = 2
  BY DEF PushedWords
<1> QED BY <1>1, <1>2, <1>3, <1>4, <1>5, <1>6, <1>7, <1>8

\* The stack after an instruction that calls nothing.
LEMMA StackAfter ==
  ASSUME IInv, InPlace, ~If, ~Else, ~CallImport
  PROVE  Len(stack') = Len(stack) - Needs(Op, Operand) + Pushes(Op, Operand) /\ Op \notin {\h10, \h11}
<1> DEFINE n == Needs(Op, Operand)
           k == Pushes(Op, Operand)
           type == TypeFor(Op, Operand)
<1>1. n = NeededWords(Op, type) /\ k = PushedWords(Op, type)
  BY DEF Needs, Pushes
<1>2. ASSUME NEW ops, Executes(ops)
      PROVE  /\ Op \in ops /\ stack \in Seq(Word) /\ Len(stack) \in Nat /\ n \in Nat /\ k \in Nat
             /\ n <= Len(stack)
             /\ Popped(n) \in Seq(Word) /\ Len(Popped(n)) = Len(stack) - n
  BY <1>2, ExecutesFacts
<1>3. \A t : Words(t) \in Nat
  BY DEF Words
<1> HIDE DEF n, k
<1>4. CASE EnterBlock \/ End \/ Br \/ Return
  <2>1. Executes({\h02, \h03, \h0B, \h0C, \h0F}) /\ stack' = stack
    BY <1>4 DEF EnterBlock, End, Br, Return, Executes
  <2>2. n = 0 /\ k = 0 /\ Op \in {\h02, \h03, \h0B, \h0C, \h0F}
    BY <1>1, <1>2, <2>1, WordTable
  <2> QED BY <1>2, <2>1, <2>2 DEF n, k
<1>5. CASE BrIf \/ BrTable \/ Drop
  <2>1. Executes({\h0D, \h0E, \h1A}) /\ stack' = Popped(1)
    BY <1>5 DEF BrIf, BrTable, Drop, Executes
  <2>2. n = 1 /\ k = 0 /\ Op \in {\h0D, \h0E, \h1A}
    BY <1>1, <1>2, <2>1, WordTable
  <2>3. Len(stack') = Len(stack) - n /\ Len(stack) \in Nat
    BY <1>2, <2>1, <2>2
  <2> QED BY <2>2, <2>3 DEF n, k
<1>6. CASE Store \/ GlobalSet \/ (LocalSet /\ Op = \h21)
  <2>1. Executes({\h21, \h24} \cup Stores) /\ stack' = Popped(n)
    BY <1>6 DEF Store, GlobalSet, LocalSet, Executes, n
  <2>2. k = 0 /\ Op \in {\h21, \h24} \cup Stores
    BY <1>1, <1>2, <2>1, WordTable
  <2>3. Len(stack') = Len(stack) - n /\ Len(stack) \in Nat /\ n \in Nat
    BY <1>2, <2>1
  <2> QED BY <2>2, <2>3 DEF n, k, Stores
<1>7. CASE LocalSet /\ Op # \h21
  <2>1. Executes({\h21, \h22}) /\ stack' = stack
    BY <1>7 DEF LocalSet
  <2>2. n = Words(type) /\ k = Words(type) /\ Op = \h22
    BY <1>1, <1>2, <1>7, <2>1, WordTable
  <2>3. Len(stack') = Len(stack) - n + k
    BY <1>2, <1>3, <2>1, <2>2
  <2> QED BY <2>2, <2>3 DEF n, k
<1>8. CASE Select
  <2> DEFINE word == IF stack[Len(stack)] = 0 THEN stack[Len(stack) - 1] ELSE stack[Len(stack) - 2]
  <2>1. Executes({\h1B}) /\ stack' = Append(Popped(3), word)
    BY <1>8 DEF Select
  <2> HIDE DEF word
  <2>2. n = 3 /\ k = 1 /\ Op = \h1B
    BY <1>1, <1>2, <2>1, WordTable
  <2>3. Len(stack') = Len(stack) - n + k
    BY <1>2, <2>1, <2>2
  <2> QED BY <2>2, <2>3 DEF n, k
<1>9. CASE VarGet
  <2> DEFINE at == VarAt(Op, Operand)
             w  == Words(VarType(Op, Operand))
             read == SubSeq(VarSpan(Op), at + 1, at + w)
  <2>1. Executes({\h20, \h23}) /\ stack' = stack \o read
    BY <1>9 DEF VarGet
  <2>2. Op \in LocalOps \cup GlobalOps /\ Op \in {\h20, \h23}
    BY <1>2, <2>1 DEF LocalOps, GlobalOps
  <2>3. at \in Nat /\ w \in Nat /\ VarSpan(Op) \in Seq(Word) /\ at + w <= Len(VarSpan(Op))
    BY <2>1, <2>2, VarFacts
  <2>4. n = 0 /\ k = w
    BY <1>1, <2>2, WordTable DEF TypeFor
  <2> HIDE DEF at, w
  <2>5. read \in Seq(Word) /\ Len(read) = w
    BY <2>3, SuffixOf
  <2> HIDE DEF read
  <2>6. Len(stack') = Len(stack) + w
    BY <1>2, <2>1, <2>5, ConcatProperties
  <2>7. Len(stack') = Len(stack) - n + k
    BY <1>2, <2>1, <2>3, <2>4, <2>6
  <2> QED BY <2>2, <2>7 DEF n, k
<1>10. CASE ConstI32
  <2> DEFINE word == Signed(Code, Frame.pos + 1) % Base
  <2>1. Executes({\h41}) /\ stack' = Append(stack, word)
    BY <1>10 DEF ConstI32
  <2> HIDE DEF word
  <2>2. n = 0 /\ k = 1 /\ Op = \h41
    BY <1>1, <1>2, <2>1, WordTable
  <2>3. Len(stack') = Len(stack) - n + k
    BY <1>2, <2>1, <2>2
  <2> QED BY <2>2, <2>3 DEF n, k
<1>11. CASE ConstI64
  <2> DEFINE low == Operand % Base
             high == Operand \div Base
  <2>1. Executes({\h42}) /\ stack' = stack \o <<low, high>>
    BY <1>11 DEF ConstI64
  <2> HIDE DEF low, high
  <2>2. n = 0 /\ k = 2 /\ Op = \h42
    BY <1>1, <1>2, <2>1, WordTable
  <2>3. Len(stack') = Len(stack) - n + k
    BY <1>2, <2>1, <2>2
  <2> QED BY <2>2, <2>3 DEF n, k
<1>12. CASE Produce
  <2> DEFINE ops == {\h43, \h44} \cup Loads \cup Unary \cup Binary
  <2>1. Executes(ops)
    BY <1>12 DEF Produce
  <2>2. PICK words \in [1 .. k -> Results] : stack' = Popped(n) \o words
    BY <1>12 DEF Produce, n, k
  <2>3. \A op \in ops : op \notin {\h10, \h11}
    BY DEF Loads, Unary, Binary
  <2> HIDE DEF ops
  <2>4. Op \in ops /\ k \in Nat /\ n \in Nat /\ Len(stack) \in Nat /\ Popped(n) \in Seq(Word)
        /\ Len(Popped(n)) = Len(stack) - n
    BY <1>2, <2>1
  <2>5. words \in Seq(Word) /\ Len(words) = k
    <3>1. words \in [1 .. k -> Word]
      BY <2>2, WordsAssumption DEF Word
    <3> QED BY <2>4, <3>1, FunctionIsSeq
  <2>6. Len(stack') = Len(Popped(n)) + k
    BY <2>2, <2>4, <2>5, ConcatProperties
  <2> QED BY <2>3, <2>4, <2>6 DEF n, k
<1> QED BY <1>4, <1>5, <1>6, <1>7, <1>8, <1>9, <1>10, <1>11, <1>12 DEF InPlace

\* What is called takes and gives what the certificate says.
LEMMA CalleeFacts ==
  ASSUME PlainModules, BalancedModules, AllInv, IndirectAsNamed, Fetches, Op \in {\h10, \h11}
  PROVE  /\ CallAt(module, Func, Cert, Frame.pos) = Signature(module, Callee(Op, Operand))
         /\ Takes = Needs(Op, Operand) + Signature(module, Callee(Op, Operand)).takes
         /\ Puts = Signature(module, Callee(Op, Operand)).gives
         /\ HasBody(Callee(Op, Operand)) \/ Callee(Op, Operand) \in DOMAIN Imports
<1>1. Op = At(Func.code, Frame.pos)
  BY FetchesCode DEF AllInv
<1>2. /\ CallAt(module, Func, Cert, Frame.pos) = Signature(module, Callee(Op, Operand))
      /\ HasCode(module, Callee(Op, Operand)) \/ Callee(Op, Operand) \in DOMAIN Imports
  <2>1. CASE Op = \h10
    BY <1>1, <2>1, TopFacts DEF CallAt, Callee, Operand, Code, Resolves
  <2>2. CASE Op = \h11
    <3>1. stack # <<>>
      <4>1. Needs(Op, Operand) = 1
        BY <2>2 DEF Needs, NeededWords
      <4>2. /\ Takes = Needs(Op, Operand) + CallAt(module, Func, Cert, Frame.pos).takes
            /\ CallAt(module, Func, Cert, Frame.pos).takes \in Nat
        BY WordCounts, CallWords
      <4>3. Takes <= Height(Frame) /\ Height(Frame) <= Len(stack) /\ Height(Frame) \in Nat
            /\ Len(stack) \in Nat
        BY TopFacts
      <4>4. Len(stack) # 0
        BY <4>1, <4>2, <4>3
      <4> QED BY <4>4
    <3> QED BY <1>1, <2>2, <3>1 DEF IndirectAsNamed, CallAt, Cert
  <2> QED BY <2>1, <2>2
<1>3. HasCode(module, Callee(Op, Operand)) => HasBody(Callee(Op, Operand))
  BY DEF HasCode, HasBody, Body
<1> QED BY <1>2, <1>3, WordCounts

LEMMA InPlaceGoes ==
  ASSUME PlainModules, BalancedModules, AllInv, IndirectAsNamed, InPlace
  PROVE  Goes /\ Fetches
<1>1. GoesOnward /\ UNCHANGED <<module, mode, result, call>>
  BY PlaceGoesOnward
<1>2. PICK ops : Executes(ops)
  BY DEF InPlace, EnterBlock, If, Else, End, Br, BrIf, BrTable, Return, CallImport,
         Drop, Select, VarGet, LocalSet, GlobalSet, ConstI32, ConstI64, Produce, Store
<1>3. Fetches
  BY <1>2, ExecutesFetches
<1>4. ~If /\ ~Else
  <2>1. Op \notin {\h04, \h05}
    BY <1>3, FetchesCode DEF AllInv
  <2> QED BY <2>1 DEF If, Else, Executes
<1>5. CASE ~CallImport
  <2>1. Len(stack') = Len(stack) - Needs(Op, Operand) + Pushes(Op, Operand) /\ Op \notin {\h10, \h11}
    BY <1>4, <1>5, StackAfter DEF AllInv
  <2>2. Takes = Needs(Op, Operand) /\ Puts = Pushes(Op, Operand)
    BY <1>3, <2>1, WordCounts
  <2> QED BY <1>1, <1>3, <2>1, <2>2 DEF Goes
<1>6. CASE CallImport
  <2> DEFINE callee == Callee(Op, Operand)
             n == Needs(Op, Operand) + Imports[callee]
  <2>1. Executes({\h10, \h11}) /\ ~HasBody(callee) /\ stack' = Popped(n)
    BY <1>6 DEF CallImport
  <2>2. /\ NoPanic(Op, Operand) /\ Op \in {\h10, \h11} /\ stack \in Seq(Word) /\ Len(stack) \in Nat
        /\ Needs(Op, Operand) \in 0 .. Len(stack)
    BY <2>1, ExecutesFacts DEF AllInv
  <2>3. Imports[callee] \in Nat /\ Imports[callee] <= Len(stack) - Needs(Op, Operand)
    BY <2>1, <2>2, HostAssumption DEF NoPanic, Callable
  <2>4. Signature(module, callee) = [takes |-> Imports[callee], gives |-> 0]
    BY <2>1 DEF Signature, HasCode, HasBody, Body
  <2>5. Takes = n /\ Puts = 0
    BY <1>3, <2>2, <2>4, CalleeFacts
  <2> HIDE DEF callee
  <2>6. n \in Nat /\ n <= Len(stack)
    BY <2>2, <2>3
  <2>7. Len(stack') = Len(stack) - n
    BY <2>1, <2>2, <2>6, PoppedType
  <2> HIDE DEF n
  <2>8. Len(stack') = Len(stack) - Takes + Puts
    BY <2>2, <2>5, <2>6, <2>7
  <2> QED BY <1>1, <1>3, <2>8 DEF Goes
<1> QED BY <1>5, <1>6

-----------------------------------------------------------------------------
(* Counted, over each step.                                                *)

\* The arithmetic of a frame with height h above its floor, whose instruction
\* takes t words and gives p.
LEMMA Sums ==
  ASSUME NEW floor \in Nat, NEW h \in Nat, NEW t \in Nat, NEW p \in Nat, NEW size \in Nat,
         floor + h = size, t <= h
  PROVE  floor + (h - t + p) = size - t + p
OBVIOUS

\* A step after which the frames stand as before but for the topmost one,
\* which has its height of the new stack.
LEMMA TopStands ==
  ASSUME NEW m, NEW cs, NEW size, NEW ty, NEW floor, Stands(m, cs, size, ty, floor),
         Len(cs) \in Nat, Len(cs) > 0,
         NEW ds, NEW f, Len(ds) = Len(cs),
         \A i \in 1 .. Len(cs) : ds[i] = IF i = Len(cs) THEN f ELSE cs[i],
         GivesIn(m, f) = GivesIn(m, cs[Len(cs)]), f.pos \in DOMAIN HeightsIn(m, f),
         NEW words, floor[Len(cs)] + HeightIn(m, f) = words
  PROVE  Stands(m, ds, words, ty, floor)
<1> DEFINE n == Len(cs)
<1> n \in Nat /\ n > 0
  OBVIOUS
<1>1. \A i \in 1 .. n : floor[i] \in Nat /\ ds[i].pos \in DOMAIN HeightsIn(m, ds[i])
  BY DEF Stands
<1>2. floor[1] = 0 /\ GivesIn(m, ds[1]) = Owed(ty) /\ floor[n] + HeightIn(m, ds[n]) = words
  BY DEF Stands
<1>3. ASSUME NEW i \in 2 .. n
      PROVE  floor[i - 1] + HeightIn(m, ds[i - 1]) = floor[i] + GivesIn(m, ds[i])
  <2>1. i - 1 \in 1 .. n /\ i - 1 # n /\ i \in 1 .. n
    OBVIOUS
  <2>2. ds[i - 1] = cs[i - 1] /\ GivesIn(m, ds[i]) = GivesIn(m, cs[i])
    BY <2>1
  <2> QED BY <2>2 DEF Stands
<1> QED BY <1>1, <1>2, <1>3 DEF Stands

\* The frames of an active context, and how they stand.
LEMMA ActiveStands ==
  ASSUME AllInv, Active
  PROVE  /\ Len(call_stack) \in 1 .. Len(call_stack) /\ Len(call_stack) \in Nat /\ Len(call_stack) > 0
         /\ Frame = call_stack[Len(call_stack)] /\ mode = "running" /\ result = "none"
         /\ call_stack \in Seq(FrameType) /\ Frame \in FrameType
         /\ \E floor \in [1 .. Len(call_stack) -> Nat] :
              Stands(module, call_stack, Len(stack), call.ty, floor)
<1>1. Len(call_stack) \in 1 .. Len(call_stack) /\ Len(call_stack) \in Nat
  BY TopFrame DEF AllInv
<1>2. Len(call_stack) > 0
  BY <1>1
<1> QED BY <1>1, <1>2, TopFrame DEF AllInv, Active, Counted

LEMMA GoesCounted ==
  ASSUME PlainModules, BalancedModules, AllInv, Fetches, Goes
  PROVE  Counted'
<1> DEFINE n == Len(call_stack)
<1>1. /\ n \in 1 .. n /\ n \in Nat /\ n > 0 /\ Frame = call_stack[n] /\ Active /\ result = "none"
      /\ call_stack \in Seq(FrameType)
  BY ActiveStands DEF Fetches
<1>2. PICK floor \in [1 .. n -> Nat] : Stands(module, call_stack, Len(stack), call.ty, floor)
  BY <1>1, ActiveStands
<1>3. PICK f \in FrameType :
        SetFrame(f) /\ f.func_idx = Frame.func_idx /\ f.pos \in Successors(Func, Frame.pos)
  BY DEF Goes, GoesOnward
<1>4. Len(call_stack') = n /\ \A i \in 1 .. n : call_stack'[i] = IF i = n THEN f ELSE call_stack[i]
  BY <1>1, <1>3, SetFrameFacts DEF AllInv
<1>5. UNCHANGED <<module, mode, result, call>> /\ Len(stack') = Len(stack) - Takes + Puts
  BY DEF Goes
<1>6. /\ f.pos \in DOMAIN HeightsIn(module, f) /\ GivesIn(module, f) = GivesIn(module, Frame)
      /\ HeightIn(module, f) = Height(Frame) - Takes + Puts
      /\ Height(Frame) \in Nat /\ HeightIn(module, Frame) = Height(Frame)
  BY <1>3, TopFacts DEF HeightsIn, HeightIn, GivesIn, Cert, CertificateOf, Height
<1>7. floor[n] + HeightIn(module, f) = Len(stack')
  <2>1. floor[n] + Height(Frame) = Len(stack) /\ floor[n] \in Nat
    BY <1>1, <1>2, <1>6 DEF Stands
  <2> HIDE DEF n
  <2>2. /\ Takes \in Nat /\ Puts \in Nat /\ Height(Frame) \in Nat /\ Takes <= Height(Frame)
        /\ Len(stack) \in Nat
    BY <1>6, TakesPuts, TopFacts
  <2>3. floor[n] + (Height(Frame) - Takes + Puts) = Len(stack) - Takes + Puts
    BY <2>1, <2>2, Sums
  <2> QED BY <1>5, <1>6, <2>3
<1> HIDE DEF n
<1>8. Stands(module, call_stack', Len(stack'), call.ty, floor)
  BY <1>1, <1>2, <1>4, <1>6, <1>7, TopStands DEF n
<1> QED BY <1>1, <1>2, <1>4, <1>5, <1>8 DEF Counted, n

LEMMA CalledStack ==
  ASSUME call_stack \in Seq(FrameType), Len(call_stack) \in Nat, Len(call_stack) > 0, NEW pos, NEW frame,
         call_stack' = Append([call_stack EXCEPT ![Len(call_stack)].pos = pos], frame)
  PROVE  /\ Len(call_stack') = Len(call_stack) + 1
         /\ \A i \in 1 .. Len(call_stack) + 1 :
              call_stack'[i] = IF i = Len(call_stack) + 1 THEN frame
                               ELSE IF i = Len(call_stack) THEN [Frame EXCEPT !.pos = pos]
                               ELSE call_stack[i]
<1> DEFINE n == Len(call_stack)
           caller == [Frame EXCEPT !.pos = pos]
           below == [call_stack EXCEPT ![n].pos = pos]
<1>1. below = [call_stack EXCEPT ![n] = caller]
  BY DEF Frame
<1> HIDE DEF caller
<1>2. /\ below \in Seq(FrameType \cup {caller}) /\ Len(below) = n
      /\ \A i \in 1 .. n : below[i] = IF i = n THEN caller ELSE call_stack[i]
  BY <1>1
<1> HIDE DEF below
<1>3. below \in Seq(FrameType \cup {caller, frame})
  BY <1>2
<1>4. call_stack' = Append(below, frame)
  BY DEF below
<1> HIDE DEF n
<1>5. n \in Nat /\ n > 0
  BY DEF n
<1>6. /\ Len(call_stack') = n + 1 /\ call_stack'[n + 1] = frame
      /\ \A i \in 1 .. n : call_stack'[i] = below[i]
  BY <1>2, <1>3, <1>4, AppendProperties
<1>7. \A i \in 1 .. n + 1 : i # n + 1 => i \in 1 .. n
  BY <1>5
<1> QED BY <1>2, <1>5, <1>6, <1>7 DEF caller, n

\* do_call: the callee stands on what the caller keeps.
LEMMA CallCounted ==
  ASSUME PlainModules, BalancedModules, AllInv, IndirectAsNamed, CallBody
  PROVE  Counted'
<1> DEFINE n      == Len(call_stack)
           callee == Callee(Op, Operand)
           caller == [Frame EXCEPT !.pos = Follow]
           frame  == NewFrame(callee, Len(locals))
<1>1. /\ Executes({\h10, \h11}) /\ HasBody(callee) /\ UNCHANGED <<module, mode, result, call>>
      /\ call_stack' = Append([call_stack EXCEPT ![n].pos = Follow], frame)
      /\ stack' = SubSeq(stack, 1, Len(stack) - Needs(Op, Operand) - Body(callee).params_len)
  BY DEF CallBody
<1>2. Fetches /\ Active /\ Op \in {\h10, \h11} /\ Op = At(Func.code, Frame.pos)
      /\ Follow = Beyond(Func.code, Frame.pos)
  BY <1>1, ExecutesFetches, FetchesCode DEF AllInv
<1>3. /\ n \in 1 .. n /\ n \in Nat /\ n > 0 /\ Frame = call_stack[n] /\ result = "none"
      /\ call_stack \in Seq(FrameType) /\ Frame \in FrameType
  BY <1>2, ActiveStands
<1>4. PICK floor \in [1 .. n -> Nat] : Stands(module, call_stack, Len(stack), call.ty, floor)
  BY <1>2, ActiveStands
<1>5. /\ Len(call_stack') = n + 1
      /\ \A i \in 1 .. n + 1 :
           call_stack'[i] = IF i = n + 1 THEN frame ELSE IF i = n THEN caller ELSE call_stack[i]
  BY <1>1, <1>3, CalledStack
<1>6. /\ Height(Frame) \in Nat /\ Takes \in Nat /\ Puts \in Nat /\ Takes <= Height(Frame)
      /\ Len(stack) \in Nat /\ floor[n] \in Nat /\ floor[n] + Height(Frame) = Len(stack)
      /\ HeightIn(module, Frame) = Height(Frame)
  BY <1>2, <1>3, <1>4, TopFacts, TakesPuts DEF Stands, HeightIn, HeightsIn, Height, CertificateOf
<1>7. /\ caller.pos \in DOMAIN HeightsIn(module, caller)
      /\ HeightIn(module, caller) = Height(Frame) - Takes + Puts
      /\ GivesIn(module, caller) = GivesIn(module, Frame)
  <2>1. caller.func_idx = Frame.func_idx /\ caller.pos = Follow
    BY <1>3 DEF FrameType
  <2>2. Follow \in Successors(Func, Frame.pos)
    BY <1>2 DEF Successors
  <2>3. Follow \in DOMAIN Cert.height /\ Cert.height[Follow] = Height(Frame) - Takes + Puts
    BY <1>2, <2>2, TopFacts
  <2> HIDE DEF caller
  <2> QED BY <2>1, <2>3 DEF HeightsIn, HeightIn, GivesIn, Cert, CertificateOf
<1>8. /\ frame.pos \in DOMAIN HeightsIn(module, frame) /\ HeightIn(module, frame) = 0
      /\ Puts = GivesIn(module, frame) /\ Takes = Needs(Op, Operand) + Body(callee).params_len
  <2>1. frame.func_idx = callee /\ frame.pos = 0
    BY DEF NewFrame
  <2>2. /\ Balanced(module, Body(callee), Certificate[module][callee + 1])
        /\ Signature(module, callee)
             = [takes |-> Body(callee).params_len, gives |-> WordsOf(Body(callee).results)]
    BY <1>1, SignatureFacts DEF AllInv
  <2>3. /\ Takes = Needs(Op, Operand) + Signature(module, callee).takes
        /\ Puts = Signature(module, callee).gives
    BY <1>2, CalleeFacts
  <2>4. 0 \in DOMAIN Certificate[module][callee + 1].height /\ Certificate[module][callee + 1].height[0] = 0
    BY <2>2 DEF Balanced
  <2> HIDE DEF frame, callee
  <2> QED BY <2>1, <2>2, <2>3, <2>4 DEF HeightsIn, HeightIn, GivesIn, Body
<1> HIDE DEF caller, frame
<1>9. Len(stack') = Len(stack) - Takes
  <2>1. Needs(Op, Operand) \in Nat /\ Body(callee).params_len \in Nat /\ stack \in Seq(Word)
    BY <1>1, <1>2, WordCounts, SignatureFacts DEF AllInv, IInv, DataOK
  <2> DEFINE rest == Len(stack) - Needs(Op, Operand) - Body(callee).params_len
             needs == Needs(Op, Operand)
             takes == Body(callee).params_len
  <2> HIDE DEF callee, needs, takes
  <2>2. /\ needs \in Nat /\ takes \in Nat /\ Takes = needs + takes /\ Len(stack) \in Nat
        /\ Takes <= Len(stack) /\ rest = Len(stack) - needs - takes
    BY <1>2, <1>6, <1>8, <2>1, TopFacts DEF needs, takes
  <2>3. stack' = SubSeq(stack, 1, rest)
    BY <1>1 DEF callee
  <2> HIDE DEF rest
  <2>4. rest = Len(stack) - Takes /\ rest \in 0 .. Len(stack)
    BY <2>2
  <2> QED BY <2>1, <2>3, <2>4, PrefixOf
<1> DEFINE bottom == Len(stack) - Takes
           floors == [i \in 1 .. n + 1 |-> IF i = n + 1 THEN bottom ELSE floor[i]]
<1>10. bottom \in Nat /\ bottom = Len(stack') /\ floor[n] + HeightIn(module, caller) = bottom + Puts
  <2> HIDE DEF n, caller
  <2>1. /\ Height(Frame) \in Nat /\ Takes \in Nat /\ Puts \in Nat /\ Takes <= Height(Frame)
        /\ Len(stack) \in Nat
    BY <1>6
  <2>2. floor[n] \in Nat /\ floor[n] + Height(Frame) = Len(stack)
    BY <1>6
  <2>3. Len(stack) - Takes \in Nat
    BY <2>1, TopFacts, <1>2
  <2>4. floor[n] + (Height(Frame) - Takes + Puts) = Len(stack) - Takes + Puts
    BY <2>1, <2>2, Sums
  <2> QED BY <1>7, <1>9, <2>3, <2>4
<1> HIDE DEF bottom, n
<1>11. /\ floors \in [1 .. n + 1 -> Nat] /\ floors[n + 1] = bottom
       /\ \A i \in 1 .. n : floors[i] = floor[i]
  BY <1>3, <1>4, <1>10
<1> HIDE DEF floors
<1>12. Stands(module, call_stack', Len(stack'), call.ty, floors)
  <2> DEFINE cs == call_stack'
  <2>1. /\ Len(cs) = n + 1 /\ cs[n + 1] = frame /\ cs[n] = caller
        /\ \A i \in 1 .. n : i # n => cs[i] = call_stack[i]
    BY <1>3, <1>5
  <2> HIDE DEF cs
  <2>2. \A i \in 1 .. n + 1 : floors[i] \in Nat /\ cs[i].pos \in DOMAIN HeightsIn(module, cs[i])
    <3> TAKE i \in 1 .. n + 1
    <3>1. i = n + 1 \/ i = n \/ (i \in 1 .. n /\ i # n)
      BY <1>3
    <3> QED BY <1>3, <1>4, <1>7, <1>8, <1>11, <2>1, <3>1 DEF Stands, n
  <2>3. floors[1] = 0 /\ GivesIn(module, cs[1]) = Owed(call.ty)
    <3>1. floor[1] = 0 /\ GivesIn(module, call_stack[1]) = Owed(call.ty) /\ 1 \in 1 .. n
      BY <1>3, <1>4 DEF Stands, n
    <3>2. GivesIn(module, cs[1]) = GivesIn(module, call_stack[1])
      BY <1>3, <1>7, <2>1, <3>1
    <3> QED BY <1>11, <3>1, <3>2
  <2>4. floors[n + 1] + HeightIn(module, cs[n + 1]) = Len(stack')
    BY <1>8, <1>10, <1>11, <2>1
  <2>5. ASSUME NEW i \in 2 .. n + 1
        PROVE  floors[i - 1] + HeightIn(module, cs[i - 1]) = floors[i] + GivesIn(module, cs[i])
    <3>1. CASE i = n + 1
      <4>1. i - 1 = n /\ n \in 1 .. n
        BY <1>3, <3>1
      <4> QED BY <1>8, <1>10, <1>11, <2>1, <3>1, <4>1
    <3>2. CASE i # n + 1
      <4>1. i \in 2 .. n /\ i \in 1 .. n /\ i - 1 \in 1 .. n /\ i - 1 # n
        BY <1>3, <3>2
      <4>2. floor[i - 1] + HeightIn(module, call_stack[i - 1]) = floor[i] + GivesIn(module, call_stack[i])
        BY <1>4, <4>1 DEF Stands, n
      <4>3. cs[i - 1] = call_stack[i - 1] /\ GivesIn(module, cs[i]) = GivesIn(module, call_stack[i])
        BY <1>3, <1>7, <2>1, <4>1
      <4> QED BY <1>11, <4>1, <4>2, <4>3
    <3> QED BY <3>1, <3>2
  <2>6. Len(cs) \in Nat /\ Len(cs) > 0 /\ Len(cs) # 0
    BY <1>3, <2>1
  <2> QED BY <2>1, <2>2, <2>3, <2>4, <2>5, <2>6 DEF Stands, cs
<1>13. Len(call_stack') = n + 1
  BY <1>5
<1> QED BY <1>1, <1>3, <1>11, <1>12, <1>13 DEF Counted

\* A frame that ends: its height is what it gives.
LEMMA ReturnCounted ==
  ASSUME BalancedModules, AllInv, EndOfCode
  PROVE  Counted'
<1> DEFINE n == Len(call_stack)
<1>1. /\ Active /\ Frame.pos = Len(Code) /\ call_stack' = SubSeq(call_stack, 1, n - 1)
      /\ UNCHANGED <<module, mode, result, call, stack>>
  BY DEF EndOfCode
<1>2. /\ n \in 1 .. n /\ n \in Nat /\ n > 0 /\ Frame = call_stack[n] /\ result = "none"
      /\ call_stack \in Seq(FrameType)
  BY <1>1, ActiveStands
<1>3. PICK floor \in [1 .. n -> Nat] : Stands(module, call_stack, Len(stack), call.ty, floor)
  BY <1>1, ActiveStands
<1>4. Len(call_stack') = n - 1 /\ \A i \in 1 .. n - 1 : call_stack'[i] = call_stack[i]
  <2>1. n - 1 \in 0 .. n
    BY <1>2
  <2> QED BY <1>1, <1>2, <2>1, PrefixOf
<1>5. HeightIn(module, Frame) = GivesIn(module, Frame)
  <2>1. HasBody(Frame.func_idx)
    BY <1>1, TopFrame DEF AllInv
  <2>2. Balanced(module, Func, CertificateOf(Frame))
    BY <2>1, SignatureFacts DEF AllInv, Func, CertificateOf
  <2>3. Len(Func.code) \in DOMAIN HeightsIn(module, Frame) /\ Frame.pos = Len(Func.code)
    BY <1>1, <1>2, <1>3 DEF Stands, Code
  <2> QED BY <2>2, <2>3 DEF Balanced, HeightIn, HeightsIn, GivesIn, CertificateOf, Func, Body
<1> DEFINE floors == [i \in 1 .. n - 1 |-> floor[i]]
<1>6. floors \in [1 .. n - 1 -> Nat] /\ \A i \in 1 .. n - 1 : i \in 1 .. n /\ floors[i] = floor[i]
  BY <1>2, <1>3
<1> HIDE DEF floors, n
<1>7. floor[n] + HeightIn(module, Frame) = Len(stack)
  BY <1>2, <1>3 DEF Stands, n
<1>8. CASE n = 1
  <2>1. Len(stack) = Owed(call.ty)
    <3>1. floor[1] = 0 /\ GivesIn(module, Frame) = Owed(call.ty) /\ Len(stack) \in Nat
      BY <1>2, <1>3, <1>8 DEF Stands, n, AllInv, IInv, DataOK
    <3>2. Owed(call.ty) \in Nat
      BY DEF Owed, Words
    <3>3. floor[1] + HeightIn(module, Frame) = Len(stack) /\ HeightIn(module, Frame) = Owed(call.ty)
      BY <1>5, <1>7, <1>8, <3>1
    <3> QED BY <3>1, <3>2, <3>3
  <2>2. Len(call_stack') = 0
    BY <1>4, <1>8
  <2>3. Stands(module, call_stack', Len(stack), call.ty, floors)
    BY <2>1, <2>2 DEF Stands
  <2>4. floors \in [1 .. Len(call_stack') -> Nat]
    BY <1>6, <1>8, <2>2
  <2> QED BY <1>1, <1>2, <2>3, <2>4 DEF Counted
<1>9. CASE n # 1
  <2> DEFINE cs == call_stack'
             last == n - 1
  <2>1. last \in 1 .. last /\ last \in Nat /\ last > 0 /\ 1 \in 1 .. last /\ n \in 2 .. n /\ n - 1 = last
    BY <1>2, <1>9
  <2>2. Len(cs) = last /\ \A i \in 1 .. last : cs[i] = call_stack[i] /\ i \in 1 .. n /\ floors[i] = floor[i]
    BY <1>4, <1>6
  <2> HIDE DEF cs, last
  <2>3. floors[last] + HeightIn(module, cs[last]) = Len(stack)
    <3>1. floor[last] + HeightIn(module, call_stack[last]) = floor[n] + GivesIn(module, Frame)
      BY <1>2, <1>3, <2>1 DEF Stands, n
    <3> QED BY <1>5, <1>7, <2>1, <2>2, <3>1
  <2>4. floors[1] = 0 /\ GivesIn(module, cs[1]) = Owed(call.ty)
    BY <1>2, <1>3, <2>1, <2>2 DEF Stands, n
  <2>5. \A i \in 1 .. last : floors[i] \in Nat /\ cs[i].pos \in DOMAIN HeightsIn(module, cs[i])
    BY <1>3, <2>2 DEF Stands, n
  <2>6. ASSUME NEW i \in 2 .. last
        PROVE  floors[i - 1] + HeightIn(module, cs[i - 1]) = floors[i] + GivesIn(module, cs[i])
    <3>1. i \in 2 .. n /\ i \in 1 .. last /\ i - 1 \in 1 .. last
      BY <1>2, <2>1, <2>6
    <3> QED BY <1>3, <2>2, <3>1 DEF Stands, n
  <2>7. Stands(module, cs, Len(stack), call.ty, floors)
    BY <2>1, <2>2, <2>3, <2>4, <2>5, <2>6 DEF Stands
  <2> QED BY <1>1, <1>2, <1>4, <1>6, <2>7 DEF Counted, cs
<1> QED BY <1>8, <1>9

\* execute_function: the entry function owes what the host expects.
LEMMA EnterCounted ==
  ASSUME BalancedModules, AllInv, EnterFunction
  PROVE  Counted'
<1>1. PICK c \in Calls :
        /\ CallOutcome(c) = "Entered" /\ call_stack' = <<NewFrame(FuncIdx(c.name), 0)>>
        /\ call'.ty = c.ty
  BY DEF EnterFunction
<1>2. stack' = <<>> /\ result' = "none" /\ UNCHANGED module
  BY DEF EnterFunction
<1> DEFINE idx   == FuncIdx(c.name)
           frame == NewFrame(idx, 0)
           floors == [i \in 1 .. 1 |-> 0]
<1>3. HasBody(idx) /\ Body(idx).results = IF c.ty = "Void" THEN <<>> ELSE <<c.ty>>
  BY <1>1 DEF CallOutcome
<1>4. /\ frame.pos \in DOMAIN HeightsIn(module, frame) /\ HeightIn(module, frame) = 0
      /\ GivesIn(module, frame) = WordsOf(Body(idx).results)
  <2>1. frame.func_idx = idx /\ frame.pos = 0
    BY DEF NewFrame
  <2>2. Balanced(module, Body(idx), Certificate[module][idx + 1])
    BY <1>3, SignatureFacts DEF AllInv
  <2>3. 0 \in DOMAIN Certificate[module][idx + 1].height /\ Certificate[module][idx + 1].height[0] = 0
    BY <2>2 DEF Balanced
  <2> HIDE DEF frame, idx
  <2> QED BY <2>1, <2>3 DEF HeightsIn, HeightIn, GivesIn, Body
<1>5. WordsOf(Body(idx).results) = Owed(c.ty)
  <2> DEFINE results == Body(idx).results
  <2>1. CASE c.ty = "Void"
    <3>1. Len(results) = 0
      BY <1>3, <2>1
    <3> HIDE DEF results
    <3> QED BY <2>1, <3>1, WordsEquation DEF WordsOf, Owed
  <2>2. CASE c.ty # "Void"
    <3>1. Len(results) = 1 /\ results[1] = c.ty
      BY <1>3, <2>2
    <3> HIDE DEF results
    <3>2. WordsBefore(results)[0] = 0 /\ WordsBefore(results)[1] = WordsBefore(results)[0] + Words(c.ty)
      BY <3>1, WordsEquation
    <3>3. Words(c.ty) \in Nat
      BY DEF Words
    <3> QED BY <2>2, <3>1, <3>2, <3>3 DEF WordsOf, Owed, results
  <2> QED BY <2>1, <2>2
<1> HIDE DEF frame
<1>6. Len(call_stack') = 1 /\ call_stack'[1] = frame /\ Len(stack') = 0
  BY <1>1, <1>2 DEF frame
<1>7. floors \in [1 .. 1 -> Nat] /\ floors[1] = 0
  OBVIOUS
<1> HIDE DEF floors
<1>8. Stands(module, call_stack', Len(stack'), call'.ty, floors)
  BY <1>1, <1>4, <1>5, <1>6, <1>7 DEF Stands
<1> QED BY <1>2, <1>6, <1>7, <1>8 DEF Counted

LEMMA NextCounted ==
  ASSUME PlainModules, BalancedModules, AllInv, IndirectAsNamed, [Next]_vars
  PROVE  AllInv'
<1>1. IInv' /\ InStructure'
  BY NextIInv, NextInStructure DEF AllInv
<1>2. CASE InPlace
  BY <1>1, <1>2, InPlaceGoes, GoesCounted DEF AllInv
<1>3. CASE CallBody
  BY <1>1, <1>3, CallCounted DEF AllInv
<1>4. CASE EndOfCode
  BY <1>1, <1>4, ReturnCounted DEF AllInv
<1>5. CASE EnterFunction
  BY <1>1, <1>5, EnterCounted DEF AllInv
<1>6. CASE FramesKept
  <2>1. mode' # "running" \/ UNCHANGED vars
    BY <1>6 DEF FramesKept, RefuseCall, Finish, Unreachable, Undecodable, Underflow, OutOfSpan, Err,
         Panic, Halted
  <2>2. CASE mode' # "running"
    BY <1>1, <2>2 DEF AllInv, Counted
  <2>3. CASE UNCHANGED vars
    BY <1>1, <2>3 DEF AllInv, Counted, vars
  <2> QED BY <2>1, <2>2, <2>3
<1> QED BY <1>2, <1>3, <1>4, <1>5, <1>6, StepKinds

LEMMA InitCounted == ASSUME Init PROVE AllInv
<1>1. IInv
  BY InitIInv
<1>2. call_stack = <<>> /\ mode = "idle"
  BY DEF Init
<1> QED BY <1>1, <1>2 DEF AllInv, InStructure, Counted

\* In an active context, the floors that the property names are these.
LEMMA FloorsAre ==
  ASSUME AllInv, NEW floor \in [1 .. Len(call_stack) -> Nat],
         Stands(module, call_stack, Len(stack), call.ty, floor),
         \A i \in 1 .. Len(call_stack) :
           Height(call_stack[i]) \in Nat /\ Gives(call_stack[i]) \in Nat
  PROVE  \A i \in 1 .. Len(call_stack) : Floors[i] = floor[i]
<1> DEFINE D == 1 .. Len(call_stack)
           E(i, g) == IF i = 1 THEN 0
                      ELSE g[i - 1] + Height(call_stack[i - 1]) - Gives(call_stack[i])
           upto[i \in D] == E(i, upto)
           rank == [i \in D |-> i]
           T == {i \in D : upto[i] = floor[i]}
<1>1. Len(call_stack) \in Nat
  BY DEF AllInv, IInv, FramesOK
<1>2. \A i \in D : i # 1 => i - 1 \in D /\ i \in 2 .. Len(call_stack) /\ rank[i - 1] < rank[i]
  BY <1>1
<1>3. \A i \in D : floor[i] = E(i, floor)
  <2> TAKE i \in D
  <2>1. CASE i = 1
    BY <1>1, <2>1 DEF Stands
  <2>2. CASE i # 1
    <3>1. i - 1 \in D /\ i \in 2 .. Len(call_stack)
      BY <1>2, <2>2
    <3>2. floor[i - 1] + Height(call_stack[i - 1]) = floor[i] + Gives(call_stack[i])
      BY <3>1 DEF Stands, HeightIn, HeightsIn, GivesIn, Height, Gives, CertificateOf, Body
    <3>3. /\ floor[i - 1] \in Nat /\ floor[i] \in Nat
          /\ Height(call_stack[i - 1]) \in Nat /\ Gives(call_stack[i]) \in Nat
      BY <3>1
    <3>4. floor[i] = floor[i - 1] + Height(call_stack[i - 1]) - Gives(call_stack[i])
      <4> DEFINE a == floor[i - 1]
                 h == Height(call_stack[i - 1])
                 x == floor[i]
                 g == Gives(call_stack[i])
      <4>1. a \in Nat /\ h \in Nat /\ x \in Nat /\ g \in Nat /\ a + h = x + g
        BY <3>2, <3>3
      <4> HIDE DEF a, h, x, g
      <4>2. x = a + h - g
        BY <4>1
      <4> QED BY <4>2 DEF a, h, x, g
    <3> QED BY <2>2, <3>4
  <2> QED BY <2>1, <2>2
<1>4. floor = [i \in D |-> E(i, floor)]
  BY <1>3
<1>5. upto = [i \in D |-> E(i, upto)]
  <2> HIDE DEF E
  <2> QED BY <1>4 DEF upto
<1>6. Floors = upto
  BY DEF Floors, upto, E
<1> HIDE DEF upto
<1>7. \A i \in D : upto[i] = E(i, upto)
  <2> HIDE DEF E
  <2> QED BY <1>5
<1>8. ASSUME NEW i \in D, \A q \in D : rank[q] < rank[i] => q \in T
      PROVE  i \in T
  <2>1. i # 1 => upto[i - 1] = floor[i - 1]
    BY <1>2, <1>8
  <2>2. E(i, upto) = E(i, floor)
    BY <2>1
  <2> HIDE DEF E
  <2> QED BY <1>3, <1>7, <2>2
<1>9. rank \in [D -> Nat]
  BY <1>1
<1>10. D \subseteq T
  <2> HIDE DEF D, T, rank
  <2> QED BY <1>8, <1>9, RankInduction
<1> QED BY <1>6, <1>10

LEMMA CountedIsCounted ==
  ASSUME BalancedModules, AllInv
  PROVE  OperandsCounted
<1> SUFFICES ASSUME mode = "running"
             PROVE  /\ \A i \in 1 .. Len(call_stack) :
                         /\ call_stack[i].pos \in DOMAIN CertificateOf(call_stack[i]).height
                         /\ Floors[i] >= 0
                    /\ Len(stack) = (IF call_stack = <<>> THEN Owed(call.ty)
                                     ELSE Floors[Len(call_stack)] + Height(Frame))
  BY DEF OperandsCounted
<1> DEFINE n == Len(call_stack)
<1>1. PICK floor \in [1 .. n -> Nat] : Stands(module, call_stack, Len(stack), call.ty, floor)
  BY DEF AllInv, Counted
<1>2. ASSUME NEW i \in 1 .. n
      PROVE  /\ call_stack[i].pos \in DOMAIN CertificateOf(call_stack[i]).height
             /\ Height(call_stack[i]) \in Nat /\ Gives(call_stack[i]) \in Nat
  <2> DEFINE f == call_stack[i]
  <2>1. f.pos \in DOMAIN CertificateOf(f).height
    BY <1>1 DEF Stands, HeightsIn, CertificateOf
  <2>2. HasBody(f.func_idx)
    BY DEF AllInv, IInv, FramesOK, FrameOK
  <2>3. Balanced(module, Body(f.func_idx), CertificateOf(f)) /\ WordsOf(Body(f.func_idx).results) \in Nat
    BY <2>2, SignatureFacts DEF AllInv, CertificateOf
  <2> HIDE DEF f
  <2>4. Height(f) \in Nat /\ Gives(f) \in Nat
    BY <2>1, <2>3 DEF Balanced, Height, Gives
  <2> QED BY <2>1, <2>4 DEF f
<1>3. \A i \in 1 .. n : Floors[i] = floor[i] /\ floor[i] \in Nat
  BY <1>1, <1>2, FloorsAre
<1>4. n \in Nat /\ (call_stack = <<>> <=> n = 0)
  BY DEF AllInv, IInv, FramesOK
<1>5. CASE n = 0
  BY <1>1, <1>4, <1>5 DEF Stands
<1>6. CASE n # 0
  <2>1. n \in 1 .. n /\ n > 0
    BY <1>4, <1>6
  <2>2. floor[n] + Height(Frame) = Len(stack)
    BY <1>1, <2>1 DEF Stands, HeightIn, HeightsIn, Height, CertificateOf, Frame
  <2>3. \A i \in 1 .. n : Floors[i] >= 0
    BY <1>3
  <2> HIDE DEF n
  <2>4. Len(stack) = (IF call_stack = <<>> THEN Owed(call.ty) ELSE Floors[n] + Height(Frame))
    BY <1>3, <1>4, <1>6, <2>1, <2>2
  <2> QED BY <1>2, <2>3, <2>4 DEF n
<1> QED BY <1>5, <1>6

-----------------------------------------------------------------------------
(* Nothing fails but for lack of memory.                                   *)

\* do_branch finds its block and its target.
LEMMA BranchesFind ==
  ASSUME PlainModules, BalancedModules, AllInv, Fetches, NEW depth \in Depths(Func.code, Frame.pos)
  PROVE  Branches(depth)
<1>1. /\ PlainBody(Func) /\ Func.code \in Seq(Byte) /\ Func.offset \in Nat
      /\ Frame.pos < Len(Func.code) /\ Frame.pos \in Nat
      /\ Frame.blocks \in Seq(Block) /\ Len(Frame.blocks) \in Nat
      /\ Structured(Func, Frame.pos, Frame.blocks)
  BY FetchesCode DEF AllInv
<1>2. depth \in 0 .. Level(Func.code, Frame.pos) - 1
  BY TopFacts DEF Resolves
<1> DEFINE i == Len(Frame.blocks) - depth
<1>3. /\ i \in 1 .. Len(Frame.blocks)
      /\ Frame.blocks[i].kind = "Block" => Frame.blocks[i].offset \in DOMAIN Func.jump_targets
  BY <1>1, <1>2, BranchLands
<1>4. depth \in Nat
  <2>1. Level(Func.code, Frame.pos) \in Int
    BY <1>1, BlocksAre
  <2> QED BY <1>2, <2>1
<1>5. i \in DOMAIN Frame.blocks /\ Len(Frame.blocks) - i = depth
  BY <1>1, <1>3, <1>4
<1> QED BY <1>3, <1>5 DEF Branches, HasTarget

\* The local or global of an instruction lies in its vector.
LEMMA SpanFound ==
  ASSUME PlainModules, BalancedModules, AllInv, Fetches, Len(globals) = GlobalsWords
  PROVE  Indexable(Op, Operand) /\ Spanned(Op, Operand)
<1>1. /\ Op = At(Func.code, Frame.pos) /\ Op # \h04 /\ Resolves(module, Func, Cert, Frame.pos)
      /\ Operand = Unsigned(Func.code, Frame.pos + 1) /\ Active
  BY FetchesCode, TopFacts DEF AllInv, Operand, Code, Fetches
<1>2. /\ IsBody(Func) /\ Frame.locals_offset \in Nat /\ Len(locals) \in Nat
      /\ Frame.locals_offset + FrameWords(Frame.func_idx) <= Len(locals)
      /\ FrameWords(Frame.func_idx) \in Nat
  BY <1>1, FrameFacts DEF AllInv, FrameOK, FrameType, IInv, FramesOK
<1>3. /\ Op \in Executed
      /\ Op \in LocalOps => Operand + 1 \in DOMAIN Func.locals_types
      /\ Op \in GlobalOps => /\ Operand + 1 \in DOMAIN module.globals
                             /\ module.globals_offsets[Operand + 1] + Words(module.globals[Operand + 1])
                                  <= GlobalsWords
  BY <1>1 DEF Resolves
<1>4. Indexable(Op, Operand)
  BY <1>1, <1>2, <1>3 DEF Indexable
<1>5. CASE Op \in LocalOps
  <2> DEFINE x == Operand + 1
             at == Func.locals_offsets[x]
             w  == Words(Func.locals_types[x])
  <2>1. at \in Nat /\ w \in Nat /\ at + w <= FrameWords(Frame.func_idx)
    BY <1>2, <1>3, <1>5 DEF IsBody, FrameWords, Func, Words
  <2>2. VarAt(Op, Operand) = Frame.locals_offset + at /\ VarSpan(Op) = locals
        /\ Words(VarType(Op, Operand)) = w
    BY <1>5 DEF VarAt, VarSpan, VarType
  <2> HIDE DEF at, w
  <2>3. (Frame.locals_offset + at) + w <= Len(locals)
    BY <1>2, <2>1
  <2> QED BY <1>4, <2>2, <2>3 DEF Spanned
<1>6. CASE Op \in GlobalOps
  <2>1. Op \notin LocalOps
    BY <1>6 DEF LocalOps, GlobalOps
  <2> QED BY <1>3, <1>4, <1>6, <2>1 DEF Spanned, VarAt, VarSpan, VarType
<1> QED BY <1>4, <1>5, <1>6 DEF Spanned

\* What is called is there, and finds its parameters.
LEMMA CalleeFound ==
  ASSUME PlainModules, BalancedModules, AllInv, IndirectAsNamed, Fetches, Op \in {\h10, \h11}
  PROVE  Callable(Callee(Op, Operand), Len(stack) - Needs(Op, Operand))
<1> DEFINE callee == Callee(Op, Operand)
           takes  == Signature(module, callee).takes
<1>1. /\ Takes = Needs(Op, Operand) + takes
      /\ HasBody(callee) \/ callee \in DOMAIN Imports
  BY CalleeFacts
<1>2. Takes <= Len(stack) /\ Takes \in Nat /\ Len(stack) \in Nat /\ Needs(Op, Operand) \in Nat
  BY TopFacts, TakesPuts, WordCounts
<1>3. takes \in Nat /\ Callable(callee, takes)
  <2>1. CASE HasBody(callee)
    BY <2>1, SignatureFacts DEF AllInv, Callable
  <2>2. CASE ~HasBody(callee)
    <3>1. ~HasCode(module, callee) /\ callee \in DOMAIN Imports
      BY <1>1, <2>2 DEF HasCode, HasBody, Body
    <3> QED BY <2>2, <3>1, HostAssumption DEF Signature, Callable
  <2> QED BY <2>1, <2>2
<1> HIDE DEF takes
<1>4. takes <= Len(stack) - Needs(Op, Operand)
  BY <1>1, <1>2, <1>3
<1>5. HasBody(callee) => Body(callee).params_len \in Nat
  BY SignatureFacts DEF AllInv
<1>6. Imports[callee] \in Nat \/ callee \notin DOMAIN Imports
  BY HostAssumption
<1> HIDE DEF callee
<1> QED BY <1>2, <1>3, <1>4, <1>5, <1>6 DEF Callable, callee

\* An instruction decodes, finds what it names and its operands, and does
\* not panic.
LEMMA Fetched ==
  ASSUME PlainModules, BalancedModules, AllInv, IndirectAsNamed, NeverTraps, Fetches,
         Len(globals) = GlobalsWords
  PROVE  /\ Decodes /\ Indexable(Op, Operand) /\ Enough(Op, Operand) /\ Spanned(Op, Operand)
         /\ NoPanic(Op, Operand) /\ Op # \h00
<1>1. /\ Op = At(Func.code, Frame.pos) /\ Op \notin {\h04, \h05} /\ Decodes
      /\ Resolves(module, Func, Cert, Frame.pos) /\ Operand = Unsigned(Func.code, Frame.pos + 1)
  BY FetchesCode, TopFacts DEF AllInv, Operand, Code
<1>2. Enough(Op, Operand)
  <2>1. Needs(Op, Operand) \in Nat /\ Needs(Op, Operand) <= Takes
    <3>1. CASE Op \in {\h10, \h11}
      BY <3>1, WordCounts, CallWords
    <3>2. CASE Op \notin {\h10, \h11}
      BY <3>2, WordCounts
    <3> QED BY <3>1, <3>2
  <2>2. Takes <= Height(Frame) /\ Height(Frame) <= Len(stack) /\ Takes \in Nat
        /\ Height(Frame) \in Nat /\ Len(stack) \in Nat
    BY TopFacts, TakesPuts
  <2> QED BY <2>1, <2>2 DEF Enough
<1>3. Op \in {\h0C, \h0D} => Branches(Operand)
  BY <1>1, BranchesFind DEF Depths
<1>4. Op = \h0E => Branches(SelectedDepth)
  <2> SUFFICES ASSUME Op = \h0E PROVE SelectedDepth \in Depths(Func.code, Frame.pos)
    BY BranchesFind
  <2>1. Operand \in Nat
    BY <1>1 DEF Resolves
  <2> QED BY <1>1, <2>1 DEF SelectedDepth, Depths, Code
<1>5. Op \in {\h10, \h11} => Callable(Callee(Op, Operand), Len(stack) - Needs(Op, Operand))
  BY CalleeFound
<1>6. /\ Op # \h00
      /\ Op \in Loads \cup Stores => Address(Op) >= 0 /\ Address(Op) + AccessBytes(Op) <= MemoryBytes
      /\ Op \in Unary \cup Binary => Computes(Op)
  BY <1>2 DEF NeverTraps
<1>7. /\ Op = \h41 => Signed(Code, Frame.pos + 1) \in -(Base \div 2) .. (Base - 1) \div 2
      /\ Op = \h42 => Operand \in Nat /\ Operand \div Base \in 0 .. (Base - 1) \div 2
  BY <1>1 DEF Resolves, Code
<1>8. NoPanic(Op, Operand)
  BY <1>1, <1>3, <1>4, <1>5, <1>6, <1>7 DEF NoPanic
<1> QED BY <1>1, <1>2, <1>6, <1>8, SpanFound

\* Nothing panics at the end of the code: the reader is not beyond it, and
\* the locals that are dropped are there.
LEMMA PanicsInCode ==
  ASSUME IInv, Panic PROVE Fetches
<1>1. Active
  BY DEF Panic
<1>2. FrameOK(Frame) /\ IsBody(Func) /\ FrameWords(Frame.func_idx) \in Nat
      /\ Frame.locals_offset + FrameWords(Frame.func_idx) <= Len(locals)
  BY <1>1, FrameFacts
<1>3. Frame.pos \in Nat /\ Frame.locals_offset \in Nat /\ Frame.pos <= Len(Code)
  BY <1>2 DEF FrameOK, FrameType, Code, Func
<1>4. Len(Code) \in Nat /\ Len(locals) \in Nat
  BY <1>2 DEF IsBody, Code, IInv, FramesOK
<1>5. ~(Frame.locals_offset > Len(locals))
  BY <1>2, <1>3, <1>4
<1>6. CASE Frame.pos = Len(Code)
  <2>1. ~(Frame.pos > Len(Code)) /\ ~(Frame.pos < Len(Code))
    BY <1>3, <1>4, <1>6
  <2> QED BY <1>5, <1>6, <2>1 DEF Panic
<1>7. CASE Frame.pos # Len(Code)
  BY <1>1, <1>3, <1>4, <1>7 DEF Fetches
<1> QED BY <1>6, <1>7

\* No step resizes the globals slice.
LEMMA GlobalsKeepLength ==
  ASSUME IInv, InPlace PROVE Len(globals') = Len(globals)
<1>1. CASE GlobalSet
  <2>1. Executes({\h24}) /\ globals' = Overwritten(globals, VarAt(Op, Operand), Top(Needs(Op, Operand)))
    BY <1>1 DEF GlobalSet
  <2>2. globals' = [i \in 1 .. Len(globals) |-> globals'[i]] /\ globals \in Seq(Word)
    BY <2>1 DEF Overwritten, IInv, DataOK
  <2> QED BY <2>2
<1>2. CASE ~GlobalSet
  BY <1>2 DEF InPlace, EnterBlock, If, Else, End, Br, BrIf, BrTable, Return, CallImport,
     Drop, Select, VarGet, LocalSet, ConstI32, ConstI64, Produce, Store
<1> QED BY <1>1, <1>2

-----------------------------------------------------------------------------

\* The operand stack holds what the certificate says of each active function,
\* whatever plain and balanced modules the host runs, over branches, calls,
\* recursion, returns and failed calls, as long as each call_indirect finds a
\* function of the type it names: then nothing is lost by the marks that
\* VmStack does not keep.
THEOREM OperandsAreCounted ==
  ASSUME PlainModules, BalancedModules
  PROVE  Spec /\ []IndirectAsNamed => []OperandsCounted
<1>1. Init => AllInv
  BY InitCounted
<1>2. AllInv /\ IndirectAsNamed /\ [Next]_vars => AllInv'
  BY NextCounted
<1>3. AllInv => OperandsCounted
  BY CountedIsCounted
<1> QED BY <1>1, <1>2, <1>3, PTL DEF Spec

\* A call that succeeds leaves nothing on the operand stack: what its blocks
\* and functions do not give is not there.  So no later call, and no caller,
\* meets an operand that is not its own.
THEOREM NothingIsLeftBehind ==
  ASSUME PlainModules, BalancedModules
  PROVE  Spec /\ []IndirectAsNamed => []NothingLeftBehind
<1> DEFINE Inv == AllInv /\ NothingLeftBehind
<1>1. Init => Inv
  BY InitCounted DEF Init, NothingLeftBehind
<1>2. Inv /\ IndirectAsNamed /\ [Next]_vars => Inv'
  <2> SUFFICES ASSUME Inv, IndirectAsNamed, [Next]_vars PROVE NothingLeftBehind'
    BY NextCounted
  <2>1. CASE InPlace \/ CallBody \/ EndOfCode
    <3>1. mode = "running" /\ result' = result
      BY <2>1, InPlaceMoves, InPlaceGoes DEF CallBody, EndOfCode, Active, Fetches, Executes, AllInv
    <3> QED BY <3>1 DEF AllInv, Counted, NothingLeftBehind
  <2>2. CASE EnterFunction
    BY <2>2 DEF EnterFunction, NothingLeftBehind
  <2>3. CASE Finish
    <3>1. Len(stack) = Owed(call.ty)
      BY <2>3 DEF Finish, AllInv, Counted, Stands
    <3>2. CASE result' = "Ok"
      <4>1. Len(stack) >= Words(call.ty) /\ stack' = Popped(Words(call.ty))
        BY <2>3, <3>2 DEF Finish
      <4>2. Len(stack) = Words(call.ty)
        BY <3>1, <4>1 DEF Owed, Words
      <4>3. Len(stack) - Words(call.ty) = 0
        BY <4>2 DEF Words
      <4>4. stack' = <<>>
        BY <4>1, <4>3 DEF Popped
      <4> QED BY <4>4 DEF NothingLeftBehind
    <3> QED BY <3>2 DEF NothingLeftBehind
  <2>4. CASE RefuseCall \/ Unreachable \/ Undecodable \/ Underflow \/ OutOfSpan \/ Panic
    <3>1. result' # "Ok"
      BY <2>4 DEF RefuseCall, CallOutcome, Unreachable, Undecodable, Underflow, OutOfSpan, Err, Panic
    <3> QED BY <3>1 DEF NothingLeftBehind
  <2>5. CASE Halted \/ UNCHANGED vars
    BY <2>5 DEF Halted, vars, NothingLeftBehind
  <2> QED BY <2>1, <2>2, <2>3, <2>4, <2>5, StepKinds DEF FramesKept
<1>3. Inv => NothingLeftBehind
  OBVIOUS
<1> HIDE DEF Inv
<1> QED BY <1>1, <1>2, <1>3, PTL DEF Spec

\* A call of a balanced module ends with its result, or for lack of memory:
\* no operand is missing, no index, unwrap or todo!() panics, no operand is
\* cut short and no access misses a local or global; where the code does not
\* trap, and the host calls what there is by its type (with a result: the
\* bool that stands for none takes an i32 that is not there).
THEOREM OnlyHeapFails ==
  ASSUME PlainModules, BalancedModules
  PROVE  Spec /\ []IndirectAsNamed /\ []NeverTraps /\ []CallsServed => []FailsOnHeapOnly
<1> DEFINE Served == /\ Len(globals) = GlobalsWords
                     /\ mode = "running" => call.ty \in ValueType
           Inv == AllInv /\ Served /\ FailsOnHeapOnly
<1>1. Init => Inv
  BY InitCounted, HostAssumption DEF Init, FailsOnHeapOnly, Zeros
<1>2. Inv /\ IndirectAsNamed /\ NeverTraps /\ CallsServed /\ [Next]_vars => Inv'
  <2> SUFFICES ASSUME Inv, IndirectAsNamed, NeverTraps, CallsServed, [Next]_vars
               PROVE  Served' /\ FailsOnHeapOnly'
    BY NextCounted
  <2>1. CASE InPlace \/ CallBody \/ EndOfCode
    <3>1. UNCHANGED <<mode, result, call>>
      BY <2>1, InPlaceMoves DEF CallBody, EndOfCode, AllInv
    <3>2. Len(globals') = Len(globals)
      BY <2>1, GlobalsKeepLength DEF AllInv, CallBody, EndOfCode
    <3> QED BY <3>1, <3>2 DEF FailsOnHeapOnly
  <2>2. CASE EnterFunction
    BY <2>2 DEF EnterFunction, FailsOnHeapOnly, CallsServed
  <2>3. CASE RefuseCall
    <3>1. PICK c \in Calls : CallOutcome(c) # "Entered" /\ result' = CallOutcome(c)
      BY <2>3 DEF RefuseCall
    <3>2. result' = "OutOfMemory"
      BY <3>1 DEF CallsServed
    <3> QED BY <2>3, <3>2 DEF RefuseCall, FailsOnHeapOnly, Panics
  <2>4. CASE Finish
    <3>1. Len(stack) = Owed(call.ty) /\ call.ty \in ValueType
      BY <2>4 DEF Finish, AllInv, Counted, Stands
    <3>2. Len(stack) >= Words(call.ty)
      BY <3>1 DEF Owed, Words, ValueType
    <3> QED BY <2>4, <3>2 DEF Finish, FailsOnHeapOnly
  <2>5. CASE Unreachable \/ Undecodable \/ Underflow \/ OutOfSpan
    <3>1. Fetches
      BY <2>5 DEF Unreachable, Executes, Undecodable, Underflow, OutOfSpan
    <3>2. /\ Decodes /\ Indexable(Op, Operand) /\ Enough(Op, Operand) /\ Spanned(Op, Operand)
          /\ Op # \h00
      BY <3>1, Fetched
    <3> QED BY <2>5, <3>2 DEF Unreachable, Executes, Undecodable, Underflow, OutOfSpan
  <2>6. CASE Panic
    <3>1. Fetches
      BY <2>6, PanicsInCode DEF AllInv
    <3>2. Indexable(Op, Operand) /\ NoPanic(Op, Operand)
      BY <3>1, Fetched
    <3>3. result' = "OutOfMemory" /\ mode' = "panicked" /\ UNCHANGED globals
      BY <2>6, <3>1, <3>2 DEF Panic
    <3> QED BY <3>3 DEF FailsOnHeapOnly
  <2>7. CASE Halted \/ UNCHANGED vars
    BY <2>7 DEF Halted, vars, FailsOnHeapOnly
  <2> QED BY <2>1, <2>2, <2>3, <2>4, <2>5, <2>6, <2>7, StepKinds DEF FramesKept
<1>3. Inv => FailsOnHeapOnly
  OBVIOUS
<1> HIDE DEF Inv
<1> QED BY <1>1, <1>2, <1>3, PTL DEF Spec

\* Where no code calls through the table, what the theorems above ask of
\* call_indirect holds of every run: operands and calls are then as they say
\* for every host.
THEOREM DirectCallsAreNamed ==
  ASSUME PlainModules, DirectModules
  PROVE  Spec => []IndirectAsNamed
<1>1. IInv /\ InStructure => IndirectAsNamed
  <2> SUFFICES ASSUME IInv, InStructure, Fetches PROVE Op # \h11
    BY DEF IndirectAsNamed
  <2>1. /\ Structured(Func, Frame.pos, Frame.blocks) /\ Frame.pos < Len(Func.code)
        /\ Op = At(Func.code, Frame.pos) /\ Active
    BY FetchesCode DEF Fetches
  <2>2. Frame.pos \in Ops(Func.code)
    BY <2>1 DEF Structured
  <2>3. HasBody(Frame.func_idx) /\ module \in Modules
    BY <2>1, TopFrame DEF IInv
  <2> QED BY <2>1, <2>2, <2>3 DEF DirectModules, HasBody, Func, Body
<1>2. Init => InStructure
  BY DEF Init, InStructure
<1>3. IInv /\ InStructure /\ [Next]_vars => InStructure'
  BY NextInStructure
<1> QED BY <1>1, <1>2, <1>3, Invariance, PTL DEF Spec
=============================================================================
