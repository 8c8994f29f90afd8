------------------------- MODULE InterpreterProofs -------------------------
(***************************************************************************)
(* Theorems about Interpreter, for every module that parse may deliver,    *)
(* every host and every size of the vectors: the context stays well typed, *)
(* readers stay in their code, and frames stay disjoint in the vector of   *)
(* locals, so no step touches what belongs to a caller.                    *)
(*                                                                         *)
(* The three invariants are proved together (IInv).  The argument does not *)
(* go instruction by instruction for each of them: the lemmas about        *)
(* instructions show that each makes one of four moves (Moves, CallsFrame, *)
(* EndOfCode, EnterFunction) or leaves the frames alone, and the invariants*)
(* are shown for the moves.                                                *)
(***************************************************************************)
EXTENDS Interpreter, CommonProofs

\* What the invariants say of one frame.
FrameType == [func_idx : Nat, pos : Nat, locals_offset : Nat, blocks : Seq(Block)]

FrameOK(f) ==
  /\ f \in FrameType
  /\ HasBody(f.func_idx)
  /\ f.pos <= Len(Body(f.func_idx).code)
  /\ \A j \in 1 .. Len(f.blocks) : f.blocks[j].body_offset \in 1 .. Len(Body(f.func_idx).code)

\* The operand stack and the vectors of the context, and the call.
DataOK ==
  /\ mode \in {"idle", "running", "panicked"}
  /\ result \in Outcomes
  /\ call.args \in Seq(Word)
  /\ stack \in Seq(Word)
  /\ globals \in Seq(Word)

FramesOK ==
  /\ locals \in Seq(Word)
  /\ call_stack \in Seq(FrameType)
  /\ \A i \in 1 .. Len(call_stack) : FrameOK(call_stack[i])

\* The inductive invariant.
IInv == module \in Modules /\ DataOK /\ FramesOK /\ FramesDisjoint

-----------------------------------------------------------------------------
(* What a step does to the frames.                                         *)

\* The topmost frame goes on, in place: not where it started, and locals
\* below it do not change.
Moves ==
  /\ Active
  /\ \E f \in FrameType :
       /\ SetFrame(f) /\ FrameOK(f) /\ f.pos # 0
       /\ f.func_idx = Frame.func_idx /\ f.locals_offset = Frame.locals_offset
  /\ locals' \in Seq(Word) /\ Len(locals') = Len(locals)
  /\ \A k \in 1 .. Frame.locals_offset : k <= Len(locals) => locals'[k] = locals[k]

\* The topmost frame goes on at next, with a frame of idx above it.
CallsFrame ==
  /\ Active
  /\ \E idx \in Nat, next \in Nat, params \in Seq(Word) :
       /\ HasBody(idx) /\ Len(params) = Body(idx).params_len
       /\ next \in 1 .. Len(Code)
       /\ call_stack' = Append([call_stack EXCEPT ![Len(call_stack)].pos = next],
                               NewFrame(idx, Len(locals)))
       /\ locals' = WithFrame(params, idx)

-----------------------------------------------------------------------------
(* Sequences.                                                              *)

LEMMA ZerosType ==
  ASSUME NEW n \in Nat
  PROVE  Zeros(n) \in Seq(Word) /\ Len(Zeros(n)) = n
<1>1. Zeros(n) \in [1 .. n -> Word]
  BY WordsAssumption DEF Zeros, Word
<1> QED BY <1>1, FunctionIsSeq

\* copy_params_and_locals: the locals so far, then the frame of idx.
LEMMA WithFrameType ==
  ASSUME locals \in Seq(Word), NEW idx, NEW params \in Seq(Word),
         Body(idx).non_param_locals_len \in Nat
  PROVE  /\ WithFrame(params, idx) \in Seq(Word)
         /\ Len(WithFrame(params, idx))
              = Len(locals) + Len(params) + Body(idx).non_param_locals_len
         /\ \A k \in 1 .. Len(locals) : WithFrame(params, idx)[k] = locals[k]
<1>1. PICK own \in Seq(Word) :
        /\ WithFrame(params, idx) = locals \o params \o own
        /\ Len(own) = Body(idx).non_param_locals_len
  BY ZerosType DEF WithFrame
<1>2. /\ locals \o params \o own \in Seq(Word)
      /\ Len(locals \o params \o own) = Len(locals) + Len(params) + Len(own)
      /\ \A k \in 1 .. Len(locals) : (locals \o params \o own)[k] = locals[k]
  OBVIOUS
<1> QED BY <1>1, <1>2

\* write_param_raw keeps the length, and what lies below its target.
LEMMA OverwrittenType ==
  ASSUME NEW span \in Seq(Word), NEW at \in Nat, NEW words \in Seq(Word)
  PROVE  /\ Overwritten(span, at, words) \in Seq(Word)
         /\ Len(Overwritten(span, at, words)) = Len(span)
         /\ \A k \in 1 .. Len(span) : k <= at => Overwritten(span, at, words)[k] = span[k]
<1> DEFINE o == Overwritten(span, at, words)
<1>1. \A i \in 1 .. Len(span) : i \in at + 1 .. at + Len(words) => i - at \in 1 .. Len(words)
  BY LenProperties
<1>2. o \in [1 .. Len(span) -> Word]
  BY <1>1, ElementOfSeq, LenProperties DEF Overwritten
<1>3. \A k \in 1 .. Len(span) : k <= at => o[k] = span[k]
  BY LenProperties DEF Overwritten
<1> QED BY <1>2, <1>3, FunctionIsSeq, LenProperties

-----------------------------------------------------------------------------
(* Frames.                                                                 *)

LEMMA BodyFacts ==
  ASSUME module \in Modules, NEW idx, HasBody(idx)
  PROVE  IsBody(Body(idx))
BY ModulesAssumption DEF IsRunnable, HasBody, Body

\* What FrameOK says of a frame, in the terms of arithmetic.
LEMMA FrameParts ==
  ASSUME module \in Modules, NEW f, FrameOK(f)
  PROVE  /\ f.func_idx \in Nat /\ f.locals_offset \in Nat
         /\ HasBody(f.func_idx) /\ IsBody(Body(f.func_idx))
         /\ FrameWords(f.func_idx) \in Nat
<1>1. f \in FrameType /\ HasBody(f.func_idx)
  BY DEF FrameOK
<1>2. f.func_idx \in Nat /\ f.locals_offset \in Nat
  BY <1>1 DEF FrameType
<1>3. IsBody(Body(f.func_idx))
  BY <1>1, BodyFacts
<1>4. FrameWords(f.func_idx) \in Nat
  <2>1. Body(f.func_idx).params_len \in Nat /\ Body(f.func_idx).non_param_locals_len \in Nat
    BY <1>3 DEF IsBody
  <2> QED BY <2>1 DEF FrameWords
<1> QED BY <1>1, <1>2, <1>3, <1>4

\* The topmost frame is as good as any.
LEMMA FrameFacts ==
  ASSUME IInv, Active
  PROVE  /\ Len(call_stack) \in 1 .. Len(call_stack) /\ Len(call_stack) \in Nat
         /\ FrameOK(Frame) /\ IsBody(Func)
         /\ Frame.locals_offset + FrameWords(Frame.func_idx) <= Len(locals)
         /\ FrameWords(Frame.func_idx) \in Nat
<1>1. Len(call_stack) \in 1 .. Len(call_stack) /\ Len(call_stack) \in Nat
  BY DEF IInv, FramesOK, Active
<1>2. FrameOK(Frame)
  BY <1>1 DEF IInv, FramesOK, Frame
<1>3. IsBody(Func)
  BY <1>2, BodyFacts DEF FrameOK, Func, IInv
<1>4. Frame.locals_offset + FrameWords(Frame.func_idx) <= Len(locals)
  BY <1>1 DEF IInv, FramesDisjoint, Frame
<1>5. FrameWords(Frame.func_idx) \in Nat
  BY <1>3 DEF FrameWords, IsBody, Func
<1> QED BY <1>1, <1>2, <1>3, <1>4, <1>5

\* Replacing the topmost frame, and what FrameOK says of a frame after a step
\* that leaves the module alone.
LEMMA SetFrameFacts ==
  ASSUME IInv, Active, NEW f \in FrameType, SetFrame(f)
  PROVE  /\ call_stack' \in Seq(FrameType) /\ Len(call_stack') = Len(call_stack)
         /\ \A i \in 1 .. Len(call_stack) :
              call_stack'[i] = IF i = Len(call_stack) THEN f ELSE call_stack[i]
BY FrameFacts DEF IInv, FramesOK, SetFrame

LEMMA SameModule ==
  ASSUME UNCHANGED module
  PROVE  /\ \A idx : Body(idx)' = Body(idx) /\ HasBody(idx)' = HasBody(idx)
         /\ \A idx : FrameWords(idx)' = FrameWords(idx)
BY DEF Body, HasBody, FrameWords

LEMMA FramesOKAfter ==
  ASSUME UNCHANGED module, locals' \in Seq(Word), call_stack' \in Seq(FrameType),
         \A i \in 1 .. Len(call_stack') : FrameOK(call_stack'[i])
  PROVE  FramesOK'
BY DEF FramesOK, FrameOK, HasBody, Body

-----------------------------------------------------------------------------
(* The moves keep the invariants of the frames.                            *)

LEMMA MovesKeepFrames ==
  ASSUME IInv, Moves, UNCHANGED module
  PROVE  FramesOK' /\ FramesDisjoint'
<1>1. Active
  BY DEF Moves
<1>2. PICK f \in FrameType :
        /\ SetFrame(f) /\ FrameOK(f)
        /\ f.func_idx = Frame.func_idx /\ f.locals_offset = Frame.locals_offset
  BY DEF Moves
<1>3. /\ call_stack' \in Seq(FrameType) /\ Len(call_stack') = Len(call_stack)
      /\ \A i \in 1 .. Len(call_stack) :
           call_stack'[i] = IF i = Len(call_stack) THEN f ELSE call_stack[i]
  BY <1>1, <1>2, SetFrameFacts
<1>4. \A i \in 1 .. Len(call_stack') : FrameOK(call_stack'[i])
  BY <1>2, <1>3 DEF IInv, FramesOK
<1>5. \A i \in 1 .. Len(call_stack) :
        /\ call_stack'[i].func_idx = call_stack[i].func_idx
        /\ call_stack'[i].locals_offset = call_stack[i].locals_offset
  BY <1>2, <1>3 DEF Frame
<1>6. Len(locals') = Len(locals) /\ locals' \in Seq(Word)
  BY DEF Moves
<1>7. FramesDisjoint'
  BY <1>3, <1>5, <1>6, SameModule DEF IInv, FramesDisjoint
<1> QED BY <1>3, <1>4, <1>6, <1>7, FramesOKAfter

LEMMA CallKeepsFrames ==
  ASSUME IInv, CallsFrame, UNCHANGED module
  PROVE  FramesOK' /\ FramesDisjoint'
<1>1. Active
  BY DEF CallsFrame
<1>2. PICK idx \in Nat, next \in Nat, params \in Seq(Word) :
        /\ HasBody(idx) /\ Len(params) = Body(idx).params_len
        /\ next \in 1 .. Len(Code)
        /\ call_stack' = Append([call_stack EXCEPT ![Len(call_stack)].pos = next],
                                NewFrame(idx, Len(locals)))
        /\ locals' = WithFrame(params, idx)
  BY DEF CallsFrame
<1> DEFINE n == Len(call_stack)
           caller == [Frame EXCEPT !.pos = next]
           callee == NewFrame(idx, Len(locals))
<1>3. IsBody(Body(idx))
  BY <1>2, BodyFacts DEF IInv
<1>4. /\ FrameOK(caller) /\ caller \in FrameType
      /\ caller.func_idx = Frame.func_idx /\ caller.locals_offset = Frame.locals_offset
  <2>1. FrameOK(Frame) /\ Len(Code) \in Nat
    BY <1>1, FrameFacts DEF IsBody, Code
  <2>2. next <= Len(Code)
    BY <1>2, <2>1
  <2> QED BY <2>1, <2>2 DEF FrameOK, FrameType, Code, Func
<1>5. FrameOK(callee) /\ callee \in FrameType
  BY <1>2, <1>3 DEF NewFrame, FrameOK, FrameType, IsBody, IInv, FramesOK
<1>6. callee.func_idx = idx /\ callee.locals_offset = Len(locals)
  BY DEF NewFrame
<1>7. [call_stack EXCEPT ![n].pos = next] = [call_stack EXCEPT ![n] = caller]
  BY DEF Frame
<1>8. n \in 1 .. n /\ n \in Nat /\ call_stack \in Seq(FrameType)
  BY <1>1, FrameFacts DEF IInv, FramesOK
<1> HIDE DEF caller, callee, n
<1>9. /\ call_stack' \in Seq(FrameType) /\ Len(call_stack') = n + 1
      /\ \A i \in 1 .. n + 1 :
           call_stack'[i] = IF i = n + 1 THEN callee ELSE IF i = n THEN caller ELSE call_stack[i]
  <2> DEFINE rest == [call_stack EXCEPT ![n] = caller]
  <2>1. call_stack' = Append(rest, callee)
    BY <1>2, <1>7 DEF n, callee
  <2>2. /\ rest \in Seq(FrameType) /\ Len(rest) = n
        /\ \A i \in 1 .. n : rest[i] = IF i = n THEN caller ELSE call_stack[i]
    BY <1>4, <1>8 DEF n
  <2> HIDE DEF rest
  <2>3. /\ Append(rest, callee) \in Seq(FrameType) /\ Len(Append(rest, callee)) = n + 1
        /\ \A i \in 1 .. n : Append(rest, callee)[i] = rest[i]
        /\ Append(rest, callee)[n + 1] = callee
    BY <2>2, <1>5, <1>8
  <2> QED BY <2>1, <2>2, <2>3, <1>8
<1>10. /\ locals' \in Seq(Word)
       /\ Len(locals') = Len(locals) + FrameWords(idx)
  <2>1. Body(idx).params_len \in Nat /\ Body(idx).non_param_locals_len \in Nat
    BY <1>3 DEF IsBody
  <2>2. locals \in Seq(Word) /\ Len(locals) \in Nat
    BY DEF IInv, FramesOK
  <2>3. /\ WithFrame(params, idx) \in Seq(Word)
        /\ Len(WithFrame(params, idx))
             = Len(locals) + Len(params) + Body(idx).non_param_locals_len
    BY <2>1, <2>2, WithFrameType, Zenon
  <2>4. Len(params) = Body(idx).params_len /\ locals' = WithFrame(params, idx)
    BY <1>2
  <2>5. FrameWords(idx) = Body(idx).params_len + Body(idx).non_param_locals_len
    BY DEF FrameWords
  <2> QED BY <2>1, <2>2, <2>3, <2>4, <2>5
<1>11. \A i \in 1 .. n + 1 : FrameOK(call_stack'[i])
  <2>1. \A i \in 1 .. n : FrameOK(call_stack[i])
    BY DEF IInv, FramesOK, n
  <2>2. TAKE i \in 1 .. n + 1
  <2>3. CASE i = n + 1
    BY <2>3, <1>5, <1>9
  <2>4. CASE i = n
    BY <2>4, <1>4, <1>8, <1>9
  <2>5. CASE i \in 1 .. n - 1
    <3>1. call_stack'[i] = call_stack[i] /\ i \in 1 .. n
      BY <2>5, <1>8, <1>9
    <3> QED BY <3>1, <2>1
  <2> QED BY <2>3, <2>4, <2>5, <1>8
<1>12. \A i \in 1 .. n :
        /\ call_stack'[i].func_idx = call_stack[i].func_idx
        /\ call_stack'[i].locals_offset = call_stack[i].locals_offset
  BY <1>4, <1>8, <1>9 DEF Frame, n
<1>13. call_stack'[n + 1].func_idx = idx /\ call_stack'[n + 1].locals_offset = Len(locals)
  BY <1>6, <1>8, <1>9
<1>14. FrameWords(idx) \in Nat /\ Len(locals) \in Nat
  BY <1>3 DEF FrameWords, IsBody, IInv, FramesOK
<1>15. FramesDisjoint'
  <2> SUFFICES ASSUME NEW i \in 1 .. n + 1
               PROVE  LET end == call_stack'[i].locals_offset + FrameWords(call_stack'[i].func_idx)
                      IN  /\ end <= Len(locals')
                          /\ \A j \in i + 1 .. n + 1 : end <= call_stack'[j].locals_offset
    BY <1>9, SameModule DEF FramesDisjoint
  <2>1. CASE i = n + 1
    BY <2>1, <1>8, <1>10, <1>13, <1>14
  <2>2. CASE i \in 1 .. n
    <3> DEFINE end == call_stack[i].locals_offset + FrameWords(call_stack[i].func_idx)
    <3>1. end <= Len(locals) /\ \A j \in i + 1 .. n : end <= call_stack[j].locals_offset
      BY <2>2 DEF IInv, FramesDisjoint, n
    <3>2. call_stack[i].locals_offset \in Nat /\ FrameWords(call_stack[i].func_idx) \in Nat
      <4>1. FrameOK(call_stack[i]) /\ module \in Modules
        BY <2>2 DEF IInv, FramesOK, n
      <4> QED BY <4>1, FrameParts, Zenon
    <3>3. end <= Len(locals')
      BY <3>1, <3>2, <1>10, <1>14
    <3>4. \A j \in i + 1 .. n + 1 : end <= call_stack'[j].locals_offset
      <4>1. \A j \in i + 1 .. n : end <= call_stack'[j].locals_offset
        BY <3>1, <2>2, <1>8, <1>12
      <4>2. end <= call_stack'[n + 1].locals_offset
        BY <3>1, <1>13
      <4>3. \A j \in i + 1 .. n + 1 : j = n + 1 \/ j \in i + 1 .. n
        BY <2>2, <1>8
      <4> QED BY <4>1, <4>2, <4>3
    <3> QED BY <3>3, <3>4, <2>2, <1>12
  <2> QED BY <2>1, <2>2, <1>8
<1> QED BY <1>9, <1>10, <1>11, <1>15, FramesOKAfter

\* EndOfCode: the topmost frame goes, with its locals.
LEMMA EndOfCodeKeepsFrames ==
  ASSUME IInv, EndOfCode
  PROVE  FramesOK' /\ FramesDisjoint'
<1> DEFINE n == Len(call_stack)
<1>1. Active /\ UNCHANGED module
  BY DEF EndOfCode
<1>2. /\ n \in 1 .. n /\ n \in Nat /\ call_stack \in Seq(FrameType)
      /\ Frame.locals_offset \in 0 .. Len(locals) /\ locals \in Seq(Word)
  BY <1>1, FrameFacts DEF IInv, FramesOK, EndOfCode, FrameOK, FrameType
<1> HIDE DEF n
<1>3. /\ call_stack' \in Seq(FrameType) /\ Len(call_stack') = n - 1
      /\ \A i \in 1 .. n - 1 : call_stack'[i] = call_stack[i]
  <2>1. call_stack' = SubSeq(call_stack, 1, n - 1) /\ n - 1 \in 0 .. n
    BY <1>2 DEF EndOfCode, n
  <2> QED BY <2>1, <1>2, PrefixOf DEF n
<1>4. /\ locals' \in Seq(Word) /\ Len(locals') = Frame.locals_offset
  BY <1>2, PrefixOf DEF EndOfCode
<1>5. \A i \in 1 .. n - 1 : FrameOK(call_stack'[i])
  BY <1>2, <1>3 DEF IInv, FramesOK, n
<1>6. FramesDisjoint'
  <2>1. \A i \in 1 .. n - 1 :
          call_stack[i].locals_offset + FrameWords(call_stack[i].func_idx) <= Frame.locals_offset
    BY <1>2 DEF IInv, FramesDisjoint, Frame, n
  <2> SUFFICES ASSUME NEW i \in 1 .. n - 1
               PROVE  LET end == call_stack'[i].locals_offset + FrameWords(call_stack'[i].func_idx)
                      IN  /\ end <= Len(locals')
                          /\ \A j \in i + 1 .. n - 1 : end <= call_stack'[j].locals_offset
    BY <1>1, <1>3, SameModule DEF FramesDisjoint
  <2> DEFINE end == call_stack[i].locals_offset + FrameWords(call_stack[i].func_idx)
  <2>2. i \in 1 .. n /\ \A j \in i + 1 .. n - 1 : j \in 1 .. n - 1 /\ j \in i + 1 .. n
    BY <1>2
  <2>3. \A j \in i + 1 .. n : end <= call_stack[j].locals_offset
    BY <2>2 DEF IInv, FramesDisjoint, n
  <2>4. end <= Len(locals')
    BY <1>4, <2>1
  <2>5. end = call_stack'[i].locals_offset + FrameWords(call_stack'[i].func_idx)
    BY <1>3
  <2> HIDE DEF end
  <2> QED BY <1>3, <2>2, <2>3, <2>4, <2>5
<1> QED BY <1>1, <1>3, <1>4, <1>5, <1>6, FramesOKAfter

\* EnterFunction: one frame, at the bottom of the locals.
LEMMA EnterKeepsFrames ==
  ASSUME IInv, EnterFunction
  PROVE  FramesOK' /\ FramesDisjoint' /\ call'.args \in Seq(Word)
<1>1. PICK c \in Calls :
        /\ CallOutcome(c) = "Entered"
        /\ \E args \in [1 .. Body(FuncIdx(c.name)).params_len -> Results] :
              /\ call' = [args |-> args, ty |-> c.ty]
              /\ locals' = WithFrame(args, FuncIdx(c.name))
              /\ call_stack' = <<NewFrame(FuncIdx(c.name), 0)>>
  BY DEF EnterFunction
<1>2. HasBody(FuncIdx(c.name))
  BY <1>1 DEF CallOutcome
<1> DEFINE idx == FuncIdx(c.name)
<1> HIDE DEF idx
<1>3. PICK args \in [1 .. Body(idx).params_len -> Results] :
        /\ call' = [args |-> args, ty |-> c.ty]
        /\ locals' = WithFrame(args, idx)
        /\ call_stack' = <<NewFrame(idx, 0)>>
  BY <1>1 DEF idx
<1>4. HasBody(idx) /\ IsBody(Body(idx))
  BY <1>2, BodyFacts DEF idx, IInv
<1>5. args \in Seq(Word) /\ Len(args) = Body(idx).params_len
  <2>1. args \in [1 .. Body(idx).params_len -> Word] /\ Body(idx).params_len \in Nat
    BY <1>4, WordsAssumption DEF Word, IsBody
  <2> QED BY <2>1, FunctionIsSeq
<1>6. locals' \in Seq(Word) /\ Len(locals') = Len(locals) + FrameWords(idx)
  <2>1. Body(idx).params_len \in Nat /\ Body(idx).non_param_locals_len \in Nat
        /\ locals \in Seq(Word)
    BY <1>4 DEF IsBody, IInv, FramesOK
  <2> QED BY <1>3, <1>5, <2>1, WithFrameType DEF FrameWords
<1>7. FrameOK(NewFrame(idx, 0)) /\ NewFrame(idx, 0) \in FrameType
  BY <1>4 DEF NewFrame, FrameOK, FrameType, HasBody, IsBody
<1>8. /\ call_stack' \in Seq(FrameType) /\ Len(call_stack') = 1
      /\ call_stack'[1] = NewFrame(idx, 0)
  BY <1>3, <1>7
<1>9. UNCHANGED module
  BY DEF EnterFunction
<1>10. FramesOK'
  BY <1>6, <1>7, <1>8, <1>9, FramesOKAfter
<1>11. FramesDisjoint'
  <2>1. NewFrame(idx, 0).locals_offset = 0 /\ NewFrame(idx, 0).func_idx = idx
    BY DEF NewFrame
  <2>2. FrameWords(idx) \in Nat /\ Len(locals) \in Nat
    BY <1>4 DEF FrameWords, IsBody, IInv, FramesOK
  <2> QED BY <2>1, <2>2, <1>6, <1>8, <1>9, SameModule DEF FramesDisjoint
<1> QED BY <1>3, <1>5, <1>10, <1>11

-----------------------------------------------------------------------------
(* Instructions: the next position, and the operands.                      *)

LEMMA NeedsPushes ==
  ASSUME NEW op, NEW x
  PROVE  Needs(op, x) \in Nat /\ Pushes(op, x) \in Nat
BY DEF Needs, Pushes, NeededWords, PushedWords, Words, AccessWords, OperandWords, ResultWords

LEMMA PoppedType ==
  ASSUME stack \in Seq(Word), NEW n \in Nat, n <= Len(stack)
  PROVE  Popped(n) \in Seq(Word) /\ Len(Popped(n)) = Len(stack) - n
<1>1. Len(stack) - n \in 0 .. Len(stack)
  OBVIOUS
<1> QED BY <1>1, PrefixOf DEF Popped

LEMMA TopType ==
  ASSUME stack \in Seq(Word), NEW n \in Nat, n <= Len(stack)
  PROVE  Top(n) \in Seq(Word) /\ Len(Top(n)) = n
<1>1. /\ Len(stack) - n \in Nat
      /\ (Len(stack) - n) + n <= Len(stack)
      /\ (Len(stack) - n) + n = Len(stack)
  OBVIOUS
<1> QED BY <1>1, SuffixOf DEF Top

\* What holds of an instruction that is executed.
LEMMA ExecutesFacts ==
  ASSUME IInv, NEW ops, Executes(ops)
  PROVE  /\ Active /\ Op \in ops
         /\ Follow \in 1 .. Len(Code) /\ Len(Code) \in Nat
         /\ Frame.pos \in 0 .. Len(Code)
         /\ Indexable(Op, Operand) /\ Spanned(Op, Operand)
         /\ NoPanic(Op, Operand)
         /\ stack \in Seq(Word) /\ Len(stack) \in Nat
         /\ Needs(Op, Operand) \in 0 .. Len(stack)
         /\ Pushes(Op, Operand) \in Nat
         /\ Popped(Needs(Op, Operand)) \in Seq(Word)
         /\ Len(Popped(Needs(Op, Operand))) = Len(stack) - Needs(Op, Operand)
<1>1. Active /\ Op \in ops /\ Decodes /\ Frame.pos < Len(Code)
  BY DEF Executes, Fetches
<1>2. /\ Indexable(Op, Operand) /\ Spanned(Op, Operand) /\ NoPanic(Op, Operand)
      /\ Len(stack) >= Needs(Op, Operand)
  BY DEF Executes, Succeeds, Enough
<1>3. Len(Code) \in Nat /\ Frame.pos \in Nat
  BY <1>1, FrameFacts DEF FrameOK, FrameType, IsBody, Code
<1>4. Follow \in 1 .. Len(Code)
  <2>1. Frame.pos + 1 \in 0 .. Len(Code)
    BY <1>1, <1>3
  <2>2. Follow \in Frame.pos + 1 .. Len(Code)
    BY <1>1, <1>3, <2>1, AfterBounds DEF Follow, Decodes
  <2> QED BY <1>1, <1>3, <2>2
<1>5. stack \in Seq(Word) /\ Len(stack) \in Nat
  BY DEF IInv, DataOK
<1>6. Needs(Op, Operand) \in Nat /\ Pushes(Op, Operand) \in Nat
  BY NeedsPushes
<1>7. /\ Popped(Needs(Op, Operand)) \in Seq(Word)
      /\ Len(Popped(Needs(Op, Operand))) = Len(stack) - Needs(Op, Operand)
  BY <1>2, <1>5, <1>6, PoppedType
<1> QED BY <1>1, <1>2, <1>3, <1>4, <1>5, <1>6, <1>7

\* The topmost frame goes on at next, with some of the same code's blocks.
LEMMA GoesOn ==
  ASSUME IInv, Active, NEW next \in 1 .. Len(Code), NEW bs \in Seq(Block),
         \A j \in 1 .. Len(bs) : bs[j].body_offset \in 1 .. Len(Code),
         SetFrame([Frame EXCEPT !.pos = next, !.blocks = bs]),
         UNCHANGED locals
  PROVE  Moves
<1> DEFINE f == [Frame EXCEPT !.pos = next, !.blocks = bs]
<1>1. FrameOK(Frame) /\ Len(Code) \in Nat /\ next \in Nat /\ next # 0 /\ next <= Len(Code)
  BY FrameFacts DEF IsBody, Code
<1>2. /\ f \in FrameType /\ FrameOK(f) /\ f.pos # 0
      /\ f.func_idx = Frame.func_idx /\ f.locals_offset = Frame.locals_offset
  BY <1>1 DEF FrameOK, FrameType, Code, Func
<1>3. locals \in Seq(Word)
  BY DEF IInv, FramesOK
<1> QED BY <1>2, <1>3 DEF Moves

LEMMA Jumps ==
  ASSUME IInv, Active, NEW next \in 1 .. Len(Code),
         SetFrame([Frame EXCEPT !.pos = next]), UNCHANGED locals
  PROVE  Moves
<1> DEFINE f == [Frame EXCEPT !.pos = next]
<1>1. FrameOK(Frame)
  BY FrameFacts
<1>2. /\ f \in FrameType /\ FrameOK(f) /\ f.pos # 0
      /\ f.func_idx = Frame.func_idx /\ f.locals_offset = Frame.locals_offset
  BY <1>1 DEF FrameOK, FrameType, Code, Func
<1>3. locals \in Seq(Word)
  BY DEF IInv, FramesOK
<1> QED BY <1>2, <1>3 DEF Moves

LEMMA GoesToFollow ==
  ASSUME IInv, NEW ops, Executes(ops), Advance, UNCHANGED locals
  PROVE  Moves
<1>1. Active /\ Follow \in 1 .. Len(Code)
  BY ExecutesFacts
<1> QED BY <1>1, Jumps DEF Advance

\* A jump target lies inside the code, and one byte further still does not
\* leave it.
LEMMA TargetFacts ==
  ASSUME IInv, Active, NEW offset, HasTarget(offset)
  PROVE  /\ Func.jump_targets[offset] \in 2 .. Len(Code) - 1
         /\ Len(Code) \in Nat
BY FrameFacts DEF HasTarget, IsBody, Code

LEMMA BranchMoves ==
  ASSUME IInv, Active, NEW depth, Branches(depth), Branch(depth), UNCHANGED locals
  PROVE  Moves
<1>1. /\ Frame.blocks \in Seq(Block) /\ Len(Frame.blocks) \in Nat
      /\ \A j \in 1 .. Len(Frame.blocks) : Frame.blocks[j].body_offset \in 1 .. Len(Code)
  BY FrameFacts DEF FrameOK, FrameType, Code, Func
<1>2. PICK i \in 1 .. Len(Frame.blocks) :
        /\ Len(Frame.blocks) - i = depth
        /\ Frame.blocks[i].kind = "Block" => HasTarget(Frame.blocks[i].offset)
  BY <1>1 DEF Branches
<1>3. Len(Frame.blocks) - depth = i
  BY <1>1, <1>2
<1> DEFINE block == Frame.blocks[i]
           bs    == SubSeq(Frame.blocks, 1, i)
           next  == IF block.kind = "Block" THEN Func.jump_targets[block.offset] - 1
                    ELSE block.body_offset
<1>4. SetFrame([Frame EXCEPT !.blocks = bs, !.pos = next])
  BY <1>3 DEF Branch
<1>5. next \in 1 .. Len(Code)
  <2>1. block \in Block /\ block.body_offset \in 1 .. Len(Code)
    BY <1>1, <1>2
  <2>2. CASE block.kind = "Block"
    <3> DEFINE target == Func.jump_targets[block.offset]
    <3>1. target \in 2 .. Len(Code) - 1 /\ Len(Code) \in Nat
      BY <1>2, <2>2, TargetFacts
    <3>2. next = target - 1
      BY <2>2
    <3> HIDE DEF target, next
    <3> QED BY <3>1, <3>2
  <2>3. CASE block.kind # "Block"
    BY <2>1, <2>3 DEF Block
  <2> QED BY <2>2, <2>3
<1>6. /\ bs \in Seq(Block)
      /\ \A j \in 1 .. Len(bs) : bs[j].body_offset \in 1 .. Len(Code)
  <2>1. i \in 0 .. Len(Frame.blocks)
    BY <1>2
  <2>2. bs \in Seq(Block) /\ Len(bs) = i /\ \A j \in 1 .. i : bs[j] = Frame.blocks[j]
    BY <1>1, <2>1, PrefixOf
  <2>3. \A j \in 1 .. i : j \in 1 .. Len(Frame.blocks)
    BY <2>1
  <2>4. \A j \in 1 .. Len(Frame.blocks) : Frame.blocks[j].body_offset \in 1 .. Len(Code)
    BY <1>1
  <2> HIDE DEF bs
  <2> QED BY <2>2, <2>3, <2>4, Zenon
<1>7. [Frame EXCEPT !.blocks = bs, !.pos = next] = [Frame EXCEPT !.pos = next, !.blocks = bs]
  BY FrameFacts DEF FrameOK, FrameType
<1> HIDE DEF bs, next, block
<1> QED BY <1>4, <1>5, <1>6, <1>7, GoesOn

-----------------------------------------------------------------------------
(* Control instructions.                                                   *)

LEMMA EnterBlockMoves ==
  ASSUME IInv, EnterBlock PROVE Moves
<1>1. Executes({\h02, \h03})
  BY DEF EnterBlock
<1>2. /\ Active /\ Follow \in 1 .. Len(Code)
  BY <1>1, ExecutesFacts
<1> DEFINE block == [kind |-> IF Op = \h02 THEN "Block" ELSE "Loop",
                     offset |-> Func.offset + Frame.pos, body_offset |-> Follow]
           bs    == Append(Frame.blocks, block)
<1>3. block \in Block
  <2>1. Func.offset \in Nat /\ Frame.pos \in Nat
    BY <1>2, FrameFacts DEF FrameOK, FrameType, IsBody
  <2>2. Func.offset + Frame.pos \in Nat
    BY <2>1
  <2> QED BY <1>2, <2>2 DEF Block
<1>4. /\ Frame.blocks \in Seq(Block)
      /\ \A j \in 1 .. Len(Frame.blocks) : Frame.blocks[j].body_offset \in 1 .. Len(Code)
  BY <1>2, FrameFacts DEF FrameOK, FrameType, Code, Func
<1>5. block.body_offset = Follow
  OBVIOUS
<1>6. SetFrame([Frame EXCEPT !.pos = Follow, !.blocks = bs]) /\ UNCHANGED locals
  BY DEF EnterBlock
<1> HIDE DEF block
<1>7. /\ bs \in Seq(Block) /\ Len(bs) = Len(Frame.blocks) + 1
      /\ \A j \in 1 .. Len(Frame.blocks) : bs[j] = Frame.blocks[j]
      /\ bs[Len(Frame.blocks) + 1] = block
  BY <1>3, <1>4
<1> HIDE DEF bs
<1>8. \A j \in 1 .. Len(bs) : bs[j].body_offset \in 1 .. Len(Code)
  <2>1. Len(Frame.blocks) \in Nat
    BY <1>4
  <2>2. TAKE j \in 1 .. Len(bs)
  <2>3. j \in 1 .. Len(Frame.blocks) \/ j = Len(Frame.blocks) + 1
    BY <1>7, <2>1
  <2>4. CASE j \in 1 .. Len(Frame.blocks)
    BY <1>4, <1>7, <2>4, Zenon
  <2>5. CASE j = Len(Frame.blocks) + 1
    BY <1>2, <1>5, <1>7, <2>5
  <2> QED BY <2>3, <2>4, <2>5
<1> QED BY <1>2, <1>6, <1>7, <1>8, GoesOn

LEMMA IfMoves ==
  ASSUME IInv, If PROVE Moves
<1>1. Executes({\h04})
  BY DEF If
<1>2. /\ Active /\ Follow \in 1 .. Len(Code) /\ Op = \h04
      /\ NoPanic(Op, Operand)
  BY <1>1, ExecutesFacts
<1>3. CASE ~IsZero(TypeByte, Top(Needs(Op, Operand)))
  <2>1. SetFrame([Frame EXCEPT !.pos = Follow]) /\ UNCHANGED locals
    BY <1>3 DEF If
  <2> QED BY <1>2, <2>1, Jumps
<1>4. CASE IsZero(TypeByte, Top(Needs(Op, Operand)))
  <2> DEFINE next == Func.jump_targets[Func.offset + Frame.pos]
  <2>1. HasTarget(Func.offset + Frame.pos)
    BY <1>2, <1>4 DEF NoPanic
  <2>2. next \in 1 .. Len(Code)
    BY <1>2, <2>1, TargetFacts
  <2>3. SetFrame([Frame EXCEPT !.pos = next]) /\ UNCHANGED locals
    BY <1>4 DEF If
  <2> HIDE DEF next
  <2> QED BY <1>2, <2>2, <2>3, Jumps
<1> QED BY <1>3, <1>4

LEMMA ElseMoves ==
  ASSUME IInv, Else PROVE Moves
<1>1. Executes({\h05})
  BY DEF Else
<1>2. Active /\ Op = \h05 /\ NoPanic(Op, Operand)
  BY <1>1, ExecutesFacts
<1> DEFINE next == Func.jump_targets[Func.offset + Frame.pos] + 1
<1>3. HasTarget(Func.offset + Frame.pos)
  BY <1>2 DEF NoPanic
<1>4. next \in 1 .. Len(Code)
  BY <1>2, <1>3, TargetFacts
<1>5. SetFrame([Frame EXCEPT !.pos = next]) /\ UNCHANGED locals
  BY DEF Else
<1> HIDE DEF next
<1> QED BY <1>2, <1>4, <1>5, Jumps

\* end outside any block pops nothing: SubSeq(<<>>, 1, -1) is <<>>.
LEMMA EndMoves ==
  ASSUME IInv, End PROVE Moves
<1>1. Executes({\h0B})
  BY DEF End
<1>2. Active /\ Follow \in 1 .. Len(Code)
  BY <1>1, ExecutesFacts
<1>3. /\ Frame.blocks \in Seq(Block) /\ Len(Frame.blocks) \in Nat
      /\ \A j \in 1 .. Len(Frame.blocks) : Frame.blocks[j].body_offset \in 1 .. Len(Code)
  BY <1>2, FrameFacts DEF FrameOK, FrameType, Code, Func
<1> DEFINE n  == Len(Frame.blocks)
           bs == SubSeq(Frame.blocks, 1, n - 1)
<1>4. \A i \in 1 .. n - 1 : Frame.blocks[i] \in Block
  BY <1>3
<1>5. /\ bs \in Seq(Block) /\ Len(bs) = IF 1 <= n - 1 THEN (n - 1) - 1 + 1 ELSE 0
      /\ \A i \in 1 .. (n - 1) - 1 + 1 : bs[i] = Frame.blocks[1 + i - 1]
  BY <1>3, <1>4, SubSeqProperties
<1>6. SetFrame([Frame EXCEPT !.pos = Follow, !.blocks = bs]) /\ UNCHANGED locals
  BY DEF End
<1> HIDE DEF bs
<1>7. \A j \in 1 .. Len(bs) : bs[j].body_offset \in 1 .. Len(Code)
  BY <1>3, <1>5
<1> QED BY <1>2, <1>5, <1>6, <1>7, GoesOn

LEMMA BrMoves ==
  ASSUME IInv, Br PROVE Moves
<1>1. Executes({\h0C}) /\ Branch(Operand) /\ UNCHANGED locals
  BY DEF Br
<1>2. Active /\ Op = \h0C /\ NoPanic(Op, Operand)
  BY <1>1, ExecutesFacts
<1>3. Branches(Operand)
  BY <1>2 DEF NoPanic
<1> QED BY <1>1, <1>2, <1>3, BranchMoves

LEMMA BrIfMoves ==
  ASSUME IInv, BrIf PROVE Moves
<1>1. Executes({\h0D}) /\ UNCHANGED locals
  BY DEF BrIf
<1>2. Active /\ Op = \h0D /\ NoPanic(Op, Operand)
  BY <1>1, ExecutesFacts
<1>3. CASE stack[Len(stack)] # 0
  <2>1. Branches(Operand)
    BY <1>2, <1>3 DEF NoPanic
  <2>2. Branch(Operand)
    BY <1>3 DEF BrIf
  <2> QED BY <1>1, <1>2, <2>1, <2>2, BranchMoves
<1>4. CASE stack[Len(stack)] = 0
  <2>1. Advance
    BY <1>4 DEF BrIf
  <2> QED BY <1>1, <2>1, GoesToFollow
<1> QED BY <1>3, <1>4

LEMMA BrTableMoves ==
  ASSUME IInv, BrTable PROVE Moves
<1>1. Executes({\h0E}) /\ Branch(SelectedDepth) /\ UNCHANGED locals
  BY DEF BrTable
<1>2. Active /\ Op = \h0E /\ NoPanic(Op, Operand)
  BY <1>1, ExecutesFacts
<1>3. Branches(SelectedDepth)
  BY <1>2 DEF NoPanic
<1> QED BY <1>1, <1>2, <1>3, BranchMoves

LEMMA ReturnMoves ==
  ASSUME IInv, Return PROVE Moves
<1>1. Executes({\h0F})
  BY DEF Return
<1>2. Active /\ Len(Code) \in 1 .. Len(Code)
  BY <1>1, ExecutesFacts
<1>3. SetFrame([Frame EXCEPT !.pos = Len(Code)]) /\ UNCHANGED locals
  BY DEF Return
<1> QED BY <1>2, <1>3, Jumps

LEMMA CallBodyCalls ==
  ASSUME IInv, CallBody PROVE CallsFrame /\ stack' \in Seq(Word)
<1> DEFINE callee == Callee(Op, Operand)
           rest   == Len(stack) - Needs(Op, Operand) - Body(callee).params_len
           params == SubSeq(stack, rest + 1, Len(stack) - Needs(Op, Operand))
<1>1. Executes({\h10, \h11}) /\ HasBody(callee)
  BY DEF CallBody
<1>2. /\ Active /\ Op \in {\h10, \h11} /\ NoPanic(Op, Operand)
      /\ Follow \in 1 .. Len(Code) /\ Follow \in Nat
      /\ stack \in Seq(Word) /\ Len(stack) \in Nat /\ Needs(Op, Operand) \in 0 .. Len(stack)
  BY <1>1, ExecutesFacts
<1>3. Callable(callee, Len(stack) - Needs(Op, Operand))
  BY <1>2 DEF NoPanic
<1>4. /\ Body(callee).params_len \in Nat
      /\ Body(callee).params_len <= Len(stack) - Needs(Op, Operand)
  BY <1>1, <1>3, BodyFacts DEF Callable, IsBody, IInv
<1>5. callee \in Nat
  BY <1>1 DEF HasBody
<1>6. /\ call_stack' = Append([call_stack EXCEPT ![Len(call_stack)].pos = Follow],
                              NewFrame(callee, Len(locals)))
      /\ locals' = WithFrame(params, callee)
      /\ stack' = SubSeq(stack, 1, rest)
  BY DEF CallBody
<1> HIDE DEF callee
<1>7. rest \in 0 .. Len(stack) /\ rest + Body(callee).params_len = Len(stack) - Needs(Op, Operand)
      /\ rest + Body(callee).params_len <= Len(stack)
  BY <1>2, <1>4
<1> HIDE DEF rest
<1>8. SubSeq(stack, 1, rest) \in Seq(Word)
  BY <1>2, <1>7, PrefixOf
<1>9. params \in Seq(Word) /\ Len(params) = Body(callee).params_len
  <2>1. params = SubSeq(stack, rest + 1, rest + Body(callee).params_len)
    BY <1>7
  <2>2. rest \in Nat
    BY <1>7
  <2> DEFINE k == Body(callee).params_len
  <2>3. k \in Nat /\ rest + k <= Len(stack) /\ params = SubSeq(stack, rest + 1, rest + k)
    BY <2>1, <1>4, <1>7
  <2> HIDE DEF k, params
  <2>4. /\ SubSeq(stack, rest + 1, rest + k) \in Seq(Word)
        /\ Len(SubSeq(stack, rest + 1, rest + k)) = k
    BY <2>2, <2>3, <1>2, SuffixOf
  <2> QED BY <2>3, <2>4 DEF k
<1> HIDE DEF params
<1>10. HasBody(callee)
  BY <1>1 DEF callee
<1> QED BY <1>2, <1>5, <1>6, <1>8, <1>9, <1>10 DEF CallsFrame

LEMMA CallImportMoves ==
  ASSUME IInv, CallImport PROVE Moves /\ stack' \in Seq(Word)
<1> DEFINE callee == Callee(Op, Operand)
<1>1. /\ Executes({\h10, \h11}) /\ ~HasBody(callee) /\ Advance /\ UNCHANGED locals
      /\ stack' = Popped(Needs(Op, Operand) + Imports[callee])
  BY DEF CallImport
<1>2. /\ Op \in {\h10, \h11} /\ NoPanic(Op, Operand)
      /\ stack \in Seq(Word) /\ Len(stack) \in Nat /\ Needs(Op, Operand) \in 0 .. Len(stack)
  BY <1>1, ExecutesFacts
<1>3. Callable(callee, Len(stack) - Needs(Op, Operand))
  BY <1>2 DEF NoPanic
<1>4. Imports[callee] \in Nat /\ Imports[callee] <= Len(stack) - Needs(Op, Operand)
  BY <1>1, <1>3, HostAssumption DEF Callable
<1> HIDE DEF callee
<1>5. stack' \in Seq(Word)
  <2>1. /\ Needs(Op, Operand) + Imports[callee] \in Nat
        /\ Needs(Op, Operand) + Imports[callee] <= Len(stack)
    BY <1>2, <1>4
  <2> QED BY <1>1, <1>2, <2>1, PoppedType
<1> QED BY <1>1, <1>5, GoesToFollow

-----------------------------------------------------------------------------
(* Instructions on the operand stack, the locals and the globals.          *)

\* An instruction that pops its operands and pushes words.
LEMMA PushesWords ==
  ASSUME IInv, NEW ops, Executes(ops), NEW words \in Seq(Word)
  PROVE  Popped(Needs(Op, Operand)) \o words \in Seq(Word)
<1>1. Popped(Needs(Op, Operand)) \in Seq(Word)
  BY ExecutesFacts
<1> QED BY <1>1, ConcatProperties

LEMMA ElementsOfStack ==
  ASSUME stack \in Seq(Word), NEW i \in 1 .. Len(stack)
  PROVE  stack[i] \in Word
OBVIOUS

LEMMA SelectMoves ==
  ASSUME IInv, Select PROVE Moves /\ stack' \in Seq(Word)
<1>1. Executes({\h1B}) /\ Advance /\ UNCHANGED locals
  BY DEF Select
<1>2. /\ Op = \h1B /\ stack \in Seq(Word) /\ Len(stack) \in Nat
      /\ Needs(Op, Operand) \in 0 .. Len(stack) /\ Popped(Needs(Op, Operand)) \in Seq(Word)
  BY <1>1, ExecutesFacts
<1>3. Needs(Op, Operand) = 3
  BY <1>2 DEF Needs, NeededWords, Loads
<1> DEFINE n    == Len(stack)
           word == IF stack[n] = 0 THEN stack[n - 1] ELSE stack[n - 2]
<1>4. word \in Word
  BY <1>2, <1>3, ElementsOfStack
<1>5. stack' = Append(Popped(3), word)
  BY DEF Select
<1> HIDE DEF word
<1>6. stack' \in Seq(Word)
  BY <1>2, <1>3, <1>4, <1>5
<1> QED BY <1>1, <1>6, GoesToFollow

\* The place of the local or global of an instruction.
LEMMA VarFacts ==
  ASSUME IInv, NEW ops, Executes(ops), Op \in LocalOps \cup GlobalOps
  PROVE  /\ VarAt(Op, Operand) \in Nat /\ Words(VarType(Op, Operand)) \in Nat
         /\ VarSpan(Op) \in Seq(Word)
         /\ VarAt(Op, Operand) + Words(VarType(Op, Operand)) <= Len(VarSpan(Op))
         /\ Op \in LocalOps => Frame.locals_offset \in Nat /\ Frame.locals_offset <= VarAt(Op, Operand)
<1>1. /\ Active /\ Indexable(Op, Operand) /\ Spanned(Op, Operand)
  BY ExecutesFacts
<1>2. VarAt(Op, Operand) + Words(VarType(Op, Operand)) <= Len(VarSpan(Op))
  BY <1>1 DEF Spanned
<1>3. Words(VarType(Op, Operand)) \in Nat
  BY DEF Words
<1>4. VarSpan(Op) \in Seq(Word)
  BY DEF VarSpan, IInv, FramesOK, DataOK
<1>5. CASE Op \in LocalOps
  <2>1. Operand + 1 \in DOMAIN Func.locals_types
    BY <1>1, <1>5 DEF Indexable
  <2>2. Func.locals_offsets[Operand + 1] \in Nat
    BY <1>1, <2>1, FrameFacts DEF IsBody
  <2>3. Frame.locals_offset \in Nat
    BY <1>1, FrameFacts DEF FrameOK, FrameType
  <2>4. VarAt(Op, Operand) = Frame.locals_offset + Func.locals_offsets[Operand + 1]
    BY <1>5 DEF VarAt
  <2> QED BY <1>2, <1>3, <1>4, <2>2, <2>3, <2>4
<1>6. CASE Op \notin LocalOps
  <2>1. Operand + 1 \in DOMAIN module.globals
    BY <1>1, <1>6 DEF Indexable
  <2>2. module.globals_offsets[Operand + 1] \in Nat
    BY <2>1, ModulesAssumption DEF IInv, IsRunnable
  <2> QED BY <1>2, <1>3, <1>4, <1>6, <2>2 DEF VarAt
<1> QED BY <1>5, <1>6

LEMMA VarGetMoves ==
  ASSUME IInv, VarGet PROVE Moves /\ stack' \in Seq(Word)
<1> DEFINE at == VarAt(Op, Operand)
           n  == Words(VarType(Op, Operand))
<1>1. /\ Executes({\h20, \h23}) /\ Advance /\ UNCHANGED locals
      /\ stack' = stack \o SubSeq(VarSpan(Op), at + 1, at + n)
  BY DEF VarGet
<1>2. Op \in LocalOps \cup GlobalOps /\ stack \in Seq(Word)
  BY <1>1, ExecutesFacts DEF LocalOps, GlobalOps
<1>3. /\ at \in Nat /\ n \in Nat /\ VarSpan(Op) \in Seq(Word)
      /\ at + n <= Len(VarSpan(Op))
  BY <1>1, <1>2, VarFacts
<1> HIDE DEF at, n
<1>4. SubSeq(VarSpan(Op), at + 1, at + n) \in Seq(Word)
  BY <1>3, SuffixOf
<1>5. stack' \in Seq(Word)
  BY <1>1, <1>2, <1>4, ConcatProperties
<1> QED BY <1>1, <1>5, GoesToFollow

LEMMA LocalSetMoves ==
  ASSUME IInv, LocalSet PROVE Moves /\ stack' \in Seq(Word)
<1> DEFINE at    == VarAt(Op, Operand)
           words == Top(Needs(Op, Operand))
<1>1. /\ Executes({\h21, \h22}) /\ Advance
      /\ locals' = Overwritten(locals, at, words)
      /\ stack' = IF Op = \h21 THEN Popped(Needs(Op, Operand)) ELSE stack
  BY DEF LocalSet
<1>2. /\ Active /\ Op \in LocalOps /\ Op \in LocalOps \cup GlobalOps /\ stack \in Seq(Word)
      /\ Needs(Op, Operand) \in Nat /\ Needs(Op, Operand) <= Len(stack)
      /\ Popped(Needs(Op, Operand)) \in Seq(Word)
      /\ Follow \in 1 .. Len(Code)
  BY <1>1, ExecutesFacts DEF LocalOps, GlobalOps
<1>3. at \in Nat /\ Frame.locals_offset \in Nat /\ Frame.locals_offset <= at
  BY <1>1, <1>2, VarFacts
<1>4. words \in Seq(Word)
  BY <1>2, TopType
<1>5. locals \in Seq(Word) /\ Len(locals) \in Nat
  BY DEF IInv, FramesOK
<1> HIDE DEF at, words
<1>6. /\ locals' \in Seq(Word) /\ Len(locals') = Len(locals)
      /\ \A k \in 1 .. Len(locals) : k <= at => locals'[k] = locals[k]
  BY <1>1, <1>3, <1>4, <1>5, OverwrittenType
<1>7. \A k \in 1 .. Frame.locals_offset : k <= Len(locals) => locals'[k] = locals[k]
  BY <1>3, <1>5, <1>6
<1>8. Moves
  <2> DEFINE f == [Frame EXCEPT !.pos = Follow]
  <2>1. FrameOK(Frame) /\ Len(Code) \in Nat
    BY <1>2, FrameFacts DEF IsBody, Code
  <2>2. Follow \in Nat /\ Follow # 0 /\ Follow <= Len(Code)
    BY <1>2, <2>1
  <2>3. /\ f \in FrameType /\ FrameOK(f) /\ f.pos # 0
        /\ f.func_idx = Frame.func_idx /\ f.locals_offset = Frame.locals_offset
    BY <2>1, <2>2 DEF FrameOK, FrameType, Code, Func
  <2>4. SetFrame(f)
    BY <1>1 DEF Advance
  <2> QED BY <1>2, <1>6, <1>7, <2>3, <2>4 DEF Moves
<1> QED BY <1>1, <1>2, <1>8

LEMMA GlobalSetMoves ==
  ASSUME IInv, GlobalSet PROVE Moves /\ stack' \in Seq(Word) /\ globals' \in Seq(Word)
<1> DEFINE at    == VarAt(Op, Operand)
           words == Top(Needs(Op, Operand))
<1>1. /\ Executes({\h24}) /\ Advance /\ UNCHANGED locals
      /\ globals' = Overwritten(globals, at, words)
      /\ stack' = Popped(Needs(Op, Operand))
  BY DEF GlobalSet
<1>2. /\ Op \in LocalOps \cup GlobalOps /\ stack \in Seq(Word)
      /\ Needs(Op, Operand) \in Nat /\ Needs(Op, Operand) <= Len(stack)
      /\ Popped(Needs(Op, Operand)) \in Seq(Word)
  BY <1>1, ExecutesFacts DEF LocalOps, GlobalOps
<1>3. at \in Nat
  BY <1>1, <1>2, VarFacts
<1>4. words \in Seq(Word)
  BY <1>2, TopType
<1>5. globals \in Seq(Word)
  BY DEF IInv, DataOK
<1> HIDE DEF at, words
<1>6. globals' \in Seq(Word)
  BY <1>1, <1>3, <1>4, <1>5, OverwrittenType
<1> QED BY <1>1, <1>2, <1>6, GoesToFollow

\* A word is what remains of a number modulo Base.
LEMMA ConstI32Moves ==
  ASSUME IInv, ConstI32 PROVE Moves /\ stack' \in Seq(Word)
<1> DEFINE v == Signed(Code, Frame.pos + 1)
<1>1. /\ Executes({\h41}) /\ Advance /\ UNCHANGED locals
      /\ stack' = Append(stack, v % Base)
  BY DEF ConstI32
<1>2. Op = \h41 /\ NoPanic(Op, Operand) /\ stack \in Seq(Word)
  BY <1>1, ExecutesFacts
<1>3. v \in Int
  BY <1>2 DEF NoPanic
<1> HIDE DEF v
<1>4. v % Base \in Word
  BY <1>3, WordsAssumption DEF Word
<1>5. stack' \in Seq(Word)
  BY <1>1, <1>2, <1>4, AppendProperties
<1> QED BY <1>1, <1>5, GoesToFollow

LEMMA ConstI64Moves ==
  ASSUME IInv, ConstI64 PROVE Moves /\ stack' \in Seq(Word)
<1> DEFINE x == Operand
<1>1. /\ Executes({\h42}) /\ Advance /\ UNCHANGED locals
      /\ stack' = stack \o <<x % Base, x \div Base>>
  BY DEF ConstI64
<1>2. Op = \h42 /\ NoPanic(Op, x) /\ stack \in Seq(Word)
  BY <1>1, ExecutesFacts
<1>3. x \in Nat /\ x \div Base \in 0 .. (Base - 1) \div 2
  BY <1>2 DEF NoPanic
<1> HIDE DEF x
<1>4. x % Base \in Word
  BY <1>3, WordsAssumption DEF Word
<1>5. (Base - 1) \div 2 <= Base - 1
  BY WordsAssumption
<1>6. x \div Base \in Word
  BY <1>3, <1>5, WordsAssumption DEF Word
<1>7. <<x % Base, x \div Base>> \in Seq(Word)
  BY <1>4, <1>6
<1>8. stack' \in Seq(Word)
  BY <1>1, <1>2, <1>7, ConcatProperties
<1> QED BY <1>1, <1>8, GoesToFollow

LEMMA ProduceMoves ==
  ASSUME IInv, Produce PROVE Moves /\ stack' \in Seq(Word)
<1> DEFINE ops == {\h43, \h44} \cup Loads \cup Unary \cup Binary
<1>1. Executes(ops) /\ Advance /\ UNCHANGED locals
  BY DEF Produce
<1>2. PICK words \in [1 .. Pushes(Op, Operand) -> Results] :
        stack' = Popped(Needs(Op, Operand)) \o words
  BY DEF Produce
<1> HIDE DEF ops
<1>3. words \in Seq(Word)
  <2>1. Pushes(Op, Operand) \in Nat
    BY NeedsPushes
  <2>2. words \in [1 .. Pushes(Op, Operand) -> Word]
    BY WordsAssumption DEF Word
  <2> QED BY <2>1, <2>2, FunctionIsSeq
<1>4. stack' \in Seq(Word)
  BY <1>1, <1>2, <1>3, PushesWords
<1> QED BY <1>1, <1>4, GoesToFollow

-----------------------------------------------------------------------------
(* Every step.                                                             *)

\* Instructions that only pop, or leave the stack alone.
LEMMA PopsOnly ==
  ASSUME IInv, If \/ BrIf \/ BrTable \/ Drop \/ Store
  PROVE  stack' \in Seq(Word)
<1>1. CASE If
  <2>1. Executes({\h04}) /\ stack' = Popped(Needs(Op, Operand))
    BY <1>1 DEF If
  <2> QED BY <2>1, ExecutesFacts
<1>2. CASE BrIf \/ BrTable \/ Drop
  <2>1. Executes({\h0D, \h0E, \h1A}) /\ stack' = Popped(1)
    BY <1>2 DEF BrIf, BrTable, Drop, Executes
  <2>2. Needs(Op, Operand) = 1 /\ Popped(Needs(Op, Operand)) \in Seq(Word)
    BY <2>1, ExecutesFacts DEF Needs, NeededWords
  <2> QED BY <2>1, <2>2
<1>3. CASE Store
  <2>1. Executes(Stores) /\ stack' = Popped(Needs(Op, Operand))
    BY <1>3 DEF Store
  <2> QED BY <2>1, ExecutesFacts
<1> QED BY <1>1, <1>2, <1>3

\* The instructions after which the topmost frame goes on in place.
InPlace ==
  \/ EnterBlock \/ If \/ Else \/ End \/ Br \/ BrIf \/ BrTable \/ Return \/ CallImport
  \/ Drop \/ Select \/ VarGet \/ LocalSet \/ GlobalSet \/ ConstI32 \/ ConstI64 \/ Produce \/ Store

LEMMA InPlaceMoves ==
  ASSUME IInv, InPlace
  PROVE  /\ Moves /\ stack' \in Seq(Word) /\ globals' \in Seq(Word)
         /\ UNCHANGED <<module, mode, result, call>>
<1>1. stack \in Seq(Word) /\ globals \in Seq(Word)
  BY DEF IInv, DataOK
<1>2. CASE EnterBlock
  BY <1>1, <1>2, EnterBlockMoves DEF EnterBlock
<1>3. CASE If
  BY <1>1, <1>3, IfMoves, PopsOnly DEF If
<1>4. CASE Else
  BY <1>1, <1>4, ElseMoves DEF Else
<1>5. CASE End
  BY <1>1, <1>5, EndMoves DEF End
<1>6. CASE Br
  BY <1>1, <1>6, BrMoves DEF Br
<1>7. CASE BrIf
  BY <1>1, <1>7, BrIfMoves, PopsOnly DEF BrIf
<1>8. CASE BrTable
  BY <1>1, <1>8, BrTableMoves, PopsOnly DEF BrTable
<1>9. CASE Return
  BY <1>1, <1>9, ReturnMoves DEF Return
<1>10. CASE CallImport
  BY <1>1, <1>10, CallImportMoves DEF CallImport
<1>11. CASE Drop
  <2>1. Executes({\h1A}) /\ Advance /\ UNCHANGED <<module, mode, result, call, locals, globals>>
    BY <1>11 DEF Drop
  <2> QED BY <1>1, <1>11, <2>1, GoesToFollow, PopsOnly
<1>12. CASE Select
  BY <1>1, <1>12, SelectMoves DEF Select
<1>13. CASE VarGet
  BY <1>1, <1>13, VarGetMoves DEF VarGet
<1>14. CASE LocalSet
  BY <1>1, <1>14, LocalSetMoves DEF LocalSet
<1>15. CASE GlobalSet
  BY <1>1, <1>15, GlobalSetMoves DEF GlobalSet
<1>16. CASE ConstI32
  BY <1>1, <1>16, ConstI32Moves DEF ConstI32
<1>17. CASE ConstI64
  BY <1>1, <1>17, ConstI64Moves DEF ConstI64
<1>18. CASE Produce
  BY <1>1, <1>18, ProduceMoves DEF Produce
<1>19. CASE Store
  <2>1. Executes(Stores) /\ Advance /\ UNCHANGED <<module, mode, result, call, locals, globals>>
    BY <1>19 DEF Store
  <2> QED BY <1>1, <1>19, <2>1, GoesToFollow, PopsOnly
<1> QED
  BY <1>2, <1>3, <1>4, <1>5, <1>6, <1>7, <1>8, <1>9, <1>10, <1>11, <1>12, <1>13, <1>14,
     <1>15, <1>16, <1>17, <1>18, <1>19 DEF InPlace

\* The steps that leave every frame, and all locals, as they are.
FramesKept ==
  \/ RefuseCall \/ Finish \/ Unreachable \/ Undecodable \/ Underflow \/ OutOfSpan \/ Panic
  \/ Halted \/ UNCHANGED vars

LEMMA FramesKeptFacts ==
  ASSUME IInv, FramesKept
  PROVE  DataOK' /\ UNCHANGED <<module, call_stack, locals>>
<1>1. DataOK
  BY DEF IInv
<1>2. CASE RefuseCall
  <2>1. result' \in Outcomes
    BY <1>2 DEF RefuseCall, CallOutcome, Outcomes, Panics
  <2>2. mode' \in {"idle", "panicked"} /\ UNCHANGED <<module, call, stack, call_stack, locals, globals>>
    BY <1>2 DEF RefuseCall
  <2> QED BY <1>1, <2>1, <2>2 DEF DataOK
<1>3. CASE Finish
  <2>1. /\ mode' = "idle" /\ result' \in {"Ok", "StackTooSmall"}
        /\ UNCHANGED <<module, call, call_stack, locals, globals>>
    BY <1>3 DEF Finish
  <2>2. Words(call.ty) \in Nat
    BY DEF Words
  <2>3. stack' \in Seq(Word)
    BY <1>1, <1>3, <2>2, PoppedType DEF Finish, DataOK
  <2> QED BY <1>1, <2>1, <2>3 DEF DataOK, Outcomes
<1>4. CASE Unreachable \/ Undecodable \/ Underflow \/ OutOfSpan
  <2>1. PICK e \in Outcomes : Err(e)
    BY <1>4 DEF Unreachable, Undecodable, Underflow, OutOfSpan, Outcomes
  <2> QED BY <1>1, <2>1 DEF Err, DataOK
<1>5. CASE Panic
  BY <1>1, <1>5 DEF Panic, DataOK, Outcomes, Panics
<1>6. CASE Halted \/ UNCHANGED vars
  BY <1>1, <1>6 DEF Halted, vars, DataOK
<1> QED BY <1>2, <1>3, <1>4, <1>5, <1>6 DEF FramesKept

LEMMA StepKinds ==
  ASSUME [Next]_vars
  PROVE  InPlace \/ CallBody \/ EndOfCode \/ EnterFunction \/ FramesKept
BY DEF Next, Instruction, InPlace, FramesKept

LEMMA InitIInv == ASSUME Init PROVE IInv
<1>1. stack = <<>> /\ call_stack = <<>> /\ locals = <<>> /\ module \in Modules
  BY DEF Init
<1>2. globals \in Seq(Word)
  BY ZerosType, HostAssumption DEF Init
<1>3. call.args \in Seq(Word)
  BY DEF Init
<1>4. DataOK
  BY <1>1, <1>2, <1>3 DEF Init, DataOK, Outcomes
<1> QED BY <1>1, <1>4 DEF IInv, FramesOK, FramesDisjoint

LEMMA NextIInv == ASSUME IInv, [Next]_vars PROVE IInv'
<1>1. module \in Modules /\ DataOK
  BY DEF IInv
<1>2. CASE InPlace
  <2>1. /\ Moves /\ stack' \in Seq(Word) /\ globals' \in Seq(Word)
        /\ UNCHANGED <<module, mode, result, call>>
    BY <1>2, InPlaceMoves
  <2>2. DataOK'
    BY <1>1, <2>1 DEF DataOK
  <2> QED BY <1>1, <2>1, <2>2, MovesKeepFrames DEF IInv
<1>3. CASE CallBody
  <2>1. /\ CallsFrame /\ stack' \in Seq(Word)
        /\ UNCHANGED <<module, mode, result, call, globals>>
    BY <1>3, CallBodyCalls DEF CallBody
  <2>2. DataOK'
    BY <1>1, <2>1 DEF DataOK
  <2> QED BY <1>1, <2>1, <2>2, CallKeepsFrames DEF IInv
<1>4. CASE EndOfCode
  <2>1. UNCHANGED <<module, mode, result, call, stack, globals>>
    BY <1>4 DEF EndOfCode
  <2>2. DataOK'
    BY <1>1, <2>1 DEF DataOK
  <2> QED BY <1>1, <1>4, <2>1, <2>2, EndOfCodeKeepsFrames DEF IInv
<1>5. CASE EnterFunction
  <2>1. /\ stack' = <<>> /\ mode' = "running" /\ result' = "none" /\ UNCHANGED <<module, globals>>
    BY <1>5 DEF EnterFunction
  <2>2. FramesOK' /\ FramesDisjoint' /\ call'.args \in Seq(Word)
    BY <1>5, EnterKeepsFrames
  <2>3. DataOK'
    BY <1>1, <2>1, <2>2 DEF DataOK, Outcomes
  <2> QED BY <1>1, <2>1, <2>2, <2>3 DEF IInv
<1>6. CASE FramesKept
  <2>1. DataOK' /\ UNCHANGED <<module, call_stack, locals>>
    BY <1>6, FramesKeptFacts
  <2>2. FramesOK'
    BY <2>1, FramesOKAfter DEF IInv, FramesOK
  <2>3. FramesDisjoint'
    BY <2>1, SameModule DEF IInv, FramesDisjoint
  <2> QED BY <1>1, <2>1, <2>2, <2>3 DEF IInv
<1> QED BY <1>2, <1>3, <1>4, <1>5, <1>6, StepKinds

-----------------------------------------------------------------------------

\* The inductive invariant holds: whatever modules parse delivers, whatever
\* the host calls, and whatever earlier calls left in the context.
THEOREM Invariance == Spec => []IInv
<1>1. Init => IInv
  BY InitIInv
<1>2. IInv /\ [Next]_vars => IInv'
  BY NextIInv
<1> QED BY <1>1, <1>2, PTL DEF Spec

\* The context is well typed, and every frame runs a function with a body:
\* the expect of evaluate, and the unwraps on frames, never fail.
THEOREM TypeCorrect == Spec => []TypeOK
<1>1. IInv => TypeOK
  BY DEF IInv, DataOK, FramesOK, FrameOK, FrameType, TypeOK
<1> QED BY <1>1, Invariance, PTL

\* No reader ever leaves its code, so no read of evaluate slices out of range.
THEOREM ReadersStayInCode == Spec => []ReadersInCode
<1>1. IInv => ReadersInCode
  BY DEF IInv, FramesOK, FrameOK, ReadersInCode
<1> QED BY <1>1, Invariance, PTL

\* The frames share one vector of locals and never overlap in it.
THEOREM FramesStayDisjoint == Spec => []FramesDisjoint
<1>1. IInv => FramesDisjoint
  BY DEF IInv
<1> QED BY <1>1, Invariance, PTL

\* What the moves leave to the callers: frames below the topmost one stay,
\* and so do the locals of each, which end where the topmost frame's begin.
LEMMA CallersBelow ==
  ASSUME IInv, Active, NEW i \in 1 .. Len(call_stack) - 1
  PROVE  /\ i \in 1 .. Len(call_stack) /\ i # Len(call_stack)
         /\ Frame.locals_offset <= Len(locals)
         /\ Len(locals) \in Nat /\ Frame.locals_offset \in Nat
         /\ \A k \in call_stack[i].locals_offset + 1
                   .. call_stack[i].locals_offset + FrameWords(call_stack[i].func_idx) :
              k \in 1 .. Frame.locals_offset
<1> DEFINE n     == Len(call_stack)
           first == call_stack[i].locals_offset
           end   == first + FrameWords(call_stack[i].func_idx)
<1>1. n \in Nat /\ i \in 1 .. n /\ i # n /\ n \in i + 1 .. n
  BY FrameFacts
<1>2. end <= Frame.locals_offset
  BY <1>1 DEF IInv, FramesDisjoint, Frame
<1>3. FrameOK(call_stack[i]) /\ module \in Modules
  BY <1>1 DEF IInv, FramesOK
<1>4. first \in Nat /\ FrameWords(call_stack[i].func_idx) \in Nat
  BY <1>3, FrameParts, Zenon
<1>5. /\ Frame.locals_offset \in Nat /\ Len(locals) \in Nat
      /\ Frame.locals_offset <= Len(locals)
  <2>1. Frame.locals_offset \in Nat /\ Len(locals) \in Nat
    <3>1. FrameOK(Frame) /\ locals \in Seq(Word)
      BY FrameFacts DEF IInv, FramesOK
    <3> QED BY <3>1 DEF FrameOK, FrameType
  <2>2. /\ FrameWords(Frame.func_idx) \in Nat
        /\ Frame.locals_offset + FrameWords(Frame.func_idx) <= Len(locals)
    BY FrameFacts
  <2> QED BY <2>1, <2>2
<1>6. end \in Nat
  BY <1>4
<1>7. \A k \in first + 1 .. end : k \in 1 .. Frame.locals_offset
  <2> HIDE DEF end, first
  <2> QED BY <1>2, <1>4, <1>5, <1>6
<1> QED BY <1>1, <1>5, <1>7

LEMMA MovesKeepCallers == ASSUME IInv, Moves PROVE CallersKept
<1> SUFFICES ASSUME NEW i \in 1 .. Len(call_stack) - 1
             PROVE  LET f == call_stack[i]
                    IN  /\ i <= Len(call_stack') /\ call_stack'[i] = f
                        /\ \A k \in f.locals_offset + 1 .. f.locals_offset + FrameWords(f.func_idx) :
                             k <= Len(locals') /\ locals'[k] = locals[k]
  BY DEF CallersKept
<1>1. Active /\ \E f \in FrameType : SetFrame(f)
  BY DEF Moves
<1>2. Len(call_stack') = Len(call_stack) /\ call_stack'[i] = call_stack[i]
  BY <1>1, SetFrameFacts, CallersBelow
<1>3. \A k \in 1 .. Frame.locals_offset : k <= Len(locals') /\ locals'[k] = locals[k]
  <2>1. Frame.locals_offset <= Len(locals) /\ Len(locals) \in Nat /\ Frame.locals_offset \in Nat
    BY <1>1, CallersBelow
  <2> QED BY <2>1 DEF Moves
<1>4. i <= Len(call_stack')
  BY <1>1, <1>2, FrameFacts
<1> QED BY <1>1, <1>2, <1>3, <1>4, CallersBelow

LEMMA CallKeepsCallers == ASSUME IInv, CallsFrame PROVE CallersKept
<1> SUFFICES ASSUME NEW i \in 1 .. Len(call_stack) - 1
             PROVE  LET f == call_stack[i]
                    IN  /\ i <= Len(call_stack') /\ call_stack'[i] = f
                        /\ \A k \in f.locals_offset + 1 .. f.locals_offset + FrameWords(f.func_idx) :
                             k <= Len(locals') /\ locals'[k] = locals[k]
  BY DEF CallersKept
<1>1. Active
  BY DEF CallsFrame
<1>2. PICK idx \in Nat, next \in Nat, params \in Seq(Word) :
        /\ HasBody(idx)
        /\ call_stack' = Append([call_stack EXCEPT ![Len(call_stack)].pos = next],
                                NewFrame(idx, Len(locals)))
        /\ locals' = WithFrame(params, idx)
  BY DEF CallsFrame
<1>3. i <= Len(call_stack') /\ call_stack'[i] = call_stack[i]
  <2> DEFINE rest == [call_stack EXCEPT ![Len(call_stack)].pos = next]
             callee == NewFrame(idx, Len(locals))
  <2>1. /\ Len(rest) = Len(call_stack) /\ rest[i] = call_stack[i]
        /\ rest \in Seq(FrameType)
    <3>1. /\ FrameOK(Frame) /\ Len(call_stack) \in 1 .. Len(call_stack)
          /\ call_stack \in Seq(FrameType)
      BY <1>1, FrameFacts DEF IInv, FramesOK
    <3>2. rest = [call_stack EXCEPT ![Len(call_stack)] = [Frame EXCEPT !.pos = next]]
      BY DEF Frame
    <3>3. [Frame EXCEPT !.pos = next] \in FrameType
      BY <3>1 DEF FrameOK, FrameType
    <3> DEFINE caller == [Frame EXCEPT !.pos = next]
    <3>4. rest = [call_stack EXCEPT ![Len(call_stack)] = caller] /\ caller \in FrameType
      BY <3>2, <3>3
    <3>5. i \in 1 .. Len(call_stack) /\ i # Len(call_stack)
      BY <1>1, CallersBelow
    <3> HIDE DEF rest, caller
    <3> QED BY <3>1, <3>4, <3>5
  <2>2. callee \in FrameType
    BY DEF NewFrame, FrameType, IInv, FramesOK
  <2>3. call_stack' = Append(rest, callee)
    BY <1>2
  <2>4. i \in 1 .. Len(call_stack) /\ Len(call_stack) \in Nat
    BY <1>1, CallersBelow, FrameFacts
  <2> HIDE DEF rest, callee
  <2>5. Append(rest, callee)[i] = rest[i] /\ Len(Append(rest, callee)) = Len(rest) + 1
    BY <2>1, <2>2, <2>4, AppendProperties
  <2> QED BY <2>1, <2>3, <2>4, <2>5
<1>4. \A k \in 1 .. Frame.locals_offset : k <= Len(locals') /\ locals'[k] = locals[k]
  <2>1. Frame.locals_offset <= Len(locals) /\ Len(locals) \in Nat /\ Frame.locals_offset \in Nat
    BY <1>1, CallersBelow
  <2>2. /\ Body(idx).non_param_locals_len \in Nat
        /\ Len(params) \in Nat /\ locals \in Seq(Word)
    BY <1>2, BodyFacts DEF IsBody, IInv, FramesOK
  <2>3. /\ Len(locals') = Len(locals) + Len(params) + Body(idx).non_param_locals_len
        /\ \A k \in 1 .. Len(locals) : locals'[k] = locals[k]
    <3>1. /\ Len(WithFrame(params, idx))
               = Len(locals) + Len(params) + Body(idx).non_param_locals_len
          /\ \A k \in 1 .. Len(locals) : WithFrame(params, idx)[k] = locals[k]
      BY <2>2, WithFrameType, Zenon
    <3> QED BY <1>2, <3>1, Zenon
  <2>4. Len(locals) <= Len(locals') /\ Len(locals') \in Nat
    BY <2>1, <2>2, <2>3
  <2>5. \A k \in 1 .. Frame.locals_offset : k \in 1 .. Len(locals) /\ k <= Len(locals')
    BY <2>1, <2>4
  <2> QED BY <2>3, <2>5, Zenon
<1> QED BY <1>1, <1>3, <1>4, CallersBelow

LEMMA EndOfCodeKeepsCallers == ASSUME IInv, EndOfCode PROVE CallersKept
<1> SUFFICES ASSUME NEW i \in 1 .. Len(call_stack) - 1
             PROVE  LET f == call_stack[i]
                    IN  /\ i <= Len(call_stack') /\ call_stack'[i] = f
                        /\ \A k \in f.locals_offset + 1 .. f.locals_offset + FrameWords(f.func_idx) :
                             k <= Len(locals') /\ locals'[k] = locals[k]
  BY DEF CallersKept
<1> DEFINE n == Len(call_stack)
<1>1. Active
  BY DEF EndOfCode
<1>2. /\ n \in Nat /\ n - 1 \in 0 .. n /\ call_stack \in Seq(FrameType) /\ locals \in Seq(Word)
      /\ Frame.locals_offset \in 0 .. Len(locals)
  BY <1>1, FrameFacts, CallersBelow DEF IInv, FramesOK
<1>3. call_stack' = SubSeq(call_stack, 1, n - 1) /\ locals' = SubSeq(locals, 1, Frame.locals_offset)
  BY DEF EndOfCode
<1>4. i <= Len(call_stack') /\ call_stack'[i] = call_stack[i]
  BY <1>2, <1>3, PrefixOf
<1>5. \A k \in 1 .. Frame.locals_offset : k <= Len(locals') /\ locals'[k] = locals[k]
  BY <1>2, <1>3, PrefixOf
<1> HIDE DEF n
<1> QED BY <1>1, <1>4, <1>5, CallersBelow

\* No step changes the position, the blocks or the locals of a frame below
\* the topmost one: a callee cannot reach its callers.
THEOREM CallersStayUntouched == Spec => CallersUntouched
<1>1. IInv /\ [Next]_vars => [CallersKept]_vars
  <2> SUFFICES ASSUME IInv, [Next]_vars PROVE [CallersKept]_vars
    OBVIOUS
  <2>1. CASE InPlace
    BY <2>1, InPlaceMoves, MovesKeepCallers
  <2>2. CASE CallBody
    BY <2>2, CallBodyCalls, CallKeepsCallers
  <2>3. CASE EndOfCode
    BY <2>3, EndOfCodeKeepsCallers
  <2>4. CASE EnterFunction
    BY <2>4 DEF EnterFunction, CallersKept
  <2>5. CASE FramesKept
    <3>1. UNCHANGED <<module, call_stack, locals>>
      BY <2>5, FramesKeptFacts
    <3> SUFFICES ASSUME mode = "running", NEW i \in 1 .. Len(call_stack) - 1
                 PROVE  LET f == call_stack[i]
                        IN  /\ i <= Len(call_stack)
                            /\ \A k \in f.locals_offset + 1 .. f.locals_offset + FrameWords(f.func_idx) :
                                 k <= Len(locals)
      BY <3>1 DEF CallersKept
    <3>2. call_stack # <<>> /\ i <= Len(call_stack)
      BY DEF IInv, FramesOK
    <3>3. Active
      BY <3>2 DEF Active
    <3>4. /\ Frame.locals_offset <= Len(locals)
          /\ Len(locals) \in Nat /\ Frame.locals_offset \in Nat
      BY <3>3, CallersBelow, Zenon
    <3>5. \A k \in 1 .. Frame.locals_offset : k <= Len(locals)
      BY <3>4
    <3> QED BY <3>2, <3>3, <3>5, CallersBelow, Zenon
  <2> QED BY <2>1, <2>2, <2>3, <2>4, <2>5, StepKinds
<1> QED BY <1>1, Invariance, PTL DEF Spec, CallersUntouched
=============================================================================
