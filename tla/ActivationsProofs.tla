------------------------- MODULE ActivationsProofs -------------------------
(***************************************************************************)
(* The frames of Interpreter, in one vector of locals, implement the       *)
(* Activations of WebAssembly: the initial states map to initial states,   *)
(* and every step to a step or a stutter.                                  *)
(*                                                                         *)
(* Besides the invariant of InterpreterProofs the mapping needs to know    *)
(* that the entry frame lies at the bottom of the vector, so that its end  *)
(* leaves no locals (AtBottom).  Each of the moves of InterpreterProofs    *)
(* then is one action of Activations: Moves is Work, CallsFrame is Call,   *)
(* EndOfCode is Return and EnterFunction is Start.                         *)
(*                                                                         *)
(* Since a call that succeeds takes all its locals with it, the arguments  *)
(* of the next one arrive in its parameters (ArgumentsArrive).             *)
(***************************************************************************)
EXTENDS InterpreterProofs

\* The entry frame lies at the bottom of the locals, and takes all with it.
AtBottom ==
  mode = "running" =>
    /\ call_stack = <<>> => locals = <<>>
    /\ call_stack # <<>> => call_stack[1].locals_offset = 0

\* The inductive invariant of the refinement.
RInv == IInv /\ AtBottom

-----------------------------------------------------------------------------
(* Frames as activations.                                                  *)

\* A span of a vector, element by element.
LEMMA SpanElements ==
  ASSUME NEW S, NEW s \in Seq(S), NEW m \in Nat, NEW n \in Nat, m + n <= Len(s)
  PROVE  /\ SubSeq(s, m + 1, m + n) \in Seq(S)
         /\ Len(SubSeq(s, m + 1, m + n)) = n
         /\ \A i \in 1 .. n : SubSeq(s, m + 1, m + n)[i] = s[m + i]
<1>1. \A i \in m + 1 .. m + n : s[i] \in S
  BY ElementOfSeq, LenProperties
<1>2. \A i \in 1 .. (m + n) - (m + 1) + 1 : SubSeq(s, m + 1, m + n)[i] = s[(m + 1) + i - 1]
  BY <1>1, SubSeqProperties
<1>3. \A i \in 1 .. n : i \in 1 .. (m + n) - (m + 1) + 1 /\ (m + 1) + i - 1 = m + i
  OBVIOUS
<1> QED BY <1>2, <1>3, SuffixOf

\* Two vectors that agree on a span have the same span.
LEMMA SameSpan ==
  ASSUME NEW s \in Seq(Word), NEW t \in Seq(Word), NEW m \in Nat, NEW n \in Nat,
         m + n <= Len(s), m + n <= Len(t),
         \A k \in m + 1 .. m + n : s[k] = t[k]
  PROVE  SubSeq(s, m + 1, m + n) = SubSeq(t, m + 1, m + n)
<1> DEFINE u == SubSeq(s, m + 1, m + n)
           v == SubSeq(t, m + 1, m + n)
<1>1. /\ u \in Seq(Word) /\ Len(u) = n /\ \A i \in 1 .. n : u[i] = s[m + i]
      /\ v \in Seq(Word) /\ Len(v) = n /\ \A i \in 1 .. n : v[i] = t[m + i]
  BY SpanElements
<1> HIDE DEF u, v
<1>2. \A i \in 1 .. n : m + i \in m + 1 .. m + n
  OBVIOUS
<1>3. \A i \in 1 .. n : u[i] = v[i]
  <2> TAKE i \in 1 .. n
  <2> DEFINE k == m + i
  <2>1. u[i] = s[k] /\ v[i] = t[k] /\ k \in m + 1 .. m + n
    BY <1>1, <1>2
  <2> HIDE DEF k
  <2> QED BY <2>1
<1>4. u = v
  BY <1>1, <1>3, SeqEqual
<1> QED BY <1>4 DEF u, v

\* Every frame on the call stack lies inside the vector.
LEMMA EveryFrame ==
  ASSUME IInv, NEW i \in 1 .. Len(call_stack)
  PROVE  /\ HasBody(call_stack[i].func_idx) /\ IsBody(Body(call_stack[i].func_idx))
         /\ call_stack[i].func_idx \in Nat /\ call_stack[i].locals_offset \in Nat
         /\ FrameWords(call_stack[i].func_idx) \in Nat
         /\ call_stack[i].locals_offset + FrameWords(call_stack[i].func_idx) <= Len(locals)
<1>1. FrameOK(call_stack[i]) /\ module \in Modules
  BY DEF IInv, FramesOK
<1>2. call_stack[i].locals_offset + FrameWords(call_stack[i].func_idx) <= Len(locals)
  BY DEF IInv, FramesDisjoint
<1> QED BY <1>1, <1>2, FrameParts, Zenon

\* The activations under way are those of the call stack.
LEMMA UnderWayIs ==
  ASSUME IInv, mode = "running"
  PROVE  /\ Len(UnderWay) = Len(call_stack) /\ Len(call_stack) \in Nat
         /\ \A i \in 1 .. Len(call_stack) : UnderWay[i] = ActivationOf(call_stack[i])
         /\ UnderWay = <<>> <=> call_stack = <<>>
<1>1. Len(call_stack) \in Nat /\ call_stack \in Seq(FrameType)
  BY DEF IInv, FramesOK
<1>2. UnderWay = [i \in 1 .. Len(call_stack) |-> ActivationOf(call_stack[i])]
  BY DEF UnderWay
<1>3. Len(UnderWay) = Len(call_stack)
  BY <1>1, <1>2
<1> QED BY <1>1, <1>2, <1>3

\* Each of them has the parameters and locals of its function.
LEMMA EverySized ==
  ASSUME IInv, NEW i \in 1 .. Len(call_stack)
  PROVE  /\ ActivationOf(call_stack[i]).function = call_stack[i].func_idx
         /\ call_stack[i].func_idx \in DOMAIN LocalsOf
         /\ LocalsOf[call_stack[i].func_idx].params = Body(call_stack[i].func_idx).params_len
         /\ LocalsOf[call_stack[i].func_idx].own = Body(call_stack[i].func_idx).non_param_locals_len
         /\ Len(ActivationOf(call_stack[i]).locals) = FrameWords(call_stack[i].func_idx)
         /\ \A k \in 1 .. FrameWords(call_stack[i].func_idx) :
              ActivationOf(call_stack[i]).locals[k] = locals[call_stack[i].locals_offset + k]
<1> DEFINE f == call_stack[i]
<1>1. /\ HasBody(f.func_idx) /\ f.func_idx \in Nat
      /\ f.locals_offset \in Nat /\ FrameWords(f.func_idx) \in Nat
      /\ f.locals_offset + FrameWords(f.func_idx) <= Len(locals)
      /\ locals \in Seq(Word)
  BY EveryFrame DEF IInv, FramesOK
<1>2. f.func_idx \in {k \in {j - 1 : j \in DOMAIN module.functions} : HasBody(k)}
  <2>1. f.func_idx + 1 \in DOMAIN module.functions /\ f.func_idx = (f.func_idx + 1) - 1
    BY <1>1 DEF HasBody
  <2> QED BY <2>1, <1>1
<1>3. /\ f.func_idx \in DOMAIN LocalsOf
      /\ LocalsOf[f.func_idx].params = Body(f.func_idx).params_len
      /\ LocalsOf[f.func_idx].own = Body(f.func_idx).non_param_locals_len
  BY <1>2 DEF LocalsOf
<1> DEFINE m == f.locals_offset
           n == FrameWords(f.func_idx)
<1>4. m \in Nat /\ n \in Nat /\ m + n <= Len(locals) /\ locals \in Seq(Word)
  BY <1>1
<1> HIDE DEF m, n
<1>5. /\ Len(SubSeq(locals, m + 1, m + n)) = n
      /\ \A k \in 1 .. n : SubSeq(locals, m + 1, m + n)[k] = locals[m + k]
  BY <1>4, SpanElements
<1> QED BY <1>3, <1>5 DEF ActivationOf, m, n

\* A frame that stays in its place, with its locals, stays as activation.
LEMMA SameActivation ==
  ASSUME IInv, IInv', UNCHANGED module,
         NEW i \in 1 .. Len(call_stack), i \in 1 .. Len(call_stack'),
         call_stack'[i].func_idx = call_stack[i].func_idx,
         call_stack'[i].locals_offset = call_stack[i].locals_offset,
         \A k \in call_stack[i].locals_offset + 1
               .. call_stack[i].locals_offset + FrameWords(call_stack[i].func_idx) :
           locals'[k] = locals[k]
  PROVE  ActivationOf(call_stack[i])' = ActivationOf(call_stack[i])
<1> DEFINE f == call_stack[i]
           m == f.locals_offset
           n == FrameWords(f.func_idx)
<1>1. /\ m \in Nat /\ n \in Nat /\ m + n <= Len(locals)
      /\ locals \in Seq(Word) /\ locals' \in Seq(Word)
  BY EveryFrame DEF IInv, FramesOK
<1>2. FrameWords(call_stack[i].func_idx)' = n
  BY SameModule DEF FrameWords, Body
<1>3. m + n <= Len(locals')
  BY <1>2 DEF IInv, FramesDisjoint
<1> HIDE DEF m, n
<1>4. \A k \in m + 1 .. m + n : locals[k] = locals'[k]
  BY DEF m, n
<1>5. SubSeq(locals, m + 1, m + n) = SubSeq(locals', m + 1, m + n)
  BY <1>1, <1>3, <1>4, SameSpan
<1> QED BY <1>2, <1>5 DEF ActivationOf, m, n

-----------------------------------------------------------------------------
(* The steps.                                                              *)

\* The instance has the module's own names for what is mapped to it.
LEMMA SameFunctions == ASSUME UNCHANGED module PROVE LocalsOf' = LocalsOf
BY DEF LocalsOf, HasBody, Body

\* What CallersKept says of a step that keeps the module.
LEMMA CallersAreKept ==
  ASSUME IInv, IInv', CallersKept, mode = "running", mode' = "running", UNCHANGED module,
         NEW i \in 1 .. Len(call_stack) - 1
  PROVE  i <= Len(call_stack') /\ UnderWay'[i] = UnderWay[i]
<1> DEFINE f == call_stack[i]
<1>1. /\ i <= Len(call_stack') /\ call_stack'[i] = f
      /\ \A k \in f.locals_offset + 1 .. f.locals_offset + FrameWords(f.func_idx) : locals'[k] = locals[k]
  BY DEF CallersKept
<1>2. Len(call_stack) \in Nat /\ Len(call_stack') \in Nat
  BY UnderWayIs DEF IInv, FramesOK
<1>3. i \in 1 .. Len(call_stack) /\ i \in 1 .. Len(call_stack')
  BY <1>1, <1>2
<1>4. ActivationOf(call_stack[i])' = ActivationOf(call_stack[i])
  BY <1>1, <1>3, SameActivation
<1>5. UnderWay[i] = ActivationOf(call_stack[i])
  BY <1>3, UnderWayIs
<1>6. UnderWay'[i] = ActivationOf(call_stack[i])'
  BY <1>2, <1>3 DEF UnderWay
<1> QED BY <1>1, <1>4, <1>5, <1>6

\* What EverySized says of the activations, for use after a step, too.
Sizes ==
  mode = "running" =>
    /\ Len(UnderWay) = Len(call_stack)
    /\ \A i \in 1 .. Len(call_stack) :
         /\ Abstract!Sized(UnderWay[i])
         /\ UnderWay[i].function = call_stack[i].func_idx
         /\ \A k \in 1 .. FrameWords(call_stack[i].func_idx) :
              UnderWay[i].locals[k] = locals[call_stack[i].locals_offset + k]

LEMMA SizesBefore == IInv => Sizes
<1> SUFFICES ASSUME IInv, mode = "running" PROVE Sizes
  BY DEF Sizes
<1>1. Len(UnderWay) = Len(call_stack)
  BY UnderWayIs
<1>2. ASSUME NEW i \in 1 .. Len(call_stack)
      PROVE  /\ Abstract!Sized(UnderWay[i])
             /\ UnderWay[i].function = call_stack[i].func_idx
             /\ \A k \in 1 .. FrameWords(call_stack[i].func_idx) :
                  UnderWay[i].locals[k] = locals[call_stack[i].locals_offset + k]
  <2>1. UnderWay[i] = ActivationOf(call_stack[i])
    BY UnderWayIs
  <2>2. Abstract!Sized(ActivationOf(call_stack[i]))
    BY EverySized DEF Abstract!Sized, FrameWords
  <2> QED BY <2>1, <2>2, EverySized
<1> QED BY <1>1, <1>2 DEF Sizes

LEMMA SizesAfter == IInv' => Sizes'
BY SizesBefore, PTL

LEMMA WorkStep ==
  ASSUME IInv, IInv', Moves, UNCHANGED <<module, mode, result, call>>
  PROVE  Abstract!Work
<1>1. Active /\ mode = "running" /\ mode' = "running"
  BY DEF Moves, Active
<1>2. PICK n \in Nat : n = Len(call_stack) /\ n \in 1 .. n
  BY <1>1, FrameFacts
<1>3. PICK f \in FrameType :
        /\ SetFrame(f)
        /\ f.func_idx = Frame.func_idx /\ f.locals_offset = Frame.locals_offset
  BY DEF Moves
<1>4. Len(call_stack') = n /\ call_stack'[n].func_idx = call_stack[n].func_idx
  BY <1>1, <1>2, <1>3, SetFrameFacts DEF Frame
<1>5. /\ Len(UnderWay) = n /\ UnderWay # <<>>
      /\ UnderWay[n].function = call_stack[n].func_idx
  BY <1>1, <1>2, UnderWayIs, SizesBefore DEF Active, Sizes
<1>6. /\ Len(UnderWay') = n
      /\ UnderWay'[n].function = call_stack[n].func_idx
      /\ Abstract!Sized(UnderWay'[n])
  BY <1>1, <1>2, <1>4, SizesAfter, SameFunctions DEF Sizes, Abstract!Sized
<1>7. \A i \in 1 .. n - 1 : UnderWay'[i] = UnderWay[i]
  BY <1>1, <1>2, CallersAreKept, MovesKeepCallers
<1>8. UNCHANGED <<LocalsOf, Status, call>>
  <2>1. Status' = Status
    BY <1>1 DEF Status
  <2> QED BY <2>1, SameFunctions
<1>9. Status = "running"
  BY <1>1 DEF Status
<1> QED
  BY <1>2, <1>5, <1>6, <1>7, <1>8, <1>9 DEF Abstract!Work, Abstract!Keeps

LEMMA ReturnStep ==
  ASSUME IInv, IInv', EndOfCode
  PROVE  Abstract!Return
<1>1. Active /\ mode = "running" /\ mode' = "running" /\ UNCHANGED <<module, mode, call>>
  BY DEF EndOfCode, Active
<1>2. PICK n \in Nat : n = Len(call_stack) /\ n \in 1 .. n
  BY <1>1, FrameFacts
<1>3. Len(call_stack') = n - 1
  <2>1. call_stack \in Seq(FrameType) /\ n - 1 \in 0 .. Len(call_stack)
    BY <1>2 DEF IInv, FramesOK
  <2>2. call_stack' = SubSeq(call_stack, 1, n - 1)
    BY <1>2 DEF EndOfCode
  <2> QED BY <2>1, <2>2, PrefixOf
<1>4. Len(UnderWay) = n /\ UnderWay # <<>> /\ Len(UnderWay') = n - 1
  BY <1>1, <1>2, <1>3, UnderWayIs, SizesAfter DEF Active, Sizes
<1>5. \A i \in 1 .. n - 1 : UnderWay'[i] = UnderWay[i]
  BY <1>1, <1>2, CallersAreKept, EndOfCodeKeepsCallers
<1>6. UNCHANGED <<LocalsOf, Status, call.args>> /\ Status = "running"
  BY <1>1, SameFunctions DEF Status
<1> QED BY <1>4, <1>5, <1>6 DEF Abstract!Return, Abstract!Keeps

\* copy_params_and_locals: the parameters, then zeros, behind the locals.
LEMMA WithFrameElements ==
  ASSUME locals \in Seq(Word), NEW idx, NEW params \in Seq(Word),
         Body(idx).non_param_locals_len \in Nat
  PROVE  /\ \A k \in 1 .. Len(params) : WithFrame(params, idx)[Len(locals) + k] = params[k]
         /\ \A k \in 1 .. Body(idx).non_param_locals_len :
              WithFrame(params, idx)[Len(locals) + Len(params) + k] = 0
<1> DEFINE own == Zeros(Body(idx).non_param_locals_len)
<1>1. /\ own \in Seq(Word) /\ Len(own) = Body(idx).non_param_locals_len
      /\ \A k \in 1 .. Body(idx).non_param_locals_len : own[k] = 0
  BY ZerosType DEF Zeros
<1>2. WithFrame(params, idx) = locals \o params \o own
  BY DEF WithFrame
<1> HIDE DEF own
<1>3. /\ Len(locals) \in Nat /\ Len(params) \in Nat
      /\ locals \o params \in Seq(Word) /\ Len(locals \o params) = Len(locals) + Len(params)
      /\ \A k \in 1 .. Len(params) : (locals \o params)[Len(locals) + k] = params[k]
  BY ConcatProperties
<1>4. \A k \in 1 .. Len(locals) + Len(params) : (locals \o params \o own)[k] = (locals \o params)[k]
  BY <1>1, <1>3, ConcatProperties
<1>5. \A k \in 1 .. Len(own) : (locals \o params \o own)[Len(locals) + Len(params) + k] = own[k]
  BY <1>1, <1>3, ConcatProperties
<1> QED BY <1>1, <1>2, <1>3, <1>4, <1>5

LEMMA CallStep ==
  ASSUME IInv, IInv', CallsFrame, UNCHANGED <<module, mode, result, call>>
  PROVE  Abstract!Call
<1>1. Active /\ mode = "running" /\ mode' = "running"
  BY DEF CallsFrame, Active
<1>2. PICK n \in Nat : n = Len(call_stack) /\ n \in 1 .. n
  BY <1>1, FrameFacts
<1>3. PICK idx \in Nat, next \in Nat, params \in Seq(Word) :
        /\ HasBody(idx) /\ Len(params) = Body(idx).params_len
        /\ call_stack' = Append([call_stack EXCEPT ![n].pos = next], NewFrame(idx, Len(locals)))
        /\ locals' = WithFrame(params, idx)
  BY <1>2 DEF CallsFrame
<1>4. /\ Body(idx).params_len \in Nat /\ Body(idx).non_param_locals_len \in Nat
      /\ locals \in Seq(Word) /\ Len(locals) \in Nat /\ call_stack \in Seq(FrameType)
  BY <1>3, BodyFacts DEF IsBody, IInv, FramesOK
<1>5. /\ Len(call_stack') = n + 1
      /\ call_stack'[n + 1].func_idx = idx /\ call_stack'[n + 1].locals_offset = Len(locals)
      /\ call_stack'[n].func_idx = call_stack[n].func_idx
      /\ call_stack'[n].locals_offset = call_stack[n].locals_offset
  <2> DEFINE rest   == [call_stack EXCEPT ![n].pos = next]
             callee == NewFrame(idx, Len(locals))
  <2>1. /\ rest \in Seq(FrameType) /\ Len(rest) = n
        /\ rest[n].func_idx = call_stack[n].func_idx
        /\ rest[n].locals_offset = call_stack[n].locals_offset
    <3> DEFINE caller == [call_stack[n] EXCEPT !.pos = next]
    <3>1. call_stack[n] \in FrameType
      BY <1>2, <1>4
    <3>2. /\ caller \in FrameType
          /\ caller.func_idx = call_stack[n].func_idx
          /\ caller.locals_offset = call_stack[n].locals_offset
      BY <3>1 DEF FrameType
    <3>3. rest = [call_stack EXCEPT ![n] = caller]
      OBVIOUS
    <3> HIDE DEF caller, rest
    <3> QED BY <1>2, <1>4, <3>2, <3>3
  <2>2. callee \in FrameType /\ callee.func_idx = idx /\ callee.locals_offset = Len(locals)
    BY <1>3, <1>4 DEF NewFrame, FrameType
  <2>3. call_stack' = Append(rest, callee)
    BY <1>3
  <2> HIDE DEF rest, callee
  <2> QED BY <1>2, <2>1, <2>2, <2>3, AppendProperties
<1>6. Len(UnderWay) = n /\ UnderWay # <<>> /\ Len(UnderWay') = n + 1
  BY <1>1, <1>2, <1>5, UnderWayIs, SizesAfter DEF Active, Sizes
<1>7. \A i \in 1 .. n : UnderWay'[i] = UnderWay[i]
  <2>1. \A i \in 1 .. n - 1 : UnderWay'[i] = UnderWay[i]
    BY <1>1, <1>2, CallersAreKept, CallKeepsCallers
  <2>2. UnderWay'[n] = UnderWay[n]
    <3>1. /\ call_stack[n].locals_offset + FrameWords(call_stack[n].func_idx) <= Len(locals)
          /\ call_stack[n].locals_offset \in Nat /\ FrameWords(call_stack[n].func_idx) \in Nat
      BY <1>2, EveryFrame
    <3>2. \A k \in 1 .. Len(locals) : locals'[k] = locals[k]
      BY <1>3, <1>4, WithFrameType
    <3>3. ActivationOf(call_stack[n])' = ActivationOf(call_stack[n])
      <4>1. \A k \in call_stack[n].locals_offset + 1
                  .. call_stack[n].locals_offset + FrameWords(call_stack[n].func_idx) :
              k \in 1 .. Len(locals)
        BY <3>1, <1>4
      <4>2. n \in 1 .. Len(call_stack) /\ n \in 1 .. Len(call_stack')
        BY <1>2, <1>5
      <4> QED BY <1>5, <3>2, <4>1, <4>2, SameActivation
    <3>4. UnderWay[n] = ActivationOf(call_stack[n])
      BY <1>1, <1>2, UnderWayIs
    <3>5. UnderWay'[n] = ActivationOf(call_stack[n])'
      BY <1>1, <1>2, <1>5 DEF UnderWay
    <3> QED BY <3>3, <3>4, <3>5
  <2> QED BY <1>2, <2>1, <2>2
<1>8. Abstract!Fresh(UnderWay'[n + 1])
  <2>1. /\ Abstract!Sized(UnderWay'[n + 1]) /\ UnderWay'[n + 1].function = idx
        /\ \A k \in 1 .. FrameWords(idx) : UnderWay'[n + 1].locals[k] = locals'[Len(locals) + k]
    <3>1. n + 1 \in 1 .. Len(call_stack')
      BY <1>2, <1>5
    <3>2. Sizes'
      BY SizesAfter
    <3>3. UnderWay'[n + 1].function = idx
      BY <1>1, <1>5, <3>1, <3>2 DEF Sizes
    <3>4. \A k \in 1 .. FrameWords(idx) : UnderWay'[n + 1].locals[k] = locals'[Len(locals) + k]
      <4>1. (\A k \in 1 .. FrameWords(call_stack[n + 1].func_idx) :
               UnderWay[n + 1].locals[k] = locals[call_stack[n + 1].locals_offset + k])'
        BY <1>1, <3>1, <3>2 DEF Sizes
      <4>2. FrameWords(call_stack[n + 1].func_idx)' = FrameWords(idx)
        BY <1>5 DEF FrameWords, Body
      <4> QED BY <1>5, <4>1, <4>2
    <3>5. Abstract!Sized(UnderWay'[n + 1])
      BY <1>1, <3>1, <3>2, SameFunctions DEF Sizes, Abstract!Sized
    <3> QED BY <3>3, <3>4, <3>5
  <2>2. /\ LocalsOf[idx].params = Body(idx).params_len
        /\ LocalsOf[idx].own = Body(idx).non_param_locals_len
    <3>1. idx + 1 \in DOMAIN module.functions /\ idx = (idx + 1) - 1
      BY <1>3 DEF HasBody
    <3>2. idx \in {k \in {j - 1 : j \in DOMAIN module.functions} : HasBody(k)}
      BY <1>3, <3>1
    <3> QED BY <3>2 DEF LocalsOf
  <2>3. \A k \in 1 .. Body(idx).non_param_locals_len : locals'[Len(locals) + Body(idx).params_len + k] = 0
    <3>1. \A k \in 1 .. Body(idx).non_param_locals_len :
            WithFrame(params, idx)[Len(locals) + Len(params) + k] = 0
      BY <1>4, WithFrameElements
    <3> QED BY <1>3, <3>1
  <2>4. ASSUME NEW k \in 1 .. Body(idx).non_param_locals_len
        PROVE  UnderWay'[n + 1].locals[Body(idx).params_len + k] = 0
    <3>1. /\ Body(idx).params_len + k \in 1 .. FrameWords(idx)
          /\ Len(locals) + (Body(idx).params_len + k) = Len(locals) + Body(idx).params_len + k
      BY <1>4 DEF FrameWords
    <3> QED BY <2>1, <2>3, <3>1
  <2> QED BY <2>1, <2>2, <2>4 DEF Abstract!Fresh
<1>9. UNCHANGED <<LocalsOf, Status, call.args>> /\ Status = "running"
  BY <1>1, SameFunctions DEF Status
<1> QED BY <1>6, <1>7, <1>8, <1>9 DEF Abstract!Call, Abstract!Keeps

\* The entry frame starts at 0.  In a clean context the vector holds nothing
\* but its parameters and locals.
LEMMA StartStep ==
  ASSUME IInv, IInv', EnterFunction
  PROVE  Abstract!Start /\ AtBottom'
<1>1. PICK c \in Calls :
        /\ CallOutcome(c) = "Entered"
        /\ \E args \in [1 .. Body(FuncIdx(c.name)).params_len -> Results] :
              /\ call' = [args |-> args, ty |-> c.ty]
              /\ locals' = WithFrame(args, FuncIdx(c.name))
              /\ call_stack' = <<NewFrame(FuncIdx(c.name), 0)>>
  BY DEF EnterFunction
<1>2. PICK idx : idx = FuncIdx(c.name)
  OBVIOUS
<1>3. HasBody(idx) /\ idx \in Nat
  BY <1>1, <1>2 DEF CallOutcome, HasBody
<1>4. PICK args \in [1 .. Body(idx).params_len -> Results] :
        /\ call' = [args |-> args, ty |-> c.ty]
        /\ locals' = WithFrame(args, idx)
        /\ call_stack' = <<NewFrame(idx, 0)>>
  BY <1>1, <1>2
<1>5. /\ Body(idx).params_len \in Nat /\ Body(idx).non_param_locals_len \in Nat
      /\ locals \in Seq(Word)
  BY <1>3, BodyFacts DEF IsBody, IInv, FramesOK
<1>6. args \in Seq(Word) /\ Len(args) = Body(idx).params_len
  <2>1. args \in [1 .. Body(idx).params_len -> Word]
    BY WordsAssumption DEF Word
  <2> QED BY <1>5, <2>1, FunctionIsSeq
<1>7. /\ Len(call_stack') = 1 /\ call_stack' # <<>>
      /\ call_stack'[1].func_idx = idx /\ call_stack'[1].locals_offset = 0
  BY <1>4 DEF NewFrame
<1>8. mode = "idle" /\ mode' = "running" /\ UNCHANGED module
  BY DEF EnterFunction
<1>9. /\ Len(UnderWay') = 1
      /\ Abstract!Sized(UnderWay'[1]) /\ UnderWay'[1].function = idx
      /\ \A k \in 1 .. FrameWords(idx) : UnderWay'[1].locals[k] = locals'[0 + k]
  <2>1. 1 \in 1 .. Len(call_stack') /\ Sizes'
    BY <1>7, SizesAfter
  <2> QED BY <1>7, <1>8, <2>1, SameFunctions DEF Sizes, Abstract!Sized, FrameWords, Body
<1>10. /\ LocalsOf[idx].params = Body(idx).params_len
       /\ LocalsOf[idx].own = Body(idx).non_param_locals_len
  <2>1. idx + 1 \in DOMAIN module.functions /\ idx = (idx + 1) - 1
    BY <1>3 DEF HasBody
  <2>2. idx \in {k \in {j - 1 : j \in DOMAIN module.functions} : HasBody(k)}
    BY <1>3, <2>1
  <2> QED BY <2>2 DEF LocalsOf
<1>11. call'.args = args
  BY <1>4
<1>12. ASSUME Status = "ready"
       PROVE  /\ Abstract!Fresh(UnderWay'[1])
              /\ \A i \in 1 .. Len(args) : UnderWay'[1].locals[i] = args[i]
  <2>1. Len(locals) = 0
    BY <1>8, <1>12 DEF Status
  <2>2. /\ \A k \in 1 .. Len(args) : WithFrame(args, idx)[Len(locals) + k] = args[k]
        /\ \A k \in 1 .. Body(idx).non_param_locals_len :
             WithFrame(args, idx)[Len(locals) + Len(args) + k] = 0
    BY <1>5, <1>6, WithFrameElements
  <2>3. ASSUME NEW k \in 1 .. Body(idx).non_param_locals_len
        PROVE  UnderWay'[1].locals[Body(idx).params_len + k] = 0
    <3>1. /\ Body(idx).params_len + k \in 1 .. FrameWords(idx)
          /\ 0 + (Body(idx).params_len + k) = Len(locals) + Len(args) + k
      BY <1>5, <1>6, <2>1 DEF FrameWords
    <3> QED BY <1>4, <1>9, <2>2, <3>1
  <2>4. ASSUME NEW k \in 1 .. Len(args)
        PROVE  UnderWay'[1].locals[k] = args[k]
    <3>1. k \in 1 .. FrameWords(idx) /\ 0 + k = Len(locals) + k
      BY <1>5, <1>6, <2>1 DEF FrameWords
    <3> QED BY <1>4, <1>9, <2>2, <3>1
  <2> QED BY <1>9, <1>10, <2>3, <2>4 DEF Abstract!Fresh
<1>13. Status \in {"ready", "dirty"} /\ Status' = "running" /\ UNCHANGED LocalsOf
  BY <1>8, SameFunctions DEF Status
<1>14. Abstract!Start
  BY <1>6, <1>9, <1>10, <1>11, <1>12, <1>13 DEF Abstract!Start
<1>15. AtBottom'
  BY <1>7 DEF AtBottom
<1> QED BY <1>14, <1>15

\* The steps that leave every frame as it is: a refused call, the end of a
\* call, an error, a panic.
LEMMA KeptStep ==
  ASSUME RInv, FramesKept
  PROVE  /\ Abstract!Finish \/ Abstract!Fail \/ Abstract!Stop
              \/ UNCHANGED <<LocalsOf, Status, call.args, UnderWay>>
         /\ AtBottom'
<1>1. UNCHANGED <<module, call_stack, locals>>
  BY FramesKeptFacts DEF RInv
<1>2. LocalsOf' = LocalsOf
  BY <1>1, SameFunctions
<1>3. CASE RefuseCall
  <2>1. mode = "idle" /\ mode' \in {"idle", "panicked"} /\ UNCHANGED call
    BY <1>3 DEF RefuseCall
  <2>2. UnderWay = <<>> /\ UnderWay' = <<>>
    BY <2>1 DEF UnderWay
  <2>3. CASE mode' = "idle"
    BY <1>1, <1>2, <2>1, <2>2, <2>3 DEF Status, AtBottom
  <2>4. CASE mode' = "panicked"
    BY <1>1, <1>2, <2>1, <2>2, <2>4 DEF Status, Abstract!Stop, AtBottom
  <2> QED BY <2>1, <2>3, <2>4
<1>4. CASE Finish
  <2>1. mode = "running" /\ mode' = "idle" /\ call_stack = <<>> /\ UNCHANGED call
    BY <1>4 DEF Finish
  <2>2. locals = <<>>
    BY <2>1 DEF RInv, AtBottom
  <2>3. UnderWay = <<>> /\ UnderWay' = <<>>
    BY <2>1, UnderWayIs DEF UnderWay, RInv
  <2> QED BY <1>1, <1>2, <2>1, <2>2, <2>3 DEF Status, Abstract!Finish, AtBottom
<1>5. CASE Unreachable \/ Undecodable \/ Underflow \/ OutOfSpan \/ Panic
  <2>1. Active /\ mode' \in {"idle", "panicked"} /\ UNCHANGED call
    BY <1>5 DEF Unreachable, Undecodable, Underflow, OutOfSpan, Panic, Err, Executes, Fetches
  <2>2. UnderWay # <<>> /\ UnderWay' = <<>>
    BY <2>1, UnderWayIs DEF UnderWay, RInv, Active
  <2> QED BY <1>1, <1>2, <2>1, <2>2 DEF Status, Active, Abstract!Fail, AtBottom
<1>6. CASE Halted \/ UNCHANGED vars
  <2>1. UNCHANGED <<module, mode, call, call_stack, locals>>
    BY <1>6 DEF Halted, vars
  <2>2. UNCHANGED Status
    BY <2>1 DEF Status
  <2>3. UNCHANGED UnderWay
    BY <2>1, SameModule DEF UnderWay, ActivationOf, FrameWords, Body
  <2>4. AtBottom'
    BY <2>1 DEF RInv, AtBottom
  <2> QED BY <1>2, <2>1, <2>2, <2>3, <2>4
<1> QED BY <1>3, <1>4, <1>5, <1>6 DEF FramesKept

\* The steps within a call keep the entry frame at the bottom.
LEMMA StaysAtBottom ==
  ASSUME RInv, Moves \/ CallsFrame \/ EndOfCode, UNCHANGED <<module, mode>>
  PROVE  AtBottom'
<1>1. Active /\ mode = "running"
  BY DEF Moves, CallsFrame, EndOfCode, Active
<1>2. /\ Len(call_stack) \in 1 .. Len(call_stack) /\ Len(call_stack) \in Nat
      /\ call_stack \in Seq(FrameType) /\ call_stack[1].locals_offset = 0
      /\ locals \in Seq(Word)
  BY <1>1, FrameFacts DEF RInv, IInv, FramesOK, AtBottom, Active
<1>3. CASE Moves
  <2>1. PICK f \in FrameType : SetFrame(f) /\ f.locals_offset = Frame.locals_offset
    BY <1>3 DEF Moves
  <2>2. Len(call_stack') = Len(call_stack) /\ call_stack'[1].locals_offset = 0
    BY <1>1, <1>2, <2>1, SetFrameFacts DEF Frame, RInv
  <2> QED BY <1>2, <2>2 DEF AtBottom
<1>4. CASE CallsFrame
  <2>1. PICK idx \in Nat, next \in Nat :
          call_stack' = Append([call_stack EXCEPT ![Len(call_stack)].pos = next], NewFrame(idx, Len(locals)))
    BY <1>4 DEF CallsFrame
  <2> DEFINE caller == [Frame EXCEPT !.pos = next]
             rest   == [call_stack EXCEPT ![Len(call_stack)] = caller]
             callee == NewFrame(idx, Len(locals))
  <2>2. /\ caller \in FrameType /\ caller.locals_offset = Frame.locals_offset
        /\ callee \in FrameType
    <3>1. Frame \in FrameType
      BY <1>2 DEF Frame
    <3>2. caller \in FrameType /\ caller.locals_offset = Frame.locals_offset
      BY <3>1 DEF FrameType
    <3>3. callee \in FrameType
      BY <1>2 DEF FrameType, NewFrame
    <3> QED BY <3>2, <3>3
  <2>3. call_stack' = Append(rest, callee)
    BY <2>1 DEF Frame
  <2> HIDE DEF caller, callee
  <2>4. rest \in Seq(FrameType) /\ Len(rest) = Len(call_stack) /\ rest[1].locals_offset = 0
    BY <1>2, <2>2 DEF Frame
  <2> HIDE DEF rest
  <2>5. call_stack'[1] = rest[1] /\ call_stack' # <<>>
    BY <1>2, <2>2, <2>3, <2>4, AppendProperties
  <2> QED BY <2>4, <2>5 DEF AtBottom
<1>5. CASE EndOfCode
  <2>0. PICK n \in Nat \ {0} : n = Len(call_stack)
    BY <1>2
  <2>1. call_stack' = SubSeq(call_stack, 1, n - 1) /\ locals' = SubSeq(locals, 1, Frame.locals_offset)
    BY <1>5, <2>0 DEF EndOfCode
  <2>2. /\ call_stack' \in Seq(FrameType) /\ Len(call_stack') = n - 1
        /\ \A i \in 1 .. n - 1 : call_stack'[i] = call_stack[i]
    <3>1. n - 1 \in 0 .. Len(call_stack)
      BY <2>0
    <3> QED BY <1>2, <2>1, <3>1, PrefixOf
  <2>3. CASE n = 1
    <3>1. Frame.locals_offset = 0
      BY <1>2, <2>0, <2>3 DEF Frame
    <3>2. 0 \in 0 .. Len(locals)
      BY <1>2
    <3>3. locals' \in Seq(Word) /\ Len(locals') = 0
      BY <1>2, <2>1, <3>1, <3>2, PrefixOf
    <3>4. locals' = <<>>
      BY <3>3
    <3>5. call_stack' = <<>>
      BY <2>2, <2>3
    <3> QED BY <3>4, <3>5 DEF AtBottom
  <2>4. CASE n > 1
    <3>1. 1 \in 1 .. n - 1 /\ n - 1 # 0
      BY <2>0, <2>4
    <3>2. call_stack'[1].locals_offset = 0 /\ call_stack' # <<>>
      BY <1>2, <2>2, <3>1
    <3> QED BY <3>2 DEF AtBottom
  <2> QED BY <2>0, <2>3, <2>4
<1> QED BY <1>3, <1>4, <1>5

-----------------------------------------------------------------------------

LEMMA InitMaps == ASSUME Init PROVE AtBottom /\ Abstract!Init
<1>1. mode = "idle" /\ locals = <<>> /\ call.args = <<>>
  BY DEF Init
<1> QED BY <1>1 DEF AtBottom, Abstract!Init, Status, UnderWay

LEMMA StepMaps ==
  ASSUME RInv, IInv', [Next]_vars
  PROVE  /\ AtBottom'
         /\ Abstract!Next \/ UNCHANGED <<LocalsOf, Status, call.args, UnderWay>>
<1>1. IInv
  BY DEF RInv
<1>2. CASE InPlace
  <2>1. Moves /\ UNCHANGED <<module, mode, result, call>>
    BY <1>1, <1>2, InPlaceMoves
  <2> QED BY <1>1, <2>1, WorkStep, StaysAtBottom DEF Abstract!Next
<1>3. CASE CallBody
  <2>1. CallsFrame /\ UNCHANGED <<module, mode, result, call>>
    BY <1>1, <1>3, CallBodyCalls DEF CallBody
  <2> QED BY <1>1, <2>1, CallStep, StaysAtBottom DEF Abstract!Next
<1>4. CASE EndOfCode
  <2>1. UNCHANGED <<module, mode>>
    BY <1>4 DEF EndOfCode
  <2> QED BY <1>1, <1>4, <2>1, ReturnStep, StaysAtBottom DEF Abstract!Next
<1>5. CASE EnterFunction
  BY <1>1, <1>5, StartStep DEF Abstract!Next
<1>6. CASE FramesKept
  BY <1>6, KeptStep DEF Abstract!Next
<1> QED BY <1>2, <1>3, <1>4, <1>5, <1>6, StepKinds

\* Whatever modules parse delivers and whatever the host calls, the frames in
\* their one vector behave as activations with locals of their own: zeros and
\* parameters at the start, changed by no other activation, gone at the end.
THEOREM ActivationsImplemented == Spec => ImplementsActivations
<1>1. Init => AtBottom /\ Abstract!Init
  BY InitMaps
<1>2. RInv /\ IInv' /\ [Next]_vars => AtBottom' /\ [Abstract!Next]_(Abstract!vars)
  BY StepMaps DEF Abstract!vars
<1>3. IInv /\ AtBottom => RInv
  BY DEF RInv
<1> QED BY <1>1, <1>2, <1>3, Invariance, PTL DEF Spec, ImplementsActivations, Abstract!Spec
-----------------------------------------------------------------------------
(* The arguments of the host.  evaluate leaves the locals of a call that   *)
(* failed in the context, in the place of the next call's parameters; as   *)
(* long as no call has failed, none is left.                               *)

\* The errors with which evaluate leaves a call under way.
Traps == {"Unreachable", "ParserError", "StackTooSmall", "MemoryAccessError"}

\* A frame with another one above it has executed its call.
CallersStarted ==
  mode = "running" => \A i \in 1 .. Len(call_stack) - 1 : call_stack[i].pos # 0

Clean ==
  /\ mode = "idle" => locals = <<>>
  /\ CallersStarted
  /\ StartsWithArguments

\* An instruction of the entry frame leaves it behind the start of its code.
LEMMA MovesStayClean ==
  ASSUME IInv, Clean, Moves, UNCHANGED mode
  PROVE  Clean'
<1>1. Active /\ mode = "running" /\ mode' = "running"
  BY DEF Moves, Active
<1>2. PICK n \in Nat \ {0} : n = Len(call_stack)
  BY <1>1, FrameFacts
<1>3. PICK f \in FrameType : SetFrame(f) /\ f.pos # 0
  BY DEF Moves
<1>4. /\ Len(call_stack') = n
      /\ \A i \in 1 .. n : call_stack'[i] = IF i = n THEN f ELSE call_stack[i]
  BY <1>1, <1>2, <1>3, SetFrameFacts
<1>5. CallersStarted'
  <2>1. \A i \in 1 .. n - 1 : call_stack[i].pos # 0
    BY <1>1, <1>2 DEF Clean, CallersStarted
  <2>2. \A i \in 1 .. n - 1 : i \in 1 .. n /\ i # n
    OBVIOUS
  <2> QED BY <1>4, <2>1, <2>2 DEF CallersStarted
<1>6. StartsWithArguments'
  BY <1>2, <1>3, <1>4 DEF StartsWithArguments
<1> QED BY <1>1, <1>5, <1>6 DEF Clean

\* The frame that calls has read its instruction.
LEMMA CallStaysClean ==
  ASSUME IInv, Clean, CallsFrame, UNCHANGED mode
  PROVE  Clean'
<1>1. Active /\ mode = "running" /\ mode' = "running"
  BY DEF CallsFrame, Active
<1>2. PICK n \in Nat \ {0} : n = Len(call_stack)
  BY <1>1, FrameFacts
<1>3. call_stack \in Seq(FrameType) /\ Frame \in FrameType /\ Len(locals) \in Nat
  BY <1>2 DEF IInv, FramesOK, Frame
<1>4. PICK idx \in Nat, next \in Nat :
        /\ next \in 1 .. Len(Code)
        /\ call_stack' = Append([call_stack EXCEPT ![n].pos = next], NewFrame(idx, Len(locals)))
  BY <1>2 DEF CallsFrame
<1> DEFINE caller == [Frame EXCEPT !.pos = next]
           rest   == [call_stack EXCEPT ![n] = caller]
           callee == NewFrame(idx, Len(locals))
<1>5. caller \in FrameType /\ caller.pos # 0 /\ callee \in FrameType
  <2>1. Len(Code) \in Nat
    BY <1>1, FrameFacts DEF IsBody, Code
  <2>2. next # 0
    BY <1>4, <2>1
  <2>3. caller \in FrameType /\ caller.pos = next
    BY <1>3 DEF FrameType
  <2>4. callee \in FrameType
    BY <1>3 DEF FrameType, NewFrame
  <2> QED BY <2>2, <2>3, <2>4
<1>6. call_stack' = Append(rest, callee)
  BY <1>2, <1>4 DEF Frame
<1> HIDE DEF caller, callee
<1>7. /\ rest \in Seq(FrameType) /\ Len(rest) = n
      /\ \A i \in 1 .. n : rest[i] = IF i = n THEN caller ELSE call_stack[i]
  BY <1>2, <1>3, <1>5
<1> HIDE DEF rest
<1>8. Len(call_stack') = n + 1 /\ \A i \in 1 .. n : call_stack'[i] = rest[i]
  BY <1>5, <1>6, <1>7, AppendProperties
<1>9. CallersStarted'
  <2>1. \A i \in 1 .. n - 1 : call_stack[i].pos # 0
    BY <1>1, <1>2 DEF Clean, CallersStarted
  <2>2. ASSUME NEW i \in 1 .. n PROVE call_stack'[i].pos # 0
    <3>1. i = n \/ i \in 1 .. n - 1
      OBVIOUS
    <3> QED BY <1>5, <1>7, <1>8, <2>1, <3>1
  <2>3. Len(call_stack') - 1 = n
    BY <1>8
  <2> QED BY <2>2, <2>3 DEF CallersStarted
<1>10. StartsWithArguments'
  <2>1. Len(call_stack') # 1
    BY <1>8
  <2> QED BY <2>1 DEF StartsWithArguments
<1> QED BY <1>1, <1>9, <1>10 DEF Clean

\* A return never uncovers a frame that is at the start of its code.
LEMMA ReturnStaysClean ==
  ASSUME IInv, Clean, EndOfCode
  PROVE  Clean'
<1>1. Active /\ mode = "running" /\ mode' = "running"
  BY DEF EndOfCode, Active
<1>2. PICK n \in Nat \ {0} : n = Len(call_stack)
  BY <1>1, FrameFacts
<1>3. Len(call_stack') = n - 1 /\ \A i \in 1 .. n - 1 : call_stack'[i] = call_stack[i]
  <2>1. call_stack \in Seq(FrameType) /\ n - 1 \in 0 .. Len(call_stack)
    BY <1>2 DEF IInv, FramesOK
  <2>2. call_stack' = SubSeq(call_stack, 1, n - 1)
    BY <1>2 DEF EndOfCode
  <2> QED BY <2>1, <2>2, PrefixOf
<1>4. \A i \in 1 .. n - 1 : call_stack'[i].pos # 0
  <2>1. \A i \in 1 .. n - 1 : call_stack[i].pos # 0
    BY <1>1, <1>2 DEF Clean, CallersStarted
  <2> QED BY <1>3, <2>1
<1>5. CallersStarted'
  <2>1. \A i \in 1 .. (n - 1) - 1 : i \in 1 .. n - 1
    OBVIOUS
  <2> QED BY <1>3, <1>4, <2>1 DEF CallersStarted
<1>6. StartsWithArguments'
  <2>1. Len(call_stack') = 1 => 1 \in 1 .. n - 1
    BY <1>3
  <2> QED BY <1>4, <2>1 DEF StartsWithArguments
<1> QED BY <1>1, <1>5, <1>6 DEF Clean

\* In a clean context the vector begins with the arguments of the call.
LEMMA EnterStaysClean ==
  ASSUME IInv, Clean, EnterFunction
  PROVE  Clean'
<1>1. PICK c \in Calls :
        /\ CallOutcome(c) = "Entered"
        /\ \E args \in [1 .. Body(FuncIdx(c.name)).params_len -> Results] :
              /\ call' = [args |-> args, ty |-> c.ty]
              /\ locals' = WithFrame(args, FuncIdx(c.name))
              /\ call_stack' = <<NewFrame(FuncIdx(c.name), 0)>>
  BY DEF EnterFunction
<1>2. PICK idx : idx = FuncIdx(c.name)
  OBVIOUS
<1>3. HasBody(idx)
  BY <1>1, <1>2 DEF CallOutcome
<1>4. PICK args \in [1 .. Body(idx).params_len -> Results] :
        call'.args = args /\ locals' = WithFrame(args, idx) /\ Len(call_stack') = 1
  BY <1>1, <1>2
<1>5. /\ Body(idx).params_len \in Nat /\ Body(idx).non_param_locals_len \in Nat
      /\ locals \in Seq(Word)
  BY <1>3, BodyFacts DEF IsBody, IInv, FramesOK
<1>6. args \in Seq(Word) /\ Len(args) = Body(idx).params_len
  <2>1. args \in [1 .. Body(idx).params_len -> Word]
    BY WordsAssumption DEF Word
  <2> QED BY <1>5, <2>1, FunctionIsSeq
<1>7. mode' = "running" /\ Len(locals) = 0
  BY DEF EnterFunction, Clean
<1>8. /\ locals' \in Seq(Word) /\ Len(args) \in 0 .. Len(locals')
      /\ \A k \in 1 .. Len(args) : locals'[k] = args[k]
  <2>1. /\ \A k \in 1 .. Len(args) : WithFrame(args, idx)[Len(locals) + k] = args[k]
        /\ WithFrame(args, idx) \in Seq(Word)
        /\ Len(WithFrame(args, idx)) = Len(locals) + Len(args) + Body(idx).non_param_locals_len
    BY <1>5, <1>6, WithFrameElements, WithFrameType
  <2> QED BY <1>4, <1>5, <1>6, <1>7, <2>1
<1>9. SubSeq(locals', 1, Len(args)) = args
  <2>1. /\ SubSeq(locals', 1, Len(args)) \in Seq(Word)
        /\ Len(SubSeq(locals', 1, Len(args))) = Len(args)
        /\ \A k \in 1 .. Len(args) : SubSeq(locals', 1, Len(args))[k] = args[k]
    BY <1>8, PrefixOf
  <2> QED BY <1>6, <2>1, SeqEqual
<1>10. StartsWithArguments'
  BY <1>4, <1>9 DEF StartsWithArguments
<1>11. CallersStarted'
  BY <1>4 DEF CallersStarted
<1> QED BY <1>7, <1>10, <1>11 DEF Clean

\* A call that is refused or comes to its end leaves no locals.
LEMMA KeptStaysClean ==
  ASSUME RInv, Clean, FramesKept, result' \notin Traps
  PROVE  Clean'
<1>1. UNCHANGED <<module, call_stack, locals>>
  BY FramesKeptFacts DEF RInv
<1>2. CASE RefuseCall
  BY <1>1, <1>2 DEF RefuseCall, Clean, CallersStarted, StartsWithArguments
<1>3. CASE Finish
  BY <1>1, <1>3 DEF Finish, Clean, CallersStarted, StartsWithArguments, RInv, AtBottom
<1>4. CASE Unreachable \/ Undecodable \/ Underflow \/ OutOfSpan
  BY <1>4 DEF Unreachable, Undecodable, Underflow, OutOfSpan, Err, Traps
<1>5. CASE Panic
  BY <1>5 DEF Panic, Clean, CallersStarted, StartsWithArguments
<1>6. CASE Halted \/ UNCHANGED vars
  BY <1>6 DEF Halted, vars, Clean, CallersStarted, StartsWithArguments
<1> QED BY <1>2, <1>3, <1>4, <1>5, <1>6 DEF FramesKept

LEMMA StaysClean ==
  ASSUME RInv, Clean, [Next]_vars, result' \notin Traps
  PROVE  Clean'
<1>1. IInv
  BY DEF RInv
<1>2. CASE InPlace
  <2>1. Moves /\ UNCHANGED mode
    BY <1>1, <1>2, InPlaceMoves
  <2> QED BY <1>1, <2>1, MovesStayClean
<1>3. CASE CallBody
  <2>1. CallsFrame /\ UNCHANGED mode
    BY <1>1, <1>3, CallBodyCalls DEF CallBody
  <2> QED BY <1>1, <2>1, CallStaysClean
<1> QED
  BY <1>1, <1>2, <1>3, EnterStaysClean, ReturnStaysClean, KeptStaysClean, StepKinds

\* As long as no call of the host has failed, every call finds its arguments
\* in its parameters, whatever the calls before it did: they took their locals
\* with them.  Without the premise it is false (the run after_trap).
THEOREM ArgumentsArrive == Spec /\ [](result \notin Traps) => []StartsWithArguments
<1>1. Init => AtBottom /\ Clean
  <2> SUFFICES ASSUME Init PROVE AtBottom /\ Clean
    OBVIOUS
  <2>1. mode = "idle" /\ locals = <<>>
    BY DEF Init
  <2> QED BY <2>1 DEF AtBottom, Clean, CallersStarted, StartsWithArguments
<1>2. RInv /\ IInv' /\ [Next]_vars => AtBottom'
  BY StepMaps
<1>3. RInv /\ Clean /\ [Next]_vars /\ (result \notin Traps)' => Clean'
  BY StaysClean
<1>4. IInv /\ AtBottom => RInv
  BY DEF RInv
<1>5. Clean => StartsWithArguments
  BY DEF Clean
<1> QED BY <1>1, <1>2, <1>3, <1>4, <1>5, Invariance, PTL DEF Spec
=============================================================================
