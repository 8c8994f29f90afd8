---------------------------- MODULE Interpreter ----------------------------
(***************************************************************************)
(* execute_function, evaluate, do_call and do_branch of                    *)
(* uwasm/src/interpreter.rs, with the VmContext they work on: the operand  *)
(* stack, the call stack and the locals of all active frames, kept in one  *)
(* vector.  The host keeps one context and one globals slice and calls     *)
(* exported functions again and again, whatever the previous call returned.*)
(*                                                                         *)
(* One action is one instruction of the topmost frame.  Code is bytes, as  *)
(* the code reads it.  The data is abstract: a value is one or two 32-bit  *)
(* words, low word first; a word is a number below Base; what a numeric    *)
(* instruction, a load or a float literal produces is any of Results.      *)
(* The build modelled is the release build (no VmStack::types).            *)
(***************************************************************************)
EXTENDS ControlFlow, WasmModule

CONSTANTS Modules,       \* the parsed modules that may be run
          Calls,         \* the calls of the host: [name, params, ty]
          Imports,       \* func_idx -> words the host function there pops
          NoBody,        \* body of an imported function
          Base,          \* number of values of a word, 2^32 in the code
          Results,       \* the words that abstracted computations produce
          MemoryBytes,   \* length of the memory slice
          GlobalsWords,  \* length of the globals slice
          MaxFrames, MaxLocals, MaxStack  \* what the three vectors can hold

\* What parse guarantees of a module, whatever the bytes it was given
\* (DeliversRunnable of ModuleParser).
ASSUME ModulesAssumption == \A m \in Modules : IsRunnable(m, NoBody)

ASSUME WordsAssumption == Base \in Nat \ {0} /\ Results \subseteq 0 .. Base - 1
ASSUME HostAssumption ==
  /\ MemoryBytes \in Nat /\ GlobalsWords \in Nat
  /\ MaxFrames \in Nat \ {0} /\ MaxLocals \in Nat /\ MaxStack \in Nat
  /\ DOMAIN Imports \subseteq Nat /\ \A i \in DOMAIN Imports : Imports[i] \in Nat

VARIABLES module,      \* the module; it never changes
          mode,        \* "idle" between calls, "running", "panicked"
          result,      \* what the last call returned, or why it panicked
          call,        \* arguments and result type of the call being run
          stack,       \* VmContext::stack, the last word on top
          call_stack,  \* VmContext::call_stack, the topmost frame last
          locals,      \* VmContext::locals
          globals      \* the host's globals slice

vars == <<module, mode, result, call, stack, call_stack, locals, globals>>

Word == 0 .. Base - 1

Zeros(n) == [i \in 1 .. n |-> 0]

Init ==
  /\ module \in Modules
  /\ mode = "idle" /\ result = "none"
  /\ call = [args |-> <<>>, ty |-> "Void"]
  /\ stack = <<>> /\ call_stack = <<>> /\ locals = <<>>
  /\ globals = Zeros(GlobalsWords)

-----------------------------------------------------------------------------
(* The topmost frame and the instruction at its reader.                    *)

Body(idx)    == module.functions[idx + 1].body
HasBody(idx) == idx \in Nat /\ idx + 1 \in DOMAIN module.functions /\ Body(idx) # NoBody

Frame   == call_stack[Len(call_stack)]
Func    == Body(Frame.func_idx)
Code    == Func.code
Op      == At(Code, Frame.pos)
Follow  == After(ExecLayout(Op), Code, Frame.pos + 1)
Operand == Unsigned(Code, Frame.pos + 1)
TypeByte == TypeOfByte(At(Code, Frame.pos + 1))

Active  == mode = "running" /\ call_stack # <<>>
Fetches == Active /\ Frame.pos < Len(Code)

\* Mutant of NewFrame: every frame starts at the bottom of the locals.
NewFrameAtZero(idx, offset) == [func_idx |-> idx, pos |-> 0, locals_offset |-> 0, blocks |-> <<>>]

NewFrame(idx, offset) == [func_idx |-> idx, pos |-> 0, locals_offset |-> offset, blocks |-> <<>>]

SetFrame(f) == call_stack' = [call_stack EXCEPT ![Len(call_stack)] = f]
Advance     == SetFrame([Frame EXCEPT !.pos = Follow])

Top(n)     == SubSeq(stack, Len(stack) - n + 1, Len(stack))
Popped(n)  == SubSeq(stack, 1, Len(stack) - n)
Signed32(w) == IF 2 * w < Base THEN w ELSE w - Base

\* The local or global of the instruction: its type, place and vector.
VarType(op, x) == IF op \in LocalOps THEN Func.locals_types[x + 1] ELSE module.globals[x + 1]

\* Mutant of VarAt: locals are not relative to the frame.
VarAtAbsolute(op, x) == IF op \in LocalOps THEN Func.locals_offsets[x + 1] ELSE module.globals_offsets[x + 1]

VarAt(op, x)   == IF op \in LocalOps THEN Frame.locals_offset + Func.locals_offsets[x + 1]
                              ELSE module.globals_offsets[x + 1]
VarSpan(op) == IF op \in LocalOps THEN locals ELSE globals

\* UntypedMemorySpan::write_param_raw
Overwritten(span, at, words) ==
  [i \in 1 .. Len(span) |-> IF i \in at + 1 .. at + Len(words) THEN words[i - at] ELSE span[i]]

\* FuncBody::params_len_in_bytes + non_param_locals_len_in_bytes, in words
FrameWords(idx) == Body(idx).params_len + Body(idx).non_param_locals_len

\* Mutant of WithFrame: no space for the locals of the function.
WithParamsOnly(params, idx) == locals \o params

\* copy_params_and_locals
WithFrame(params, idx) == locals \o params \o Zeros(Body(idx).non_param_locals_len)

-----------------------------------------------------------------------------
(* What an instruction needs to succeed.  The conditions are checked in    *)
(* this order, except that br_table pops before it reads its operands.     *)

Decodes == Follow # Failed

\* locals_types[local_idx], module.globals[global_idx]; the kinds of if with
\* a todo!(); opcodes without an arm (0xFF panics at profile, before that).
Indexable(op, x) ==
  /\ op \in Executed
  /\ op \in LocalOps  => x + 1 \in DOMAIN Func.locals_types /\ Frame.locals_offset <= Len(locals)
  /\ op \in GlobalOps => x + 1 \in DOMAIN module.globals
  /\ op = \h04        => TypeByte \in ValueType

\* Words popped (or peeked, for local.tee), and words pushed.
TypeFor(op, x) == IF op = \h04 THEN TypeByte ELSE VarType(op, x)
Needs(op, x)   == NeededWords(op, TypeFor(op, x))
Pushes(op, x)  == PushedWords(op, TypeFor(op, x))

Enough(op, x)  == Len(stack) >= Needs(op, x)
Spanned(op, x) == op \in LocalOps \cup GlobalOps => VarAt(op, x) + Words(VarType(op, x)) <= Len(VarSpan(op))

\* fixed_offset + dyn_offset of a load or store
Address(op) ==
  Unsigned(Code, AfterNumbers(Code, Frame.pos + 1, 1))
    + Signed32(stack[Len(stack) - (IF op \in Stores THEN AccessWords(op) ELSE 0)])

\* != 0 of the kind that if pops; -0.0 equals 0.0.
IsZero(type, words) ==
  \/ \A i \in DOMAIN words : words[i] = 0
  \/ /\ type \in {"F32", "F64"}
     /\ 2 * words[Len(words)] = Base
     /\ \A i \in 1 .. Len(words) - 1 : words[i] = 0

\* The depth br_table selects: the last of the n, if the value is no index.
SelectedDepth ==
  LET n     == Operand
      value == Signed32(stack[Len(stack)])
      k     == IF value \in 0 .. n - 1 THEN value + 1 ELSE n + 1
  IN  Unsigned(Code, AfterNumbers(Code, Frame.pos + 1, k))

HasTarget(offset) == offset \in DOMAIN Func.jump_targets

\* do_branch finds a block at this depth, and a target if it needs one.
Branches(depth) ==
  \E i \in DOMAIN Frame.blocks :
    /\ Len(Frame.blocks) - i = depth
    /\ Frame.blocks[i].kind = "Block" => HasTarget(Frame.blocks[i].offset)

\* Mutant of Callee: call_indirect calls what its type operand numbers.
CalleeByOperand(op, x) == x

\* The function index of call (an operand) and of call_indirect (popped: no
\* table is read), and the words of the stack it can take as parameters.
Callee(op, x) == IF op = \h10 THEN x ELSE Signed32(stack[Len(stack)])

Callable(idx, words) ==
  IF HasBody(idx) THEN Body(idx).params_len <= words
  ELSE idx \in DOMAIN Imports /\ Imports[idx] <= words

\* Arithmetic that panics in any build, and i32.wrap_i64's try_from.
Computes(op) ==
  LET low == stack[Len(stack) - 1]  high == stack[Len(stack)]
  IN  CASE op = \h6D -> high # 0 /\ ~(Signed32(high) = -1 /\ 2 * low = Base)
        [] op \in {\h6E, \h70} -> high # 0
        [] op \in {\h80, \h82} -> low # 0 \/ high # 0
        [] op = \hA7 -> 2 * low < Base
        [] OTHER -> TRUE

NoPanic(op, x) ==
  /\ op = \h04 /\ IsZero(TypeByte, Top(Needs(op, x))) => HasTarget(Func.offset + Frame.pos)
  /\ op = \h05 => HasTarget(Func.offset + Frame.pos)
  /\ op = \h0C => Branches(x)
  /\ op = \h0D => stack[Len(stack)] = 0 \/ Branches(x)
  /\ op = \h0E => Branches(SelectedDepth)
  /\ op \in {\h10, \h11} => Callable(Callee(op, x), Len(stack) - Needs(op, x))
  /\ op \in Loads \cup Stores => Address(op) >= 0 /\ Address(op) + AccessBytes(op) <= MemoryBytes
  /\ op = \h41 => Signed(Code, Frame.pos + 1) \in -(Base \div 2) .. (Base - 1) \div 2
  /\ op = \h42 => x \in Nat /\ x \div Base \in 0 .. (Base - 1) \div 2
  /\ op \in Unary \cup Binary => Computes(op)

\* The vectors can grow: an allocation that fails aborts.
FrameFits(idx, frames) ==
  HasBody(idx) => frames < MaxFrames /\ Len(locals) + FrameWords(idx) <= MaxLocals

Room(op, x) ==
  /\ Len(stack) - Needs(op, x) + Pushes(op, x) <= MaxStack
  /\ op \in {\h10, \h11} => FrameFits(Callee(op, x), Len(call_stack))

Succeeds(op, x) == Indexable(op, x) /\ Enough(op, x) /\ Spanned(op, x) /\ NoPanic(op, x) /\ Room(op, x)

Executes(ops) ==
  /\ Fetches
  /\ Op \in ops
  /\ Decodes /\ Succeeds(Op, Operand)

-----------------------------------------------------------------------------
(* The call of the host.                                                   *)

\* get_function_index_by_name: the functions exported (or imported) as name
Named(name) == {i \in DOMAIN module.functions : module.functions[i].name = name}
FuncIdx(name) == (CHOOSE i \in Named(name) : \A j \in Named(name) : i <= j) - 1

\* The checks of execute_function, in order; multiple results are a todo!().
CallOutcome(c) ==
  LET body == Body(FuncIdx(c.name))
  IN  IF Named(c.name) = {} THEN "FunctionNotFound"
      ELSE IF ~HasBody(FuncIdx(c.name)) THEN "FunctionWithoutBody"
      ELSE IF body.params # c.params THEN "InvalidSignature"
      ELSE IF Len(body.results) > 1 THEN "panic"
      ELSE IF body.results # (IF c.ty = "Void" THEN <<>> ELSE <<c.ty>>) THEN "InvalidSignature"
      ELSE IF FrameFits(FuncIdx(c.name), 0) THEN "Entered" ELSE "OutOfMemory"

Panics == {"panic", "OutOfMemory"}

\* The InterpreterErrors, and what else becomes of a call.
Outcomes ==
  {"none", "Ok", "FunctionNotFound", "FunctionWithoutBody", "InvalidSignature", "Unreachable",
   "ParserError", "StackTooSmall", "MemoryAccessError"} \cup Panics

\* The arguments match the signature, so they take params_len words.  The
\* entry frame's locals_offset is 0, whatever the vector still holds.
EnterFunction ==
  /\ mode = "idle"
  /\ \E c \in Calls :
       /\ CallOutcome(c) = "Entered"
       /\ LET idx == FuncIdx(c.name)
          IN  \E args \in [1 .. Body(idx).params_len -> Results] :
                /\ call' = [args |-> args, ty |-> c.ty]
                /\ locals' = WithFrame(args, idx)
                /\ call_stack' = <<NewFrame(idx, 0)>>
  /\ stack' = <<>>
  /\ mode' = "running" /\ result' = "none"
  /\ UNCHANGED <<module, globals>>

RefuseCall ==
  /\ mode = "idle"
  /\ \E c \in Calls :
       /\ CallOutcome(c) # "Entered"
       /\ result' = CallOutcome(c)
  /\ mode' = IF result' \in Panics THEN "panicked" ELSE "idle"
  /\ UNCHANGED <<module, call, stack, call_stack, locals, globals>>

\* The loop of evaluate ends; TResult::pop takes the result (bool, for a
\* function without results, takes an i32).
Finish ==
  /\ mode = "running" /\ call_stack = <<>>
  /\ mode' = "idle"
  /\ IF Len(stack) >= Words(call.ty)
     THEN result' = "Ok" /\ stack' = Popped(Words(call.ty))
     ELSE result' = "StackTooSmall" /\ stack' = stack
  /\ UNCHANGED <<module, call, call_stack, locals, globals>>

\* Mutant of EndOfCode: the locals of the frame stay.
EndOfCodeKeepingLocals ==
  /\ Active /\ Frame.pos = Len(Code) /\ Frame.locals_offset <= Len(locals)
  /\ call_stack' = SubSeq(call_stack, 1, Len(call_stack) - 1)
  /\ UNCHANGED <<module, mode, result, call, stack, locals, globals>>

\* read_u8 meets the end of the code: the frame and its locals go.
EndOfCode ==
  /\ Active /\ Frame.pos = Len(Code) /\ Frame.locals_offset <= Len(locals)
  /\ call_stack' = SubSeq(call_stack, 1, Len(call_stack) - 1)
  /\ locals' = SubSeq(locals, 1, Frame.locals_offset)
  /\ UNCHANGED <<module, mode, result, call, stack, globals>>

-----------------------------------------------------------------------------
(* Control instructions.                                                   *)

\* block, loop
EnterBlock ==
  /\ Executes({\h02, \h03})
  /\ LET block == [kind |-> IF Op = \h02 THEN "Block" ELSE "Loop",
                   offset |-> Func.offset + Frame.pos, body_offset |-> Follow]
     IN  SetFrame([Frame EXCEPT !.pos = Follow, !.blocks = Append(Frame.blocks, block)])
  /\ UNCHANGED <<module, mode, result, call, stack, locals, globals>>

\* if: no block is pushed.
If ==
  /\ Executes({\h04})
  /\ LET cond == ~IsZero(TypeByte, Top(Needs(Op, Operand)))
     IN  SetFrame([Frame EXCEPT !.pos =
           IF cond THEN Follow ELSE Func.jump_targets[Func.offset + Frame.pos]])
  /\ stack' = Popped(Needs(Op, Operand))
  /\ UNCHANGED <<module, mode, result, call, locals, globals>>

\* Mutant of Else: two bytes past the target.
ElseTooFar ==
  /\ Executes({\h05})
  /\ SetFrame([Frame EXCEPT !.pos = Func.jump_targets[Func.offset + Frame.pos] + 2])
  /\ UNCHANGED <<module, mode, result, call, stack, locals, globals>>

\* else, met at the end of the taken branch: one byte past the target.
Else ==
  /\ Executes({\h05})
  /\ SetFrame([Frame EXCEPT !.pos = Func.jump_targets[Func.offset + Frame.pos] + 1])
  /\ UNCHANGED <<module, mode, result, call, stack, locals, globals>>

\* end: pops the innermost block, if there is one.
End ==
  /\ Executes({\h0B})
  /\ SetFrame([Frame EXCEPT !.pos = Follow,
                 !.blocks = SubSeq(Frame.blocks, 1, Len(Frame.blocks) - 1)])
  /\ UNCHANGED <<module, mode, result, call, stack, locals, globals>>

\* Mutants of Branch: the blocks inside stay; a block is repeated.
BranchKeepingInner(depth) ==
  LET block == Frame.blocks[Len(Frame.blocks) - depth]
  IN  SetFrame([Frame EXCEPT
        !.pos = IF block.kind = "Block" THEN Func.jump_targets[block.offset] - 1
                ELSE block.body_offset])

BranchBack(depth) ==
  LET i == Len(Frame.blocks) - depth
  IN  SetFrame([Frame EXCEPT !.blocks = SubSeq(Frame.blocks, 1, i), !.pos = Frame.blocks[i].body_offset])

\* do_branch: to the end of a block (which then pops it), to the body of a
\* loop; the blocks inside it are dropped.
Branch(depth) ==
  LET i     == Len(Frame.blocks) - depth
      block == Frame.blocks[i]
  IN  SetFrame([Frame EXCEPT !.blocks = SubSeq(Frame.blocks, 1, i),
        !.pos = IF block.kind = "Block" THEN Func.jump_targets[block.offset] - 1
                ELSE block.body_offset])

Br ==
  /\ Executes({\h0C})
  /\ Branch(Operand)
  /\ UNCHANGED <<module, mode, result, call, stack, locals, globals>>

BrIf ==
  /\ Executes({\h0D})
  /\ IF stack[Len(stack)] # 0 THEN Branch(Operand) ELSE Advance
  /\ stack' = Popped(1)
  /\ UNCHANGED <<module, mode, result, call, locals, globals>>

BrTable ==
  /\ Executes({\h0E})
  /\ Branch(SelectedDepth)
  /\ stack' = Popped(1)
  /\ UNCHANGED <<module, mode, result, call, locals, globals>>

Return ==
  /\ Executes({\h0F})
  /\ SetFrame([Frame EXCEPT !.pos = Len(Code)])
  /\ UNCHANGED <<module, mode, result, call, stack, locals, globals>>

\* Mutant of CallBody: the parameters stay on the stack.
CallBodyKeepingParams ==
  /\ Executes({\h10, \h11}) /\ HasBody(Callee(Op, Operand))
  /\ LET callee == Callee(Op, Operand)
         rest   == Len(stack) - Needs(Op, Operand) - Body(callee).params_len
     IN  /\ call_stack' = Append([call_stack EXCEPT ![Len(call_stack)].pos = Follow],
                                 NewFrame(callee, Len(locals)))
         /\ locals' = WithFrame(SubSeq(stack, rest + 1, Len(stack) - Needs(Op, Operand)), callee)
  /\ stack' = Popped(Needs(Op, Operand))
  /\ UNCHANGED <<module, mode, result, call, globals>>

\* do_call: the callee's frame lies behind all locals, and the parameters
\* move from the stack into it.
CallBody ==
  /\ Executes({\h10, \h11}) /\ HasBody(Callee(Op, Operand))
  /\ LET callee == Callee(Op, Operand)
         rest   == Len(stack) - Needs(Op, Operand) - Body(callee).params_len
     IN  /\ call_stack' = Append([call_stack EXCEPT ![Len(call_stack)].pos = Follow],
                                 NewFrame(callee, Len(locals)))
         /\ locals' = WithFrame(SubSeq(stack, rest + 1, Len(stack) - Needs(Op, Operand)), callee)
         /\ stack' = SubSeq(stack, 1, rest)
  /\ UNCHANGED <<module, mode, result, call, globals>>

\* A function without a body is the host's, which pops what it takes.
CallImport ==
  /\ Executes({\h10, \h11}) /\ ~HasBody(Callee(Op, Operand))
  /\ Advance
  /\ stack' = Popped(Needs(Op, Operand) + Imports[Callee(Op, Operand)])
  /\ UNCHANGED <<module, mode, result, call, locals, globals>>

-----------------------------------------------------------------------------
(* Instructions on the operand stack, the locals, the globals and memory.  *)

Drop ==
  /\ Executes({\h1A})
  /\ Advance
  /\ stack' = Popped(1)
  /\ UNCHANGED <<module, mode, result, call, locals, globals>>

Select ==
  /\ Executes({\h1B})
  /\ Advance
  /\ LET n == Len(stack)
     IN  stack' = Append(Popped(3), IF stack[n] = 0 THEN stack[n - 1] ELSE stack[n - 2])
  /\ UNCHANGED <<module, mode, result, call, locals, globals>>

\* local.get, global.get
VarGet ==
  /\ Executes({\h20, \h23})
  /\ Advance
  /\ stack' = stack \o SubSeq(VarSpan(Op), VarAt(Op, Operand) + 1, VarAt(Op, Operand) + Words(VarType(Op, Operand)))
  /\ UNCHANGED <<module, mode, result, call, locals, globals>>

\* local.set, local.tee (which peeks)
LocalSet ==
  /\ Executes({\h21, \h22})
  /\ Advance
  /\ locals' = Overwritten(locals, VarAt(Op, Operand), Top(Needs(Op, Operand)))
  /\ stack' = IF Op = \h21 THEN Popped(Needs(Op, Operand)) ELSE stack
  /\ UNCHANGED <<module, mode, result, call, globals>>

GlobalSet ==
  /\ Executes({\h24})
  /\ Advance
  /\ globals' = Overwritten(globals, VarAt(Op, Operand), Top(Needs(Op, Operand)))
  /\ stack' = Popped(Needs(Op, Operand))
  /\ UNCHANGED <<module, mode, result, call, locals>>

\* Mutant of ConstI32: the literal is not brought into the range of a word.
ConstI32Raw ==
  /\ Executes({\h41})
  /\ Advance
  /\ stack' = Append(stack, Signed(Code, Frame.pos + 1))
  /\ UNCHANGED <<module, mode, result, call, locals, globals>>

\* i32.const: the literal, sign-extended from its encoding.
ConstI32 ==
  /\ Executes({\h41})
  /\ Advance
  /\ stack' = Append(stack, Signed(Code, Frame.pos + 1) % Base)
  /\ UNCHANGED <<module, mode, result, call, locals, globals>>

\* i64.const: read_usize, so the encoding is not sign-extended.
ConstI64 ==
  /\ Executes({\h42})
  /\ Advance
  /\ stack' = stack \o <<Operand % Base, Operand \div Base>>
  /\ UNCHANGED <<module, mode, result, call, locals, globals>>

\* Instructions whose result is abstracted: float literals, loads, numeric
\* instructions.  Comparisons and i32.eqz push 0 or 1 in the code.
Produce ==
  /\ Executes({\h43, \h44} \cup Loads \cup Unary \cup Binary)
  /\ Advance
  /\ \E words \in [1 .. Pushes(Op, Operand) -> Results] : stack' = Popped(Needs(Op, Operand)) \o words
  /\ UNCHANGED <<module, mode, result, call, locals, globals>>

Store ==
  /\ Executes(Stores)
  /\ Advance
  /\ stack' = Popped(Needs(Op, Operand))
  /\ UNCHANGED <<module, mode, result, call, locals, globals>>

-----------------------------------------------------------------------------
(* evaluate returns an Err and leaves the context as it is.  What is left  *)
(* on the operand stack is never read: the next call clears it.            *)

Err(e) ==
  /\ mode' = "idle" /\ result' = e
  /\ UNCHANGED <<module, call, stack, call_stack, locals, globals>>

\* unreachable
Unreachable == Executes({\h00}) /\ Err("Unreachable")

\* An operand is cut short, or the kind of an if is none.
Undecodable ==
  /\ Fetches /\ ~Decodes
  /\ Op = \h0E => Enough(Op, Operand)
  /\ Err("ParserError")

Underflow ==
  /\ Fetches
  /\ Op = \h0E \/ (Decodes /\ Indexable(Op, Operand))
  /\ ~Enough(Op, Operand)
  /\ Err("StackTooSmall")

OutOfSpan ==
  /\ Fetches /\ Decodes /\ Indexable(Op, Operand) /\ Enough(Op, Operand)
  /\ ~Spanned(Op, Operand)
  /\ Err("MemoryAccessError")

\* An unwrap, an index, a division or an assert fails, or the heap is full.
Panic ==
  /\ Active
  /\ CASE Frame.pos > Len(Code) -> TRUE
       [] Frame.pos = Len(Code) -> Frame.locals_offset > Len(locals)
       [] Frame.pos < Len(Code) ->
            Decodes /\ (Indexable(Op, Operand) => Enough(Op, Operand) /\ Spanned(Op, Operand) /\ ~(NoPanic(Op, Operand) /\ Room(Op, Operand)))
  /\ mode' = "panicked"
  /\ result' = IF Fetches /\ Indexable(Op, Operand) /\ NoPanic(Op, Operand) THEN "OutOfMemory" ELSE "panic"
  /\ UNCHANGED <<module, call, stack, call_stack, locals, globals>>

Halted == mode = "panicked" /\ UNCHANGED vars

-----------------------------------------------------------------------------

Instruction ==
  \/ EnterBlock \/ If \/ Else \/ End \/ Br \/ BrIf \/ BrTable \/ Return \/ CallBody \/ CallImport
  \/ Drop \/ Select \/ VarGet \/ LocalSet \/ GlobalSet \/ ConstI32 \/ ConstI64 \/ Produce \/ Store
  \/ EndOfCode \/ Unreachable \/ Undecodable \/ Underflow \/ OutOfSpan \/ Panic

Next == EnterFunction \/ RefuseCall \/ Instruction \/ Finish \/ Halted

\* evaluate is one loop on one thread: a call under way goes on.
Spec == Init /\ [][Next]_vars /\ WF_vars(Instruction \/ Finish)
-----------------------------------------------------------------------------
(* Properties that hold for any module that parse accepts.                 *)

Block == [kind : {"Block", "Loop"}, offset : Nat, body_offset : Nat]

\* The context is well typed, and every frame runs a function with a body:
\* the expect("function existed at time of the call") of evaluate.
TypeOK ==
  /\ mode \in {"idle", "running", "panicked"}
  /\ result \in Outcomes
  /\ call.args \in Seq(Word)
  /\ stack \in Seq(Word)
  /\ call_stack \in Seq([func_idx : Nat, pos : Nat, locals_offset : Nat, blocks : Seq(Block)])
  /\ \A i \in 1 .. Len(call_stack) : HasBody(call_stack[i].func_idx)
  /\ locals \in Seq(Word)
  /\ globals \in Seq(Word)

\* No jump, call or return ever leaves a reader beyond its code, where the
\* next read_u8 would panic in data[pos..]: neither the else jump, which goes
\* one byte past its target, nor a branch back to the body of a loop.
ReadersInCode ==
  \A i \in 1 .. Len(call_stack) :
    LET f == call_stack[i]
    IN  /\ f.pos <= Len(Body(f.func_idx).code)
        /\ \A j \in 1 .. Len(f.blocks) : f.blocks[j].body_offset <= Len(Body(f.func_idx).code)

\* All frames share the one vector of locals; still, the parameters and
\* locals of each lie inside it and below those of every later frame, even
\* when a failed call left values behind (do_call's locals_offset, evaluate's
\* drain).  So no local.set reaches a caller, and no access is out of span.
FramesDisjoint ==
  \A i \in 1 .. Len(call_stack) :
    LET end == call_stack[i].locals_offset + FrameWords(call_stack[i].func_idx)
    IN  /\ end <= Len(locals)
        /\ \A j \in i + 1 .. Len(call_stack) : end <= call_stack[j].locals_offset

\* While a frame is not the topmost one, no step changes its locals, its
\* position or its blocks: a callee, whatever its code does, hands its caller
\* back as it was.
CallersKept ==
  mode = "running" /\ mode' = "running" =>
    \A i \in 1 .. Len(call_stack) - 1 :
      LET f == call_stack[i]
      IN  /\ i <= Len(call_stack') /\ call_stack'[i] = f
          /\ \A k \in f.locals_offset + 1 .. f.locals_offset + FrameWords(f.func_idx) :
               k <= Len(locals') /\ locals'[k] = locals[k]

CallersUntouched == [][CallersKept]_vars

-----------------------------------------------------------------------------
(* The calls and locals that the frames and the one vector implement.      *)

\* The words of the parameters and locals of the functions with a body.
LocalsOf ==
  [idx \in {k \in {i - 1 : i \in DOMAIN module.functions} : HasBody(k)} |->
     [params |-> Body(idx).params_len, own |-> Body(idx).non_param_locals_len]]

\* A frame, with the part of the vector that is its own.
ActivationOf(f) ==
  [function |-> f.func_idx,
   locals |-> SubSeq(locals, f.locals_offset + 1, f.locals_offset + FrameWords(f.func_idx))]

\* The context between calls is clean if no locals are left in it.
Status ==
  IF mode = "running" THEN "running" ELSE IF mode = "panicked" THEN "stopped"
  ELSE IF locals = <<>> THEN "ready" ELSE "dirty"

\* What is on the call stack counts while a call is being run.
UnderWay ==
  IF mode = "running" THEN [i \in 1 .. Len(call_stack) |-> ActivationOf(call_stack[i])] ELSE <<>>

Abstract == INSTANCE Activations WITH
  functions <- LocalsOf, status <- Status, arguments <- call.args, activations <- UnderWay

\* Activations that share one vector behave as if each had locals of its own:
\* the offsets that do_call, copy_params_and_locals, the local instructions
\* and the drain of evaluate compute fit together, over any calls, failed
\* ones included.
ImplementsActivations == Abstract!Spec

-----------------------------------------------------------------------------
(* Properties of valid WebAssembly, checked on modules chosen for them.    *)

\* The function called by the host starts with its arguments in its
\* parameters, whatever happened to the calls before (evaluate clears the
\* stack and the call stack of the context, but not its locals).
StartsWithArguments ==
  mode = "running" /\ Len(call_stack) = 1 /\ call_stack[1].pos = 0
    => SubSeq(locals, 1, Len(call.args)) = call.args

\* Blocks that the code has open at a position: opened before it, and closed
\* at it or after.
OpenAt(code, pos) ==
  {q \in Opcodes(code, 0) :
     /\ q < pos /\ At(code, q) \in Openers
     /\ pos <= Least(Closers(code, 0, q, \h0B))}

\* A frame executes the opcodes that the parser saw, and its run-time blocks
\* are exactly the blocks the code has open there, so that the depth of a
\* branch selects the block it means: after any sequence of branches, calls
\* and returns (BlockMeta is pushed and popped by instructions executed, and
\* jumps skip the others).  It holds of plain modules (ValidCode): the end of
\* an if pops a block that is not its own.
RunsStructure ==
  \A i \in 1 .. Len(call_stack) :
    LET f == call_stack[i]
        b == Body(f.func_idx)
    IN  f.pos < Len(b.code) =>
          /\ f.pos \in Opcodes(b.code, 0)
          /\ {f.blocks[j].offset : j \in 1 .. Len(f.blocks)}
               = {q + b.offset : q \in OpenAt(b.code, f.pos)}
          /\ \A j, k \in 1 .. Len(f.blocks) : j < k => f.blocks[j].offset < f.blocks[k].offset

\* A call that succeeds consumed every operand: what a block or a function
\* leaves on the stack besides its results is not handed to its caller.
NothingLeftBehind == result = "Ok" => stack = <<>>

\* Valid code fails for lack of memory only: no index, no unwrap and no
\* todo!() panics, and no operand is missing.
FailsOnHeapOnly == result \in {"none", "Ok", "OutOfMemory"}

\* Some frame is inside a loop.
Looping ==
  \E i \in DOMAIN call_stack :
    \E j \in DOMAIN call_stack[i].blocks : call_stack[i].blocks[j].kind = "Loop"

\* A call that does not come back to the host, nor panic, is inside a loop
\* again and again.  All other jumps end something: a branch to a block goes
\* to its end, which pops it, even where the end of an if has popped another
\* in between; recursion ends with the heap.  The loop need not be in the
\* source: the else jump can execute an operand as the opcode loop.
Returns == mode = "running" ~> (mode # "running" \/ Looping)
=============================================================================
