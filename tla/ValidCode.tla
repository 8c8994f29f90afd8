----------------------------- MODULE ValidCode -----------------------------
(***************************************************************************)
(* Code that evaluate runs without an operand missing or left behind.  The *)
(* code has no validator: it trusts its input, keeps no record of the      *)
(* operands a block started with, and pops a result from whatever is on    *)
(* top.  What it relies on is said here, as a certificate that a validator *)
(* could compute: for each body, the number of words its own part of the   *)
(* operand stack has at each position it may reach.                        *)
(***************************************************************************)
EXTENDS Interpreter

\* For each module and function with a body: height, the words on the stack
\* at each position reached, and indirect, what a call_indirect takes and
\* gives (the code drops the types that WebAssembly has there).
CONSTANT Certificate

Ops(code)       == Opcodes(code, 0)
Level(code, p)  == Depth(Ops(code), code, p)
Beyond(code, p) == After(ParseLayout(At(code, p)), code, p + 1)

\* A body as parse delivers it, without if, in which evaluate reads as many
\* operands as the scan skipped.
PlainBody(b) ==
  /\ AfterBody(b.code, 0) = Len(b.code)
  /\ DOMAIN b.jump_targets = {b.offset + k : k \in DOMAIN BodyTargets(b.code, 0)}
  /\ \A k \in DOMAIN BodyTargets(b.code, 0) :
       b.jump_targets[b.offset + k] = BodyTargets(b.code, 0)[k]
  /\ \A p \in Opcodes(b.code, 0) :
       LET op == At(b.code, p)
       IN  op # \h04 /\ After(ExecLayout(op), b.code, p + 1) = After(ParseLayout(op), b.code, p + 1)

IsPlain(m) ==
  \A i \in DOMAIN m.functions : m.functions[i].body = NoBody \/ PlainBody(m.functions[i].body)

-----------------------------------------------------------------------------
(* Where an instruction goes on.                                           *)

\* The depths that a branch at p may select.
Depths(code, p) ==
  CASE At(code, p) \in {\h0C, \h0D} -> {Unsigned(code, p + 1)}
    [] At(code, p) = \h0E ->
         {Unsigned(code, AfterNumbers(code, p + 1, k)) : k \in 1 .. Unsigned(code, p + 1) + 1}
    [] OTHER -> {}

\* The block that a branch of depth d leaves: of those open at p, the one
\* with d inside it; and where that branch goes on.
Labels(b, p, d) ==
  {o \in OpenAt(b.code, p) : Level(b.code, o) = Level(b.code, p) - 1 - d}

Landing(b, o) ==
  IF At(b.code, o) = \h02 THEN b.jump_targets[b.offset + o] - 1 ELSE Beyond(b.code, o)

Successors(b, p) ==
  {Landing(b, o) : o \in UNION {Labels(b, p, d) : d \in Depths(b.code, p)}}
    \cup {q \in {Beyond(b.code, p)} : At(b.code, p) \notin {\h00, \h0C, \h0E, \h0F}}
    \cup {q \in {Len(b.code)} : At(b.code, p) = \h0F}

-----------------------------------------------------------------------------
(* What an instruction takes from the stack and gives.                     *)

HasCode(m, idx) ==
  idx \in Nat /\ idx + 1 \in DOMAIN m.functions /\ m.functions[idx + 1].body # NoBody

\* Functions of the host push nothing.
Signature(m, idx) ==
  IF HasCode(m, idx)
  THEN LET b == m.functions[idx + 1].body IN [takes |-> b.params_len, gives |-> WordsOf(b.results)]
  ELSE [takes |-> Imports[idx], gives |-> 0]

TypeAt(m, b, p) ==
  LET x == Unsigned(b.code, p + 1)
  IN  IF At(b.code, p) \in LocalOps THEN b.locals_types[x + 1] ELSE m.globals[x + 1]

\* What the instruction at p calls; nothing is taken and given by others.
CallAt(m, b, v, p) ==
  CASE At(b.code, p) = \h10 -> Signature(m, Unsigned(b.code, p + 1))
    [] At(b.code, p) = \h11 -> v.indirect[p]
    [] OTHER -> [takes |-> 0, gives |-> 0]

Taken(m, b, v, p) == NeededWords(At(b.code, p), TypeAt(m, b, p)) + CallAt(m, b, v, p).takes
Given(m, b, v, p) == PushedWords(At(b.code, p), TypeAt(m, b, p)) + CallAt(m, b, v, p).gives

\* The indices, depths and literals of an instruction name something.
Resolves(m, b, v, p) ==
  LET op == At(b.code, p)
      x  == Unsigned(b.code, p + 1)
  IN  /\ op \in Executed
      /\ op \in LocalOps  => x + 1 \in DOMAIN b.locals_types
      /\ op \in GlobalOps => /\ x + 1 \in DOMAIN m.globals
                             /\ m.globals_offsets[x + 1] + Words(m.globals[x + 1]) <= GlobalsWords
      /\ op = \h0E => x \in Nat
      /\ \A d \in Depths(b.code, p) : d \in 0 .. Level(b.code, p) - 1
      /\ op = \h10 => HasCode(m, x) \/ x \in DOMAIN Imports
      /\ op = \h11 => v.indirect[p] \in [takes : Nat, gives : Nat]
      /\ op = \h41 => Signed(b.code, p + 1) \in -(Base \div 2) .. (Base - 1) \div 2
      /\ op = \h42 => x \in Nat /\ x \div Base \in 0 .. (Base - 1) \div 2

\* The heights of a body fit its instructions: it starts with none, each
\* instruction finds its operands and leaves to what follows the height that
\* is expected there, on every path, and the results are left at the end.
\* WebAssembly's validation allows more: operands that a branch or a return
\* discards, which the code does not discard.
Balanced(m, b, v) ==
  LET h == v.height
  IN  /\ b.results \in Seq(ValueType)
      /\ h \in [DOMAIN h -> Nat] /\ DOMAIN h \subseteq Ops(b.code) \cup {Len(b.code)}
      /\ 0 \in DOMAIN h /\ h[0] = 0
      /\ Len(b.code) \in DOMAIN h => h[Len(b.code)] = WordsOf(b.results)
      /\ \A p \in DOMAIN h \ {Len(b.code)} :
           /\ Resolves(m, b, v, p)
           /\ Taken(m, b, v, p) <= h[p]
           /\ \A q \in Successors(b, p) :
                q \in DOMAIN h /\ h[q] = h[p] - Taken(m, b, v, p) + Given(m, b, v, p)

IsBalanced(m) ==
  \A i \in DOMAIN m.functions :
    m.functions[i].body = NoBody \/ Balanced(m, m.functions[i].body, Certificate[m][i])

-----------------------------------------------------------------------------
(* What remains to the host and to the run.                                *)

CertificateOf(f) == Certificate[module][f.func_idx + 1]

\* WebAssembly traps when the function that call_indirect finds has another
\* type; the code calls it.
IndirectAsNamed ==
  Fetches /\ Op = \h11 /\ stack # <<>> =>
    LET idx == Callee(Op, Operand)
    IN  /\ HasCode(module, idx) \/ idx \in DOMAIN Imports
        /\ Signature(module, idx) = CertificateOf(Frame).indirect[Frame.pos]

\* unreachable is not reached, no access is outside the memory, and no
\* division, nor i32.wrap_i64 in this code, panics.
NeverTraps ==
  Fetches =>
    /\ Op # \h00
    /\ Op \in Loads \cup Stores /\ Enough(Op, Operand) =>
         Address(Op) >= 0 /\ Address(Op) + AccessBytes(Op) <= MemoryBytes
    /\ Op \in Unary \cup Binary /\ Enough(Op, Operand) => Computes(Op)

\* The host calls functions that there are, by their types; not with bool,
\* which takes an i32 from a function without results.
CallsServed ==
  \A c \in Calls : c.ty \in ValueType /\ CallOutcome(c) \in {"Entered", "OutOfMemory"}

\* What the theorems about valid code assume of a run, in all its states: so
\* the function index, the address and the divisor that an instruction finds
\* on the stack are those that the code put there for it.
PremisesHold == IndirectAsNamed /\ NeverTraps /\ CallsServed

-----------------------------------------------------------------------------

\* The words that the entry function owes to the host.
Owed(ty) == IF ty = "Void" THEN 0 ELSE Words(ty)

Height(f) == CertificateOf(f).height[f.pos]
Gives(f)  == WordsOf(Body(f.func_idx).results)

\* How much of the stack is not a frame's own: a caller counts the results
\* of the call that it waits for, which its callee has not pushed yet.
Floors ==
  LET floor[i \in 1 .. Len(call_stack)] ==
        IF i = 1 THEN 0
        ELSE floor[i - 1] + Height(call_stack[i - 1]) - Gives(call_stack[i])
  IN  floor

\* The one operand stack holds what the certificate says of each active
\* function at its position, and no more: VmStack marks neither frames nor
\* blocks, do_call takes the parameters off the top, do_branch takes nothing,
\* and the results of a callee are what it happens to leave.
OperandsCounted ==
  mode = "running" =>
    /\ \A i \in 1 .. Len(call_stack) :
         call_stack[i].pos \in DOMAIN CertificateOf(call_stack[i]).height /\ Floors[i] >= 0
    /\ Len(stack) = (IF call_stack = <<>> THEN Owed(call.ty)
                     ELSE Floors[Len(call_stack)] + Height(Frame))
=============================================================================
