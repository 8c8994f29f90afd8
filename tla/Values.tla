------------------------------- MODULE Values -------------------------------
(***************************************************************************)
(* What the numeric instructions of evaluate compute: values lie on        *)
(* VmStack as little-endian bytes, each instruction reads them as the      *)
(* operand types of its closure and computes as a release build does       *)
(* (overflow wraps, shifts take their count modulo the width).  types is   *)
(* VmStack::types, which debug builds keep.                                *)
(*                                                                         *)
(* Instructions come in any order that validation allows: operands have    *)
(* the types the instruction is for.  Comparisons and arithmetic of floats *)
(* are left out; constants, loads and stores of floats move their bits.    *)
(***************************************************************************)
EXTENDS Integers, Sequences, Bitwise

CONSTANTS ByteBits, Memories, Instructions,  \* as in WasmValues
          GroupBits,                         \* of a byte of LEB128: 7 in reality
          MaxStack,                          \* bounds of a run: values on the stack
          MaxSteps                           \* and instructions

\* An i32 can address more than twice the memory, whose hosts have some KiB.
ASSUME MemoryAssumption == \A m \in Memories : Len(m) <= 2 ^ (4 * ByteBits - 1)

VARIABLES stack, types, memory, instruction,
          outcome,  \* "running" or "panicked"
          steps

vars == <<stack, types, memory, instruction, outcome, steps>>

Init ==
  /\ stack = <<>> /\ types = <<>>
  /\ memory \in Memories
  /\ instruction = [op |-> \h01, arg |-> 0]
  /\ outcome = "running" /\ steps = 0

-----------------------------------------------------------------------------
(* Bytes and numbers.                                                      *)

\* TypeKind::len_bytes
LenBytes(type) == IF type \in {"I64", "F64"} THEN 8 ELSE 4

BytesOf(ts) == LET upto[k \in 0 .. Len(ts)] == IF k = 0 THEN 0 ELSE upto[k - 1] + LenBytes(ts[k])
               IN  upto[Len(ts)]

\* to_le_bytes of the low n bytes of a number, signed or not
ToBytes(v, n) == [k \in 1 .. n |-> (v \div 2 ^ (ByteBits * (k - 1))) % 2 ^ ByteBits]

\* from_le_bytes as an unsigned and as a signed number
Unsigned(bytes) ==
  LET from[k \in 1 .. Len(bytes) + 1] ==
        IF k > Len(bytes) THEN 0 ELSE bytes[k] + 2 ^ ByteBits * from[k + 1]
  IN  from[1]

Signed(bytes) ==
  LET n == ByteBits * Len(bytes)
  IN  IF Unsigned(bytes) >= 2 ^ (n - 1) THEN Unsigned(bytes) - 2 ^ n ELSE Unsigned(bytes)

\* The bytes of the operand that lies below `below` bytes of others.
OperandBytes(below, n) == SubSeq(stack, Len(stack) - below - n + 1, Len(stack) - below)

-----------------------------------------------------------------------------

Takes(ts) ==
  Len(ts) <= Len(types) /\ SubSeq(types, Len(types) - Len(ts) + 1, Len(types)) = ts

Pops(ts) ==
  /\ stack' = SubSeq(stack, 1, Len(stack) - BytesOf(ts))
  /\ types' = SubSeq(types, 1, Len(types) - Len(ts))

\* inplace_bin_op, inplace_unary_op: pop operands of types ts, push a result.
Replaces(ts, type, bytes) ==
  /\ stack' = SubSeq(stack, 1, Len(stack) - BytesOf(ts)) \o bytes
  /\ types' = SubSeq(types, 1, Len(types) - Len(ts)) \o <<type>>
  /\ UNCHANGED <<memory, outcome>>

Panic == outcome' = "panicked" /\ UNCHANGED <<stack, types, memory>>

\* read_usize of a literal that the compiler wrote as a signed LEB128 number:
\* without the sign, whose bits the last byte does not have.
Literal64(v) ==
  LET groups == CHOOSE n \in 1 .. 70 : v >= -(2 ^ (GroupBits * n - 1)) /\ \A m \in 1 .. n - 1 : v < -(2 ^ (GroupBits * m - 1))
  IN  (IF v >= 0 THEN v ELSE v + 2 ^ (GroupBits * groups)) % 2 ^ (8 * ByteBits)

Executes(i) ==
  /\ outcome = "running" /\ steps < MaxSteps
  /\ i.op \in \h41 .. \h44 => Len(types) < MaxStack
  /\ instruction' = i /\ steps' = steps + 1

ConstI32(i) == Executes(i) /\ i.op = \h41 /\ Replaces(<<>>, "I32", ToBytes(i.arg, 4))

ConstI64(i) ==
  /\ Executes(i) /\ i.op = \h42
  /\ IF Literal64(i.arg) >= 2 ^ (8 * ByteBits - 1) THEN Panic
     ELSE Replaces(<<>>, "I64", ToBytes(Literal64(i.arg), 8))

ConstFloat(i) ==
  /\ Executes(i)
  /\ \/ i.op = \h43 /\ Replaces(<<>>, "F32", ToBytes(i.arg, 4))
     \/ i.op = \h44 /\ Replaces(<<>>, "F64", ToBytes(i.arg, 8))

-----------------------------------------------------------------------------
(* Arms of evaluate: the type of the closure's parameters, its body, and   *)
(* where it panics.                                                        *)

U32Ops == {\h49, \h4C, \h4D, \h4F, \h6E, \h70}
U64Ops == {\h54, \h56, \h5A, \h80, \h82, \h88}
I64Ops == {\h52, \h7C, \h7E, \h83, \h84, \h86}

OperandType(op) == IF op \in I64Ops \cup U64Ops THEN "I64" ELSE "I32"

ReadAs(op, bytes) == IF op \in U32Ops \cup U64Ops THEN Unsigned(bytes) ELSE Signed(bytes)

Comparisons == (\h46 .. \h4F) \cup {\h52, \h54, \h56, \h5A}

Compare(op, a, b) ==
  CASE op = \h46 -> a = b
    [] op \in {\h47, \h52} -> a # b
    [] op \in {\h48, \h49, \h54} -> a < b
    [] op \in {\h4A, \h4D} -> a <= b
    [] op \in {\h4B, \h4C, \h56} -> a > b
    [] op \in {\h4E, \h4F, \h5A} -> a >= b

Magnitude(a) == IF a < 0 THEN -a ELSE a
Divided(a, b) == (Magnitude(a) \div Magnitude(b)) * (IF (a < 0) = (b < 0) THEN 1 ELSE -1)

Divisions == {\h6D, \h6E, \h70, \h80, \h82}

\* attempt to divide by zero, or with overflow
DivisionPanics(op, a, b, n) ==
  op \in Divisions /\ (b = 0 \/ (op = \h6D /\ a = -(2 ^ (n - 1)) /\ b = -1))

Bitwise2(op, a, b) ==
  CASE op \in {\h71, \h83} -> a & b [] op \in {\h72, \h84} -> a | b [] op = \h73 -> a ^^ b

Compute(op, a, b, n) ==
  CASE op \in {\h6A, \h7C} -> a + b
    [] op = \h6B -> a - b
    [] op \in {\h6C, \h7E} -> a * b
    [] op \in {\h6D, \h6E, \h80} -> Divided(a, b)
    [] op \in {\h70, \h82} -> a % b
    [] op \in {\h71, \h72, \h73, \h83, \h84} -> Bitwise2(op, a % 2 ^ n, b % 2 ^ n)
    [] op \in {\h74, \h86} -> a * 2 ^ (b % n)
    [] op \in {\h76, \h88} -> a \div 2 ^ (b % n)

Arithmetics == (\h6A .. \h6E) \cup (\h70 .. \h74) \cup {\h76, \h7C, \h7E, \h80, \h82, \h83, \h84, \h86, \h88}

Binary(i) ==
  LET type == OperandType(i.op)
      n    == LenBytes(type)
      a    == ReadAs(i.op, OperandBytes(n, n))
      b    == ReadAs(i.op, OperandBytes(0, n))
  IN  /\ Executes(i) /\ i.op \in Comparisons \cup Arithmetics
      /\ Takes(<<type, type>>)
      /\ IF i.op \in Comparisons
         THEN Replaces(<<type, type>>, "I32", ToBytes(IF Compare(i.op, a, b) THEN 1 ELSE 0, 4))
         ELSE IF DivisionPanics(i.op, a, b, n * ByteBits) THEN Panic
         ELSE Replaces(<<type, type>>, type, ToBytes(Compute(i.op, a, b, n * ByteBits), n))

Eqz(i) ==
  /\ Executes(i)
  /\ \E type \in {"I32", "I64"} :
       /\ i.op = (IF type = "I32" THEN \h45 ELSE \h50) /\ Takes(<<type>>)
       /\ Replaces(<<type>>, "I32", ToBytes(IF Signed(OperandBytes(0, LenBytes(type))) = 0 THEN 1 ELSE 0, 4))

\* wrap_i64 is i32::try_from of the low word, as a positive i64.
Wrap(bytes) ==
  LET low == Signed(bytes) % 2 ^ (4 * ByteBits)
  IN  IF low >= 2 ^ (4 * ByteBits - 1) THEN Panic ELSE Replaces(<<"I64">>, "I32", ToBytes(low, 4))

\* extend_i32_u is i64::from of an i32; reinterpret_i32 and extend8_s keep
\* the bits.
Convert(i) ==
  /\ Executes(i)
  /\ \/ i.op = \hA7 /\ Takes(<<"I64">>) /\ Wrap(OperandBytes(0, 8))
     \/ i.op = \hAD /\ Takes(<<"I32">>) /\ Replaces(<<"I32">>, "I64", ToBytes(Signed(OperandBytes(0, 4)), 8))
     \/ i.op = \hBE /\ Takes(<<"I32">>) /\ Replaces(<<"I32">>, "F32", OperandBytes(0, 4))
     \/ i.op = \hC0 /\ Takes(<<"I32">>) /\ Replaces(<<"I32">>, "I32", OperandBytes(0, 4))

-----------------------------------------------------------------------------
(* Memory.                                                                 *)

\* The type that a load gives or a store takes, and the bytes it touches.
AccessType(op) ==
  CASE op \in {\h28, \h36} \cup (\h2C .. \h2F) \cup {\h3A, \h3B} -> "I32"
    [] op \in {\h29, \h37} \cup (\h30 .. \h35) \cup (\h3C .. \h3E) -> "I64"
    [] op \in {\h2A, \h38} -> "F32"
    [] op \in {\h2B, \h39} -> "F64"

AccessBytes(op) ==
  CASE op \in {\h2C, \h2D, \h30, \h31, \h3A, \h3C} -> 1
    [] op \in {\h2E, \h2F, \h32, \h33, \h3B, \h3D} -> 2
    [] op \in {\h34, \h35, \h3E} -> 4
    [] OTHER -> LenBytes(AccessType(op))

SignExtends == {\h2C, \h2E, \h30, \h32, \h34}

\* checked_add_signed; negative where the code unwraps None.
Address(i, below) == i.arg + Signed(OperandBytes(below, 4))

InMemory(address, n) == address >= 0 /\ address + n <= Len(memory)

\* Mutant of Extended: narrow loads are all extended with zeros.
ExtendedWithZeros(op, bytes) == Unsigned(bytes)

Extended(op, bytes) == IF op \in SignExtends THEN Signed(bytes) ELSE Unsigned(bytes)

Load(i) ==
  /\ Executes(i) /\ i.op \in \h28 .. \h35 /\ Takes(<<"I32">>)
  /\ LET n == AccessBytes(i.op)
         a == Address(i, 0)
         t == AccessType(i.op)
     IN  IF InMemory(a, n)
         THEN Replaces(<<"I32">>, t, ToBytes(Extended(i.op, SubSeq(memory, a + 1, a + n)), LenBytes(t)))
         ELSE Panic

\* The low bytes of the operand (`as i8` and so on) go to memory as they are.
Store(i) ==
  LET t == AccessType(i.op)
      n == AccessBytes(i.op)
      a == Address(i, LenBytes(t))
  IN  /\ Executes(i) /\ i.op \in \h36 .. \h3E /\ Takes(<<"I32", t>>)
      /\ IF InMemory(a, n)
         THEN /\ memory' = [k \in DOMAIN memory |->
                             IF k - a \in 1 .. n THEN OperandBytes(0, LenBytes(t))[k - a] ELSE memory[k]]
              /\ Pops(<<"I32", t>>) /\ UNCHANGED outcome
         ELSE Panic

-----------------------------------------------------------------------------

Next ==
  \E i \in Instructions :
    \/ ConstI32(i) \/ ConstI64(i) \/ ConstFloat(i)
    \/ Binary(i) \/ Eqz(i) \/ Convert(i)
    \/ Load(i) \/ Store(i)

Spec == Init /\ [][Next]_vars
-----------------------------------------------------------------------------

\* The values whose bytes are on the stack.
Typed ==
  [k \in DOMAIN types |->
     LET before == BytesOf(SubSeq(types, 1, k - 1))
     IN  [type |-> types[k],
          number |-> Unsigned(SubSeq(stack, before + 1, before + LenBytes(types[k])))]]

Wasm == INSTANCE WasmValues WITH stack <- Typed, trapped <- outcome = "panicked"

\* Every sequence of instructions leaves on the stack and in memory the
\* numbers that WebAssembly defines, and panics exactly where WebAssembly
\* traps.
ComputesAsWasm == Wasm!Spec
=============================================================================
