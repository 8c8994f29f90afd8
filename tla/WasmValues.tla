----------------------------- MODULE WasmValues -----------------------------
(***************************************************************************)
(* The integer instructions of WebAssembly, its loads and its stores, as   *)
(* its specification defines them: on a stack of typed values, each a      *)
(* number below 2^N.  This is what Values, the code, has to implement; it  *)
(* shares no definition with it.                                           *)
(*                                                                         *)
(* A byte has ByteBits bits, 8 in reality; i32 has four bytes and i64      *)
(* eight, whatever a byte is.  A float is known by its bits.               *)
(***************************************************************************)
EXTENDS Integers, Sequences, Bitwise

CONSTANTS ByteBits,
          Memories,      \* what the memory may hold at first
          Instructions   \* an opcode and its literal, or its fixed offset

VARIABLES stack,         \* of [type, number]
          memory,
          instruction,   \* the last one
          trapped

vars == <<stack, memory, instruction, trapped>>

Nop == [op |-> \h01, arg |-> 0]

Init ==
  /\ stack = <<>> /\ instruction = Nop /\ trapped = FALSE
  /\ memory \in Memories

-----------------------------------------------------------------------------

TypeBytes(type) == IF type \in {"I64", "F64"} THEN 8 ELSE 4
Bits(type)      == ByteBits * TypeBytes(type)

Value(type, number) == [type |-> type, number |-> number % 2 ^ Bits(type)]

\* signed_N
SignedN(n, a) == IF a < 2 ^ (n - 1) THEN a ELSE a - 2 ^ n

Abs(a) == IF a < 0 THEN -a ELSE a

\* The quotient, cut towards zero.
Quotient(a, b) == IF (a < 0) = (b < 0) THEN Abs(a) \div Abs(b) ELSE -(Abs(a) \div Abs(b))

\* eq, ne, lt_s, lt_u, gt_s, gt_u, le_s, le_u, ge_s, ge_u
Relation(k, n, a, b) ==
  LET x == SignedN(n, a)
      y == SignedN(n, b)
  IN  CASE k = 0 -> a = b [] k = 1 -> a # b
        [] k = 2 -> x < y [] k = 3 -> a < b [] k = 4 -> x > y [] k = 5 -> a > b
        [] k = 6 -> x <= y [] k = 7 -> a <= b [] k = 8 -> x >= y [] k = 9 -> a >= b

\* add, sub, mul, div_s, div_u, rem_s, rem_u, and, or, xor, shl, shr_s, shr_u:
\* the set of results, which is empty where the instruction traps.
Arithmetic(k, n, a, b) ==
  LET x == SignedN(n, a)
      y == SignedN(n, b)
      Unless(condition, result) == IF condition THEN {} ELSE {result}
  IN  CASE k = 0 -> {a + b} [] k = 1 -> {a - b} [] k = 2 -> {a * b}
        [] k = 3 -> IF b = 0 THEN {} ELSE Unless(Quotient(x, y) = 2 ^ (n - 1), Quotient(x, y))
        [] k = 4 -> IF b = 0 THEN {} ELSE {a \div b}
        [] k = 5 -> IF b = 0 THEN {} ELSE {x - y * Quotient(x, y)}
        [] k = 6 -> IF b = 0 THEN {} ELSE {a % b}
        [] k = 7 -> {a & b} [] k = 8 -> {a | b} [] k = 9 -> {a ^^ b}
        [] k = 10 -> {a * 2 ^ (b % n)}
        [] k = 11 -> {x \div 2 ^ (b % n)}
        [] k = 12 -> {a \div 2 ^ (b % n)}

OneIf(condition) == Value("I32", IF condition THEN 1 ELSE 0)

\* Where the relations and the arithmetic instructions of a type start.
FirstRelation(type)   == IF type = "I32" THEN \h46 ELSE \h51
FirstArithmetic(type) == IF type = "I32" THEN \h6A ELSE \h7C

-----------------------------------------------------------------------------

Top(k)        == stack[Len(stack) - k]
Below(k)      == SubSeq(stack, 1, Len(stack) - k)
HasTypes(ts)  == Len(stack) >= Len(ts) /\ \A k \in DOMAIN ts : Top(Len(ts) - k).type = ts[k]

Gives(k, values) ==
  /\ IF values = {} THEN trapped' = TRUE /\ UNCHANGED stack
     ELSE \E v \in values : stack' = Append(Below(k), v) /\ UNCHANGED trapped
  /\ UNCHANGED memory

Const(i) ==
  \E type \in {"I32", "I64", "F32", "F64"} :
    /\ i.op = (CASE type = "I32" -> \h41 [] type = "I64" -> \h42 [] type = "F32" -> \h43 [] type = "F64" -> \h44)
    /\ Gives(0, {Value(type, i.arg)})

Binary(i) ==
  \E type \in {"I32", "I64"} :
    /\ HasTypes(<<type, type>>)
    /\ LET a == Top(1).number
           b == Top(0).number
           r == i.op - FirstRelation(type)
           k == i.op - FirstArithmetic(type)
       IN  \/ r \in 0 .. 9 /\ Gives(2, {OneIf(Relation(r, Bits(type), a, b))})
           \/ k \in 0 .. 12 /\ Gives(2, {Value(type, v) : v \in Arithmetic(k, Bits(type), a, b)})

Unary(i) ==
  \/ i.op = \h45 /\ HasTypes(<<"I32">>) /\ Gives(1, {OneIf(Top(0).number = 0)})
  \/ i.op = \h50 /\ HasTypes(<<"I64">>) /\ Gives(1, {OneIf(Top(0).number = 0)})
  \/ i.op = \hA7 /\ HasTypes(<<"I64">>) /\ Gives(1, {Value("I32", Top(0).number)})
  \/ i.op = \hAD /\ HasTypes(<<"I32">>) /\ Gives(1, {Value("I64", Top(0).number)})
  \/ i.op = \hBE /\ HasTypes(<<"I32">>) /\ Gives(1, {Value("F32", Top(0).number)})
  \/ i.op = \hC0 /\ HasTypes(<<"I32">>)
       /\ Gives(1, {Value("I32", SignedN(ByteBits, Top(0).number % 2 ^ ByteBits))})

-----------------------------------------------------------------------------
(* Memory.  Loads and stores of a type: whole, then of 1, 2 and 4 bytes,   *)
(* loads of these signed and unsigned.                                     *)

Accesses(whole, i32, i64) ==
  {[op |-> whole + k, type |-> <<"I32", "I64", "F32", "F64">>[k + 1],
    bytes |-> <<4, 8, 4, 8>>[k + 1], signed |-> FALSE] : k \in 0 .. 3}
  \cup i32 \cup i64

Parts(type, first, kinds, n) ==
  {[op |-> first + k, type |-> type, bytes |-> 2 ^ (k \div kinds), signed |-> kinds = 2 /\ k % 2 = 0] : k \in 0 .. n}

LoadOps  == Accesses(\h28, Parts("I32", \h2C, 2, 3), Parts("I64", \h30, 2, 5))
StoreOps == Accesses(\h36, Parts("I32", \h3A, 1, 1), Parts("I64", \h3C, 1, 2))

\* The number in n bytes of memory from address a, least significant first.
NumberAt(a, n) ==
  LET upto[k \in 0 .. n] == IF k = 0 THEN 0 ELSE upto[k - 1] + memory[a + k] * 2 ^ (ByteBits * (k - 1))
  IN  upto[n]

Load(i) ==
  \E l \in LoadOps :
    /\ l.op = i.op /\ HasTypes(<<"I32">>)
    /\ LET a == Top(0).number + i.arg
       IN  IF a + l.bytes > Len(memory) THEN Gives(1, {})
           ELSE Gives(1, {Value(l.type, IF l.signed THEN SignedN(ByteBits * l.bytes, NumberAt(a, l.bytes))
                                                    ELSE NumberAt(a, l.bytes))})

Store(i) ==
  \E s \in StoreOps :
    /\ s.op = i.op /\ HasTypes(<<"I32", s.type>>)
    /\ LET a == Top(1).number + i.arg
       IN  IF a + s.bytes > Len(memory) THEN Gives(2, {})
           ELSE /\ memory' = [k \in DOMAIN memory |->
                               IF k - a \in 1 .. s.bytes
                               THEN (Top(0).number \div 2 ^ (ByteBits * (k - a - 1))) % 2 ^ ByteBits
                               ELSE memory[k]]
                /\ stack' = Below(2) /\ UNCHANGED trapped

Next ==
  \E i \in Instructions :
    /\ instruction' = i /\ ~trapped
    /\ Const(i) \/ Binary(i) \/ Unary(i) \/ Load(i) \/ Store(i)

Spec == Init /\ [][Next]_vars
=============================================================================
