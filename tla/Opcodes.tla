------------------------------ MODULE Opcodes ------------------------------
(***************************************************************************)
(* The operands that follow an opcode, read twice by the code: by          *)
(* parse_opcode (lib.rs), which scans a body once to find its end and its  *)
(* jump targets, and by evaluate (interpreter.rs), which executes it.  The *)
(* two tables are separate in the code, and separate here.                 *)
(***************************************************************************)
EXTENDS Reader

LocalOps  == {\h20, \h21, \h22}
GlobalOps == {\h23, \h24}
Loads     == \h28 .. \h35
Stores    == \h36 .. \h3E
Openers   == {\h02, \h03, \h04}

(***************************************************************************)
(* The position after operands of a given layout: "none", "byte" (one      *)
(* byte, any), "type" (a TypeKind), "number" and "numbers" (one and two    *)
(* LEB128 numbers), "table" (a count, that many depths and a default),     *)
(* "f32" and "f64" (a literal's bytes).                                    *)
(***************************************************************************)
LiteralBytes(layout) == IF layout = "f32" THEN 4 ELSE IF layout = "f64" THEN 8 ELSE 1

Numbers(layout, data, pos) ==
  IF layout = "number" THEN 1 ELSE IF layout = "numbers" THEN 2 ELSE Unsigned(data, pos) + 2

After(layout, data, pos) ==
  IF layout = "none" THEN pos
  ELSE IF layout = "type" THEN AfterType(data, pos)
  ELSE IF layout \in {"byte", "f32", "f64"} THEN AfterBytes(data, pos, LiteralBytes(layout))
  ELSE AfterNumbers(data, pos, Numbers(layout, data, pos))

\* parse_opcode: what the scan of a body skips after op.
ParseLayout(op) ==
  CASE op \in {\h02, \h03} -> "byte"
    [] op = \h04 -> "type"
    [] op = \h0E -> "table"
    [] op \in {\h0C, \h0D, \h10, \h40, \h41, \h42} \cup LocalOps \cup GlobalOps -> "number"
    [] op \in {\h11} \cup Loads \cup {\h36, \h37, \h39, \h3A, \h3B, \h3D} -> "numbers"
    [] op = \h43 -> "f32"
    [] op = \h44 -> "f64"
    [] OTHER -> "none"

\* evaluate: what the execution of op reads.
ExecLayout(op) ==
  CASE op = \h04 -> "type"
    [] op = \h0E -> "table"
    [] op \in {\h02, \h03, \h0C, \h0D, \h10, \h41, \h42} \cup LocalOps \cup GlobalOps -> "number"
    [] op \in {\h11} \cup Loads \cup Stores -> "numbers"
    [] op = \h43 -> "f32"
    [] op = \h44 -> "f64"
    [] OTHER -> "none"

(***************************************************************************)
(* The numeric instructions of evaluate, by the number of 32-bit words of  *)
(* each operand and of the result.                                         *)
(***************************************************************************)
Unary  == {\h45, \h50, \hA7, \hAD, \hBE, \hC0}
Binary == (\h46 .. \h4F) \cup {\h52, \h54, \h56, \h5A, \h63}
          \cup (\h6A .. \h6E) \cup (\h70 .. \h74) \cup {\h76}
          \cup {\h7C, \h7E, \h80, \h82, \h83, \h84, \h86, \h88, \h92, \hA1, \hA2}

LongResult  == {\h63, \h7C, \h7E, \h80, \h82, \h83, \h84, \h86, \h88, \hA1, \hA2, \hAD}
LongOperand == (LongResult \ {\hAD}) \cup {\h50, \h52, \h54, \h56, \h5A, \hA7}

OperandWords(op) == IF op \in LongOperand THEN 2 ELSE 1
ResultWords(op)  == IF op \in LongResult THEN 2 ELSE 1

\* Bytes a load or store touches, and the words of the value it moves.
AccessBytes(op) ==
  CASE op \in {\h2C, \h2D, \h30, \h31, \h3A, \h3C} -> 1
    [] op \in {\h2E, \h2F, \h32, \h33, \h3B, \h3D} -> 2
    [] op \in {\h28, \h2A, \h34, \h35, \h36, \h38, \h3E} -> 4
    [] op \in {\h29, \h2B, \h37, \h39} -> 8

AccessWords(op) ==
  IF op \in {\h29, \h2B} \cup (\h30 .. \h35) \cup {\h37, \h39} \cup (\h3C .. \h3E) THEN 2 ELSE 1

(***************************************************************************)
(* The words of the operand stack that an instruction pops (local.tee      *)
(* peeks), and those it pushes; type is what an if, a local or a global    *)
(* instruction is about.  What a called function takes and gives comes on  *)
(* top.                                                                    *)
(***************************************************************************)
NeededWords(op, type) ==
  IF op \in {\h0D, \h0E, \h11, \h1A} \cup Loads THEN 1
  ELSE IF op \in {\h04, \h21, \h22, \h24} THEN Words(type)
  ELSE IF op = \h1B THEN 3
  ELSE IF op \in Stores THEN AccessWords(op) + 1
  ELSE IF op \in Unary  THEN OperandWords(op)
  ELSE IF op \in Binary THEN 2 * OperandWords(op)
  ELSE 0

PushedWords(op, type) ==
  IF op \in {\h1B, \h41, \h43} THEN 1
  ELSE IF op \in {\h42, \h44} THEN 2
  ELSE IF op \in {\h20, \h22, \h23} THEN Words(type)
  ELSE IF op \in Loads THEN AccessWords(op)
  ELSE IF op \in Unary \cup Binary THEN ResultWords(op)
  ELSE 0

\* Every opcode evaluate has an arm for; the others reach its todo!().
Executed ==
  {\h00} \cup Openers \cup {\h05, \h0B, \h0C, \h0D, \h0E, \h0F, \h10, \h11, \h1A, \h1B}
    \cup LocalOps \cup GlobalOps \cup Loads \cup Stores \cup (\h41 .. \h44) \cup Unary \cup Binary
=============================================================================
