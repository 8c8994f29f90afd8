------------------------------ MODULE MCValues ------------------------------
(***************************************************************************)
(* Values with bytes of one bit: i32 has 4 bits, i64 has 8, and a narrow   *)
(* access touches 1, 2 or 4 of them, so every i32, and every shape of a    *)
(* sign, a carry and an overflow, is among the operands.                   *)
(***************************************************************************)
EXTENDS Values

Op(op, arg) == [op |-> op, arg |-> arg]

MCMemories == {<<1, 0, 1, 1, 0, 0, 1, 1>>, <<0, 1, 0, 0, 1, 1, 0, 0>>}

Constants ==
  {Op(\h41, v) : v \in -8 .. 7} \cup {Op(\h42, v) : v \in {0, 1, 5, 127}}
  \cup {Op(\h43, 5), Op(\h44, 77)}

\* The arms that agree with WebAssembly for every operand.
AgreeingOps ==
  (\h28 .. \h3E) \cup {\h45, \h50, \hBE}
  \cup ((Comparisons \cup Arithmetics) \ {\h4A, \h4B, \h4C, \h76})

MCInstructions == Constants \cup {Op(op, 0) : op \in AgreeingOps}

\* A pointer made a 64-bit number.
ExtendInstructions == Constants \cup {Op(\hAD, 0)}
=============================================================================
