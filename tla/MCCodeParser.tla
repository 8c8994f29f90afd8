---------------------------- MODULE MCCodeParser ----------------------------
(***************************************************************************)
(* CodeParser on every short body: byte strings, where operands are cut    *)
(* short or misread, and sequences of whole instructions, where blocks     *)
(* nest.  Each lies in the data after a prefix that a scan from position 0 *)
(* would take for the end of the body.                                     *)
(***************************************************************************)
EXTENDS CodeParser, SequencesExt

Prefix == <<\h0B, \h05>>

\* end, block, if, else, br_table; a type; continued and final LEB128 bytes.
SomeBytes == {\h02, \h04, \h05, \h0B, \h0E, \h7F, \h80}

Instructions ==
  {<<\h02, \h40>>, <<\h03, \h40>>, <<\h04, \h7F>>, <<\h05>>, <<\h0B>>, <<\h0C, \h0B>>}

MaxBytes        == 4
MaxInstructions == 6

Bodies ==
  UNION {[1 .. n -> SomeBytes] : n \in 0 .. MaxBytes}
  \cup {FlattenSeq(is) : is \in UNION {[1 .. n -> Instructions] : n \in 0 .. MaxInstructions}}

MCInputs == {[data |-> Prefix \o body, func_offset |-> Len(Prefix)] : body \in Bodies}

\* A function that stores its second parameter, an f32, in memory.
StoreInputs ==
  {[data |-> Prefix \o <<\h20, 0, \h20, 1, \h38, 2, 0, \h0B>>, func_offset |-> Len(Prefix)]}
=============================================================================
