----------------------------- MODULE WasmModule -----------------------------
(***************************************************************************)
(* What a WasmModule of lib.rs holds, as far as its user relies on it: the *)
(* layout of parameters and locals in a frame and of globals in the        *)
(* globals slice, and bodies whose jumps stay inside their code.  Lengths  *)
(* and offsets are in 32-bit words; the code counts bytes.                 *)
(***************************************************************************)
EXTENDS Reader

\* The words of the first i types.
WordsBefore(types) ==
  LET upto[i \in 0 .. Len(types)] == IF i = 0 THEN 0 ELSE upto[i - 1] + Words(types[i])
  IN  upto

\* Mutant of OffsetsOfTypes: each offset already counts its own type.
OffsetsOfTypesAfter(types) == [i \in DOMAIN types |-> WordsBefore(types)[i]]

\* offsets_of_types, and the sums of len_bytes over parameters and locals.
OffsetsOfTypes(types) == [i \in DOMAIN types |-> WordsBefore(types)[i - 1]]
WordsOf(types)        == WordsBefore(types)[Len(types)]

IsBody(b) ==
  /\ b.offset \in Nat /\ b.code \in Seq(Byte)
  /\ b.params_len \in Nat /\ b.non_param_locals_len \in Nat
  /\ b.locals_types \in Seq(ValueType)
  /\ b.locals_offsets \in [DOMAIN b.locals_types -> Nat]
  /\ \A i \in DOMAIN b.locals_types :
       b.locals_offsets[i] + Words(b.locals_types[i]) <= b.params_len + b.non_param_locals_len
  /\ \A k \in DOMAIN b.jump_targets : b.jump_targets[k] \in 2 .. Len(b.code) - 1

\* A module that evaluate can run: where functions have bodies, these are
\* well formed, and every global has a place.
IsRunnable(m, noBody) ==
  /\ \A i \in DOMAIN m.functions :
       m.functions[i].body = noBody \/ IsBody(m.functions[i].body)
  /\ m.globals \in Seq(ValueType)
  /\ m.globals_offsets \in [DOMAIN m.globals -> Nat]
=============================================================================
