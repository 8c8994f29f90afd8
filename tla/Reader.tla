------------------------------- MODULE Reader -------------------------------
(***************************************************************************)
(* The byte reader of uwasm/src/parser.rs, as functions of the data and of *)
(* a position.  Positions count from 0, as in the code, so the byte at     *)
(* position pos is data[pos + 1].  A read that the code answers with an    *)
(* Err has the value Failed; which ParserError it is, and at which offset, *)
(* is not told apart.                                                      *)
(***************************************************************************)
EXTENDS Integers, Sequences, FiniteSets

Byte   == 0 .. 255
Failed == -1

At(data, pos) == data[pos + 1]

\* Mutant of AfterBytes: the length is not checked.
AfterBytesUnchecked(data, pos, n) == pos + n

\* Reader::read_bytes::<n>: the position after n more bytes.
AfterBytes(data, pos, n) == IF pos + n <= Len(data) THEN pos + n ELSE Failed

(***************************************************************************)
(* Reader::read_number_raw, called n >= 1 times.  A LEB128 number ends at  *)
(* its first byte with the top bit clear, so n numbers end at the n-th     *)
(* such byte, and what follows them starts right after it.                 *)
(***************************************************************************)
EndsNumbers(data, pos, n, e) ==
  /\ data[e] < 128
  /\ Cardinality({i \in pos + 1 .. e : data[i] < 128}) = n

AfterNumbers(data, pos, n) ==
  IF \E e \in pos + 1 .. Len(data) : EndsNumbers(data, pos, n, e)
  THEN CHOOSE e \in pos + 1 .. Len(data) : EndsNumbers(data, pos, n, e)
  ELSE Failed

\* Reader::read_unsigned: seven bits of each byte, least significant first;
\* 0, which no caller uses, if the number is cut short.
Unsigned(data, pos) ==
  LET last == AfterNumbers(data, pos, 1)
      value[i \in pos + 1 .. last] ==
        (data[i] % 128) + (IF i = last THEN 0 ELSE 128 * value[i + 1])
  IN  IF last = Failed THEN 0 ELSE value[pos + 1]

\* Reader::read_signed: bit 6 of the last byte is extended to the left.
Signed(data, pos) ==
  LET last == AfterNumbers(data, pos, 1)
  IN  Unsigned(data, pos)
        - (IF (data[last] \div 64) % 2 = 1 THEN 128 ^ (last - pos) ELSE 0)

\* Item for TypeKind.
TypeOfByte(b) ==
  CASE b = \h40 -> "Void" [] b = \h60 -> "Func" [] b = \h70 -> "FuncRef"
    [] b = \h7C -> "F64"  [] b = \h7D -> "F32"
    [] b = \h7E -> "I64"  [] b = \h7F -> "I32"
    [] OTHER -> "Invalid"

AfterType(data, pos) ==
  IF pos < Len(data) /\ TypeOfByte(At(data, pos)) # "Invalid" THEN pos + 1 ELSE Failed

ValueType == {"I32", "I64", "F32", "F64"}

\* TypeKind::len_bytes in 32-bit words; the code has todo!() for other kinds.
Words(type) == IF type \in {"I64", "F64"} THEN 2 ELSE 1
=============================================================================
