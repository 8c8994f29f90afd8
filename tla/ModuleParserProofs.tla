------------------------- MODULE ModuleParserProofs -------------------------
(***************************************************************************)
(* Theorems about ModuleParser, for every set of files: the reader stays   *)
(* inside the data, each step that goes on consumes some of it or makes a  *)
(* push that a run of locals announced, and a module that is delivered can *)
(* be run.                                                                 *)
(***************************************************************************)
EXTENDS ModuleParser, CommonProofs

\* Where a read that starts at a position may end.
Ends(at) == {Failed, Panicked} \cup (at + 1 .. Len(data))

-----------------------------------------------------------------------------
(* Numbers.                                                                *)

LEMMA NumbersEnd ==
  ASSUME NEW bytes, Len(bytes) \in Nat, NEW at \in Int, NEW n
  PROVE  AfterNumbers(bytes, at, n) \in {Failed} \cup (at + 1 .. Len(bytes))
BY DEF AfterNumbers

\* A number is a natural.
LEMMA UnsignedNat ==
  ASSUME NEW bytes \in Seq(Byte), NEW at \in Nat
  PROVE  Unsigned(bytes, at) \in Nat
<1> DEFINE last == AfterNumbers(bytes, at, 1)
<1>1. Len(bytes) \in Nat /\ last \in {Failed} \cup (at + 1 .. Len(bytes))
  BY LenProperties, NumbersEnd
<1>2. CASE last = Failed
  BY <1>2 DEF Unsigned
<1>3. CASE last # Failed
  <2> DEFINE D == at + 1 .. last
             rank == [i \in D |-> last - i]
             bound == last + 1
             E(i, g) == (bytes[i] % 128) + (IF i = last THEN 0 ELSE 128 * g[i + 1])
             body == [i \in D |-> [g \in [D -> Nat] |-> E(i, g)]]
             value[i \in D] == E(i, value)
  <2>1. last \in at + 1 .. Len(bytes)
    BY <1>1, <1>3
  <2> HIDE DEF last
  <2>2. \A i \in D : bytes[i] % 128 \in Nat
    <3> TAKE i \in D
    <3>1. i \in 1 .. Len(bytes)
      BY <1>1, <2>1
    <3>2. bytes[i] \in 0 .. 255
      BY <3>1, ElementOfSeq DEF Byte
    <3>3. \A b \in 0 .. 255 : b % 128 \in Nat
      OBVIOUS
    <3> QED BY <3>2, <3>3
  <2>3. rank \in [D -> Nat] /\ bound \in Nat /\ \A i \in D : rank[i] < bound
    BY <1>1, <2>1
  <2>4. \A i \in D : i # last => i + 1 \in D /\ rank[i + 1] < rank[i]
    BY <1>1, <2>1
  <2>5. body \in [D -> [[D -> Nat] -> Nat]]
    <3> SUFFICES ASSUME NEW i \in D, NEW g \in [D -> Nat] PROVE E(i, g) \in Nat
      OBVIOUS
    <3>1. i # last => g[i + 1] \in Nat
      BY <2>4
    <3> QED BY <2>2, <3>1
  <2>6. ASSUME NEW i \in D, NEW g \in [D -> Nat], NEW h \in [D -> Nat],
               \A q \in D : rank[q] < rank[i] => g[q] = h[q]
        PROVE  body[i][g] = body[i][h]
    <3>1. i # last => g[i + 1] = h[i + 1]
      BY <2>4, <2>6
    <3>2. E(i, g) = E(i, h)
      BY <3>1
    <3> QED BY <3>2
  <2>7. \E g \in [D -> Nat] : \A i \in D : g[i] = body[i][g]
    <3> HIDE DEF body, D, rank, bound
    <3>1. Recurs(D, Nat, rank, bound, body)
      BY <2>3, <2>5, <2>6 DEF Recurs
    <3> QED BY <3>1, RecursionExists
  <2>8. PICK g \in [D -> Nat] : \A i \in D : g[i] = body[i][g]
    BY <2>7
  <2>9. g = [i \in D |-> E(i, g)]
    BY <2>8
  <2>10. value = [i \in D |-> E(i, value)]
    <3> HIDE DEF E
    <3> QED BY <2>9 DEF value
  <2>11. Unsigned(bytes, at) = value[at + 1]
    BY <1>3 DEF Unsigned, value, E, last
  <2> HIDE DEF value
  <2>12. \A i \in D : value[i] = E(i, value)
    <3> HIDE DEF E
    <3> QED BY <2>10
  <2> DEFINE T == {i \in D : value[i] \in Nat}
  <2>13. ASSUME NEW i \in D, \A q \in D : rank[q] < rank[i] => q \in T
         PROVE  i \in T
    <3>1. i # last => value[i + 1] \in Nat
      BY <2>4, <2>13
    <3>2. value[i] = E(i, value)
      BY <2>12
    <3>3. E(i, value) \in Nat
      BY <2>2, <3>1
    <3> QED BY <3>2, <3>3
  <2>14. D \subseteq T
    <3> HIDE DEF D, T, rank
    <3> QED BY <2>3, <2>13, RankInduction
  <2>15. at + 1 \in D
    BY <1>1, <2>1
  <2> QED BY <2>11, <2>14, <2>15
<1> QED BY <1>2, <1>3

-----------------------------------------------------------------------------
(* Fields that repeat.                                                     *)

\* The offset of an element segment ends inside the data.
LEMMA OffsetEnd ==
  ASSUME data \in Seq(Byte), NEW at \in 0 .. Len(data)
  PROVE  AfterOffset(at) \in Ends(at)
<1> DEFINE N == Len(data)
           D == 0 .. N
           V == {Failed, Panicked} \cup (0 .. N)
           Next1(p) == AfterNumbers(data, p + 1, 1)
           rank == [p \in D |-> N - p]
           bound == N + 1
           E(p, g) == IF p = N THEN Failed
                      ELSE IF At(data, p) = \h0B THEN p + 1
                      ELSE IF At(data, p) # \h41 THEN Panicked
                      ELSE IF Next1(p) = Failed THEN Failed ELSE g[Next1(p)]
           body == [p \in D |-> [g \in [D -> V] |-> E(p, g)]]
           from[p \in D] == E(p, from)
<1>1. N \in Nat
  BY LenProperties
<1>2. \A p \in D : Next1(p) # Failed => Next1(p) \in D /\ Next1(p) \in p + 2 .. N
  BY <1>1, NumbersEnd
<1> HIDE DEF N, Next1
<1>3. rank \in [D -> Nat] /\ bound \in Nat /\ \A p \in D : rank[p] < bound
  BY <1>1
<1>4. \A p \in D : Next1(p) # Failed => Next1(p) \in D /\ rank[Next1(p)] < rank[p]
  BY <1>1, <1>2
<1>5. body \in [D -> [[D -> V] -> V]]
  <2> SUFFICES ASSUME NEW p \in D, NEW g \in [D -> V] PROVE E(p, g) \in V
    OBVIOUS
  <2>1. Next1(p) # Failed => g[Next1(p)] \in V
    BY <1>4
  <2>2. p # N => p + 1 \in V
    BY <1>1
  <2> QED BY <2>1, <2>2
<1>6. ASSUME NEW p \in D, NEW g \in [D -> V], NEW h \in [D -> V],
             \A q \in D : rank[q] < rank[p] => g[q] = h[q]
      PROVE  body[p][g] = body[p][h]
  <2>1. Next1(p) # Failed => g[Next1(p)] = h[Next1(p)]
    BY <1>4, <1>6
  <2>2. E(p, g) = E(p, h)
    BY <2>1
  <2> QED BY <2>2
<1>7. \E g \in [D -> V] : \A p \in D : g[p] = body[p][g]
  <2> HIDE DEF body, D, rank, bound
  <2>1. V # {}
    OBVIOUS
  <2> HIDE DEF V
  <2>2. Recurs(D, V, rank, bound, body)
    BY <1>3, <1>5, <1>6, <2>1 DEF Recurs
  <2> QED BY <2>2, RecursionExists
<1>8. PICK g \in [D -> V] : \A p \in D : g[p] = body[p][g]
  BY <1>7
<1>9. g = [p \in D |-> E(p, g)]
  BY <1>8
<1>10. from = [p \in D |-> E(p, from)]
  <2> HIDE DEF E
  <2> QED BY <1>9 DEF from
<1>11. AfterOffset(at) = from[at]
  BY DEF AfterOffset, from, E, Next1, N
<1> HIDE DEF from
<1>12. \A p \in D : from[p] = E(p, from)
  <2> HIDE DEF E
  <2> QED BY <1>10
<1> DEFINE T == {p \in D : from[p] \in {Failed, Panicked} \cup (p + 1 .. N)}
<1>13. ASSUME NEW p \in D, \A q \in D : rank[q] < rank[p] => q \in T
       PROVE  p \in T
  <2>1. from[p] = E(p, from)
    BY <1>12
  <2>2. Next1(p) # Failed => from[Next1(p)] \in {Failed, Panicked} \cup (p + 1 .. N)
    <3> HAVE Next1(p) # Failed
    <3>1. Next1(p) \in p + 2 .. N /\ from[Next1(p)] \in {Failed, Panicked} \cup (Next1(p) + 1 .. N)
      BY <1>2, <1>4, <1>13
    <3> HIDE DEF E
    <3> QED BY <1>1, <3>1
  <2> QED BY <1>1, <2>1, <2>2
<1>14. D \subseteq T
  <2> HIDE DEF T, D, rank
  <2> QED BY <1>3, <1>13, RankInduction
<1>15. from[at] \in {Failed, Panicked} \cup (at + 1 .. N)
  BY <1>14 DEF N
<1> QED BY <1>11, <1>15 DEF Ends, N
TypeName == ValueType \cup {"Void", "Func", "FuncRef", "Invalid"}

LEMMA TypeNames == \A b : TypeOfByte(b) \in TypeName
BY DEF TypeOfByte, TypeName, ValueType

\* read_usize gives a natural.
LEMMA NumberNat ==
  ASSUME data \in Seq(Byte), NEW at \in Nat
  PROVE  Number(at) \in Nat
<1>1. Unsigned(data, at) \in Nat
  BY UnsignedNat
<1>2. \A a \in Nat : \A b \in Nat \ {0} : a % b \in Nat
  OBVIOUS
<1> QED BY <1>1, <1>2, UsizeAssumption DEF Number

-----------------------------------------------------------------------------
(* Entries.                                                                *)

FieldName == {"magic", "version", "bytes", "func", "types", "byte", "number", "type", "code",
              "offset", "indices"}

\* A field that is read consumes a byte at least, and ends inside the data.
LEMMA FieldEnd ==
  ASSUME data \in Seq(Byte), NEW field \in FieldName, NEW at \in 0 .. Len(data)
  PROVE  AfterField(field, at) \in Ends(at)
<1>1. Len(data) \in Nat /\ at \in Nat /\ at \in Int
  BY LenProperties
<1> DEFINE first == AfterNumbers(data, at, 1)
<1>2. first \in {Failed} \cup (at + 1 .. Len(data)) /\ Number(at) \in Nat
  BY <1>1, NumbersEnd, NumberNat
<1> HIDE DEF first
<1>3. CASE field \in {"magic", "version"}
  BY <1>1, <1>3 DEF AfterField, AfterBytes, Ends
<1>4. CASE field \in {"byte", "type", "func"}
  BY <1>1, <1>4 DEF AfterField, After, LiteralBytes, AfterBytes, AfterType, Ends
<1>5. CASE field = "number"
  BY <1>2, <1>5 DEF AfterField, After, Numbers, Ends, first
<1>6. CASE field = "bytes"
  BY <1>1, <1>2, <1>6 DEF AfterField, Counted, Slice, Ends, first
<1>7. CASE field = "types"
  BY <1>1, <1>2, <1>7 DEF AfterField, Counted, TypesAt, Ends, first
<1>8. CASE field = "indices"
  <2>1. first # Failed => AfterNumbers(data, first, Number(at)) \in {Failed} \cup (first + 1 .. Len(data))
    BY <1>1, <1>2, NumbersEnd
  <2> QED BY <1>1, <1>2, <1>8, <2>1 DEF AfterField, Counted, IndicesAt, Ends, first
<1>10. CASE field = "offset"
  BY <1>10, OffsetEnd DEF AfterField
<1>11. CASE field = "code"
  BY <1>11, BodyDelivers DEF AfterField, Ends
<1> QED BY <1>3, <1>4, <1>5, <1>6, <1>7, <1>8, <1>10, <1>11 DEF FieldName

\* The sections that are opened, and the preamble.
SectionName == {"Preamble", "Type", "Import", "Function", "Table", "Memory", "Global", "Export",
                "Elem", "Code", "Data"}

LEMMA FieldsOfRounds ==
  ASSUME section \in SectionName
  PROVE  Len(Fields(Round)) \in 1 .. 4 /\ \A i \in 1 .. Len(Fields(Round)) : Fields(Round)[i] \in FieldName
<1>1. Round \in SectionName \cup {"Body", "Run"}
  BY DEF Round, SectionName
<1> HIDE DEF Round
<1> QED BY <1>1 DEF SectionName, Fields, FieldName

\* The first field of an entry is where the reader stands, and each further
\* one where the one before it ended, if all could be read.
LEMMA PositionsFacts ==
  ASSUME data \in Seq(Byte), pos \in 0 .. Len(data), section \in SectionName
  PROVE  LET n == Len(Fields(Round))
         IN  /\ Positions[1] = pos
             /\ \A i \in 1 .. n + 1 : Positions[i] \in {Failed, Panicked} \cup (pos + i - 1 .. Len(data))
             /\ \A i \in 1 .. n : Positions[i] < 0 => Positions[i + 1] < 0
             /\ \A i \in 1 .. n :
                  Positions[i] >= 0 => Positions[i + 1] = AfterField(Fields(Round)[i], Positions[i])
<1> DEFINE n == Len(Fields(Round))
           N == Len(data)
           D == 1 .. n + 1
           V == {Failed, Panicked} \cup (0 .. N)
           Field(i, p) == AfterField(Fields(Round)[i], p)
           rank == [i \in D |-> i]
           bound == n + 2
           E(i, g) == IF i = 1 THEN pos ELSE IF g[i - 1] < 0 THEN g[i - 1] ELSE Field(i - 1, g[i - 1])
           body == [i \in D |-> [g \in [D -> V] |-> E(i, g)]]
           at[i \in D] == E(i, at)
<1>1. N \in Nat /\ n \in Nat
  BY LenProperties, FieldsOfRounds
<1>2. \A i \in 1 .. n : \A p \in 0 .. N : Field(i, p) \in {Failed, Panicked} \cup (p + 1 .. N)
  BY FieldsOfRounds, FieldEnd DEF Ends
<1>0. pos \in 0 .. N
  OBVIOUS
<1> HIDE DEF N, n, Field
<1>3. rank \in [D -> Nat] /\ bound \in Nat /\ \A i \in D : rank[i] < bound
  BY <1>1
<1>4. \A i \in D : i # 1 => i - 1 \in 1 .. n /\ i - 1 \in D /\ rank[i - 1] < rank[i]
  BY <1>1
<1>5. \A v \in V : v \in Int /\ (v >= 0 => v \in 0 .. N) /\ (v < 0 => v \in {Failed, Panicked})
  BY <1>1 DEF Failed, Panicked
<1>6. \A i \in 1 .. n : \A p \in 0 .. N : Field(i, p) \in V
  BY <1>1, <1>2
<1>7. body \in [D -> [[D -> V] -> V]]
  <2> SUFFICES ASSUME NEW i \in D, NEW g \in [D -> V] PROVE E(i, g) \in V
    OBVIOUS
  <2>1. i # 1 => g[i - 1] \in V
    BY <1>4
  <2>2. i # 1 /\ ~ (g[i - 1] < 0) => Field(i - 1, g[i - 1]) \in V
    BY <1>1, <1>4, <1>5, <1>6, <2>1
  <2>3. pos \in V
    BY <1>0
  <2> QED BY <2>1, <2>2, <2>3
<1>8. ASSUME NEW i \in D, NEW g \in [D -> V], NEW h \in [D -> V],
             \A q \in D : rank[q] < rank[i] => g[q] = h[q]
      PROVE  body[i][g] = body[i][h]
  <2>1. i # 1 => g[i - 1] = h[i - 1]
    BY <1>4, <1>8
  <2>2. E(i, g) = E(i, h)
    BY <2>1
  <2> QED BY <2>2
<1>9. \E g \in [D -> V] : \A i \in D : g[i] = body[i][g]
  <2>1. V # {}
    OBVIOUS
  <2> HIDE DEF body, D, V, rank, bound
  <2>2. Recurs(D, V, rank, bound, body)
    BY <1>3, <1>7, <1>8, <2>1 DEF Recurs
  <2> QED BY <2>2, RecursionExists
<1>10. PICK g \in [D -> V] : \A i \in D : g[i] = body[i][g]
  BY <1>9
<1>11. g = [i \in D |-> E(i, g)]
  BY <1>10
<1>12. at = [i \in D |-> E(i, at)]
  <2> HIDE DEF E
  <2> QED BY <1>11 DEF at
<1>13. Positions = at
  BY DEF Positions, at, E, Field, D, n
<1> HIDE DEF at
<1>14. \A i \in D : at[i] = E(i, at)
  <2> HIDE DEF E
  <2> QED BY <1>12
<1> DEFINE T == {i \in D : at[i] \in {Failed, Panicked} \cup (pos + i - 1 .. N)}
<1>15. ASSUME NEW i \in D, \A q \in D : rank[q] < rank[i] => q \in T
       PROVE  i \in T
  <2>1. at[i] = E(i, at)
    BY <1>14
  <2>2. CASE i = 1
    BY <1>1, <1>0, <2>1, <2>2
  <2>3. CASE i # 1
    <3>1. i - 1 \in 1 .. n /\ at[i - 1] \in {Failed, Panicked} \cup (pos + (i - 1) - 1 .. N)
      BY <1>4, <1>15, <2>3
    <3>2. CASE at[i - 1] < 0
      <4>1. at[i - 1] \in {Failed, Panicked}
        BY <1>1, <1>0, <3>1, <3>2
      <4> QED BY <2>1, <2>3, <3>2, <4>1
    <3>3. CASE ~ (at[i - 1] < 0)
      <4>1. at[i - 1] \in pos + (i - 1) - 1 .. N /\ at[i - 1] \in 0 .. N
        BY <1>1, <1>0, <3>1, <3>3 DEF Failed, Panicked
      <4>2. Field(i - 1, at[i - 1]) \in {Failed, Panicked} \cup (at[i - 1] + 1 .. N)
        BY <1>2, <3>1, <4>1
      <4>3. at[i] = Field(i - 1, at[i - 1])
        BY <2>1, <2>3, <3>3
      <4> HIDE DEF E
      <4> QED BY <1>1, <1>0, <4>1, <4>2, <4>3
    <3> QED BY <3>2, <3>3
  <2> QED BY <2>2, <2>3
<1>16. D \subseteq T
  <2> HIDE DEF T, D, rank
  <2> QED BY <1>3, <1>15, RankInduction
<1>17. at[1] = pos
  BY <1>1, <1>14
<1>18. \A i \in 1 .. n + 1 : at[i] \in {Failed, Panicked} \cup (pos + i - 1 .. N)
  BY <1>16
<1>19. ASSUME NEW i \in 1 .. n
       PROVE  /\ at[i] < 0 => at[i + 1] < 0
              /\ at[i] >= 0 => at[i + 1] = Field(i, at[i])
  <2>1. i + 1 \in D /\ i + 1 # 1 /\ (i + 1) - 1 = i /\ at[i] \in Int
    BY <1>1, <1>18, <1>0 DEF Failed, Panicked
  <2>2. at[i + 1] = IF at[i] < 0 THEN at[i] ELSE Field(i, at[i])
    BY <1>14, <2>1
  <2> QED BY <2>1, <2>2
<1> QED BY <1>13, <1>17, <1>18, <1>19 DEF n, N, Field

\* What is parsed is of these types; the bodies among it can be run.
Signatures == [params : Seq(TypeName), results : Seq(TypeName)]
Bodies ==
  {b \in [params : Seq(TypeName), results : Seq(TypeName), offset : Nat, code : Seq(Byte),
          jump_targets : UNION {[S -> Nat] : S \in SUBSET Nat}, locals_types : Seq(TypeName),
          locals_offsets : Seq(Nat), params_len : Nat, non_param_locals_len : Nat] : IsBody(b)}
Functions == [name : {NoName} \cup Seq(Byte), body : {NoBody} \cup Bodies, signature : Nat]
Globals   == [kind : TypeName, mutability : Byte, initializer : Seq(Byte)]
Segments  == [flags : Byte, offset : Seq(Byte), data : Seq(Byte)]
Tables    == [kind : TypeName, limits_flags : Byte, limits_initial : Byte, limits_max : Byte]

Parsed ==
  [signatures : Seq(Signatures), functions : Seq(Functions), imports : Nat, globals : Seq(Globals),
   globals_offsets : Seq(Nat), data_segments : Seq(Segments), tables : Seq(Tables)]

Locals == [inside : BOOLEAN, own : Seq(TypeName), runs : Nat, type : TypeName, left : Nat]

\* Locals are read only of a body that has a function.
InBody == locals.inside /\ section = "Code" /\ entry < count /\ HasOwner

\* The inductive invariant.
IInv ==
  /\ TypeOK
  /\ parsed \in Parsed
  /\ section \in SectionName
  /\ locals \in Locals
  /\ locals = NoLocals \/ InBody
  /\ status = "done" => AllValues(Kinds) /\ parsed.globals_offsets = OffsetsOfTypes(Kinds)

\* What the fields of an entry that is read hold.
LEMMA FieldValues ==
  ASSUME data \in Seq(Byte), NEW at \in 0 .. Len(data)
  PROVE  /\ AfterField("bytes", at) >= 0 => BytesAt(at) \in Seq(Byte)
         /\ AfterField("types", at) >= 0 => TypeSeq(at) \in Seq(TypeName)
         /\ AfterField("byte", at) >= 0 => OneByte(at) \in Byte
         /\ Type(at) \in TypeName
         /\ Number(at) \in Nat
<1> DEFINE first == AfterNumbers(data, at, 1)
           n == Number(at)
<1>1. Len(data) \in Nat /\ at \in Nat /\ at \in Int
  BY LenProperties
<1>2. first \in {Failed} \cup (at + 1 .. Len(data)) /\ n \in Nat
  BY <1>1, NumbersEnd, NumberNat
<1> HIDE DEF first, n
<1>3. ASSUME first # Failed, first + n <= Len(data)
      PROVE  BytesAt(at) \in Seq(Byte)
  <2>1. first + 1 \in 1 .. Len(data) + 1 /\ first + n \in first .. Len(data)
    BY <1>1, <1>2, <1>3
  <2>2. SubSeq(data, first + 1, first + n) \in Seq(Byte)
    BY <1>1, <1>2, <2>1, SubSeqProperties
  <2> QED BY <2>2 DEF BytesAt, first, n
<1>4. AfterField("bytes", at) >= 0 => first # Failed /\ first + n <= Len(data)
  BY DEF AfterField, Counted, Slice, Failed, Panicked, first, n
<1>5. AfterField("types", at) >= 0 => first # Failed /\ first + n <= Len(data)
  BY DEF AfterField, Counted, TypesAt, Failed, first, n
<1>6. BytesAt(at) \in Seq(Byte) => TypeSeq(at) \in Seq(TypeName)
  <2> HAVE BytesAt(at) \in Seq(Byte)
  <2>1. Len(BytesAt(at)) \in Nat
    BY LenProperties
  <2>2. TypeSeq(at) \in [1 .. Len(BytesAt(at)) -> TypeName]
    BY TypeNames DEF TypeSeq
  <2> QED BY <2>1, <2>2
<1>9. AfterField("byte", at) >= 0 => OneByte(at) \in Byte
  <2>1. AfterField("byte", at) >= 0 => at + 1 \in 1 .. Len(data)
    BY <1>1 DEF AfterField, After, AfterBytes, LiteralBytes, Failed
  <2>2. at + 1 \in 1 .. Len(data) => data[at + 1] \in Byte
    BY ElementOfSeq
  <2> QED BY <2>1, <2>2 DEF OneByte, At
<1>10. Type(at) \in TypeName /\ Number(at) \in Nat
  BY <1>2, TypeNames DEF Type, n
<1> QED BY <1>3, <1>4, <1>5, <1>6, <1>9, <1>10

\* The fields of an entry that is read: each of them could be.
LEMMA EntryFacts ==
  ASSUME IInv, NEW kind, NEW at, at \in EntryAt(kind)
  PROVE  /\ status = "parsing" /\ entry < count /\ Round = kind
         /\ EntryEnd(at) \in pos + 1 .. Len(data)
         /\ \A i \in 1 .. Len(Fields(kind)) :
              at[i] \in 0 .. Len(data) /\ AfterField(Fields(kind)[i], at[i]) >= 0
         /\ kind = "Code" => InBody /\ ~ Unsized
<1> DEFINE n == Len(Fields(kind))
<1>1. /\ status = "parsing" /\ entry < count /\ Round = kind
      /\ at = Positions /\ EntryEnd(at) >= 0
  BY DEF EntryAt, InEntry
<1>2. /\ data \in Seq(Byte) /\ pos \in 0 .. Len(data) /\ section \in SectionName
      /\ Len(data) \in Nat /\ n \in 1 .. 4
  BY <1>1, LenProperties, FieldsOfRounds DEF IInv, TypeOK
<1>3. /\ EntryEnd(at) = at[n + 1]
      /\ kind = "Code" => ~ Unsized
  BY <1>1 DEF EntryEnd, Panicked
<1>0. kind = "Code" => InBody
  BY <1>1 DEF IInv, SectionName, Round, NoLocals
<1>4. /\ \A i \in 1 .. n + 1 : at[i] \in {Failed, Panicked} \cup (pos + i - 1 .. Len(data))
      /\ \A i \in 1 .. n : at[i] < 0 => at[i + 1] < 0
      /\ \A i \in 1 .. n : at[i] >= 0 => at[i + 1] = AfterField(Fields(kind)[i], at[i])
  BY <1>1, <1>2, PositionsFacts
<1> HIDE DEF n
<1>5. \A i \in 1 .. n + 1 : at[i] \in Int /\ (at[i] >= 0 => at[i] \in pos + i - 1 .. Len(data))
  BY <1>2, <1>4 DEF Failed, Panicked
<1> DEFINE S == {k \in Nat : k <= n => at[n + 1 - k] >= 0}
<1>6. 0 \in S
  BY <1>1, <1>2, <1>3
<1>7. ASSUME NEW k \in Nat, k \in S
      PROVE  k + 1 \in S
  <2> SUFFICES ASSUME k + 1 <= n PROVE at[n + 1 - (k + 1)] >= 0
    OBVIOUS
  <2> DEFINE i == n + 1 - (k + 1)
  <2>1. i \in 1 .. n /\ i + 1 = n + 1 - k /\ i \in 1 .. n + 1 /\ i + 1 \in 1 .. n + 1
    BY <1>2
  <2>2. at[n + 1 - k] >= 0
    BY <1>2, <1>7
  <2> HIDE DEF i
  <2>3. at[i] >= 0
    <3>1. at[i] < 0 => at[i + 1] < 0
      <4>1. \A j \in 1 .. n : at[j] < 0 => at[j + 1] < 0
        BY <1>4
      <4> QED BY <2>1, <4>1
    <3>2. at[i] \in Int /\ at[i + 1] \in Int /\ at[i + 1] >= 0
      BY <1>5, <2>1, <2>2
    <3> QED BY <3>1, <3>2
  <2> QED BY <2>3 DEF i
<1>8. Nat \subseteq S
  <2> HIDE DEF S
  <2> QED BY <1>6, <1>7, NatSetInduction
<1>9. \A i \in 1 .. n + 1 : at[i] >= 0
  <2> TAKE i \in 1 .. n + 1
  <2>1. n + 1 - i \in Nat /\ n + 1 - i <= n /\ n + 1 - (n + 1 - i) = i
    BY <1>2
  <2> QED BY <1>8, <2>1
<1>10. ASSUME NEW i \in 1 .. n
       PROVE  at[i] \in 0 .. Len(data) /\ AfterField(Fields(kind)[i], at[i]) >= 0
  <2>1. i \in 1 .. n + 1 /\ i + 1 \in 1 .. n + 1
    BY <1>2
  <2>2. at[i] \in pos + i - 1 .. Len(data) /\ at[i] >= 0 /\ at[i + 1] >= 0
    BY <1>5, <1>9, <2>1
  <2>3. at[i + 1] = AfterField(Fields(kind)[i], at[i])
    BY <1>4, <2>2
  <2> QED BY <1>2, <2>1, <2>2, <2>3
<1>11. EntryEnd(at) \in pos + 1 .. Len(data)
  <2>1. n + 1 \in 1 .. n + 1
    BY <1>2
  <2>2. at[n + 1] \in pos + (n + 1) - 1 .. Len(data)
    BY <1>5, <1>9, <2>1
  <2> QED BY <1>2, <1>3, <2>2
<1> QED BY <1>0, <1>1, <1>3, <1>10, <1>11 DEF n

LEMMA NoLocalsTyped ==
  /\ NoLocals \in Locals /\ Len(NoLocals.own) \in 0 .. MaxTypes
  /\ NoLocals.runs \in Nat /\ NoLocals.left \in Nat
<1>1. <<>> \in Seq(TypeName) /\ Len(<<>>) = 0
  BY EmptySeq
<1> QED BY <1>1, UsizeAssumption DEF NoLocals, Locals, TypeName

\* A step that reads an entry keeps the invariant if what it adds is typed.
LEMMA ReadKeeps ==
  ASSUME IInv, NEW kind, NEW at, at \in EntryAt(kind), ReadEntry(at), parsed' \in Parsed,
         parsed'.imports \in 0 .. Len(parsed'.functions)
  PROVE  IInv'
<1>1. /\ status = "parsing" /\ entry < count
      /\ EntryEnd(at) \in pos + 1 .. Len(data)
  BY EntryFacts
<1>2. /\ data \in Seq(Byte) /\ Len(data) \in Nat /\ pos \in 0 .. Len(data)
      /\ entry \in Nat /\ count \in Nat
  BY LenProperties DEF IInv, TypeOK
<1>3. /\ pos' = EntryEnd(at) /\ entry' = entry + 1
      /\ file' = file /\ section' = section /\ count' = count /\ status' = status
      /\ locals' = NoLocals
  BY DEF ReadEntry, Read
<1>4. data' = data
  BY <1>3 DEF data
<1>5. parsed'.functions \in Seq(Functions)
  BY DEF Parsed
<1>6. \A i \in DOMAIN parsed'.functions : parsed'.functions[i].signature \in Nat
  <2> TAKE i \in DOMAIN parsed'.functions
  <2>1. parsed'.functions[i] \in Functions
    BY <1>5, ElementOfSeq, LenProperties
  <2> QED BY <2>1 DEF Functions
<1>7. /\ NoLocals \in Locals /\ Len(NoLocals.own) \in 0 .. MaxTypes
      /\ NoLocals.runs \in Nat /\ NoLocals.left \in Nat
  BY NoLocalsTyped
<1>8. TypeOK'
  BY <1>1, <1>2, <1>3, <1>4, <1>6, <1>7 DEF TypeOK
<1>9. section' \in SectionName /\ status' # "done"
  BY <1>1, <1>3 DEF IInv
<1> QED BY <1>3, <1>7, <1>8, <1>9 DEF IInv

\* The fields of each kind of entry, when it is read.
LEMMA FieldsRead ==
  ASSUME IInv, NEW kind, NEW at, at \in EntryAt(kind)
  PROVE  /\ kind = "Type" => TypeSeq(at[2]) \in Seq(TypeName) /\ TypeSeq(at[3]) \in Seq(TypeName)
         /\ kind = "Import" => BytesAt(at[2]) \in Seq(Byte) /\ Number(at[4]) \in Nat
         /\ kind = "Function" => Number(at[1]) \in Nat
         /\ kind = "Table" => /\ Type(at[1]) \in TypeName /\ OneByte(at[2]) \in Byte
                             /\ OneByte(at[3]) \in Byte /\ OneByte(at[4]) \in Byte
         /\ kind = "Global" => /\ Type(at[1]) \in TypeName /\ OneByte(at[2]) \in Byte
                              /\ CodeAt(at[3]).code \in Seq(Byte)
         /\ kind = "Export" => BytesAt(at[1]) \in Seq(Byte) /\ Number(at[3]) \in Nat
         /\ kind = "Code" => AfterBody(data, at[1]) >= 0 /\ at[1] \in 0 .. Len(data)
         /\ kind = "Body" => Number(at[2]) \in Nat
         /\ kind = "Run" => Number(at[1]) \in Nat /\ Type(at[2]) \in TypeName
         /\ kind = "Data" => /\ OneByte(at[1]) \in Byte /\ CodeAt(at[2]).code \in Seq(Byte)
                            /\ BytesAt(at[3]) \in Seq(Byte)
<1>1. data \in Seq(Byte)
  BY DEF IInv, TypeOK
<1>2. \A i \in 1 .. Len(Fields(kind)) :
        at[i] \in 0 .. Len(data) /\ AfterField(Fields(kind)[i], at[i]) >= 0
  BY EntryFacts
<1>3. ASSUME NEW p \in 0 .. Len(data), AfterField("code", p) >= 0
      PROVE  CodeAt(p).code \in Seq(Byte) /\ AfterBody(data, p) >= 0
  <2>1. AfterBody(data, p) = AfterField("code", p)
    BY DEF AfterField
  <2>2. AfterBody(data, p) \notin {Failed, Panicked}
    BY <1>3, <2>1 DEF Failed, Panicked
  <2> QED BY <1>1, <1>3, <2>1, <2>2, BodyDelivers DEF CodeAt
<1>4. CASE kind = "Type"
  <2>1. Fields(kind) = <<"func", "types", "types">>
    BY <1>4 DEF Fields
  <2>2. /\ at[2] \in 0 .. Len(data) /\ AfterField("types", at[2]) >= 0
        /\ at[3] \in 0 .. Len(data) /\ AfterField("types", at[3]) >= 0
    BY <1>2, <2>1
  <2> QED BY <1>1, <1>4, <2>2, FieldValues
<1>5. CASE kind = "Import"
  <2>1. Fields(kind) = <<"bytes", "bytes", "byte", "number">>
    BY <1>5 DEF Fields
  <2>2. /\ at[2] \in 0 .. Len(data) /\ AfterField("bytes", at[2]) >= 0
        /\ at[4] \in 0 .. Len(data)
    BY <1>2, <2>1
  <2> QED BY <1>1, <1>5, <2>2, FieldValues
<1>6. CASE kind = "Function"
  <2>1. Fields(kind) = <<"number">>
    BY <1>6 DEF Fields
  <2>2. at[1] \in 0 .. Len(data)
    BY <1>2, <2>1
  <2> QED BY <1>1, <1>6, <2>2, FieldValues
<1>7. CASE kind = "Table"
  <2>1. Fields(kind) = <<"type", "byte", "byte", "byte">>
    BY <1>7 DEF Fields
  <2>2. /\ at[1] \in 0 .. Len(data)
        /\ at[2] \in 0 .. Len(data) /\ AfterField("byte", at[2]) >= 0
        /\ at[3] \in 0 .. Len(data) /\ AfterField("byte", at[3]) >= 0
        /\ at[4] \in 0 .. Len(data) /\ AfterField("byte", at[4]) >= 0
    BY <1>2, <2>1
  <2> QED BY <1>1, <1>7, <2>2, FieldValues
<1>8. CASE kind = "Global"
  <2>1. Fields(kind) = <<"type", "byte", "code">>
    BY <1>8 DEF Fields
  <2>2. /\ at[1] \in 0 .. Len(data)
        /\ at[2] \in 0 .. Len(data) /\ AfterField("byte", at[2]) >= 0
        /\ at[3] \in 0 .. Len(data) /\ AfterField("code", at[3]) >= 0
    BY <1>2, <2>1
  <2> QED BY <1>1, <1>3, <1>8, <2>2, FieldValues
<1>9. CASE kind = "Export"
  <2>1. Fields(kind) = <<"bytes", "byte", "number">>
    BY <1>9 DEF Fields
  <2>2. /\ at[1] \in 0 .. Len(data) /\ AfterField("bytes", at[1]) >= 0
        /\ at[3] \in 0 .. Len(data)
    BY <1>2, <2>1
  <2> QED BY <1>1, <1>9, <2>2, FieldValues
<1>10. CASE kind = "Code"
  <2>1. Fields(kind) = <<"code">>
    BY <1>10 DEF Fields
  <2>2. at[1] \in 0 .. Len(data) /\ AfterField("code", at[1]) >= 0
    BY <1>2, <2>1
  <2> QED BY <1>1, <1>3, <1>10, <2>2, FieldValues
<1>11. CASE kind = "Data"
  <2>1. Fields(kind) = <<"byte", "code", "bytes">>
    BY <1>11 DEF Fields
  <2>2. /\ at[1] \in 0 .. Len(data) /\ AfterField("byte", at[1]) >= 0
        /\ at[2] \in 0 .. Len(data) /\ AfterField("code", at[2]) >= 0
        /\ at[3] \in 0 .. Len(data) /\ AfterField("bytes", at[3]) >= 0
    BY <1>2, <2>1
  <2> QED BY <1>1, <1>3, <1>11, <2>2, FieldValues
<1>12. CASE kind = "Body"
  <2>1. Fields(kind) = <<"number", "number">>
    BY <1>12 DEF Fields
  <2>2. at[2] \in 0 .. Len(data)
    BY <1>2, <2>1
  <2> QED BY <1>1, <1>12, <2>2, FieldValues
<1>13. CASE kind = "Run"
  <2>1. Fields(kind) = <<"number", "type">>
    BY <1>13 DEF Fields
  <2>2. /\ at[1] \in 0 .. Len(data)
        /\ at[2] \in 0 .. Len(data) /\ AfterField("type", at[2]) >= 0
    BY <1>2, <2>1
  <2> QED BY <1>1, <1>13, <2>2, FieldValues
<1> QED BY <1>4, <1>5, <1>6, <1>7, <1>8, <1>9, <1>10, <1>11, <1>12, <1>13

\* A body that is read can be run.
LEMMA BodyTyped ==
  ASSUME data \in Seq(Byte), NEW at \in 0 .. Len(data), AfterBody(data, at) >= 0,
         NEW signature \in Signatures, NEW own \in Seq(TypeName), AllValues(signature.params \o own)
  PROVE  BodyOf(signature, own, CodeAt(at)) \in Bodies
<1> DEFINE ps == signature.params
           all == ps \o own
           code == BodyCode(data, at)
           targets == BodyTargets(data, at)
           b == BodyOf(signature, own, CodeAt(at))
<1>1. at \in Nat /\ ps \in Seq(TypeName) /\ signature.results \in Seq(TypeName)
  BY LenProperties DEF Signatures
<1>2. all \in Seq(TypeName) /\ Len(all) \in Nat /\ DOMAIN all = 1 .. Len(all)
  BY <1>1, ConcatProperties, LenProperties
<1>3. /\ code \in Seq(Byte) /\ DOMAIN targets \in SUBSET Nat
      /\ \A k \in DOMAIN targets : targets[k] \in 2 .. Len(code) - 1
  BY BodyDelivers DEF Failed, Panicked
<1>4. targets \in UNION {[S -> Nat] : S \in SUBSET Nat}
  <2>1. Len(code) \in Nat
    BY <1>3, LenProperties
  <2>2. \A k \in DOMAIN targets : targets[k] \in Nat
    BY <1>3, <2>1
  <2>3. targets = [k \in DOMAIN targets |-> targets[k]]
    BY DEF BodyTargets
  <2> HIDE DEF targets
  <2>4. targets \in [DOMAIN targets -> Nat]
    BY <2>2, <2>3
  <2> QED BY <1>3, <2>4
<1>5. /\ WordsOf(ps) \in Nat /\ WordsOf(own) \in Nat
      /\ OffsetsOfTypes(all) \in [DOMAIN all -> Nat]
      /\ \A i \in DOMAIN all : OffsetsOfTypes(all)[i] + Words(all[i]) <= WordsOf(ps) + WordsOf(own)
  BY <1>1, FrameLayout
<1>6. OffsetsOfTypes(all) \in Seq(Nat)
  <2>1. OffsetsOfTypes(all) \in [1 .. Len(all) -> Nat]
    BY <1>2, <1>5
  <2> HIDE DEF all
  <2> QED BY <1>2, <2>1, FunctionIsSeq
<1>7. all \in Seq(ValueType)
  <2>1. \A i \in 1 .. Len(all) : all[i] \in ValueType
    BY <1>2 DEF AllValues
  <2> HIDE DEF all
  <2>2. all = [i \in 1 .. Len(all) |-> all[i]]
    BY <1>2
  <2>3. all \in [1 .. Len(all) -> ValueType]
    BY <2>1, <2>2
  <2> QED BY <1>2, <2>3, FunctionIsSeq
<1>8. b = [params |-> ps, results |-> signature.results, offset |-> at, code |-> code,
           jump_targets |-> targets, locals_types |-> all, locals_offsets |-> OffsetsOfTypes(all),
           params_len |-> WordsOf(ps), non_param_locals_len |-> WordsOf(own)]
  BY DEF BodyOf, CodeAt
<1> HIDE DEF ps, all, code, targets, b
<1>9. IsBody(b)
  BY <1>1, <1>3, <1>5, <1>7, <1>8 DEF IsBody
<1>10. b \in Bodies
  BY <1>1, <1>2, <1>3, <1>4, <1>5, <1>6, <1>8, <1>9 DEF Bodies
<1> QED BY <1>10 DEF b

-----------------------------------------------------------------------------
(* Steps.                                                                  *)

\* An element appended to a sequence, or changed in it.
LEMMA AppendTyped ==
  ASSUME NEW S, NEW s \in Seq(S), NEW e \in S
  PROVE  Append(s, e) \in Seq(S) /\ Len(Append(s, e)) = Len(s) + 1
BY AppendProperties

LEMMA ParsedParts ==
  ASSUME IInv
  PROVE  /\ parsed \in Parsed
         /\ parsed.signatures \in Seq(Signatures) /\ parsed.functions \in Seq(Functions)
         /\ parsed.imports \in Nat /\ parsed.globals \in Seq(Globals)
         /\ parsed.data_segments \in Seq(Segments) /\ parsed.tables \in Seq(Tables)
         /\ Len(parsed.functions) \in Nat /\ parsed.imports \in 0 .. Len(parsed.functions)
  BY LenProperties DEF IInv, Parsed, TypeOK

LEMMA TypeEntryKeeps == IInv /\ TypeEntry => IInv'
<1> SUFFICES ASSUME IInv, TypeEntry PROVE IInv'
  OBVIOUS
<1> PICK at \in EntryAt("Type") :
      /\ ReadEntry(at)
      /\ parsed' = [parsed EXCEPT !.signatures =
                      Append(@, [params |-> TypeSeq(at[2]), results |-> TypeSeq(at[3])])]
  BY DEF TypeEntry
<1> DEFINE new == [params |-> TypeSeq(at[2]), results |-> TypeSeq(at[3])]
<1>1. new \in Signatures
  BY FieldsRead DEF Signatures
<1>2. Append(parsed.signatures, new) \in Seq(Signatures)
  BY <1>1, ParsedParts, AppendTyped
<1> HIDE DEF new
<1>3. parsed' \in Parsed /\ parsed'.imports = parsed.imports /\ parsed'.functions = parsed.functions
  BY <1>2, ParsedParts DEF Parsed, new
<1> QED BY <1>3, ParsedParts, ReadKeeps

LEMMA ImportEntryKeeps == IInv /\ ImportEntry => IInv'
<1> SUFFICES ASSUME IInv, ImportEntry PROVE IInv'
  OBVIOUS
<1> PICK at \in EntryAt("Import") :
      /\ ReadEntry(at)
      /\ parsed' = IF OneByte(at[3]) # 0 THEN parsed
                   ELSE [parsed EXCEPT !.functions = Append(@, Bodyless(BytesAt(at[2]), Number(at[4]))),
                                       !.imports = @ + 1]
  BY DEF ImportEntry
<1> DEFINE new == Bodyless(BytesAt(at[2]), Number(at[4]))
<1>1. new \in Functions
  BY FieldsRead DEF Functions, Bodyless
<1>2. /\ Append(parsed.functions, new) \in Seq(Functions)
      /\ Len(Append(parsed.functions, new)) = Len(parsed.functions) + 1
  BY <1>1, ParsedParts, AppendTyped
<1> HIDE DEF new
<1>3. CASE OneByte(at[3]) # 0
  BY <1>3, ParsedParts, ReadKeeps
<1>4. CASE OneByte(at[3]) = 0
  <2>1. /\ parsed' \in Parsed /\ parsed'.imports = parsed.imports + 1
        /\ parsed'.functions = Append(parsed.functions, new)
    <3> DEFINE fs == Append(parsed.functions, new)
    <3>1. parsed' = [parsed EXCEPT !.functions = fs, !.imports = parsed.imports + 1]
      BY <1>4 DEF new
    <3>2. fs \in Seq(Functions) /\ parsed.imports + 1 \in Nat /\ parsed \in Parsed
      BY <1>2, ParsedParts
    <3> HIDE DEF fs
    <3>3. /\ parsed' \in Parsed /\ parsed'.imports = parsed.imports + 1 /\ parsed'.functions = fs
      BY <3>1, <3>2 DEF Parsed
    <3> QED BY <3>3 DEF fs
  <2>2. parsed'.imports \in 0 .. Len(parsed'.functions)
    BY <1>2, <2>1, ParsedParts
  <2> QED BY <2>1, <2>2, ReadKeeps
<1> QED BY <1>3, <1>4

LEMMA FunctionEntryKeeps == IInv /\ FunctionEntry => IInv'
<1> SUFFICES ASSUME IInv, FunctionEntry PROVE IInv'
  OBVIOUS
<1> PICK at \in EntryAt("Function") :
      /\ ReadEntry(at)
      /\ parsed' = [parsed EXCEPT !.functions = Append(@, Bodyless(NoName, Number(at[1])))]
  BY DEF FunctionEntry
<1> DEFINE new == Bodyless(NoName, Number(at[1]))
<1>1. new \in Functions
  BY FieldsRead DEF Functions, Bodyless
<1>2. /\ Append(parsed.functions, new) \in Seq(Functions)
      /\ Len(Append(parsed.functions, new)) = Len(parsed.functions) + 1
  BY <1>1, ParsedParts, AppendTyped
<1> HIDE DEF new
<1>3. /\ parsed' \in Parsed /\ parsed'.imports = parsed.imports
      /\ parsed'.functions = Append(parsed.functions, new)
  BY <1>2, ParsedParts DEF Parsed, new
<1>4. parsed'.imports \in 0 .. Len(parsed'.functions)
  BY <1>2, <1>3, ParsedParts
<1> QED BY <1>3, <1>4, ReadKeeps

LEMMA TableEntryKeeps == IInv /\ TableEntry => IInv'
<1> SUFFICES ASSUME IInv, TableEntry PROVE IInv'
  OBVIOUS
<1> PICK at \in EntryAt("Table") :
      /\ ReadEntry(at)
      /\ parsed' = [parsed EXCEPT !.tables = Append(@,
                      [kind |-> Type(at[1]), limits_flags |-> OneByte(at[2]),
                       limits_initial |-> OneByte(at[3]), limits_max |-> OneByte(at[4])])]
  BY DEF TableEntry
<1> DEFINE new == [kind |-> Type(at[1]), limits_flags |-> OneByte(at[2]),
                   limits_initial |-> OneByte(at[3]), limits_max |-> OneByte(at[4])]
<1>1. new \in Tables
  BY FieldsRead DEF Tables
<1>2. Append(parsed.tables, new) \in Seq(Tables)
  BY <1>1, ParsedParts, AppendTyped
<1> HIDE DEF new
<1>3. parsed' \in Parsed /\ parsed'.imports = parsed.imports /\ parsed'.functions = parsed.functions
  BY <1>2, ParsedParts DEF Parsed, new
<1> QED BY <1>3, ParsedParts, ReadKeeps

LEMMA GlobalEntryKeeps == IInv /\ GlobalEntry => IInv'
<1> SUFFICES ASSUME IInv, GlobalEntry PROVE IInv'
  OBVIOUS
<1> PICK at \in EntryAt("Global") :
      /\ ReadEntry(at)
      /\ parsed' = [parsed EXCEPT !.globals = Append(@,
                      [kind |-> Type(at[1]), mutability |-> OneByte(at[2]),
                       initializer |-> CodeAt(at[3]).code])]
  BY DEF GlobalEntry
<1> DEFINE new == [kind |-> Type(at[1]), mutability |-> OneByte(at[2]), initializer |-> CodeAt(at[3]).code]
<1>1. new \in Globals
  BY FieldsRead DEF Globals
<1>2. Append(parsed.globals, new) \in Seq(Globals)
  BY <1>1, ParsedParts, AppendTyped
<1> HIDE DEF new
<1>3. parsed' \in Parsed /\ parsed'.imports = parsed.imports /\ parsed'.functions = parsed.functions
  BY <1>2, ParsedParts DEF Parsed, new
<1> QED BY <1>3, ParsedParts, ReadKeeps

LEMMA DataEntryKeeps == IInv /\ DataEntry => IInv'
<1> SUFFICES ASSUME IInv, DataEntry PROVE IInv'
  OBVIOUS
<1> PICK at \in EntryAt("Data") :
      /\ ReadEntry(at)
      /\ parsed' = [parsed EXCEPT !.data_segments = Append(@,
                      [flags |-> OneByte(at[1]), offset |-> CodeAt(at[2]).code, data |-> BytesAt(at[3])])]
  BY DEF DataEntry
<1> DEFINE new == [flags |-> OneByte(at[1]), offset |-> CodeAt(at[2]).code, data |-> BytesAt(at[3])]
<1>1. new \in Segments
  BY FieldsRead DEF Segments
<1>2. Append(parsed.data_segments, new) \in Seq(Segments)
  BY <1>1, ParsedParts, AppendTyped
<1> HIDE DEF new
<1>3. parsed' \in Parsed /\ parsed'.imports = parsed.imports /\ parsed'.functions = parsed.functions
  BY <1>2, ParsedParts DEF Parsed, new
<1> QED BY <1>3, ParsedParts, ReadKeeps

\* The preamble, memories and element segments leave parsed as it is.
LEMMA OtherEntriesKeep == IInv /\ (Preamble \/ MemoryEntry \/ ElemEntry) => IInv'
<1> SUFFICES ASSUME IInv, Preamble \/ MemoryEntry \/ ElemEntry PROVE IInv'
  OBVIOUS
<1>1. \E kind : \E at \in EntryAt(kind) : ReadEntry(at) /\ UNCHANGED parsed
  BY DEF Preamble, MemoryEntry, ElemEntry
<1>2. PICK kind, at : at \in EntryAt(kind) /\ ReadEntry(at) /\ parsed' = parsed
  BY <1>1
<1> QED BY <1>2, ParsedParts, ReadKeeps

LEMMA ExportEntryKeeps == IInv /\ ExportEntry => IInv'
<1> SUFFICES ASSUME IInv, ExportEntry PROVE IInv'
  OBVIOUS
<1> PICK at \in EntryAt("Export") :
      ReadEntry(at) /\ parsed' = IF OneByte(at[2]) # 0 THEN parsed ELSE Renamed(Number(at[3]), BytesAt(at[1]))
  BY DEF ExportEntry
<1> DEFINE name == BytesAt(at[1])
           k == Number(at[3]) + 1
           new == [parsed.functions EXCEPT ![k].name = name]
<1>1. CASE OneByte(at[2]) # 0
  BY <1>1, ParsedParts, ReadKeeps
<1>2. CASE OneByte(at[2]) = 0
  <2>1. name \in Seq(Byte)
    BY FieldsRead
  <2>2. parsed' = [parsed EXCEPT !.functions = new]
    BY <1>2 DEF Renamed
  <2> HIDE DEF name, k
  <2>3. new \in Seq(Functions) /\ Len(new) = Len(parsed.functions)
    <3>1. \A f \in Functions : [f EXCEPT !.name = name] \in Functions
      BY <2>1 DEF Functions
    <3>2. k \in 1 .. Len(parsed.functions) => parsed.functions[k] \in Functions
      BY ParsedParts, ElementOfSeq
    <3>3. new = IF k \in 1 .. Len(parsed.functions)
                THEN [parsed.functions EXCEPT ![k] = [parsed.functions[k] EXCEPT !.name = name]]
                ELSE parsed.functions
      BY ParsedParts, LenProperties
    <3> HIDE DEF new
    <3> QED BY <3>1, <3>2, <3>3, ParsedParts, ExceptSeq
  <2> HIDE DEF new
  <2>4. parsed' \in Parsed /\ parsed'.imports = parsed.imports /\ parsed'.functions = new
    BY <2>2, <2>3, ParsedParts DEF Parsed
  <2> QED BY <2>3, <2>4, ParsedParts, ReadKeeps
<1> QED BY <1>1, <1>2

LEMMA CodeEntryKeeps == IInv /\ CodeEntry => IInv'
<1> SUFFICES ASSUME IInv, CodeEntry PROVE IInv'
  OBVIOUS
<1> PICK at \in EntryAt("Code") :
      /\ ReadEntry(at)
      /\ parsed' = [parsed EXCEPT !.functions[Declared].body =
                      BodyOf(Signature, locals.own, CodeAt(at[1]))]
  BY DEF CodeEntry
<1> DEFINE body == BodyOf(Signature, locals.own, CodeAt(at[1]))
           new == [parsed.functions EXCEPT ![Declared].body = body]
<1>1. /\ locals.own \in Seq(TypeName) /\ AfterBody(data, at[1]) >= 0 /\ at[1] \in 0 .. Len(data)
      /\ HasOwner /\ ~ Unsized
  BY FieldsRead, EntryFacts DEF IInv, Locals, InBody
<1>2. data \in Seq(Byte) /\ at[1] >= 0
  BY <1>1, LenProperties DEF IInv, TypeOK
<1>3. Signature \in Signatures
  BY <1>1, ParsedParts, ElementOfSeq, LenProperties DEF HasOwner, Signature
<1>4. AllValues(Signature.params \o locals.own)
  BY <1>1, <1>2 DEF Unsized
<1>5. body \in Bodies
  BY <1>1, <1>2, <1>3, <1>4, BodyTyped
<1>6. Declared \in 1 .. Len(parsed.functions)
  BY <1>1, ParsedParts, LenProperties DEF HasOwner
<1> HIDE DEF body
<1>7. new \in Seq(Functions) /\ Len(new) = Len(parsed.functions)
  <2>1. \A f \in Functions : [f EXCEPT !.body = body] \in Functions
    BY <1>5 DEF Functions
  <2>2. parsed.functions[Declared] \in Functions
    BY <1>6, ParsedParts, ElementOfSeq
  <2>3. new = [parsed.functions EXCEPT ![Declared] = [parsed.functions[Declared] EXCEPT !.body = body]]
    BY ParsedParts, LenProperties
  <2> HIDE DEF new
  <2> QED BY <1>6, <2>1, <2>2, <2>3, ParsedParts, ExceptSeq
<1>8. parsed' = [parsed EXCEPT !.functions = new]
  BY DEF body
<1> HIDE DEF new
<1>9. parsed' \in Parsed /\ parsed'.imports = parsed.imports /\ parsed'.functions = new
  BY <1>7, <1>8, ParsedParts DEF Parsed
<1> QED BY <1>7, <1>9, ParsedParts, ReadKeeps

\* Opening a section, reading its header, consumes bytes.
LEMMA OpenSectionFacts ==
  ASSUME IInv, OpenSection
  PROVE  /\ status = "parsing" /\ status' = "parsing"
         /\ pos' \in pos + 1 .. Len(data) /\ data' = data /\ parsed' = parsed
         /\ section' \in SectionName /\ entry' = 0 /\ count' \in Nat
         /\ locals' = locals /\ locals = NoLocals
<1>1. data \in Seq(Byte) /\ Len(data) \in Nat /\ pos \in 0 .. Len(data) /\ pos + 1 \in Int
  BY LenProperties DEF IInv, TypeOK
<1>2. AfterNumbers(data, pos + 1, 2) \in {Failed} \cup (pos + 2 .. Len(data))
  BY <1>1, NumbersEnd
<1>3. HeaderEnd(NextSection) = AfterNumbers(data, pos + 1, 2) /\ HeaderEnd(NextSection) # Failed
  BY DEF OpenSection, HeaderEnd, Failed
<1>4. pos' \in pos + 1 .. Len(data)
  BY <1>1, <1>2, <1>3 DEF OpenSection
<1>5. NextSection \in SectionName
  BY DEF OpenSection, NextSection, SectionOfByte, SectionName
<1>6. Number(AfterNumbers(data, pos + 1, 1)) \in Nat
  <2>1. AfterNumbers(data, pos + 1, 1) # Failed
    <3>1. \E e \in pos + 2 .. Len(data) : EndsNumbers(data, pos + 1, 2, e)
      BY <1>1, <1>3 DEF AfterNumbers
    <3>2. PICK e \in pos + 2 .. Len(data) : EndsNumbers(data, pos + 1, 2, e)
      BY <3>1
    <3> DEFINE ends == {i \in pos + 2 .. e : data[i] < 128}
    <3>3. e \in ends /\ ends \in SUBSET Nat
      BY <1>1, <3>2 DEF EndsNumbers
    <3>4. PICK m \in ends : \A i \in ends : m <= i
      BY <3>3, LeastNat
    <3>5. m \in pos + 2 .. Len(data) /\ data[m] < 128
      BY <1>1, <3>2, <3>4
    <3>6. {i \in pos + 2 .. m : data[i] < 128} = {m}
      BY <1>1, <3>2, <3>4, <3>5
    <3>7. Cardinality({m}) = 1
      BY FS_Singleton
    <3>8. EndsNumbers(data, pos + 1, 1, m)
      <4>1. (pos + 1) + 1 .. m = pos + 2 .. m
        BY <1>1
      <4> QED BY <3>5, <3>6, <3>7, <4>1 DEF EndsNumbers
    <3>9. AfterNumbers(data, pos + 1, 1) \in (pos + 1) + 1 .. Len(data)
      <4>1. m \in (pos + 1) + 1 .. Len(data)
        BY <1>1, <3>5
      <4> QED BY <3>8, <4>1 DEF AfterNumbers
    <3> QED BY <1>1, <3>9 DEF Failed
  <2>2. AfterNumbers(data, pos + 1, 1) \in Nat
    BY <1>1, <2>1, NumbersEnd
  <2> QED BY <1>1, <2>2, NumberNat
<1>7. data' = data
  BY DEF OpenSection, data
<1>8. locals = NoLocals
  BY DEF IInv, TypeOK, InBody, OpenSection, AtSection
<1> QED BY <1>4, <1>5, <1>6, <1>7, <1>8 DEF OpenSection, AtSection

\* Reading an entry, or a part of one, consumes bytes, and the parse goes on.
LEMMA EntryConsumes ==
  ASSUME IInv, Entry \/ OpenBody \/ ReadRun
  PROVE  pos' \in pos + 1 .. Len(data) /\ status' = "parsing"
<1>1. \E kind : \E at \in EntryAt(kind) : Read(at)
  BY DEF Entry, Preamble, TypeEntry, ImportEntry, FunctionEntry, TableEntry, MemoryEntry,
         GlobalEntry, ExportEntry, ElemEntry, CodeEntry, DataEntry, ReadEntry, OpenBody, ReadRun
<1>2. PICK kind, at : at \in EntryAt(kind) /\ Read(at)
  BY <1>1
<1> QED BY <1>2, EntryFacts DEF Read

\* The first state.
LEMMA IInvHoldsFirst == Init => IInv
<1> SUFFICES ASSUME Init PROVE IInv
  OBVIOUS
<1>1. data \in Seq(Byte) /\ Len(data) \in Nat
  BY FilesAssumption, LenProperties DEF Init, data
<1>2. parsed \in Parsed /\ Len(parsed.functions) = 0 /\ parsed.imports = 0 /\ DOMAIN parsed.functions = {}
  BY DEF Init, Nothing, Parsed
<1>3. TypeOK
  BY <1>1, <1>2, NoLocalsTyped DEF Init, TypeOK
<1> QED BY <1>2, <1>3, NoLocalsTyped DEF Init, IInv, SectionName

\* Between the entries: what reads the locals of a body leaves all else.
LEMMA LocalsKeep ==
  ASSUME IInv, locals' \in Locals, Len(locals'.own) \in 0 .. MaxTypes, locals'.inside,
         InBody, pos' \in 0 .. Len(data),
         UNCHANGED <<file, section, entry, count, parsed, status>>, status = "parsing"
  PROVE  IInv'
<1>1. data' = data
  BY DEF data
<1>2. HasOwner'
  BY DEF InBody, HasOwner, Owner, Declared
<1>3. locals'.runs \in Nat /\ locals'.left \in Nat
  BY DEF Locals
<1>4. TypeOK'
  BY <1>1, <1>3 DEF IInv, TypeOK
<1> QED BY <1>2, <1>4 DEF IInv, InBody

LEMMA OpenBodyKeeps == IInv /\ OpenBody => IInv'
<1> SUFFICES ASSUME IInv, OpenBody PROVE IInv'
  OBVIOUS
<1>1. PICK at \in EntryAt("Body") :
        /\ Read(at)
        /\ locals' = [NoLocals EXCEPT !.inside = TRUE, !.runs = Number(at[2])]
        /\ UNCHANGED <<entry, parsed>>
  BY DEF OpenBody
<1>2. /\ pos' \in pos + 1 .. Len(data) /\ status = "parsing" /\ entry < count /\ Round = "Body"
      /\ Number(at[2]) \in Nat
  BY <1>1, EntryFacts, FieldsRead DEF Read
<1>3. section = "Code" /\ HasOwner
  <2>1. section = "Code"
    BY <1>2 DEF Round, IInv, SectionName
  <2>2. EntryEnd(at) >= 0
    BY <1>1 DEF EntryAt
  <2> QED BY <1>2, <2>1, <2>2 DEF EntryEnd, Panicked
<1>4. data' = data /\ HasOwner'
  BY <1>1, <1>3 DEF Read, data, HasOwner, Owner, Declared
<1>5. /\ locals' \in Locals /\ locals'.inside /\ Len(locals'.own) \in 0 .. MaxTypes
      /\ locals'.runs \in Nat /\ locals'.left \in Nat
  BY <1>1, <1>2, NoLocalsTyped DEF NoLocals, Locals
<1>6. pos \in Nat /\ Len(data) \in Nat
  BY LenProperties DEF IInv, TypeOK
<1>7. TypeOK'
  BY <1>1, <1>2, <1>4, <1>5, <1>6 DEF Read, IInv, TypeOK
<1> QED BY <1>1, <1>2, <1>3, <1>4, <1>5, <1>7 DEF Read, IInv, InBody

LEMMA ReadRunKeeps == IInv /\ ReadRun => IInv'
<1> SUFFICES ASSUME IInv, ReadRun PROVE IInv'
  OBVIOUS
<1>1. PICK at \in EntryAt("Run") :
        /\ Read(at)
        /\ locals' = [locals EXCEPT !.runs = @ - 1, !.left = Number(at[1]), !.type = Type(at[2])]
        /\ UNCHANGED <<entry, parsed>>
  BY DEF ReadRun
<1>2. /\ pos' \in pos + 1 .. Len(data) /\ status = "parsing" /\ Round = "Run"
      /\ Number(at[1]) \in Nat /\ Type(at[2]) \in TypeName
  BY <1>1, EntryFacts, FieldsRead DEF Read
<1>3. InBody /\ locals.runs > 0
  BY <1>2 DEF Round, IInv, SectionName, NoLocals
<1>4. /\ locals' \in Locals /\ locals'.inside /\ locals'.own = locals.own
  <2>1. locals \in Locals /\ locals.inside
    BY <1>3 DEF IInv, InBody
  <2>2. locals.runs - 1 \in Nat
    BY <1>3, <2>1 DEF Locals
  <2> DEFINE r == locals.runs - 1
             n == Number(at[1])
             t == Type(at[2])
  <2>3. locals' = [locals EXCEPT !.runs = r, !.left = n, !.type = t]
    BY <1>1
  <2>4. r \in Nat /\ n \in Nat /\ t \in TypeName
    BY <1>2, <2>2
  <2> HIDE DEF r, n, t
  <2> QED BY <2>1, <2>3, <2>4 DEF Locals
<1>5. pos \in Nat /\ Len(data) \in Nat /\ Len(locals.own) \in 0 .. MaxTypes
  BY LenProperties DEF IInv, TypeOK
<1> QED BY <1>1, <1>2, <1>3, <1>4, <1>5, LocalsKeep DEF Read

LEMMA PushTypeKeeps == IInv /\ PushType => IInv'
<1> SUFFICES ASSUME IInv, PushType PROVE IInv'
  OBVIOUS
<1>1. /\ locals' = [locals EXCEPT !.left = @ - 1, !.own = Append(@, locals.type)]
      /\ UNCHANGED <<file, pos, section, entry, count, parsed, status>>
      /\ locals.left > 0 /\ status = "parsing" /\ Len(locals.own) < MaxTypes
  BY DEF PushType, Pushing
<1>2. locals \in Locals /\ Len(locals.own) \in Nat /\ MaxTypes \in Nat /\ pos \in 0 .. Len(data)
  BY UsizeAssumption, LenProperties DEF IInv, TypeOK, Locals
<1>3. InBody
  BY <1>1 DEF IInv, NoLocals
<1>4. Append(locals.own, locals.type) \in Seq(TypeName)
      /\ Len(Append(locals.own, locals.type)) = Len(locals.own) + 1
  BY <1>2, AppendTyped DEF Locals
<1>5. /\ locals' \in Locals /\ locals'.inside = locals.inside
      /\ locals'.own = Append(locals.own, locals.type)
  <2>1. locals.left - 1 \in Nat
    BY <1>1, <1>2 DEF Locals
  <2> DEFINE l == locals.left - 1
             o == Append(locals.own, locals.type)
  <2>2. locals' = [locals EXCEPT !.left = l, !.own = o]
    BY <1>1
  <2>3. l \in Nat /\ o \in Seq(TypeName)
    BY <1>4, <2>1
  <2> HIDE DEF l, o
  <2>4. locals' \in Locals /\ locals'.inside = locals.inside /\ locals'.own = o
    BY <1>2, <2>2, <2>3 DEF Locals
  <2> QED BY <2>4 DEF o
<1> QED BY <1>1, <1>2, <1>3, <1>4, <1>5, LocalsKeep DEF InBody

\* Delivering a module: its globals have value types, and their places.
LEMMA DeliverKeeps == IInv /\ Deliver => IInv'
<1> SUFFICES ASSUME IInv, Deliver PROVE IInv'
  OBVIOUS
<1>1. /\ file' = file /\ pos' = pos /\ section' = section /\ entry' = entry /\ count' = count
      /\ data' = data /\ locals' = locals /\ locals = NoLocals
  BY DEF Deliver, data, AtSection, IInv, TypeOK, InBody
<1>2. CASE ~ AllValues(Kinds)
  <2>1. status' = "panicked" /\ parsed' = parsed
    BY <1>2 DEF Deliver
  <2> QED BY <1>1, <2>1 DEF IInv, TypeOK
<1>3. CASE AllValues(Kinds)
  <2> DEFINE offsets == OffsetsOfTypes(Kinds)
  <2>1. status' = "done" /\ parsed' = [parsed EXCEPT !.globals_offsets = offsets]
    BY <1>3 DEF Deliver
  <2>2. offsets \in Seq(Nat)
    <3>1. parsed.globals \in Seq(Globals) /\ Len(parsed.globals) \in Nat
          /\ DOMAIN parsed.globals = 1 .. Len(parsed.globals)
      BY ParsedParts, LenProperties
    <3>2. \A i \in 1 .. Len(parsed.globals) : parsed.globals[i].kind \in TypeName
      <4> TAKE i \in 1 .. Len(parsed.globals)
      <4>1. parsed.globals[i] \in Globals
        BY <3>1, ElementOfSeq
      <4> QED BY <4>1 DEF Globals
    <3>3. Kinds \in [1 .. Len(parsed.globals) -> TypeName]
      BY <3>1, <3>2 DEF Kinds
    <3>4. Kinds \in Seq(TypeName) /\ Len(Kinds) \in Nat /\ DOMAIN Kinds = 1 .. Len(Kinds)
      BY <3>1, <3>3, LenProperties
    <3>5. offsets \in [1 .. Len(Kinds) -> Nat]
      BY <3>4, OffsetsDisjoint
    <3> QED BY <3>4, <3>5
  <2> HIDE DEF offsets
  <2>3. /\ parsed' \in Parsed /\ parsed'.imports = parsed.imports /\ parsed'.functions = parsed.functions
        /\ parsed'.globals = parsed.globals /\ parsed'.globals_offsets = offsets
    BY <2>1, <2>2, ParsedParts DEF Parsed
  <2>4. Kinds' = Kinds
    BY <2>3 DEF Kinds
  <2>5. AllValues(Kinds)' /\ OffsetsOfTypes(Kinds)' = offsets
    BY <1>3, <2>4 DEF AllValues, offsets
  <2> QED BY <1>1, <2>1, <2>3, <2>5 DEF IInv, TypeOK
<1> QED BY <1>2, <1>3

LEMMA IInvHoldsNext == IInv /\ [Next]_vars => IInv'
<1> SUFFICES ASSUME IInv, [Next]_vars PROVE IInv'
  OBVIOUS
<1>1. CASE Entry
  BY <1>1, OtherEntriesKeep, TypeEntryKeeps, ImportEntryKeeps, FunctionEntryKeeps, TableEntryKeeps,
     GlobalEntryKeeps, ExportEntryKeeps, CodeEntryKeeps, DataEntryKeeps DEF Entry
<1>2. CASE EntryFails \/ SectionFails \/ Abort
  <2>1. /\ file' = file /\ pos' = pos /\ section' = section /\ entry' = entry /\ count' = count
        /\ locals' = locals
        /\ parsed' = parsed /\ status' \in {"error", "panicked", "aborted"} /\ data' = data
    BY <1>2 DEF EntryFails, SectionFails, Abort, data
  <2>2. InBody' <=> InBody
    BY <2>1 DEF InBody, HasOwner, Owner, Declared
  <2> QED BY <2>1, <2>2 DEF IInv, TypeOK
<1>3. CASE OpenSection
  <2>1. /\ pos' \in pos + 1 .. Len(data) /\ data' = data /\ parsed' = parsed /\ status' = "parsing"
        /\ section' \in SectionName /\ entry' = 0 /\ count' \in Nat
        /\ locals' = locals /\ locals = NoLocals
    BY <1>3, OpenSectionFacts
  <2>2. data \in Seq(Byte) /\ Len(data) \in Nat /\ pos \in 0 .. Len(data)
    BY LenProperties DEF IInv, TypeOK
  <2>3. TypeOK'
    BY <2>1, <2>2 DEF IInv, TypeOK
  <2> QED BY <2>1, <2>3 DEF IInv
<1>4. CASE Deliver
  BY <1>4, DeliverKeeps
<1>5. CASE UNCHANGED vars
  <2>1. Kinds' = Kinds /\ data' = data /\ (InBody' <=> InBody)
    BY <1>5 DEF vars, Kinds, data, InBody, HasOwner, Owner, Declared
  <2> QED BY <1>5, <2>1 DEF vars, IInv, TypeOK, AllValues
<1>6. CASE OpenBody \/ ReadRun \/ PushType
  BY <1>6, OpenBodyKeeps, ReadRunKeeps, PushTypeKeeps
<1> QED BY <1>1, <1>2, <1>3, <1>4, <1>5, <1>6 DEF Next, Step, Returned

LEMMA IInvHolds == Spec => []IInv
BY IInvHoldsFirst, IInvHoldsNext, PTL DEF Spec

-----------------------------------------------------------------------------
(* Theorems.                                                               *)

\* Whatever the bytes, the reader stays inside the data and a section is not
\* read beyond the entries it announced.
THEOREM Typed == Spec => []TypeOK
<1>1. IInv => TypeOK
  BY DEF IInv
<1> QED BY <1>1, IInvHolds, PTL

\* Whatever the bytes, evaluate can run the module that parse returns: each
\* local inside its frame, each jump inside its code, each global in place.
THEOREM Runnable == Spec => []DeliversRunnable
<1>1. IInv => DeliversRunnable
  <2> SUFFICES ASSUME IInv, status = "done" PROVE IsRunnable(Delivered, NoBody)
    BY DEF DeliversRunnable
  <2>1. /\ parsed.functions \in Seq(Functions) /\ parsed.globals \in Seq(Globals)
        /\ AllValues(Kinds) /\ parsed.globals_offsets = OffsetsOfTypes(Kinds)
    BY ParsedParts DEF IInv
  <2>2. \A i \in DOMAIN parsed.functions :
          parsed.functions[i].body = NoBody \/ IsBody(parsed.functions[i].body)
    <3> TAKE i \in DOMAIN parsed.functions
    <3>1. parsed.functions[i] \in Functions
      BY <2>1, ElementOfSeq, LenProperties
    <3> QED BY <3>1 DEF Functions, Bodies
  <2>3. Kinds \in Seq(ValueType)
    <3>1. Len(parsed.globals) \in Nat /\ Kinds \in [1 .. Len(parsed.globals) -> ValueType]
      BY <2>1, LenProperties DEF Kinds, AllValues
    <3> QED BY <3>1
  <2>4. OffsetsOfTypes(Kinds) \in [DOMAIN Kinds -> Nat]
    BY <2>3, OffsetsDisjoint
  <2> QED BY <2>1, <2>2, <2>3, <2>4 DEF IsRunnable, Delivered
<1> QED BY <1>1, IInvHolds, PTL

\* Whatever the bytes, each step that goes on consumes some, or is one of the
\* pushes that the run of locals just read announced and leaves fewer of them
\* to make; so no behaviour goes on for ever.
THEOREM Consumes == Spec => Progresses
<1>1. IInv /\ [Next]_vars =>
        [status' = "parsing" =>
           \/ pos < pos' /\ pos' <= Len(data)
           \/ pos' = pos /\ 0 <= locals'.left /\ locals'.left < locals.left]_vars
  <2> SUFFICES ASSUME IInv, [Next]_vars, status' = "parsing", vars' # vars
               PROVE  \/ pos < pos' /\ pos' <= Len(data)
                      \/ pos' = pos /\ 0 <= locals'.left /\ locals'.left < locals.left
    BY DEF vars
  <2>1. pos \in Nat /\ Len(data) \in Nat /\ locals \in Locals
    BY LenProperties DEF IInv, TypeOK
  <2>2. Entry \/ OpenBody \/ ReadRun \/ OpenSection \/ PushType
    BY DEF Next, Step, EntryFails, SectionFails, Abort, Deliver, Returned
  <2>3. CASE Entry \/ OpenBody \/ ReadRun \/ OpenSection
    <3>1. pos' \in pos + 1 .. Len(data)
      BY <2>3, EntryConsumes, OpenSectionFacts
    <3> QED BY <2>1, <3>1
  <2>4. CASE PushType
    <3>1. pos' = pos /\ locals.left > 0 /\ locals.left \in Nat /\ locals'.left = locals.left - 1
      BY <2>1, <2>4 DEF PushType, Pushing, Locals
    <3> QED BY <3>1
  <2> QED BY <2>2, <2>3, <2>4
<1> QED BY <1>1, IInvHolds, PTL DEF Spec, Progresses
=============================================================================
