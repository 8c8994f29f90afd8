---------------------------- MODULE ModuleParser ----------------------------
(***************************************************************************)
(* parse of uwasm/src/lib.rs: the sections of a module, one entry a step.  *)
(* An entry is a fixed list of fields, which the code reads one after      *)
(* another; a field that cannot be read ends the parse with an Err         *)
(* ("error"), and a todo!(), an index or an unwrap that fails with a panic *)
(* ("panicked").  The sizes of sections and of bodies are read and never   *)
(* used: a section ends where its last entry ends.                         *)
(*                                                                         *)
(* An entry of the code section takes several steps: the start of a body,  *)
(* its runs of locals, and a step for each local that a run announces.     *)
(* A function body is scanned in one step, whose outcome is AfterBody of   *)
(* ControlFlow: CodeParser is that scan opcode by opcode.                  *)
(***************************************************************************)
EXTENDS ControlFlow, WasmModule

CONSTANTS Files,   \* what is parsed: records with the bytes as field data
          Usize,     \* how many values a usize has: 2^32 on the target
          MaxTypes,  \* locals of one body that the heap has room for
          NoBody, NoName

ASSUME UsizeAssumption == Usize \in Nat \ {0} /\ MaxTypes \in Nat
ASSUME FilesAssumption == \A f \in Files : f.data \in Seq(Byte) /\ Len(f.data) < Usize

VARIABLES file,     \* the input; it never changes
          pos,      \* Reader::pos
          section,  \* the section being read, "Preamble" first
          entry,    \* entries read of it,
          count,    \* and the number it announced
          locals,   \* of the body being read: its own types so far, the runs to
                    \* come, and the type that is still to be pushed left times
          parsed,   \* the vectors of parse
          status    \* "parsing", "done", "error", "panicked" or "aborted"

vars == <<file, pos, section, entry, count, locals, parsed, status>>

data == file.data

Nothing ==
  [signatures |-> <<>>, functions |-> <<>>, imports |-> 0, globals |-> <<>>,
   globals_offsets |-> <<>>, data_segments |-> <<>>, tables |-> <<>>]

\* Between two bodies.
NoLocals == [inside |-> FALSE, own |-> <<>>, runs |-> 0, type |-> "Invalid", left |-> 0]

Init ==
  /\ file \in Files
  /\ pos = 0
  /\ section = "Preamble" /\ entry = 0 /\ count = 1
  /\ locals = NoLocals
  /\ parsed = Nothing
  /\ status = "parsing"

-----------------------------------------------------------------------------
(* Fields.  The position after one, or Failed, or Panicked.                *)

\* Item for SectionKind
SectionOfByte(b) ==
  CASE b = 0 -> "Custom" [] b = 1 -> "Type" [] b = 2 -> "Import" [] b = 3 -> "Function"
    [] b = 4 -> "Table" [] b = 5 -> "Memory" [] b = 6 -> "Global" [] b = 7 -> "Export"
    [] b = 9 -> "Elem" [] b = 10 -> "Code" [] b = 11 -> "Data" [] OTHER -> "Invalid"

\* What is read next: an entry, or a part of one of the code section.
Round ==
  IF section # "Code" THEN section
  ELSE IF ~locals.inside THEN "Body" ELSE IF locals.runs > 0 THEN "Run" ELSE "Code"

\* The fields of each.
Fields(kind) ==
  CASE kind = "Preamble" -> <<"magic", "version">>
    [] kind = "Custom"   -> <<"bytes">>
    [] kind = "Type"     -> <<"func", "types", "types">>
    [] kind = "Import"   -> <<"bytes", "bytes", "byte", "number">>
    [] kind = "Function" -> <<"number">>
    [] kind = "Table"    -> <<"type", "byte", "byte", "byte">>
    [] kind = "Memory"   -> <<"byte", "byte">>
    [] kind = "Global"   -> <<"type", "byte", "code">>
    [] kind = "Export"   -> <<"bytes", "byte", "number">>
    [] kind = "Elem"     -> <<"byte", "offset", "indices">>
    [] kind = "Body"     -> <<"number", "number">>
    [] kind = "Run"      -> <<"number", "type">>
    [] kind = "Code"     -> <<"code">>
    [] kind = "Data"     -> <<"byte", "code", "bytes">>

\* read_usize: a number, cut to the width of usize
Number(at) == Unsigned(data, at) % Usize

\* A count, then what it counts.
Counted(at, after(_, _)) ==
  LET first == AfterNumbers(data, at, 1)
  IN  IF first = Failed THEN Failed ELSE after(first, Number(at))

\* read_slice.  at + n wraps around: a sum beyond usize becomes a position
\* before at, passes the check, and n bytes from at on are no slice.
Slice(at, n) ==
  IF at + n <= Len(data) THEN at + n ELSE IF at + n < Usize THEN Failed ELSE Panicked

TypesAt(at, n) ==
  IF at + n <= Len(data) /\ \A i \in at .. at + n - 1 : AfterType(data, i) # Failed
  THEN at + n ELSE Failed

IndicesAt(at, n) == IF n = 0 THEN at ELSE AfterNumbers(data, at, n)

\* The offset of an element segment: i32.const ... end, with read_usize.
AfterOffset(at) ==
  LET from[p \in 0 .. Len(data)] ==
        IF p = Len(data) THEN Failed
        ELSE IF At(data, p) = \h0B THEN p + 1
        ELSE IF At(data, p) # \h41 THEN Panicked
        ELSE LET q == AfterNumbers(data, p + 1, 1)
             IN  IF q = Failed THEN Failed ELSE from[q]
  IN  from[at]

Magic == <<0, 97, 115, 109>>

AfterField(field, at) ==
  CASE field = "magic"   -> IF at + 4 <= Len(data) /\ SubSeq(data, at + 1, at + 4) = Magic THEN at + 4 ELSE Failed
    [] field = "version" -> AfterBytes(data, at, 4)
    [] field \in {"byte", "type", "number"} -> After(field, data, at)
    [] field = "func"    -> IF AfterType(data, at) = Failed \/ TypeOfByte(At(data, at)) = "Func"
                            THEN AfterType(data, at) ELSE Panicked
    [] field = "bytes"   -> Counted(at, Slice)
    [] field = "types"   -> Counted(at, TypesAt)
    [] field = "indices" -> Counted(at, IndicesAt)
    [] field = "offset"  -> AfterOffset(at)
    [] field = "code"    -> AfterBody(data, at)

\* Where the fields of what is read next start, and where it ends: a field is
\* read if those before it could be.
Positions ==
  LET at[i \in 1 .. Len(Fields(Round)) + 1] ==
        IF i = 1 THEN pos
        ELSE IF at[i - 1] < 0 THEN at[i - 1] ELSE AfterField(Fields(Round)[i - 1], at[i - 1])
  IN  at

-----------------------------------------------------------------------------
(* What a field at a position holds, once it can be read.                  *)

OneByte(at) == At(data, at)
Type(at)   == TypeOfByte(At(data, at))

\* read_str, read_slice: the bytes a count announces
BytesAt(at) ==
  LET first == AfterNumbers(data, at, 1)
  IN  SubSeq(data, first + 1, first + Number(at))

TypeSeq(at) == [i \in 1 .. Len(BytesAt(at)) |-> TypeOfByte(BytesAt(at)[i])]

\* CodeInfo
CodeAt(at) ==
  [offset |-> at, code |-> BodyCode(data, at), jump_targets |-> BodyTargets(data, at)]

Bodyless(name, signature) == [name |-> name, body |-> NoBody, signature |-> signature]

-----------------------------------------------------------------------------
(* Entries.                                                                *)

AllValues(types) == \A i \in DOMAIN types : types[i] \in ValueType

\* Mutant of Declared: the imported functions are not counted.
DeclaredFirst == entry + 1

\* Code: the function the next body belongs to, counted after the imports,
\* and its signature: signatures[functions[imports + func_idx].signature].
Declared  == parsed.imports + entry + 1
Owner     == parsed.functions[Declared]
HasOwner  == Declared \in DOMAIN parsed.functions /\ Owner.signature + 1 \in DOMAIN parsed.signatures
Signature == parsed.signatures[Owner.signature + 1]

\* signatures[sig_index] of Function, functions[export_func_idx] of Export.
Dangles(at) ==
  \/ section = "Function" /\ Number(at[1]) + 1 \notin DOMAIN parsed.signatures
  \/ section = "Export" /\ OneByte(at[2]) = 0 /\ Number(at[3]) + 1 \notin DOMAIN parsed.functions

\* Code: offsets_of_types before the code is read.
Unsized == ~AllValues(Signature.params \o locals.own)

\* The position after what is read, with its fields at these positions.
EntryEnd(at) ==
  IF (Round = "Body" /\ ~HasOwner) \/ (Round = "Code" /\ Unsized) THEN Panicked
  ELSE LET end == at[Len(Fields(Round)) + 1]
       IN  IF end >= 0 /\ Dangles(at) THEN Panicked ELSE end

Pushing == status = "parsing" /\ locals.left > 0
InEntry == status = "parsing" /\ entry < count /\ locals.left = 0

\* The fields of what is read next, if it is of that kind and can be read.
EntryAt(kind) == IF InEntry /\ Round = kind THEN {at \in {Positions} : EntryEnd(at) >= 0} ELSE {}

Read(at) == pos' = EntryEnd(at) /\ UNCHANGED <<file, section, count, status>>

\* The last part of an entry.
ReadEntry(at) == Read(at) /\ entry' = entry + 1 /\ locals' = NoLocals

Preamble == \E at \in EntryAt("Preamble") : ReadEntry(at) /\ UNCHANGED parsed

TypeEntry ==
  \E at \in EntryAt("Type") :
    /\ ReadEntry(at)
    /\ parsed' = [parsed EXCEPT !.signatures =
                    Append(@, [params |-> TypeSeq(at[2]), results |-> TypeSeq(at[3])])]

\* Mutant of ImportEntry: imports of any kind are counted.
ImportEntryCountingAll ==
  \E at \in EntryAt("Import") :
    /\ ReadEntry(at)
    /\ parsed' = IF OneByte(at[3]) # 0 THEN [parsed EXCEPT !.imports = @ + 1]
                 ELSE [parsed EXCEPT !.functions = Append(@, Bodyless(BytesAt(at[2]), Number(at[4]))),
                                     !.imports = @ + 1]

\* Of the imports, functions are kept; the descriptor of any kind is read
\* as one number.
ImportEntry ==
  \E at \in EntryAt("Import") :
    /\ ReadEntry(at)
    /\ parsed' = IF OneByte(at[3]) # 0 THEN parsed
                 ELSE [parsed EXCEPT !.functions = Append(@, Bodyless(BytesAt(at[2]), Number(at[4]))),
                                     !.imports = @ + 1]

FunctionEntry ==
  \E at \in EntryAt("Function") :
    /\ ReadEntry(at)
    /\ parsed' = [parsed EXCEPT !.functions = Append(@, Bodyless(NoName, Number(at[1])))]

TableEntry ==
  \E at \in EntryAt("Table") :
    /\ ReadEntry(at)
    /\ parsed' = [parsed EXCEPT !.tables = Append(@,
                    [kind |-> Type(at[1]), limits_flags |-> OneByte(at[2]),
                     limits_initial |-> OneByte(at[3]), limits_max |-> OneByte(at[4])])]

\* Memory and element segments leave nothing behind.
MemoryEntry == \E at \in EntryAt("Memory") : ReadEntry(at) /\ UNCHANGED parsed
ElemEntry   == \E at \in EntryAt("Elem") : ReadEntry(at) /\ UNCHANGED parsed

GlobalEntry ==
  \E at \in EntryAt("Global") :
    /\ ReadEntry(at)
    /\ parsed' = [parsed EXCEPT !.globals = Append(@,
                    [kind |-> Type(at[1]), mutability |-> OneByte(at[2]),
                     initializer |-> CodeAt(at[3]).code])]

Renamed(index, name) == [parsed EXCEPT !.functions[index + 1].name = name]

\* Mutant of ExportEntry: every kind of export names a function.
ExportAnyEntry ==
  \E at \in EntryAt("Export") : ReadEntry(at) /\ parsed' = Renamed(Number(at[3]), BytesAt(at[1]))

ExportEntry ==
  \E at \in EntryAt("Export") :
    /\ ReadEntry(at)
    /\ parsed' = IF OneByte(at[2]) # 0 THEN parsed ELSE Renamed(Number(at[3]), BytesAt(at[1]))

\* FuncBody
BodyOf(signature, own, code) ==
  [params |-> signature.params, results |-> signature.results,
   offset |-> code.offset, code |-> code.code, jump_targets |-> code.jump_targets,
   locals_types |-> signature.params \o own,
   locals_offsets |-> OffsetsOfTypes(signature.params \o own),
   params_len |-> WordsOf(signature.params), non_param_locals_len |-> WordsOf(own)]

\* A body starts with its size and the number of its runs.
OpenBody ==
  \E at \in EntryAt("Body") :
    /\ Read(at)
    /\ locals' = [NoLocals EXCEPT !.inside = TRUE, !.runs = Number(at[2])]
    /\ UNCHANGED <<entry, parsed>>

\* A run is how many, and which type.
ReadRun ==
  \E at \in EntryAt("Run") :
    /\ Read(at)
    /\ locals' = [locals EXCEPT !.runs = @ - 1, !.left = Number(at[1]), !.type = Type(at[2])]
    /\ UNCHANGED <<entry, parsed>>

\* Mutant of PushType: the rounds are not counted.
PushTypeUncounted ==
  /\ Pushing /\ Len(locals.own) < MaxTypes
  /\ locals' = [locals EXCEPT !.own = Append(@, locals.type)]
  /\ UNCHANGED <<file, pos, section, entry, count, parsed, status>>

\* A round of the loop over n: nothing is read.
PushType ==
  /\ Pushing /\ Len(locals.own) < MaxTypes
  /\ locals' = [locals EXCEPT !.left = @ - 1, !.own = Append(@, locals.type)]
  /\ UNCHANGED <<file, pos, section, entry, count, parsed, status>>

\* The vector cannot grow: the allocation error ends the program.
Abort ==
  /\ Pushing /\ Len(locals.own) = MaxTypes
  /\ status' = "aborted"
  /\ UNCHANGED <<file, pos, section, entry, count, locals, parsed>>

CodeEntry ==
  \E at \in EntryAt("Code") :
    /\ ReadEntry(at)
    /\ parsed' = [parsed EXCEPT !.functions[Declared].body =
                    BodyOf(Signature, locals.own, CodeAt(at[1]))]

DataEntry ==
  \E at \in EntryAt("Data") :
    /\ ReadEntry(at)
    /\ parsed' = [parsed EXCEPT !.data_segments = Append(@,
                    [flags |-> OneByte(at[1]), offset |-> CodeAt(at[2]).code,
                     data |-> BytesAt(at[3])])]

\* The ? of a read, or a panic.
EntryFails ==
  /\ InEntry
  /\ \E at \in {Positions} :
       /\ EntryEnd(at) < 0
       /\ status' = IF EntryEnd(at) = Failed THEN "error" ELSE "panicked"
  /\ UNCHANGED <<file, pos, section, entry, count, locals, parsed>>

-----------------------------------------------------------------------------
(* Sections.                                                               *)

Kinds == [i \in DOMAIN parsed.globals |-> parsed.globals[i].kind]

AtSection   == status = "parsing" /\ entry = count
NextSection == IF pos < Len(data) THEN SectionOfByte(At(data, pos)) ELSE "Invalid"

\* A section starts with its kind, its size and, but for custom ones, the
\* number of its entries.
HeaderEnd(kind) ==
  IF kind = "Custom"
  THEN IF AfterNumbers(data, pos + 1, 1) = Failed THEN Failed
       ELSE AfterField("bytes", AfterNumbers(data, pos + 1, 1))
  ELSE AfterNumbers(data, pos + 1, 2)

OpenSection ==
  /\ AtSection /\ NextSection \notin {"Invalid", "Custom"}
  /\ HeaderEnd(NextSection) >= 0
  /\ pos' = HeaderEnd(NextSection)
  /\ section' = NextSection
  /\ entry' = 0
  /\ count' = Number(AfterNumbers(data, pos + 1, 1))
  /\ UNCHANGED <<file, locals, parsed, status>>

SectionFails ==
  /\ AtSection /\ NextSection # "Invalid"
  /\ HeaderEnd(NextSection) < 0
  /\ status' = IF HeaderEnd(NextSection) = Failed THEN "error" ELSE "panicked"
  /\ UNCHANGED <<file, pos, section, entry, count, locals, parsed>>

\* The loop ends at a custom section, and where no section kind can be read:
\* at the end of the data, or at a kind that is not known.
Deliver ==
  /\ AtSection /\ NextSection \in {"Invalid", "Custom"}
  /\ NextSection = "Custom" => HeaderEnd("Custom") >= 0
  /\ IF AllValues(Kinds)
     THEN status' = "done" /\ parsed' = [parsed EXCEPT !.globals_offsets = OffsetsOfTypes(Kinds)]
     ELSE status' = "panicked" /\ UNCHANGED parsed
  /\ UNCHANGED <<file, pos, section, entry, count, locals>>

Returned == status # "parsing" /\ UNCHANGED vars

Entry ==
  \/ Preamble \/ TypeEntry \/ ImportEntry \/ FunctionEntry \/ TableEntry \/ MemoryEntry
  \/ GlobalEntry \/ ExportEntry \/ ElemEntry \/ CodeEntry \/ DataEntry
Step == Entry \/ OpenBody \/ ReadRun \/ PushType \/ Abort \/ EntryFails \/ OpenSection \/ SectionFails \/ Deliver
Next == Step \/ Returned

Spec == Init /\ [][Next]_vars
-----------------------------------------------------------------------------

\* The parser's state is well typed: the reader stays inside the data, and a
\* section is never read beyond the entries it announced, nor a body's locals
\* beyond what the heap holds.
TypeOK ==
  /\ data \in Seq(Byte)
  /\ pos \in 0 .. Len(data)
  /\ entry \in Nat /\ count \in Nat /\ entry <= count
  /\ locals.runs \in Nat /\ locals.left \in Nat /\ Len(locals.own) \in 0 .. MaxTypes
  /\ parsed.imports \in 0 .. Len(parsed.functions)
  /\ \A i \in DOMAIN parsed.functions : parsed.functions[i].signature \in Nat
  /\ status \in {"parsing", "done", "error", "panicked", "aborted"}

\* What evaluate is given: the functions and globals of a delivered module.
Delivered ==
  [functions |-> parsed.functions, globals |-> Kinds, globals_offsets |-> parsed.globals_offsets]

\* Whatever the bytes, a module that parse returns can be run: every body's
\* locals lie inside its frame and its jumps inside its code, and every
\* global has a value type (evaluate indexes and unwraps on the strength of
\* that; it is ModulesAssumption of Interpreter).
DeliversRunnable == status = "done" => IsRunnable(Delivered, NoBody)

\* Every round of every loop of parse reads at least a byte, save those that
\* push the locals of a run: they read nothing, and are only counted.  So the
\* bytes still to be read, and then the pushes still to be made, bound the
\* parse.  The second bound is weak: it is a number in the file, as large as
\* a usize, and what ends such a loop early is the heap (Abort).
Progresses ==
  [][status' = "parsing" =>
       \/ pos < pos' /\ pos' <= Len(data)
       \/ pos' = pos /\ 0 <= locals'.left /\ locals'.left < locals.left]_vars
=============================================================================
