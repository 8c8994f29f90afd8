--------------------------- MODULE MCModuleParser ---------------------------
(***************************************************************************)
(* Modules for ModuleParser, written as lists of sections with their       *)
(* entries.  Encoded is the binary format of WebAssembly; Meaning is what  *)
(* such a list says, without bytes.  Files are encoded modules, whole or   *)
(* cut short, or with a byte changed.                                      *)
(***************************************************************************)
EXTENDS ModuleParser, SequencesExt

\* A number, in one byte or, as linkers leave it, in two.
Num(n)    == <<n>>
Padded(n) == <<(n % 128) + 128, n \div 128>>

Vector(elements) == Num(Len(elements)) \o FlattenSeq(elements)
Bytes(bs)        == Num(Len(bs)) \o bs
TypeByte(t)      == CHOOSE b \in Byte : TypeOfByte(b) = t
Types(ts)        == Vector([i \in DOMAIN ts |-> <<TypeByte(ts[i])>>])

LocalsOf(runs) == Vector([i \in DOMAIN runs |-> <<runs[i].n, TypeByte(runs[i].type)>>])

\* limits, with or without a maximum
Limits(l) == IF l.max = 0 THEN <<0, l.initial>> ELSE <<1, l.initial, l.max>>

EncodedEntry(kind, e) ==
  CASE kind = "Type"     -> <<\h60>> \o Types(e.params) \o Types(e.results)
    [] kind = "Import"   -> Bytes(e.module) \o Bytes(e.field) \o <<e.kind>> \o e.descriptor
    [] kind = "Function" -> Num(e)
    [] kind = "Table"    -> <<\h70>> \o Limits(e)
    [] kind = "Memory"   -> Limits(e)
    [] kind = "Global"   -> <<TypeByte(e.kind), e.mutability>> \o e.initializer
    [] kind = "Export"   -> Bytes(e.name) \o <<e.kind>> \o Padded(e.index)
    [] kind = "Elem"     -> <<0>> \o e.offset \o Vector([i \in DOMAIN e.functions |-> Num(e.functions[i])])
    [] kind = "Code"     -> LET body == LocalsOf(e.runs) \o e.code IN Padded(Len(body)) \o body
    [] kind = "Data"     -> e.header \o Bytes(e.data)

KindByte(kind) == CHOOSE b \in Byte : SectionOfByte(b) = kind

EncodedSection(s) ==
  LET content == IF s.kind = "Custom" THEN s.content
                 ELSE Vector([i \in DOMAIN s.entries |-> EncodedEntry(s.kind, s.entries[i])])
  IN  <<KindByte(s.kind)>> \o Padded(Len(content)) \o content

Start == Magic \o <<1, 0, 0, 0>>

Encoded(sections) == Start \o FlattenSeq([i \in DOMAIN sections |-> EncodedSection(sections[i])])

-----------------------------------------------------------------------------
(* What a list of sections means.                                          *)

Entries(sections, kind) ==
  FlattenSeq([i \in DOMAIN sections |-> IF sections[i].kind = kind THEN sections[i].entries ELSE <<>>])

IsFunction(e) == e.kind = 0

ImportedFunctions(sections) == SelectSeq(Entries(sections, "Import"), IsFunction)

AllOf(type, n) == [i \in 1 .. n |-> type]

Meaning(sections) ==
  LET types    == Entries(sections, "Type")
      imported == ImportedFunctions(sections)
      declared == Entries(sections, "Function")
      bodies   == Entries(sections, "Code")
      TypeOf(i) == types[1 + (IF i <= Len(imported) THEN imported[i].descriptor[1]
                                                  ELSE declared[i - Len(imported)])]
      BodyOfCode(i) ==
        IF i - Len(imported) \notin DOMAIN bodies THEN NoBody
        ELSE LET b == bodies[i - Len(imported)]
             IN  [code |-> b.code,
                  locals |-> TypeOf(i).params
                    \o FlattenSeq([r \in DOMAIN b.runs |-> AllOf(b.runs[r].type, b.runs[r].n)])]
  IN  [functions |-> [i \in 1 .. Len(imported) + Len(declared) |->
                        [type |-> TypeOf(i), body |-> BodyOfCode(i)]],
       globals   |-> LET gs == Entries(sections, "Global")
                     IN  [i \in DOMAIN gs |-> [kind |-> gs[i].kind, mutability |-> gs[i].mutability,
                                              initializer |-> gs[i].initializer]],
       data      |-> LET ds == Entries(sections, "Data")
                     IN  [i \in DOMAIN ds |-> [offset |-> Tail(ds[i].header), data |-> ds[i].data]]]

\* The same of a parsed module.
Seen ==
  [functions |-> [i \in DOMAIN parsed.functions |->
     LET f == parsed.functions[i]
     IN  [type |-> parsed.signatures[f.signature + 1],
          body |-> IF f.body = NoBody THEN NoBody
                   ELSE [code |-> f.body.code, locals |-> f.body.locals_types]]],
   globals |-> parsed.globals,
   data |-> [i \in DOMAIN parsed.data_segments |->
               [offset |-> parsed.data_segments[i].offset, data |-> parsed.data_segments[i].data]]]

-----------------------------------------------------------------------------
(* Properties of files that encode a module.                               *)

\* A whole file gives the module that it encodes: signatures, bodies and
\* their locals go to the functions they were written for, imported ones
\* counted, globals and data in order.  A file that ends inside a section is
\* never delivered, one that ends between two sections is the module of those
\* before (parse does not know how many are to come).
DeliversMeaning ==
  /\ status = "done" => file.whole /\ Seen = Meaning(file.sections)
  /\ status \in {"error", "panicked", "aborted"} => ~file.whole

\* get_function_index_by_name: the first function of that name
Named(name) == {i \in DOMAIN parsed.functions : parsed.functions[i].name = name}
Found(name) == CHOOSE i \in Named(name) : \A j \in Named(name) : i <= j

\* Names lead to functions as the module says: the host finds each exported
\* function under its export name, and links each imported one by the name of
\* its import (one field, Func::name, serves both purposes).
NamesResolve ==
  status = "done" /\ file.whole =>
    /\ LET exports == SelectSeq(Entries(file.sections, "Export"), IsFunction)
       IN  \A k \in DOMAIN exports :
             Named(exports[k].name) # {} /\ Found(exports[k].name) = exports[k].index + 1
    /\ LET imported == ImportedFunctions(file.sections)
       IN  \A i \in DOMAIN imported : parsed.functions[i].name = imported[i].field

-----------------------------------------------------------------------------
(* Modules in the style compilers emit.                                    *)

\* Names are one byte.
env == <<1>>  print == <<2>>  halt == <<3>>  helper == <<5>>  mem == <<6>>

end == <<\h0B>>
i32_const(n) == <<\h41, n % 128>>

Section(kind, entries) == [kind |-> kind, entries |-> entries]
Custom == [kind |-> "Custom", entries |-> <<>>, content |-> Bytes(<<7>>) \o <<1, 2>>]

TypeSection ==
  Section("Type", <<[params |-> <<"I32">>, results |-> <<"I32">>],
                    [params |-> <<"I64", "F32">>, results |-> <<>>],
                    [params |-> <<>>, results |-> <<"F64">>]>>)

FunctionImport(field, type) == [module |-> env, field |-> field, kind |-> 0, descriptor |-> <<type>>]
FunctionExport(name, index) == [name |-> name, kind |-> 0, index |-> index]
OtherExport(name, kind)     == [name |-> name, kind |-> kind, index |-> 0]

\* A body that goes through a block, one that does nothing, one with an if.
Codes ==
  <<[runs |-> <<[n |-> 2, type |-> "F64"], [n |-> 1, type |-> "I32"]>>,
     code |-> <<\h02, \h40, \h20, 0, \h0D, 0, \h0B>> \o i32_const(1) \o end],
    [runs |-> <<>>, code |-> end],
    [runs |-> <<[n |-> 0, type |-> "I64"]>>,
     code |-> i32_const(1) \o <<\h04, \h7F>> \o i32_const(2) \o <<\h05>> \o i32_const(3) \o end \o end]>>

Limited(initial, max) == [initial |-> initial, max |-> max]

\* A global of a kind, initialised by an instruction to a value of these bytes.
Global(kind, instruction, bytes) ==
  [kind |-> kind, mutability |-> 1, initializer |-> instruction \o end, bytes |-> bytes]
ActiveData(offset, bytes) ==
  [header |-> <<0>> \o i32_const(offset) \o end, at |-> offset, data |-> bytes]

Globals ==
  <<Global("I32", i32_const(5), <<5, 0, 0, 0>>), Global("I64", <<\h42, \h7E>>, <<254>> \o AllOf(255, 7)),
    Global("F32", <<\h43, 1, 2, 3, 4>>, <<1, 2, 3, 4>>),
    Global("F64", <<\h44, 1, 2, 3, 4, 5, 6, 7, 8>>, <<1, 2, 3, 4, 5, 6, 7, 8>>),
    Global("I32", <<\h41, \hFF, \h7E>>, <<127, 255, 255, 255>>)>>
Datas   == <<ActiveData(1, <<11, 12>>), ActiveData(2, <<13, 11>>)>>

\* n imported functions, m declared ones of which each is exported, and the
\* other sections, or not.
Sections(n, m, rest) ==
  <<TypeSection>>
  \o (IF n = 0 THEN <<>> ELSE <<Section("Import", [i \in 1 .. n |-> FunctionImport(<<<<2>>, <<3>>>>[i], i)])>>)
  \o <<Section("Function", [i \in 1 .. m |-> 3 - i])>>
  \o (IF rest THEN <<Section("Table", <<Limited(1, 2)>>), Section("Memory", <<Limited(1, 0)>>),
                      Section("Global", Globals)>> ELSE <<>>)
  \o <<Section("Export", <<OtherExport(mem, 2)>>
                           \o [i \in 1 .. m |-> FunctionExport(<<3 + i>>, n + i - 1)])>>
  \o (IF rest /\ m > 0 THEN <<Section("Elem", <<[offset |-> i32_const(1) \o end, functions |-> <<n, n>>]>>)>> ELSE <<>>)
  \o <<Section("Code", [i \in 1 .. m |-> Codes[i]])>>
  \o (IF rest THEN <<Section("Data", Datas)>> ELSE <<>>)

\* A file that is the encoding of these sections, and one that a host can
\* link and initialise, too.
Whole(sections)    == [data |-> Encoded(sections), sections |-> sections, whole |-> TRUE, boots |-> FALSE]
Bootable(sections) == [Whole(sections) EXCEPT !.boots = TRUE]

\* A file cut after n bytes.
Cut(sections, n) ==
  LET upto(k) == SubSeq(sections, 1, k)
      here    == {k \in 0 .. Len(sections) : Len(Encoded(upto(k))) = n}
  IN  [data |-> SubSeq(Encoded(sections), 1, n), whole |-> here # {}, boots |-> FALSE,
       sections |-> IF here = {} THEN <<>> ELSE upto(CHOOSE k \in here : TRUE)]

Shapes == {Sections(n, m, rest) : n \in 0 .. 2, m \in 0 .. 3, rest \in BOOLEAN}

\* Every truncation of a module with all sections.
CutFiles == {Cut(Sections(1, 2, TRUE), n) : n \in 0 .. Len(Encoded(Sections(1, 2, TRUE)))}

-----------------------------------------------------------------------------
(* Anything: one byte of a module changed, or a section twice, or missing, *)
(* or out of order, or a length that nothing has.                          *)

SomeBytes == {0, 2, \h0B, \h41, \h7C, \h80}

Changed(bytes) == {[data |-> [bytes EXCEPT ![i] = b]] : i \in DOMAIN bytes, b \in SomeBytes}

Rearranged ==
  LET s == Sections(1, 1, TRUE)
  IN  {[data |-> Encoded([s EXCEPT ![i] = s[j]])] : i \in DOMAIN s, j \in DOMAIN s}
      \cup {[data |-> Encoded(<<s[i], s[j]>>)] : i \in DOMAIN s, j \in DOMAIN s}

\* The name of an import or of a custom section longer than the file: to the
\* end of the address space, or beyond.
Overlong ==
  LET heads == {Start \o <<KindByte("Import"), 0, 1>>, Start \o <<KindByte("Custom"), 0>>}
  IN  {[data |-> head \o Padded(n)] : head \in heads, n \in Usize - 16 .. Usize - 1}

AnyFiles ==
  Changed(Encoded(Sections(1, 2, TRUE))) \cup Changed(Encoded(Sections(0, 3, FALSE)))
    \cup Rearranged \cup Overlong

-----------------------------------------------------------------------------
(* A valid module that parse does not give the meaning it has.             *)

\* A memory imported before the function that prints.
MemoryImportFiles ==
  {Whole(<<TypeSection,
           Section("Import", <<[module |-> env, field |-> mem, kind |-> 2, descriptor |-> <<0, 1>>],
                               FunctionImport(print, 1)>>)>>)}
=============================================================================
