------------------------------- MODULE MCBoot -------------------------------
(***************************************************************************)
(* Boot on the files of MCModuleParser: what the host's loop starts with,  *)
(* against what the sections of the file say.                              *)
(***************************************************************************)
EXTENDS Boot, MCModuleParser

\* execute_initializer gives the values that the file means: of globals, and
\* of the offsets of segments.
InitializersMean ==
  status = "done" /\ file.boots =>
    /\ LET gs == Entries(file.sections, "Global")
       IN  \A i \in DOMAIN gs : Initial(i).type = gs[i].kind /\ Initial(i).bytes = gs[i].bytes
    /\ LET ds == Entries(file.sections, "Data")
       IN  \A k \in DOMAIN ds :
             InitialValue(parsed.data_segments[k].offset).type = "I32"
               /\ InitialValue(parsed.data_segments[k].offset).value = ds[k].at

\* A module that the host can serve boots.
BootsValid == phase = "failed" => ~file.boots

-----------------------------------------------------------------------------

KnownNames == {print, halt}

\* Initializers that cannot be executed, segments that do not fit, a name the
\* host does not know, and a declared function without code, which the host
\* takes for an imported one.
BadFiles ==
  LET G(instruction) == Section("Global", <<[Global("I32", <<>>, <<>>) EXCEPT !.initializer = instruction]>>)
      D(header)      == Section("Data", <<ActiveData(0, <<9, 9>>),
                                          [ActiveData(0, <<11, 12>>) EXCEPT !.header = header]>>)
  IN  {Whole(<<G(is)>>) : is \in {end, <<\h23, 0>> \o end, i32_const(1) \o i32_const(2) \o end}}
      \cup {Whole(<<D(<<0>> \o is \o end)>>) : is \in {i32_const(-1), i32_const(3), <<\h42, 0>>, i32_const(2)}}
      \cup {Whole(<<TypeSection, Section("Import", <<FunctionImport(helper, 1)>>)>>),
            Whole(<<TypeSection, Section("Function", <<1, 2>>),
                    Section("Export", <<FunctionExport(print, 1)>>), Section("Code", <<Codes[2]>>)>>)}

BootFiles ==
  {Bootable(s) : s \in Shapes} \cup {Bootable(s \o <<Custom>>) : s \in Shapes} \cup CutFiles \cup BadFiles
=============================================================================
