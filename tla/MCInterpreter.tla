--------------------------- MODULE MCInterpreter ---------------------------
(***************************************************************************)
(* The modules, and the calls of the host, on which Interpreter is checked.*)
(* A body is written in mnemonics and assembled to the bytes the code      *)
(* reads; its jump targets are those of ControlFlow, which CodeParser      *)
(* computes.                                                               *)
(***************************************************************************)
EXTENDS Interpreter, SequencesExt

-----------------------------------------------------------------------------
(* Assembler.                                                              *)

block == <<\h02, \h40>>  loop == <<\h03, \h40>>  else == <<\h05>>  end == <<\h0B>>
if(type) == <<\h04, type>>  \* \h7F is i32
br(d) == <<\h0C, d>>  br_if(d) == <<\h0D, d>>  br_table(ds, d) == <<\h0E, Len(ds)>> \o ds \o <<d>>
unreachable == <<\h00>>  return == <<\h0F>>  drop == <<\h1A>>  select == <<\h1B>>
callf(f) == <<\h10, f>>  call_indirect == <<\h11, 0, 0>>
local_get(i) == <<\h20, i>>  local_set(i) == <<\h21, i>>  local_tee(i) == <<\h22, i>>
global_get(i) == <<\h23, i>>  global_set(i) == <<\h24, i>>
mem(op) == <<op, 0, 0>>
i32_const(n) == <<\h41, n % 128>>  i64_const(n) == <<\h42, n % 128>>
f32_const == <<\h43, 0, 0, 0, 0>>  f64_const == <<\h44, 0, 0, 0, 0, 0, 0, 0, 0>>
eqz == <<\h45>>  add == <<\h6A>>  sub == <<\h6B>>  add64 == <<\h7C>>  wrap == <<\hA7>>

\* The body of a function parsed from data that holds `start` other bytes
\* before it.
Assembled(f, start) ==
  LET data == [i \in 1 .. start |-> \h0B] \o FlattenSeq(f.instructions)
  IN  [params |-> f.params, results |-> f.results, offset |-> start,
       code |-> BodyCode(data, start), jump_targets |-> BodyTargets(data, start),
       locals_types |-> f.params \o f.own, locals_offsets |-> OffsetsOfTypes(f.params \o f.own),
       params_len |-> WordsOf(f.params), non_param_locals_len |-> WordsOf(f.own)]

\* A program is a sequence of functions, imported ones in front.
Function(name, params, results, own, instructions) ==
  [name |-> name, params |-> params, results |-> results, own |-> own, instructions |-> instructions]

Import(name) == [name |-> name]

Delivered(f) ==
  [name |-> f.name, body |-> IF f = Import(f.name) THEN NoBody ELSE Assembled(f, 3)]

Module(program) ==
  [functions |-> [i \in DOMAIN program |-> Delivered(program[i])],
   globals |-> <<"I32", "I64">>, globals_offsets |-> <<0, 1>>]

i32 == <<"I32">>

-----------------------------------------------------------------------------
(* Valid modules without if, in the style compilers emit.                  *)

\* Counts its parameter down; the loop is left through the block around it.
Loops == <<Function("entry", i32, i32, i32,
  <<block, loop, local_get(0), eqz, br_if(1),
      local_get(0), i32_const(1), sub, local_tee(0), local_set(1),
      block, local_get(1), br_if(0), br(1), end,
      br(0), end, end, local_get(1), end>>)>>

\* Recursion with an operand of the caller waiting below the call.
Recursion == <<Function("entry", i32, i32, <<"I64">>,
  <<block, local_get(0), br_if(0), i32_const(7), return, end,
    i64_const(5), local_set(1),
    local_get(0), local_get(0), i32_const(1), sub, callf(0), add,
    local_get(1), i64_const(5), add64, wrap, add, end>>)>>

\* A switch, each case leaving another block.
Switch == <<Function("entry", i32, i32, <<>>,
  <<block, block, block, local_get(0), br_table(<<0, 1>>, 2), end,
      i32_const(10), return, end,
      i32_const(20), global_set(0), br(0), end,
    global_get(0), end>>)>>

\* Calls of all kinds, wide parameters, memory and globals.
Calling == <<Import("print"),
  Function("entry", i32, i32, i32,
    <<local_get(0), local_get(0), callf(0),
      i32_const(0), i64_const(3), local_get(0), callf(2), mem(\h36),
      local_get(0), i32_const(1), local_get(0), select, drop,
      i64_const(3), i32_const(2), i32_const(2), call_indirect, local_set(1),
      i32_const(0), mem(\h29), global_set(1), global_get(1), wrap, end>>),
  Function("helper", <<"I64", "I32">>, i32, <<"F64">>,
    <<f64_const, local_set(2), local_get(0), wrap, local_tee(1), local_get(1), add, return, end>>)>>

ValidPrograms == {Loops, Recursion, Switch, Calling}

EntryCall == [name |-> "entry", params |-> i32, ty |-> "I32"]
EntryCalls == {EntryCall}

\* print of the host takes a pointer and a length.
MCImports == 0 :> 2

-----------------------------------------------------------------------------
(* Any code that parse accepts: every sequence of a few instructions, some *)
(* of them meaningless, that ends where its blocks are closed.             *)

MaxAny     == 2  \* instructions of any kind in a body
MaxControl == 3  \* instructions that call, branch, store or trap

AnyInstruction ==
  {block, loop, if(\h7F), if(\h40), else, end, br(0), br_if(0), return, unreachable,
   i32_const(1), local_set(0), local_get(1), local_tee(2), global_get(0), global_set(1),
   callf(2), call_indirect, mem(\h38), <<\h01>>}

Parses(instructions) ==
  LET data == FlattenSeq(instructions)
  IN  BodyEnds(data, 0) # {} /\ MisplacedElses(data, 0) = {}

Raw(instructions) == Module(<<Import("print"),
  Function("entry", i32, i32, <<"I64">>, instructions),
  Function("helper", i32, i32, <<"I64">>,
    <<block, local_get(0), br_if(0), unreachable, end,
      i32_const(2), local_tee(0), local_get(1), local_set(1), end>>),
  Function("multi", i32, <<"I32", "I32">>, <<>>, <<end>>),
  Function("none", i32, <<>>, <<>>, <<end>>)>>)

ControlInstruction ==
  {block, loop, end, br(0), return, unreachable, i32_const(1), local_set(0), callf(1), callf(2)}

Bodies ==
  {is \in UNION ({[1 .. n -> AnyInstruction] : n \in 0 .. MaxAny}
                  \cup {[1 .. n -> ControlInstruction] : n \in 0 .. MaxControl})
     : Parses(is \o <<end>>)}

\* Longer bodies, one for each failure the short ones do not reach.
SomeBodies ==
  {<<i32_const(1), i32_const(1), mem(\h36)>>,                  \* out of bounds
   <<i32_const(-1), mem(\h28)>>,                              \* below memory
   <<i32_const(1), i32_const(0), <<\h6D>> >>,                  \* division by 0
   <<i64_const(3), i64_const(3), <<\h80>>, wrap, drop>>,
   <<i64_const(3), i64_const(3), i64_const(3)>>,              \* stack full
   <<global_get(1), global_set(1), <<\h24, 2>> >>,
   <<local_get(1), f64_const, <<\hA2>>, local_set(1)>>,
   <<i32_const(1), br_table(<<0>>, 0)>>, <<br_table(<<0>>, 0)>>,
   <<block, i32_const(1), br_table(<<0, 0>>, 0), end>>,
   <<i32_const(1), i32_const(1), i32_const(0), select, callf(0)>>,
   <<i32_const(1), global_set(0)>>, << <<\h38>> >>,
   <<i32_const(1), i32_const(1), callf(0)>>,
   <<f32_const, if(\h7D), i32_const(0), else, i32_const(1), end>>,
   <<f64_const, if(\h7C), end>>,
   <<i32_const(1), i32_const(2), call_indirect>>, <<callf(9)>>,
   <<i32_const(1), if(\h7F), i32_const(1), else, i32_const(2), end,
     local_get(3), <<\h01>>, br(0)>>,                         \* operand 3 executed as loop
   <<block, i32_const(1), if(\h7F), i32_const(1), else, i32_const(2), end, end,
     br(0)>>}                                                  \* the block's end skipped

RawModules == {Raw(is \o <<end>>) : is \in Bodies \cup SomeBodies}

RawCalls ==
  {EntryCall, [EntryCall EXCEPT !.params = <<"F32">>], [EntryCall EXCEPT !.ty = "F32"]}
  \cup {[name |-> n, params |-> i32, ty |-> "Void"] : n \in {"missing", "print", "multi", "none"}}

-----------------------------------------------------------------------------
(* Every well-nested body without if of up to MaxNested instructions and   *)
(* blocks, in which each branch names a block around it.                   *)

MaxNested == 6

cond == i32_const(1) \o eqz  \* 0 or 1

\* Instructions that make sense inside d blocks.
JumpsAt(d) ==
  {i32_const(1) \o callf(0) \o drop}
  \cup (IF d >= 1 THEN {cond \o br_if(0)} ELSE {})
  \cup (IF d >= 2 THEN {br(1), cond \o br_table(<<0>>, 1)} ELSE {})

WellNested ==
  LET upto[n \in 0 .. MaxNested, d \in 0 .. MaxNested] ==
        {<<>>}
        \cup (IF n = 0 THEN {} ELSE {i \o w : i \in JumpsAt(d), w \in upto[n - 1, d]})
        \cup UNION {{b \o w \o end \o v : b \in {block, loop}, w \in upto[k, d + 1], v \in upto[n - 2 - k, d]}
                       : k \in 0 .. n - 2}
  IN  upto[MaxNested, 0]

NestedPrograms ==
  {<<Function("entry", i32, i32, <<>>, <<w, local_get(0), end>>)>> : w \in WellNested}

StructuredModules == {Module(p) : p \in ValidPrograms \cup NestedPrograms}

-----------------------------------------------------------------------------
(* Valid modules on which the code does not do what WebAssembly asks.      *)

\* The first call traps, or a later one does: locals stay in the context.
TrapModules == {Module(<<Function("entry", i32, i32, <<>>,
  <<block, local_get(0), br_if(0), unreachable, end, local_get(0), end>>)>>)}

\* An if and else inside a block that is then left by a branch.
IfElseModules == {Module(<<Function("entry", i32, i32, <<>>,
  <<block, local_get(0), if(\h7F), i32_const(1), else, i32_const(2), end,
      local_set(0), br(0), end, local_get(0), end>>)>>)}

\* A branch leaves a block with an operand that the block did not need.
LeftoverModules == {Module(<<Function("entry", i32, i32, <<>>,
  <<block, i32_const(5), local_get(0), br_if(0), drop, end, local_get(0), end>>)>>)}
=============================================================================
