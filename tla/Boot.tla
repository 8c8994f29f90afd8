-------------------------------- MODULE Boot --------------------------------
(***************************************************************************)
(* What the hosts (uwasm-uc, uwasm-perf) do before their loop: parse the   *)
(* module, link one host function to each function without a body, and     *)
(* initialise the globals and the memory (init_globals, init_memory and    *)
(* execute_initializer of interpreter.rs).  An Err or a panic of any of it *)
(* ends the program: the hosts unwrap ("failed").                          *)
(*                                                                         *)
(* A step links one function, initialises one global or writes one data    *)
(* segment; next counts them.                                              *)
(***************************************************************************)
EXTENDS ModuleParser

CONSTANTS HostFunctions,  \* the names the host has a function for
          MemoryBytes     \* the length of its memory

ASSUME MemoryAssumption == MemoryBytes \in Nat

VARIABLES phase,    \* "parse", "link", "globals", "memory", "ready" or "failed"
          next,     \* done so far of this phase
          imports,  \* the host functions, by the names they were chosen by
          globals,  \* the bytes of all globals
          memory

bootVars == <<phase, next, imports, globals, memory>>

BootInit ==
  /\ Init
  /\ phase = "parse" /\ next = 0
  /\ imports = <<>> /\ globals = <<>>
  /\ memory = [i \in 1 .. MemoryBytes |-> 0]

-----------------------------------------------------------------------------
(* execute_initializer                                                     *)

\* v without its last 0, 1, ... n bytes
Shifted(v, n) == LET rest[i \in 0 .. n] == IF i = 0 THEN v ELSE rest[i - 1] \div 256 IN rest

\* Mutant of LittleEndian: to_be_bytes.
BigEndian(v, n) == [i \in 1 .. n |-> Shifted(v, n)[n - i] % 256]

\* to_ne_bytes of a number, on a little-endian machine
LittleEndian(v, n) == [i \in 1 .. n |-> Shifted(v, n)[i - 1] % 256]

IsI32(v) == v \in -2147483647 - 1 .. 2147483647

\* What is pushed by the constant instruction at p.
Constant(code, p) ==
  LET q == After(ExecLayout(At(code, p)), code, p + 1)
      v == Signed(code, p + 1)
  IN  CASE At(code, p) = \h41 -> [type |-> "I32", value |-> v, bytes |-> LittleEndian(v, 4)]
        [] At(code, p) = \h42 -> [type |-> "I64", value |-> v, bytes |-> LittleEndian(v, 8)]
        [] At(code, p) = \h43 -> [type |-> "F32", value |-> 0, bytes |-> SubSeq(code, p + 2, q)]
        [] At(code, p) = \h44 -> [type |-> "F64", value |-> 0, bytes |-> SubSeq(code, p + 2, q)]

NoConstant == -3

\* The last constant before the end of the code, or NoConstant; Failed or
\* Panicked where one before it cannot be read.
LastConstant(code) ==
  LET from[p \in 0 .. Len(code)] ==
        IF p = Len(code) THEN NoConstant
        ELSE IF At(code, p) = \h0B THEN NoConstant
        ELSE IF At(code, p) \notin \h41 .. \h44 THEN Panicked
        ELSE LET q == After(ExecLayout(At(code, p)), code, p + 1)
             IN  IF q = Failed THEN Failed
                 ELSE IF At(code, p) = \h41 /\ ~IsI32(Signed(code, p + 1)) THEN Panicked
                 ELSE IF from[q] = NoConstant THEN p
                 ELSE from[q]
  IN  from[0]

\* The value of the last constant.  Without one the callers panic, as they do
\* (or return Err) where one cannot be read: type "None" stands for all this.
InitialValue(code) ==
  IF LastConstant(code) < 0 THEN [type |-> "None", value |-> 0, bytes |-> <<>>]
  ELSE Constant(code, LastConstant(code))

-----------------------------------------------------------------------------

GoTo(p) == phase' = p /\ next' = 0

Fail == phase' = "failed" /\ UNCHANGED <<next, imports, globals, memory>>

Parse == phase = "parse" /\ Step /\ UNCHANGED bootVars

ParseReturns ==
  /\ phase = "parse" /\ status # "parsing"
  /\ IF status = "done" THEN GoTo("link") /\ UNCHANGED <<imports, globals, memory>> ELSE Fail
  /\ UNCHANGED vars

\* get_imports: the functions without a body, in order; their names are
\* unwrapped, and the host has a todo!() for one it does not know.
Callee == parsed.functions[next + 1]

\* Mutant of LinkNext: a function that the host does not know is passed over.
LinkNextKnown ==
  /\ phase = "link" /\ next < Len(parsed.functions)
  /\ next' = next + 1
  /\ imports' = IF Callee.body = NoBody /\ Callee.name \in HostFunctions
                THEN Append(imports, Callee.name) ELSE imports
  /\ UNCHANGED <<vars, phase, globals, memory>>

LinkNext ==
  /\ phase = "link" /\ next < Len(parsed.functions)
  /\ IF Callee.body # NoBody THEN UNCHANGED <<phase, imports>> /\ next' = next + 1
     ELSE IF Callee.name \in HostFunctions
     THEN imports' = Append(imports, Callee.name) /\ next' = next + 1 /\ UNCHANGED phase
     ELSE phase' = "failed" /\ UNCHANGED <<next, imports>>
  /\ UNCHANGED <<vars, globals, memory>>

Linked ==
  /\ phase = "link" /\ next = Len(parsed.functions)
  /\ GoTo("globals")
  /\ UNCHANGED <<vars, imports, globals, memory>>

\* Mutant of Placed: every value takes eight bytes.
PlacedPadded(value) == globals \o value.bytes \o [i \in 1 .. 8 - Len(value.bytes) |-> 0]

\* init_globals appends the value, as wide as the initializer makes it.
Placed(value) == globals \o value.bytes

InitGlobal ==
  /\ phase = "globals" /\ next < Len(parsed.globals)
  /\ LET value == InitialValue(parsed.globals[next + 1].initializer)
     IN  IF value.type \in ValueType
         THEN globals' = Placed(value) /\ next' = next + 1 /\ UNCHANGED phase
         ELSE phase' = "failed" /\ UNCHANGED <<next, globals>>
  /\ UNCHANGED <<vars, imports, memory>>

GlobalsInitialised ==
  /\ phase = "globals" /\ next = Len(parsed.globals)
  /\ GoTo("memory")
  /\ UNCHANGED <<vars, imports, globals, memory>>

\* Mutant of Fits: the last byte of the memory is not used.
FitsBelow(value, bytes) ==
  value.type = "I32" /\ value.value >= 0 /\ value.value + Len(bytes) < MemoryBytes

\* An offset that is an i32, not negative, with room for the segment behind it.
Fits(value, bytes) ==
  value.type = "I32" /\ value.value >= 0 /\ value.value + Len(bytes) <= MemoryBytes

\* copy_from_slice
Copied(bytes, at) ==
  [i \in DOMAIN memory |-> IF i - at \in DOMAIN bytes THEN bytes[i - at] ELSE memory[i]]

\* Mutant of InitSegment: the offset is taken for the end of the segment before.
InitSegmentBehind ==
  /\ phase = "memory" /\ next < Len(parsed.data_segments)
  /\ LET segment == parsed.data_segments[next + 1]
         value   == InitialValue(segment.offset)
         at      == value.value + (IF next = 0 THEN 0 ELSE Len(parsed.data_segments[next].data))
     IN  memory' = Copied(segment.data, at) /\ next' = next + 1 /\ UNCHANGED phase
  /\ UNCHANGED <<vars, imports, globals>>

\* init_memory: a segment that does not fit panics, with those before it
\* already written.
InitSegment ==
  /\ phase = "memory" /\ next < Len(parsed.data_segments)
  /\ LET segment == parsed.data_segments[next + 1]
         value   == InitialValue(segment.offset)
     IN  IF Fits(value, segment.data)
         THEN memory' = Copied(segment.data, value.value) /\ next' = next + 1 /\ UNCHANGED phase
         ELSE phase' = "failed" /\ UNCHANGED <<next, memory>>
  /\ UNCHANGED <<vars, imports, globals>>

MemoryInitialised ==
  /\ phase = "memory" /\ next = Len(parsed.data_segments)
  /\ GoTo("ready")
  /\ UNCHANGED <<vars, imports, globals, memory>>

Booted == phase \in {"ready", "failed"} /\ UNCHANGED <<vars, bootVars>>

BootStep ==
  \/ Parse \/ ParseReturns \/ LinkNext \/ Linked \/ InitGlobal \/ GlobalsInitialised
  \/ InitSegment \/ MemoryInitialised

BootSpec == BootInit /\ [][BootStep \/ Booted]_<<vars, bootVars>>
-----------------------------------------------------------------------------

Initial(i) == InitialValue(parsed.globals[i].initializer)

\* Wherever each initializer has the type of its global, each global has its
\* initial value at the place globals_offsets gives it: init_globals lays
\* values out by what the initializers push, parse computes the offsets from
\* the declared kinds.
GlobalsInPlace ==
  phase \in {"memory", "ready"} /\ (\A i \in DOMAIN parsed.globals : Initial(i).type = Kinds[i]) =>
    \A i \in DOMAIN parsed.globals :
      LET at == 4 * parsed.globals_offsets[i]
      IN  at + Len(Initial(i).bytes) <= Len(globals)
            /\ SubSeq(globals, at + 1, at + Len(Initial(i).bytes)) = Initial(i).bytes

SegmentData(k) == parsed.data_segments[k].data
Place(k, i)    == i - InitialValue(parsed.data_segments[k].offset).value
Covers(k, i)   == Place(k, i) \in DOMAIN SegmentData(k)

\* The memory the application starts with has each segment where its offset
\* says; where segments overlap, the later one wins; the rest is zero.
MemoryOverlaid ==
  phase = "ready" =>
    \A i \in 1 .. MemoryBytes :
      /\ (\A k \in DOMAIN parsed.data_segments : ~Covers(k, i)) => memory[i] = 0
      /\ \A k \in DOMAIN parsed.data_segments :
           Covers(k, i) /\ (\A l \in DOMAIN parsed.data_segments : k < l => ~Covers(l, i)) =>
             memory[i] = SegmentData(k)[Place(k, i)]

\* Functions without a body come first: the imported ones, unless a declared
\* one never got its code.
BodylessFirst ==
  \A i, j \in DOMAIN parsed.functions :
    i < j /\ parsed.functions[j].body = NoBody => parsed.functions[i].body = NoBody

\* do_call takes imports[func_idx] for a function without a body: get_imports
\* counts such functions, do_call all of them, and both must agree on which
\* host function an index means.
ImportsByIndex ==
  phase = "ready" /\ BodylessFirst =>
    \A i \in DOMAIN parsed.functions :
      parsed.functions[i].body = NoBody =>
        i \in DOMAIN imports /\ imports[i] = parsed.functions[i].name

=============================================================================
