# uWasm in TLA+

uWasm (`src/uwasm`) is a WebAssembly runtime in `no_std` Rust, meant as a
loader for user applications in the firmware of microcontrollers. It parses a
module once (`parse`), computing for each function body where its blocks
continue, and then interprets the bytes of a body directly
(`execute_function`). There is no validation pass, so the run-time structures
(operand stack, call stack, block stacks, locals) are what keeps a program
together. This directory holds TLA+ models of that machinery, TLC runs on small
instances, and proofs checked by TLAPS.

## 1. The system

| Component | State | Operations | Model |
|---|---|---|---|
| Byte reader, `parser.rs` | data, position | `read_u8`, `read_bytes`, `read_unsigned`, `read_signed`, `skip_to`, `Item for TypeKind` | `Reader` |
| Code scan, `lib.rs` `parse_code`, `parse_opcode` | reader, block stack, `jump_targets` | one opcode per iteration | `Opcodes`, `CodeParser`, `ControlFlow` |
| Interpreter, `interpreter.rs` | `VmContext`: operand stack, call stack with the blocks of each frame, locals of all frames | `execute_function`, `evaluate`, `do_call`, `do_branch` | `Interpreter` |
| Operand stack and variables, `interpreter.rs`, `operand.rs` | byte vectors | `VmStack` push, pop and peek, `UntypedMemorySpan`, `copy_params_and_locals` | `Interpreter` |
| Module parser, `lib.rs` `parse`, `parser.rs` | functions, signatures, globals, tables, data segments | one section, one entry of it at a time | `ModuleParser`, `WasmModule` |
| Initialisation, `interpreter.rs` | globals, memory | `get_imports`, `init_globals`, `init_memory`, `execute_initializer` | `Boot` |
| Host driver, `uwasm-uc`, `uwasm-perf` | one context, one globals vector, one memory | parse, link, initialise; then call `entry` for ever; host functions pop from the VM's stack | `Boot`, `Interpreter` |
| Numeric instructions, linear memory, `interpreter.rs`, `operand.rs` | operand bytes, memory slice | constants, arithmetic, comparisons, conversions, loads, stores | `Values`, against `WasmValues`; float arithmetic is not modelled |
| Debug-build checks, `interpreter.rs` | `VmStack::types` | pushes and pops of types | `Values` (the types), rest not modelled |
| Profile, printing, `ByteStr` | counters | | not modelled |
| Test runner, custom VM experiment, example guest | | | not modelled |

How they interact. `parse` slices each body out of the module's data and hands
it to `parse_code`, whose scan decides where the body ends and fills
`jump_targets`; `evaluate` later reads the same bytes with operand layouts of its own and
indexes `jump_targets` with the offsets of the blocks it meets. Calls push a
`StackFrame` and append the callee's parameters and locals to the one vector
that holds the locals of all frames; the parameters come off the one operand
stack that all frames share. Imported functions are host functions that pop
from the same operand stack. The host keeps the context and the globals between calls, also
when a call returned an `Err`.

Before that, `parse` fills vectors that refer to each other by index: bodies are
counted from the number of imported functions, exports and imports share one
field for a name, and the offsets of globals come from declared types while
`init_globals` lays them out by the types of their initializers. The host
links functions without a body by counting them, and `do_call` indexes what it
gets by function index.

Nothing here is concurrent: there is one thread and no persistence. What is
hard is long sequences of legal steps over shared vectors:

* the block stack of a frame is pushed and popped by the instructions that
  happen to be executed, and must agree with the nesting that the scan saw;
* two operand tables, two uses of the same position (absolute keys, relative
  targets), and jumps that land one byte before or after an `end`;
* frames, operands and locals of all activations in common vectors, which calls,
  returns, branches and failures grow and shrink;
* a failed call in between: the context is reused as it was left;
* the heap as the only limit of recursion;
* in `parse`, indices into vectors that an earlier section filled, and counts
  and sizes that come from the data;
* in the instructions, the width and the sign of an operand, which a closure's
  parameter type alone decides, on a stack that is only bytes.

What makes each component correct:

* **scan**: it ends; it stops at the `end` that closes the body; every block and
  `else` gets exactly one target, the one that counting opens and closes gives,
  strictly inside the code slice; it skips the operands the interpreter reads;
* **interpreter**: a reader never leaves its code; the run-time blocks are those
  open in the code; frames are disjoint, and no step touches a caller's frame;
  a function starts with its arguments; a call leaves no operand behind; valid
  code fails only for lack of memory; a call that does not come back is inside a
  loop again and again;
* **calls**: every activation has parameters and locals of its own, which start
  as its arguments and zeros;
* **module parser**: each round of its loops reads a byte or is counted; whatever it delivers can be run; a body goes to the
  function it belongs to, imports keep the name by which the host links them,
  and a module cut inside a section is an `Err`;
* **initialisation**: each global lies where `global.get` looks, each data segment
  where its offset says, and an import index means the same host function
  to the linker and to `do_call`;
* **numeric instructions**: they compute what WebAssembly defines, and panic only
  where it traps.

`PROJECT.json` lists the hazards line by line, those without a property
included.

## 2. The modules

| Module | What it holds |
|---|---|
| `Reader` | positions and LEB128 numbers, as functions of data and position |
| `Opcodes` | the operand layouts of `parse_opcode` and, separately, of `evaluate`; the words and bytes each instruction moves |
| `CodeParser` | the scan of a body, one opcode a step; its properties |
| `ControlFlow` | where blocks and bodies end, by counting: the definition the scan is checked against |
| `Interpreter` | the host's calls and one action per instruction; properties |
| `Activations` | abstract: calls whose activations have locals of their own |
| `WasmModule` | what a delivered module guarantees; the layout of locals and globals |
| `ModuleParser` | `parse`, one section header or entry a step, and a step for each local of a body; properties for any bytes |
| `Boot` | `ModuleParser`, then linking and initialising |
| `Values` | operands and memory as bytes, one action per kind of numeric instruction |
| `WasmValues` | abstract: the same instructions on typed numbers, as WebAssembly defines them |
| `ValidCode` | what code must be for `evaluate` to run it without losing count of its operands: a certificate of stack heights, and what it promises |
| `CommonProofs` | lemmas that the proofs share: where reads end, what counting the opcodes of a body gives, the layout of locals and globals, induction and recursion along a rank |
| `CodeParserProofs` | the theorems about `CodeParser`, agreement with `ControlFlow` among them |
| `ModuleParserProofs`, `BootProofs` | the theorems about `ModuleParser` and `Boot`, for every file |
| `InterpreterProofs` | the theorems about `Interpreter`, for any code that `parse` delivers |
| `ActivationsProofs` | the theorems that `Interpreter` implements `Activations`, and that arguments arrive |
| `StructureProofs` | the theorem that run-time blocks follow the structure of the code |
| `ValidCodeProofs` | the theorems about code with a certificate: operands counted, none left behind, none missing |
| `MCCodeParser`, `MCInterpreter`, `MCModuleParser`, `MCBoot`, `MCValues` | inputs, modules and calls for TLC; an assembler from mnemonics to bytes, an encoder of modules and what a module means |
| `MCValidCode` | computes the certificates of the modules of run `valid`, as a validator would |

How they compose:

* `Boot` extends `ModuleParser`: its first phase takes the parser's steps, and the
  later ones use what was parsed.
* `ModuleParser` scans a body in one step, with the outcome that `ControlFlow` gives it
  (`AfterBody`, `BodyTargets`). `CodeParser` is that scan opcode by opcode, and both
  agree on every input (`AgreesWithStructure`, checked in run `parser` and proved
  in `CodeParserProofs`).
* `ModuleParser` ends with a module that is `IsRunnable` (`DeliversRunnable`),
  which is the assumption that `Interpreter` makes about its modules
  (`ModulesAssumption`). Both take it from `WasmModule`; that `ModuleParser`
  establishes it, for every file, is proved (`Runnable`, `StartsRunnable`).
* `Interpreter` extends `ControlFlow`, too: `RunsStructure` compares the blocks on a
  frame's block stack with those that the code has open.
* `ValidCode` extends `Interpreter` with a constant, the `Certificate` of each body. It
  adds no state and no step; it says statically where each instruction may go on and what it
  takes and gives, which the proofs compare with the actions of `Interpreter`.
* `Interpreter` and `Values` share the instructions: `Interpreter` has what an
  instruction does to control, stack heights and variables, in any code;
  `Values` has the numbers it computes, for operands of the types it is for.

### State and code

| `CodeParser` | code |
|---|---|
| `pos` | `Reader::pos`, absolute in the module's data |
| `blocks` | `ParserState::blocks` |
| `jump_targets` | `ParserState::jump_targets`, keys absolute, values relative to the body |
| `status` | `Ok`, `Err` or panic of `parse_code` |
| `opened` | auxiliary: the blocks and elses met; nothing reads it but properties |

| `Interpreter` | code |
|---|---|
| `call_stack` | `VmContext::call_stack`; a frame is `[func_idx, pos, locals_offset, blocks]` |
| `stack`, `locals` | `VmStack::data`, `VmContext::locals`, in 32-bit words |
| `globals` | the slice the host passes |
| `mode`, `result`, `call` | whether a call is under way, what the last one returned, what the host passed |

| `ModuleParser` | code |
|---|---|
| `file`, `pos` | the bytes given to `parse`, and `Reader::pos` |
| `section`, `entry`, `count` | the arm of the `match` and its `for` loop |
| `locals` | `locals_types` of the body being read, without the parameters, and what is left of the two nested loops that fill it |
| `parsed` | the vectors of `parse`: `functions`, `signatures`, `globals`, `data_segments`, `tables`, and the counter `imports` |
| `status` | `Ok`, `Err` or panic of `parse`, or the abort of the program where an allocation fails |

| `Boot` | code |
|---|---|
| `phase`, `next` | the statement of the host's `main`, and the loop in it |
| `imports` | the vector of `get_imports`, by the names functions were chosen by |
| `globals`, `memory` | the host's vector and array, in bytes |

| `Values` | code |
|---|---|
| `stack`, `types` | `VmStack::data` and, in debug builds, `VmStack::types` |
| `memory` | the slice behind `Memory` |
| `instruction`, `outcome` | the last instruction, and whether it panicked |
| `steps` | auxiliary: it bounds a run |

Decisions a reader should know:

* **Code is bytes.** Every body is a byte sequence, read with `Reader`. So
  misread operands and jumps into the middle of an instruction behave in the
  model as in the code.
* **Data is words** in `Interpreter`. A word is a number below `Base`, which stands for 2^32; a
  64-bit value is two words, low word first; what an arithmetic instruction, a
  load or a float literal produces is any of `Results`. Constants, parameters,
  locals, globals and the conditions of branches keep their values, and so do
  the operands of the instructions that can panic (division by zero, the
  overflow of a signed division, `i32.wrap_i64`, addresses).
  `Base = 256` in the runs.
* **Data is bytes** in `Values`, where it matters what a number is. A byte has
  `ByteBits` bits; an i32 has four bytes and an i64 eight, as in the code.
  With bytes of one bit, an i32 takes all of its 16 values.
* **An entry is a list of fields.** `parse` reads the fields of an entry one after
  another; `Fields` lists them, `Positions` says where each would start, and the
  entry succeeds as a whole or fails at the first field that cannot be read. The only
  state that the code changes inside an entry is the reader's. A body is the exception, and takes
  several steps: its start (`OpenBody`), each run of locals (`ReadRun`), each
  push of one local (`PushType`), and the code (`CodeEntry`). A run says how many locals it has, and the loop
  that pushes them reads nothing, so it is bounded by that number and by the heap only.
* **One action is one instruction**, all its reads, pops and writes included.
  The guard `Succeeds` lists what it needs, in the order the code checks it; the
  actions `Undecodable`, `Underflow`, `OutOfSpan` and `Panic` are the failures.
  `br_table` pops before it decodes, the others decode first.
* **Failures.** An `Err` ends the call and leaves the context. In the code the
  failing instruction may already have popped an operand or moved the reader;
  the model leaves both as they are, for the next `evaluate` clears the operand stack
  and the call stack before anything reads them. The locals and the globals
  are what stays, and no instruction fails after writing them. A panic ends the
  program (`Halted`).
* **The heap** is `MaxFrames`, `MaxLocals` and `MaxStack`: a vector that cannot
  grow panics with `"OutOfMemory"`. In `parse` it is `MaxTypes`, the locals of one body, and
  `Abort` is the failed allocation. The file bounds the other vectors of `parse` (an
  entry for each few bytes, and a copy of a signature for each body), and the model does not.
* **Not told apart**: which `ParserError` it is and where. Left out:
  `StackFrame::curr_loop_start`, which nothing reads; profiles; the effect of
  host functions on memory. The build is a release
  build (arithmetic wraps; `types` in `Values` is the one part of a debug build).
* **Widths.** `parse` cuts the numbers it reads to `Usize` values (`as usize`), and `read_slice`
  adds in that width: a sum that wraps around passes its check, and the slice panics (`Slice`).
  LEB128 numbers are otherwise unbounded, those in code included: `Interpreter` takes `usize` to be as
  wide as any index or depth in code.

## 3. The runs

| Run | Question | Result |
|---|---|---|
| `parser` | does the scan end, find the end of the body and resolve every block, once and correctly, on any bytes? | holds |
| `valid` | do valid functions behave: loops, switches, recursion, every nesting of blocks, direct, indirect and imported calls, wide values, memory, globals, a full heap, repeated calls? | holds |
| `anycode` | whatever the code and the failures in between, does the context stay well formed, and do calls keep their locals apart? | holds |
| `anybytes` | on any bytes, does each step of `parse` read or count down, and is what it delivers fit to run? | holds |
| `boot` | do valid modules, whole or cut short, get their meaning, their names, their globals and their memory? | holds |
| `values` | do sequences of instructions compute what WebAssembly defines? | holds |
| `f32_store` | does the scan skip the operands the interpreter reads? | violated |
| `after_trap` | does a call after a failed one get its arguments? | violated |
| `if_else` | does valid code with an `if`/`else` in a block run? | violated |
| `leftover` | does a branch out of a block unwind its operands? | violated |
| `memory_import` | is a module that imports a memory parsed? | violated |
| `extend` | does `i64.extend_i32_u` extend with zeros? | violated |

The properties, by run:

* `parser`: `TypeOK`, `EveryBlockResolved` (open or resolved, never both, and
  all resolved at the end), `TargetsInside`, `TargetsStable`,
  `AgreesWithStructure` (against `ControlFlow`), `Terminates`.
* `valid`: `StartsWithArguments`, `NothingLeftBehind`, `FailsOnHeapOnly`,
  `RunsStructure` (the run-time blocks are those open in the code),
  `OperandsCounted` (the operand stack is divided among the active functions as
  following each body from its start says), `PremisesHold` (what the
  theorems about valid code assume of a run), `ImplementsActivations`.
* `anycode`: `TypeOK`, `ReadersInCode`, `FramesDisjoint`, `CallersUntouched`,
  `Returns` (a call that goes on for ever is inside a loop again and again),
  `ImplementsActivations`.
* `anybytes`: `TypeOK`, `DeliversRunnable`, `Progresses` (each step reads a byte, or is one of the
  announced pushes of locals and leaves fewer).
* `boot`: `DeliversMeaning` (the parsed sections mean what the file was encoded
  from), `NamesResolve`, `GlobalsInPlace`, `MemoryOverlaid`, `ImportsByIndex` (these three
  for any file, in terms of what was parsed), `InitializersMean` (the values of
  initializers and segment offsets are those of the file), `BootsValid`.
* `values`: `ComputesAsWasm`.

### The two refinements

`ImplementsActivations` maps a frame to an activation: its function, and the span of
the shared vector that starts at `locals_offset` and is as long as the function's
parameters and locals. Frames count while a call is under way; `status` tells
a clean context from one in which a failed call left locals (`dirty`). From a dirty
context the next call may start with any values, which is what run `after_trap` shows of
the code; from a clean one it starts with its arguments and zeros, as every
function called inside it does in either case. A slip in an offset, a missing drain
or a store in the wrong frame is a step that `Activations` does not have.

`ComputesAsWasm` maps the bytes of the stack, cut by `types`, to typed numbers, and a
panic to a trap. `WasmValues` defines relations and arithmetic by their position in
WebAssembly's opcode order, and shares no definition with `Values`. The memory
and the last instruction map to themselves, so a step of the code must be a
step of the same instruction.

### Bounds

* `parser`: all strings of up to `MaxBytes = 4` bytes out of end, block, if,
  else, `br_table`, a type and continued and final LEB128 bytes, and all
  sequences of up to `MaxInstructions = 6` instructions (three nested blocks, an
  `if` with `else` inside or around another block). Four bytes suffice to cut every layout
  short; `f32`/`f64` literals are longer versions of the same read. Each input follows a
  prefix, so that absolute and relative positions differ.
* `valid`: four modules in the style compilers emit, and every well-nested body of
  up to `MaxNested = 6` blocks and instructions, among them branches to the two
  innermost labels, `br_table` and a recursive call; arguments 0 and 1; three
  frames, so that recursion both returns and fills the heap; stack and locals
  large enough that only `MaxFrames` limits it. `MCValidCode` computes the
  certificates, and TLC checks that these modules satisfy the hypotheses of the theorems about
  their structure and their operands (`PlainAssumption`, `BalancedAssumption`).
* `anycode`: every body of up to `MaxAny = 2` instructions of any kind or
  `MaxControl = 3` that branch, call, trap or store, where `parse` accepts it,
  and 20 longer bodies: failures that need more operands, and an `else` jump into an operand that is
  executed as a `loop`, which goes on for ever in a body whose scan has none. The helper traps
  or not depending on its argument, so calls fail with two frames active and
  the next call starts on what they left. `MaxFrames = 2` and `MaxStack = 4`
  are reached.
* `anybytes`: two modules, of which one has every section the parser reads, with each of
  their bytes replaced by each of `SomeBytes` (0, a small index, `end`, `i32.const`, a type,
  a continued LEB128 byte), sections twice, missing or out of order, and names as long as the
  address space. One byte at a
  time reaches every count, kind, index and type of the format, and so every
  error and every panic of `parse`. `MaxTypes = 8`, so that runs of locals both end and exhaust the heap;
  `Usize = 1024`, more than the files are long (`FilesAssumption`), so that lengths both
  end behind the file and wrap around.
* `boot`: modules with 0 to 2 imported and 0 to 3 declared functions, with and without
  the other sections and a custom section at the end; one module cut after each of
  its bytes; and modules whose initializers, segments or imports cannot be served.
  Two imports and three declared functions tell counting from the start, from the
  imports and from the end apart. The memory has 4 bytes, which the data segments
  overlap in, reach the end of, and exceed.
* `values`: one-bit bytes, every i32 and four i64 constants, at most two operands
  on the stack and `MaxSteps = 4` instructions: two constants, an instruction, and one more on its
  result, or a store and a load of what it stored. Two memories of 8 bytes. Addresses
  run up to and past their end. Because steps are bounded, the run does not check for
  deadlock.

Between them the passing runs fire every action and every disjunct.

### Fairness

`CodeParser` has `WF(Step)`: `parse_code` is one loop on one thread. `Interpreter`
has `WF(Instruction \/ Finish)`: so is `evaluate`, and a call under way
goes on. Nothing forces the host to call again. `Terminates` and `Returns` need
no more.

`Returns` is about what repeats itself. A call that goes on for ever jumps back for ever,
for its frames are bounded by the heap. A branch to a block goes to the `end` of that block and
pops it; to go there again, the block must be entered again, at an offset before its `end`, and so
some earlier jump must lead there. The jump that goes furthest back among those that are made again and
again is thus one to a loop. It need not be a loop of the source: the `else` jump (section 4)
can land in an operand.

The other specifications state no fairness: that `parse` ends follows from
`Progresses`, a safety property by which each of its steps consumes at least a byte or is a
push of a local that leaves fewer to make, and `Boot` only counts through what was parsed. How long
the pushes take is a number in the file, not the file's length; what ends them early is the heap.

## 4. What the violations say

1. **`f32_store`** (`lib.rs:653`): `parse_opcode` has no arm for `f32.store`,
   `i64.store8` and `i64.store32`; it takes their operands for opcodes. With the
   usual alignment of 2 the first operand opens a block that nothing closes, and
   the body runs on into the next one or off the end.
2. **`after_trap`** (`interpreter.rs:705`): an `Err` leaves the locals of all
   active frames in the context. The next call appends its arguments behind them
   but has `locals_offset: 0`, and so reads the arguments of the failed call.
   Its frame still lies inside the vector (`FramesDisjoint` is proved), so
   nothing fails visibly.
3. **`if_else`** (`interpreter.rs:788`): the target of an `else` is the position
   after the `if`'s `end`; `evaluate` skips one byte more. At the end of a body
   this goes unnoticed (the reader stands at the end of the code,
   `TargetsInside`, `ReadersInCode`); anywhere else the next opcode is skipped
   and its operand executed. An operand 3 is then a `loop`, and code without loops
   may go on for ever (one of the bodies of `anycode`).
4. **`leftover`** (`interpreter.rs:1310`): a branch drops the run-time blocks it leaves, but
   not their operands.
5. **`memory_import`** (`lib.rs:236`): an import's descriptor is read as one number
   whatever is imported. That of a memory has a flag and one or two limits; the limit
   that is left over starts the next entry, and the module is refused. The same
   goes for tables and globals.
6. **`extend`** (`interpreter.rs:1254`): `i64.extend_i32_u` goes through `i32`, so its result
   is negative for an operand above 2^31.

### What the passing runs leave out

While modelling, the code was found to differ from WebAssembly in the following
inputs as well. The models have the code's behaviour; the inputs of the passing
runs that compare with WebAssembly (`valid`, `boot`, `values`) leave them out,
those of `anycode` and `anybytes`, and the theorems, do not.

* `interpreter.rs:1302`: a branch to the function's own label underflows an index.
* `interpreter.rs:770`, `:772`: `if` pushes no block but its `end` pops one; it reads
  its condition as the type of its result; without a result it is a `todo!()`. `valid` has no `if`.
* `interpreter.rs:862`: `drop` and `select` pop 32 bits whatever the type.
* `interpreter.rs:856`: `call_indirect` calls the function whose index is the operand
  and does not look at the table.
* `interpreter.rs:686`: a function without results is called with `bool`, which
  pops an `i32` that is not there.
* `interpreter.rs:1250`: `i32.wrap_i64` panics where bit 31 of the operand is set.
* `interpreter.rs:1079`: `i64.const` reads its literal unsigned.
* `interpreter.rs:1112`: 0x4a, 0x4b and 0x4c do `le_s`, `gt_s` and `gt_u` where WebAssembly has
  `gt_s`, `gt_u` and `le_s`.
* `interpreter.rs:1200`: 0x76, `i32.shr_u`, shifts an `i32`, so copies of the sign
  come in; `interpreter.rs:1260`: 0xc0, `i32.extend8_s`, leaves its operand as it is.
* `interpreter.rs:1156`: 0x63, `f64.lt`, pushes an f64 (not in `Values`, which has no
  float arithmetic).
* `interpreter.rs:951`: a dynamic address is added as a signed number, so with a
  fixed offset an address of 2^31 or more reaches memory where WebAssembly traps. `values` has
  fixed offset 0.
* `lib.rs:190`, `:198`: a section kind that is not known (`Start`, `DataCount`), and
  a custom section, end the loop of `parse`: what stands behind is missing
  from the module, and the result is `Ok`. `boot` has custom sections at the end only.
* `lib.rs:275`, `:289`: the maximum of limits is always read for a table and never for
  a memory; the declared size of a memory is dropped, while hosts have less than
  the 64 KiB of one page. `boot` has tables with and memories without a maximum, and
  data that fits the host's memory.
* `lib.rs:371`: the number of locals in a run is not bounded, so a few bytes make `parse` exhaust the
  heap. `anybytes` has such files; the program is aborted (`Abort`).
* `parser.rs:60`: a length near the end of the address space wraps around in the check of `read_slice`,
  and the slice panics where an `Err` was meant. `anybytes` has such names.
* `lib.rs:323`: exporting an imported function, or exporting a function twice,
  overwrites the one name it has.

`valid` also clears the stack before it branches and leaves a function with
`return`, and no call in it fails with an `Err`.

## 5. The proofs

Nothing is taken on trust: TLAPS checks every theorem to its last leaf.

### The interpreter

`InterpreterProofs` proves, for every set of modules that satisfies
`ModulesAssumption`, every host, and every size of the vectors:

* `TypeCorrect`, `ReadersStayInCode`, `FramesStayDisjoint`:
  `Spec => []TypeOK`, `[]ReadersInCode`, `[]FramesDisjoint`;
* `CallersStayUntouched`: `Spec => CallersUntouched`.

None of the three invariants is inductive alone. That frames stay disjoint needs the
types of locals, and of positions, to know that a call succeeds; that a reader stays inside
its code needs the block bodies of the frames below to be inside theirs, for a
later branch jumps there; and that a body's facts can be used at all needs
every frame to run a function with a body. `IInv` is their conjunction, with
the module fixed. One lemma per instruction shows that it makes one of
four moves: the topmost frame goes on in place (`Moves`), a frame is pushed
(`CallsFrame`), the topmost one is popped (`EndOfCode`), or the host starts one
(`EnterFunction`). The invariants, and then `CallersKept`, are proved once per
move.

Assumptions: `ModulesAssumption` is what `parse` delivers: the locals of a
function lie inside its frame (`offsets_of_types`), and a jump target lies at least
two bytes into the code and strictly before its end. It is discharged for every file by
`Runnable` of `ModuleParserProofs`. That a target lies strictly inside is exactly what makes the `else` jump, one byte past its target, safe
for the reader; were a target equal to the length of the code, the
next read would panic. `WordsAssumption` and `HostAssumption` give the
constants their types.

### Calls and locals

`ActivationsProofs` proves `ActivationsImplemented`:
`Spec => ImplementsActivations`, under the same assumptions, and `ArgumentsArrive`.

The initial states map to initial states (`InitMaps`), and `StepMaps` has one step per
move of `InterpreterProofs`: `Moves` is `Work` (`WorkStep`), `CallsFrame` is `Call`
(`CallStep`), `EndOfCode` is `Return` (`ReturnStep`), `EnterFunction` is `Start` (`StartStep`), and what ends
or refuses a call without touching frames or locals is `Finish`, `Fail`, `Stop` or a
stutter (`KeptStep`). That `Work` and `Return` keep every other activation is
`CallersKept`, already proved, read element by element (`CallersAreKept`).
That the topmost activation keeps its size, in the state after a step, follows from
the invariant in that state (`SizesAfter`).

`IInv` does not suffice. When the entry function's frame ends, `Activations` has no
locals left, and a clean context is ready for a call that starts with its arguments; in the code, the
drain must have emptied the vector. It does because the entry frame has
offset 0 for as long as it exists (`AtBottom`), so `RInv` adds that.

From the same invariant follows `ArgumentsArrive`:
`Spec /\ [](result \notin Traps) => []StartsWithArguments`. `Traps` are the errors with
which `evaluate` leaves a call under way. The premise is what the code needs and no more: run
`after_trap` violates `StartsWithArguments` after one such error, and of valid code
`FailsOnHeapOnly` says that there is none. The strengthening (`Clean`) is
that no locals are left between calls, and that a frame with another one above it is not at the
start of its code; otherwise a return could uncover an entry frame that looks as if it
had not begun, with locals that are no longer the arguments. That is why `IsBody` asks for
jump targets of at least 2: a branch lands one byte before its target.

### The scan

`CodeParserProofs` proves, for every set of inputs:

* `TypeCorrect`, `BlocksAreResolved`, `TargetsStayInside`, `TargetsStayStable`:
  `Spec => []TypeOK`, `[]EveryBlockResolved`, `[]TargetsInside`, `TargetsStable`;
* `DeliversTargets`: when the scan returns `Ok`, every jump target lies in
  `2 .. Len(code) - 1`, the conjunct of `ModulesAssumption` about `jump_targets`;
* `ScanAgrees`: `Spec => []AgreesWithStructure`. The scan keeps a stack and reads each
  byte once; `ControlFlow` has no stack and says of each block where its
  closer is by counting how many blocks are open. They agree on where the body ends, on every
  jump target, on which bodies are an `Err` and which panic.

The first invariants need `Nested` beside them: the offsets on the block stack increase. Without
it two entries might be the same block, and resolving one would leave the other
both open and resolved. One lemma (`GoesOn`) says what a step must do to keep the
invariant; each action then shows that it does.

`ScanAgrees` needs more: in a state in which the scan goes on, the opcodes from `pos` on are
those still to come and the depth by counting is the height of the stack (`Counts`); the i-th block of the
stack has level i and nothing at that level has closed it (`Stacked`); every other block
has its target, and is closed (`Targeted`); and no opcode so far ended the body or was a misplaced
`else` (`GoneBy`). Each action keeps the four; the three ways in which the scan ends are a
lemma each.

### Bodies, by counting

`CommonProofs` has what is to be said of `ControlFlow` alone, for all data: what the recursive functions
`Opcodes` and `Depth` satisfy, and `BodyDelivers`, which says of a body that ends without a
misplaced `else` where the reader stands behind it, that its code is bytes, and that
its jump targets lie strictly inside. `ModuleParserProofs` and `StructureProofs` rest on it.

### The module parser

`ModuleParserProofs` proves, for every set of files, thus for all bytes:

* `Typed`: `Spec => []TypeOK`;
* `Runnable`: `Spec => []DeliversRunnable`. A module that `parse` returns with `Ok` has
  what `ModulesAssumption` asks for, so that assumption is discharged;
* `Consumes`: `Spec => Progresses`. Each step that goes on consumes a byte, whatever count a section
  announces, or is a push of the run of locals that was just read and leaves fewer of them to make. So
  the pair of the bytes to come and the pushes to come decreases, and `parse` ends; it does not say
  that it ends soon or within the heap.

The invariant types the parsed vectors entry by entry (`Parsed`), and says that locals are read only
of a body whose function exists (`InBody`); it still does after they have been pushed. What makes `Runnable` hold is that
the locals of a function, laid out by `offsets_of_types`, end inside its frame
(`FrameLayout`, `OffsetsDisjoint` of `CommonProofs`) and that the code and the targets of a body fit
(`BodyDelivers`).

### Initialisation

`BootProofs` proves, for every file, set of host functions and size of memory:

* `BootParses`: `BootSpec => Spec` of `ModuleParser`. What the host does steps as the parser does, or
  stutters, so every theorem about the parser holds in `Boot`;
* `StartsRunnable`: the loop is entered with a module that is `IsRunnable`, or not at all;
* `GlobalsPlaced`, `MemoryPlaced`, `ImportsPlaced`: `BootSpec => []GlobalsInPlace`,
  `[]MemoryOverlaid`, `[]ImportsByIndex`.

The hypotheses that the first and the last of these properties carry (initializers of their
global's type; functions without a body in front) are part of the properties; `GlobalsInPlace` without it
is false of the code, which lays globals out by the types of their initializers and
looks them up by their declared types. The invariant says how far each loop has come (`LinkedUpto`,
`GlobalsUpto`, `MemoryUpto`).

### The structure of running code

`StructureProofs` proves `StructureRuns`:
`ASSUME PlainModules PROVE Spec => []RunsStructure`, for bodies of any size and nesting.

`PlainModules` says of each body that it is one that the scan delivers (it ends where counting says, with the targets that
counting gives: what `ScanAgrees` and `Runnable` are about), that it has no `if`, and that `evaluate`
reads as many operands as the scan skipped. The last two are where the code departs
from the structure: the `end` of an `if` pops a block that is not its own, and run
`f32_store` shows operands taken for opcodes. That the modules of run `valid` are plain is
checked there (`PlainAssumption` of `MCValidCode`), so the hypothesis is met by programs.

Again `RunsStructure` is not inductive: that the set of offsets is right does not say which block an
`end` pops. The invariant (`InStructure`) says that the j-th block of a frame is
at level j of the code and not closed before the reader (`BlockFits`), and that there are as many
as the depth by counting. The lemmas are about a body, a position and a list of blocks: going on
(`GoesStraight`), opening (`OpensBlock`), closing (`EndsBlock`), leaving by a branch (`LeavesBlocks`, to the
`end` that the jump target stands behind, or back to the body of a loop).

### The operands of valid code

`ValidCodeProofs` proves, for modules that are plain (as above) and balanced, of any size:

* `OperandsAreCounted`: `Spec /\ []IndirectAsNamed => []OperandsCounted`;
* `NothingIsLeftBehind`: `Spec /\ []IndirectAsNamed => []NothingLeftBehind`;
* `OnlyHeapFails`:
  `Spec /\ []IndirectAsNamed /\ []NeverTraps /\ []CallsServed => []FailsOnHeapOnly`;
* `DirectCallsAreNamed`: if no body has a `call_indirect`, `Spec => []IndirectAsNamed`.

The runtime has no validator, so the theorems say what it relies on. `Certificate` gives each
body the number of words that its own part of the operand stack has at each position it may
reach; `Balanced` says that these heights fit: every instruction finds its operands, leaves to
each position it may go on at (`Successors`: the next opcode, the targets of a branch, the end)
the height expected there, its indices name something, and the results are left at the
end. A certificate comes from following the body once, as `MCValidCode` does.
Since the code does not unwind operands when it branches or returns, all paths to a position must
bring the same height: this is stricter than WebAssembly's validation, and run `leftover`
shows that it has to be.

What a body cannot say by itself is a premise about the run. `IndirectAsNamed`: a
`call_indirect` finds a function of the type named at the call; `parse_code` drops that type and
`evaluate` does not compare. `NeverTraps`: no `unreachable`, no access outside the
memory, no division by zero, no `i32.wrap_i64` that panics; these are failures, and
`FailsOnHeapOnly` says there is none. `CallsServed`: the host calls functions
that there are, by their types, and not by `bool`, for which the code pops an `i32` from a function
without results. Each speaks of the next instruction and the values it finds, or of how the
host calls; none of them assumes a height of the stack, a block or how a call under way ends. `DirectCallsAreNamed` discharges the first for modules
without `call_indirect`. Run `valid` checks all three in every state (`PremisesHold`) and the
two hypotheses on its modules, calls by `call_indirect` among them; so programs with loops, recursion and calls of all kinds meet them.

None of the three properties is inductive: what the topmost frame finds depends on what every
caller left below it. `Counted` says that while a call is under way no error is
recorded, and that there are floors, one per frame, that divide the stack: the topmost frame has its height above its
floor, and a caller's floor and height reach to its callee's floor plus the results the callee
will give. Each instruction is shown to go on at a successor of the certificate with a
stack longer by what the certificate counts (`InPlaceGoes`, with the branches by
`InStructure`: the depth counted in the code is the block found at run time); then `Counted` is kept by going on
(`GoesCounted`), by a call, which turns the parameters into a floor (`CallCounted`), by a return
(`ReturnCounted`) and by the host's call (`EnterCounted`). `CountedIsCounted` shows that the floors are those
that `OperandsCounted` computes.

### Induction without operators

The installed provers cannot instantiate the library's induction theorems, which take an
operator. `CommonProofs` states what is needed over sets instead: `LeastNat` from the
well-foundedness of the naturals, then `NatSetInduction` and `RankInduction` (a set that contains each point whose
predecessors along a rank it contains is everything), by taking a counterexample of least rank; and
`RecursionExists`: an equation whose right side uses the function only at lower ranks has a solution, so
that the recursive function of the model, a `CHOOSE` among functions, satisfies it. With these,
`WordsBefore`, `Opcodes`, `Depth` and the numbers of initializers are reasoned about as functions.

### Only model-checked

* Liveness (`Terminates`, `Returns`), which is out of the prover's reach.
* That the premises of `OnlyHeapFails` hold of a program: whether an address, a divisor or an index is in
  range depends on the values it computes. `PremisesHold` checks it on the modules of run `valid`.
* `RunsStructure`, `NothingLeftBehind` and `FailsOnHeapOnly` for modules that are not plain or not
  balanced, where they do not hold in general (section 4 has the counterexamples).
* `ComputesAsWasm`: bitwise operators and powers of two are beyond the provers.
* `DeliversMeaning`, `NamesResolve`, `InitializersMean`, `BootsValid`: they compare with the
  abstract module from which a file was encoded, which only the TLC instances have.

## 6. Not modelled, and the plan

* **Float arithmetic and `f64.lt`**: TLC has no floats, and bits without
  rounding would say nothing. Constants, loads and stores of floats move bits and are in
  `Values`.
* **Debug builds**: overflow panics, the instruction trace and the dump of the stack. `types` is in
  `Values`.
* **Numbers of more than 64 bits**: `Reader` does not cut LEB128 numbers, so the shift by 70 or more of
  `parser.rs:115` is not shown. `ModuleParser` cuts what it reads to the width of a `usize`; the numbers in
  code are not cut.
* **Profile, printing, `ByteStr`**: counters and text that nothing reads.
* **What host functions do**: LEDs, delays, printing. Only the operands they take are modelled.
* **Test runner, register-machine experiment, example guest**: not part of the
  runtime. The first handles processes and text, the second shares no code with it.

What is left of the plan: words tagged with their types in `Interpreter`, so that
`drop`, `select` and `if` on 64-bit operands can be told from their 32-bit forms in whole programs.
