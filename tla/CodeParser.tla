----------------------------- MODULE CodeParser -----------------------------
(***************************************************************************)
(* parse_code and parse_opcode of uwasm/src/lib.rs: the scan that finds    *)
(* where a function body ends and where its blocks continue.  The body     *)
(* starts at func_offset inside the data of the module; block offsets, the *)
(* keys of jump_targets, are absolute, the targets relative to the body.   *)
(*                                                                         *)
(* A step scans one opcode with its operands.  The scan returns Ok ("done")*)
(* at the end that closes no block, returns an Err ("error") when a read   *)
(* fails, and panics on an else without an if.                             *)
(***************************************************************************)
EXTENDS ControlFlow

CONSTANT Inputs  \* what is scanned: records [data, func_offset]

ASSUME InputsAssumption ==
  \A in \in Inputs : in.data \in Seq(Byte) /\ in.func_offset \in 0 .. Len(in.data)

VARIABLES data, func_offset,  \* the input; it never changes
          pos,                \* Reader::pos
          blocks,             \* ParserState::blocks, the innermost block last
          jump_targets,       \* ParserState::jump_targets
          status,             \* "scanning", "done", "error" or "panicked"
          opened              \* auxiliary: the positions of blocks and elses met

vars == <<data, func_offset, pos, blocks, jump_targets, status, opened>>

Init ==
  /\ \E in \in Inputs : data = in.data /\ func_offset = in.func_offset
  /\ pos = func_offset
  /\ blocks = <<>>
  /\ jump_targets = <<>>
  /\ status = "scanning"
  /\ opened = {}

-----------------------------------------------------------------------------

Op     == At(data, pos)
Follow == After(ParseLayout(Op), data, pos + 1)

Scans(ops) ==
  /\ status = "scanning"
  /\ pos < Len(data)
  /\ Op \in ops
  /\ Follow # Failed

\* BTreeMap::insert
Insert(map, key, value) ==
  [k \in DOMAIN map \cup {key} |-> IF k = key THEN value ELSE map[k]]

Kind(op) == IF op = \h02 THEN "Block" ELSE IF op = \h03 THEN "Loop" ELSE "If"

Innermost == blocks[Len(blocks)]
Outer     == SubSeq(blocks, 1, Len(blocks) - 1)

\* Mutants of Resolve: the target not made relative, and one byte short.
ResolveAbsolute == jump_targets' = Insert(jump_targets, Innermost.offset, pos + 1)
ResolveShort    == jump_targets' = Insert(jump_targets, Innermost.offset, pos - func_offset)

\* The block (or, at an else, the if) that is left continues after pos.
Resolve == jump_targets' = Insert(jump_targets, Innermost.offset, pos + 1 - func_offset)

\* block, loop, if
OpenBlock ==
  /\ Scans(Openers)
  /\ blocks' = Append(blocks, [kind |-> Kind(Op), offset |-> pos])
  /\ opened' = opened \cup {pos}
  /\ pos' = Follow
  /\ UNCHANGED <<data, func_offset, jump_targets, status>>

\* Mutant of Else: the if stays on the stack.
ElseKeepingIf ==
  /\ Scans({\h05})
  /\ blocks # <<>> /\ Innermost.kind = "If"
  /\ Resolve
  /\ blocks' = Append(blocks, [kind |-> "Else", offset |-> pos])
  /\ opened' = opened \cup {pos}
  /\ pos' = Follow
  /\ UNCHANGED <<data, func_offset, status>>

\* else: the if it belongs to is resolved, and an Else block takes its place.
Else ==
  /\ Scans({\h05})
  /\ blocks # <<>> /\ Innermost.kind = "If"
  /\ Resolve
  /\ blocks' = Append(Outer, [kind |-> "Else", offset |-> pos])
  /\ opened' = opened \cup {pos}
  /\ pos' = Follow
  /\ UNCHANGED <<data, func_offset, status>>

EndBlock ==
  /\ Scans({\h0B})
  /\ blocks # <<>>
  /\ Resolve
  /\ blocks' = Outer
  /\ pos' = Follow
  /\ UNCHANGED <<data, func_offset, status, opened>>

\* The end of the body: ControlFlow::Break.
EndBody ==
  /\ Scans({\h0B})
  /\ blocks = <<>>
  /\ status' = "done"
  /\ pos' = Follow
  /\ UNCHANGED <<data, func_offset, blocks, jump_targets, opened>>

\* Every other opcode, those the scan does not know included.
Plain ==
  /\ Scans(Byte \ (Openers \cup {\h05, \h0B}))
  /\ pos' = Follow
  /\ UNCHANGED <<data, func_offset, blocks, jump_targets, status, opened>>

\* Mutant of ReadFails: the error is dropped and the loop goes on.
ReadFailsUnnoticed ==
  /\ status = "scanning"
  /\ pos < Len(data) => Follow = Failed
  /\ UNCHANGED vars

\* read_u8 or an operand meets the end of the data, or an invalid TypeKind.
ReadFails ==
  /\ status = "scanning"
  /\ pos < Len(data) => Follow = Failed
  /\ status' = "error"
  /\ UNCHANGED <<data, func_offset, pos, blocks, jump_targets, opened>>

\* blocks.pop().unwrap() or assert_eq!(kind, BlockType::If) fails.
MisplacedElse ==
  /\ Scans({\h05})
  /\ blocks # <<>> => Innermost.kind # "If"
  /\ status' = "panicked"
  /\ UNCHANGED <<data, func_offset, pos, blocks, jump_targets, opened>>

Returned == status # "scanning" /\ UNCHANGED vars

Step == OpenBlock \/ Else \/ EndBlock \/ EndBody \/ Plain \/ ReadFails \/ MisplacedElse
Next == Step \/ Returned

Spec == Init /\ [][Next]_vars /\ WF_vars(Step)

-----------------------------------------------------------------------------

\* A scan state is well typed: positions stay inside the data, and the keys
\* of jump_targets and the offsets of blocks are positions already scanned.
TypeOK ==
  /\ data \in Seq(Byte)
  /\ func_offset \in 0 .. Len(data)
  /\ pos \in func_offset .. Len(data)
  /\ blocks \in Seq([kind : {"Block", "Loop", "If", "Else"}, offset : func_offset .. pos - 1])
  /\ DOMAIN jump_targets \subseteq opened
  /\ \A k \in DOMAIN jump_targets : jump_targets[k] \in Nat
  /\ status \in {"scanning", "done", "error", "panicked"}
  /\ opened \subseteq func_offset .. pos - 1

\* evaluate indexes jump_targets with the offset of a block, an if or an else
\* and panics on a missing key: every one met has a target as soon as it is
\* closed, and the open ones are exactly those on the stack (state.blocks
\* and jump_targets of parse_opcode never lose or duplicate a block).
EveryBlockResolved ==
  /\ opened = DOMAIN jump_targets \cup {blocks[i].offset : i \in 1 .. Len(blocks)}
  /\ \A i \in 1 .. Len(blocks) : blocks[i].offset \notin DOMAIN jump_targets
  /\ status = "done" => opened = DOMAIN jump_targets

\* A target lies after the opcode it belongs to and inside the part of the
\* body already scanned; once the final end is read, strictly before the end
\* of the code slice, so a jump of evaluate (skip_to) never leaves it, not
\* even the else jump that goes one byte further.
TargetsInside ==
  \A k \in DOMAIN jump_targets :
    /\ k + 1 < jump_targets[k] + func_offset
    /\ jump_targets[k] + func_offset <= pos
    /\ status = "done" => jump_targets[k] < pos - func_offset

\* A target, once inserted, is never replaced: each block is closed once,
\* an if by its else or by its end but not by both.
TargetsStable ==
  [][\A k \in DOMAIN jump_targets :
       k \in DOMAIN jump_targets' /\ jump_targets'[k] = jump_targets[k]]_vars

\* A scan that returns Ok stops at the end that closes the body, with the
\* targets that counting the opens and closes gives (ControlFlow); one that
\* returns Err never met such an end, nor an else without an if, and one
\* that panics met such an else first.
AgreesWithStructure ==
  /\ status = "done" => jump_targets = BodyTargets(data, func_offset)
  /\ status # "scanning" =>
       AfterBody(data, func_offset) =
         CASE status = "done" -> pos
           [] status = "error" -> Failed
           [] status = "panicked" -> Panicked

\* The scan skips the operands that the execution reads: parse_opcode and
\* evaluate agree on where the next opcode is (the same bytes decoded by two
\* tables, lib.rs and interpreter.rs).  It fails for f32.store, i64.store8
\* and i64.store32, which the scan takes for opcodes without operands.
ScansWhatRuns ==
  status = "scanning" /\ pos < Len(data) /\ Op \in Executed
    => Follow = After(ExecLayout(Op), data, pos + 1)

\* The scan ends, whatever the bytes are: the loop of parse_code always
\* reaches a Break, an Err or a panic.
Terminates == <>(status # "scanning")
=============================================================================
