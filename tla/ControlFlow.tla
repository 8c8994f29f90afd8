---------------------------- MODULE ControlFlow ----------------------------
(***************************************************************************)
(* What the jump targets of a function body should be, stated without the  *)
(* stack of parse_opcode: by counting the opcodes that open and close a    *)
(* block.  The body starts at position start of data.                      *)
(***************************************************************************)
EXTENDS Opcodes

\* The positions at which the scan of a body finds an opcode, until the data
\* ends or an operand is cut short.
Opcodes(data, start) ==
  LET from[pos \in 0 .. Len(data)] ==
        IF pos = Len(data) THEN {}
        ELSE LET next == After(ParseLayout(At(data, pos)), data, pos + 1)
             IN  {pos} \cup (IF next = Failed THEN {} ELSE from[next])
  IN  from[start]

\* How many blocks are open before position pos, of opcodes found at ops.
Depth(ops, data, pos) ==
  LET before == {q \in ops : q < pos}
  IN  Cardinality({q \in before : At(data, q) \in Openers})
        - Cardinality({q \in before : At(data, q) = \h0B})

Least(S) == CHOOSE e \in S : \A d \in S : e <= d

\* The opcodes op (end, or else) at the level of the block or else at pos,
\* after it: the first end among them is the one that closes it.
Closers(data, start, pos, op) ==
  LET ops   == Opcodes(data, start)
      level == Depth(ops, data, pos) + (IF At(data, pos) = \h05 THEN 0 ELSE 1)
  IN  {q \in ops : q > pos /\ At(data, q) = op /\ Depth(ops, data, q) = level}

\* The end of the body: the first end that closes no block.
BodyEnds(data, start) ==
  LET ops == Opcodes(data, start)
  IN  {q \in ops : At(data, q) = \h0B /\ Depth(ops, data, q) = 0}

(***************************************************************************)
(* An opcode that opens a block at pos continues, when the block is left,  *)
(* after its end; an if with an else continues after the else when its     *)
(* condition fails, and that else continues after the end.  Targets are    *)
(* offsets from start.                                                     *)
(***************************************************************************)
Target(data, start, pos) ==
  LET end    == Closers(data, start, pos, \h0B)
      elses  == {q \in Closers(data, start, pos, \h05) : end = {} \/ q < Least(end)}
  IN  IF At(data, pos) = \h04 /\ elses # {} THEN Least(elses) + 1 - start
      ELSE Least(end) + 1 - start

BodyTargets(data, start) ==
  LET end == Least(BodyEnds(data, start))
  IN  [pos \in {q \in Opcodes(data, start) :
                  q < end /\ At(data, q) \in Openers \cup {\h05}}
         |-> Target(data, start, pos)]

\* The bytes of the body, its final end included.
BodyCode(data, start) == SubSeq(data, start + 1, Least(BodyEnds(data, start)) + 1)

\* The elses before the end of the body that belong to no if: an else is the
\* first else or end at the level of its if.
MisplacedElses(data, start) ==
  LET ops  == Opcodes(data, start)
      ends == BodyEnds(data, start)
  IN  {q \in ops :
         /\ At(data, q) = \h05
         /\ \A e \in ends : q < e
         /\ \A p \in {r \in ops : r < q /\ At(data, r) = \h04} :
              {q} # {r \in Closers(data, start, p, \h05) \cup Closers(data, start, p, \h0B) : r <= q}}

\* Where the reader stands after a body, if parse_code returns Ok.
Panicked == -2

AfterBody(data, start) ==
  IF MisplacedElses(data, start) # {} THEN Panicked
  ELSE IF BodyEnds(data, start) = {} THEN Failed
  ELSE Least(BodyEnds(data, start)) + 1
=============================================================================
