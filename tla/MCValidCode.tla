---------------------------- MODULE MCValidCode ----------------------------
(***************************************************************************)
(* The certificates of the modules without if of MCInterpreter, computed   *)
(* as a validator would: by following each body from its start.            *)
(***************************************************************************)
EXTENDS MCInterpreter, ValidCode

\* The function f as a table, computed once.
Table(f) == f @@ <<>>

\* The only function that call_indirect names takes an i64 and an i32.
IndirectTypes(b) ==
  Table([p \in {q \in Ops(b.code) : At(b.code, q) = \h11} |-> [takes |-> 3, gives |-> 1]])

\* The positions found, with the heights there, of which the new ones are
\* still to be followed.
RECURSIVE Reached(_, _, _, _, _)
Found(m, b, v, found, next) == Reached(m, b, v, found \cup next, next \ found)
Reached(m, b, v, found, new) ==
  IF new = {} THEN found
  ELSE Found(m, b, v, found,
         UNION {{<<q, f[2] - Taken(m, b, v, f[1]) + Given(m, b, v, f[1])>> : q \in Successors(b, f[1])}
                  : f \in {g \in new : g[1] < Len(b.code)}})

Heights(found) == Table([p \in {f[1] : f \in found} |-> CHOOSE h \in 0 .. 100 : <<p, h>> \in found])

WithHeights(m, b, v) ==
  [indirect |-> v.indirect, height |-> Heights(Reached(m, b, v, {<<0, 0>>}, {<<0, 0>>}))]

CertificateFor(m, b) == WithHeights(m, b, [indirect |-> IndirectTypes(b)])

Certificates ==
  Table([m \in StructuredModules |->
    Table([i \in DOMAIN m.functions |->
      IF m.functions[i].body = NoBody THEN NoBody ELSE CertificateFor(m, m.functions[i].body)])])

\* By its own name, so that it is computed once, before the run.
MCCertificate == Certificates

\* What is proved of plain and balanced modules covers all that it is
\* checked on.
ASSUME PlainAssumption    == \A m \in StructuredModules : IsPlain(m)
ASSUME BalancedAssumption == \A m \in StructuredModules : IsBalanced(m)
=============================================================================
