---------------------------- MODULE Activations ----------------------------
(***************************************************************************)
(* What WebAssembly promises of calls and locals, and Interpreter is shown *)
(* to implement: every activation of a function has parameters and locals  *)
(* of its own.  They start as the parameters and zeros, no other           *)
(* activation changes them, and they end with it.                          *)
(*                                                                         *)
(* The one exception is the code's: a call that fails leaves its context   *)
(* dirty, and then the function that the host calls next starts with       *)
(* values nobody chose (the run after_trap).  That call, if it returns,    *)
(* cleans the context again; the functions it calls are not affected.      *)
(***************************************************************************)
EXTENDS Naturals, Sequences

VARIABLES functions,   \* function -> [params, own], the words of its locals
          status,      \* "ready", "dirty", "running", "stopped"
          arguments,   \* what the host passed to the call being run
          activations  \* of the call being run: [function, locals], last on top

vars == <<functions, status, arguments, activations>>

Init ==
  /\ status = "ready"
  /\ arguments = <<>> /\ activations = <<>>

\* The words of an activation, and its start: the parameters, then zeros.
Sized(a) ==
  /\ a.function \in DOMAIN functions
  /\ Len(a.locals) = functions[a.function].params + functions[a.function].own

Fresh(a) ==
  /\ Sized(a)
  /\ \A i \in 1 .. functions[a.function].own : a.locals[functions[a.function].params + i] = 0

\* The host calls a function, while no call is being run.
Start ==
  /\ status \in {"ready", "dirty"}
  /\ status' = "running"
  /\ Len(activations') = 1
  /\ Sized(activations'[1])
  /\ Len(arguments') = functions[activations'[1].function].params
  /\ status = "ready" =>
       /\ Fresh(activations'[1])
       /\ \A i \in 1 .. Len(arguments') : activations'[1].locals[i] = arguments'[i]
  /\ UNCHANGED functions

\* The activations below the n-th stay as they are.
Keeps(n) == \A i \in 1 .. n : activations'[i] = activations[i]

\* The topmost activation may change its own locals, and no others.
Work ==
  /\ status = "running" /\ activations # <<>>
  /\ Len(activations') = Len(activations)
  /\ Keeps(Len(activations) - 1)
  /\ activations'[Len(activations)].function = activations[Len(activations)].function
  /\ Sized(activations'[Len(activations)])
  /\ UNCHANGED <<functions, status, arguments>>

Call ==
  /\ status = "running" /\ activations # <<>>
  /\ Len(activations') = Len(activations) + 1
  /\ Keeps(Len(activations))
  /\ Fresh(activations'[Len(activations) + 1])
  /\ UNCHANGED <<functions, status, arguments>>

Return ==
  /\ status = "running" /\ activations # <<>>
  /\ Len(activations') = Len(activations) - 1
  /\ Keeps(Len(activations) - 1)
  /\ UNCHANGED <<functions, status, arguments>>

\* All activations have returned: nothing is left of them.
Finish ==
  /\ status = "running" /\ activations = <<>>
  /\ status' = "ready"
  /\ UNCHANGED <<functions, arguments, activations>>

\* An error returned to the host, and a panic.
Fail ==
  /\ status = "running" /\ activations # <<>>
  /\ status' \in {"ready", "dirty", "stopped"}
  /\ activations' = <<>>
  /\ UNCHANGED <<functions, arguments>>

\* A call that does not start stops the process.
Stop ==
  /\ status \in {"ready", "dirty"}
  /\ status' = "stopped"
  /\ UNCHANGED <<functions, arguments, activations>>

Next == Start \/ Work \/ Call \/ Return \/ Finish \/ Fail \/ Stop

Spec == Init /\ [][Next]_vars
=============================================================================
