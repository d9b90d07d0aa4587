---------------------------- MODULE SerialQueue ----------------------------
(***************************************************************************)
(* What SingleThreadedSchedulerClient (src/src/scheduler.h) promises the   *)
(* validation interface: callbacks are executed one at a time, in the      *)
(* order they were added, each of them once, whichever thread runs them.   *)
(***************************************************************************)
EXTENDS Naturals, Sequences

CONSTANT Callback

VARIABLES pending,   \* the callbacks that were added and have not begun
          running    \* the callback being executed, if any

vars == <<pending, running>>

Init == pending = <<>> /\ running = {}

Add ==
    /\ Len(pending') = Len(pending) + 1
    /\ LET c == pending'[Len(pending')]
       IN  c \in Callback /\ pending' = Append(pending, c)
    /\ UNCHANGED running

Begin ==
    /\ pending # <<>> /\ running = {}
    /\ running' = {Head(pending)}
    /\ pending' = Tail(pending)

End ==
    /\ running # {}
    /\ running' = {}
    /\ UNCHANGED pending

Next == Add \/ Begin \/ End

SafetySpec == Init /\ [][Next]_vars

(* A callback returns, and the next one begins. *)
Spec == SafetySpec /\ WF_vars(Begin) /\ WF_vars(End)
=============================================================================
