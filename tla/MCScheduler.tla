---------------------------- MODULE MCScheduler ----------------------------
(* Two service threads, as the comment on MainSignalsImpl allows for. *)
EXTENDS Scheduler

CONSTANTS t1, t2, c1, c2, l1
=============================================================================
