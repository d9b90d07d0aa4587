---------------------------- MODULE MCCheckQueue ----------------------------
(***************************************************************************)
(* Two workers and the master, and four checks of which one fails: as many *)
(* as it takes for a thread that comes alone to take a batch of two.       *)
(***************************************************************************)
EXTENDS CheckQueue

CONSTANTS w1, w2, c1, c2, c3, c4
=============================================================================
