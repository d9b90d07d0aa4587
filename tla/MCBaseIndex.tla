---------------------------- MODULE MCBaseIndex ----------------------------
(* Two branches from genesis, so that a reorganisation rewinds one or two  *)
(* blocks.                                                                 *)
EXTENDS BaseIndex, TLC

CONSTANTS g, a1, b1, b2

Blocks == {g, a1, b1, b2}
Chains == (g :> <<g>> @@ a1 :> <<g, a1>> @@ b1 :> <<g, b1>> @@ b2 :> <<g, b1, b2>>)
=============================================================================
