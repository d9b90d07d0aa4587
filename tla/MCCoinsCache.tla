---------------------------- MODULE MCCoinsCache ----------------------------
(***************************************************************************)
(* The coins cache for TLC.  Two outpoints show that operations on one do  *)
(* not disturb the other; two coins tell an overwritten coin from the one  *)
(* it replaced.                                                            *)
(***************************************************************************)
EXTENDS CoinsCache, TLC

Symmetry == Permutations(Coin) \cup Permutations(Outpoint)
=============================================================================
