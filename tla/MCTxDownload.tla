---------------------------- MODULE MCTxDownload ----------------------------
EXTENDS TxDownload, TLC

CONSTANTS p1, p2, parent, child

ChildSpendsParent == (parent :> {}) @@ (child :> {parent})

(* The one peer of ours, p1 if preferred, is first. *)
Ranks == [t \in Tx |-> (p1 :> 2) @@ (p2 :> 1)]
=============================================================================
