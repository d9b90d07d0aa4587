----------------------------- MODULE MCBlockFiles -----------------------------
(* A chain of three blocks above genesis, which arrive in any order: two   *)
(* files of two blocks, and a third for blocks stored again.               *)
EXTENDS BlockFiles

CONSTANTS g, a1, a2, a3

Blocks == {g, a1, a2, a3}
ParentOf == [b \in Blocks \ {g} |-> CASE b = a1 -> g [] b = a2 -> a1 [] b = a3 -> a2]
===============================================================================
