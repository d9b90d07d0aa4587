--------------------------- MODULE MCChainSelection ---------------------------
(* Two branches from genesis: m1-m2 and x1-x2-x3.  With ProofOf every      *)
(* block has the same work, so that equal work and both orders of pointers *)
(* occur; with HeavyProof x2 beats the other branch as soon as it arrives. *)
EXTENDS ChainSelection

CONSTANTS g, m1, m2, x1, x2, x3

Tree == {g, m1, m2, x1, x2, x3}
ForkTree == {g, m1, m2, x1, x2}
SmallTree == {g, m1, x1, x2}

ParentOf == [b \in Block \ {g} |->
    CASE b \in {m1, x1} -> g [] b = m2 -> m1 [] b = x2 -> x1 [] b = x3 -> x2]
ProofOf == [b \in Block |-> 1]
HeavyProof == [b \in Block |-> IF b = x2 THEN 2 ELSE 1]
AddressOf == [b \in Block |->
    CASE b = g -> 0 [] b = x1 -> 1 [] b = m1 -> 2 [] b = m2 -> 3 [] b = x2 -> 4 [] b = x3 -> 5]
===============================================================================
