--------------------------- MODULE MCCoinsRecovery ---------------------------
(***************************************************************************)
(* Two block trees for TLC.  F creates f.  On one branch A1 moves f to t,  *)
(* and A2, in the larger tree, t to u; on the other branch B2 does both at *)
(* once, so that t and u exist at two heights or only within a block.  a   *)
(* is a coinbase output that two competing blocks of one height share.     *)
(***************************************************************************)
EXTENDS CoinsRecovery

CONSTANTS G, F, A1, A2, B1, B2, f, t, u, a

LargeTree == {G, F, A1, A2, B1, B2}
SmallTree == LargeTree \ {A2}

MCOutpoint == {f, t, u, a}
MCCoin == 1..3
MCParent == [b \in Block \ {G} |->
                CASE b = F -> G [] b \in {A1, B1} -> F [] b = A2 -> A1 [] b = B2 -> B1]
Coinbase(S) == [ins |-> {}, outs |-> S]
Move(x, y) == [ins |-> {x}, outs |-> {y}]
MCTxs == [b \in Block |->
            CASE b = G -> <<>>
              [] b = F -> <<Coinbase({f})>>
              [] b = A1 -> <<Coinbase({a}), Move(f, t)>>
              [] b = A2 -> <<Coinbase({}), Move(t, u)>>
              [] b = B1 -> <<Coinbase({a})>>
              [] b = B2 -> <<Coinbase({}), Move(f, t), Move(t, u)>>]
=============================================================================
