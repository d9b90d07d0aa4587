------------------------------ MODULE CoinsView ------------------------------
(***************************************************************************)
(* What the stack of coin views promises its users (the CCoinsView         *)
(* interface, src/src/coins.h): three plain stores, each a complete UTXO   *)
(* map together with the block it is the UTXO map of.  Nothing is cached   *)
(* and nothing is flagged.  CoinsCache implements this specification.      *)
(***************************************************************************)

CONSTANTS Outpoint,   \* transaction outputs
          Coin,       \* unspent coins
          Spent,      \* the nulled coin
          Hash,       \* block hashes
          NullHash    \* uint256() : no block

VARIABLES dbStore,    \* CCoinsViewDB, what survives on disk
          tipStore,   \* CoinsTip()
          viewStore   \* the temporary view of ConnectTip and DisconnectTip

absVars == <<dbStore, tipStore, viewStore>>

Store == [coins: [Outpoint -> Coin \cup {Spent}], best: Hash \cup {NullHash}]

Init ==
    /\ dbStore \in Store
    /\ tipStore = dbStore
    /\ viewStore = dbStore

(* A coin is created or spent in the temporary view. *)
ViewWrite(o, c) ==
    /\ viewStore' = [viewStore EXCEPT !.coins[o] = c]
    /\ UNCHANGED <<dbStore, tipStore>>

ViewSetBestBlock(h) ==
    /\ viewStore' = [viewStore EXCEPT !.best = h]
    /\ UNCHANGED <<dbStore, tipStore>>

(* The whole view, coins and best block at once, becomes the tip. *)
ViewFlush ==
    /\ tipStore' = viewStore
    /\ UNCHANGED <<dbStore, viewStore>>

(* The view is dropped: nothing of it reaches the tip. *)
ViewDiscard ==
    /\ viewStore' = tipStore
    /\ UNCHANGED <<dbStore, tipStore>>

(* A coin is created or spent directly in the tip, under no other view. *)
TipWrite(o, c) ==
    /\ viewStore = tipStore
    /\ tipStore' = [tipStore EXCEPT !.coins[o] = c]
    /\ viewStore' = tipStore'
    /\ UNCHANGED dbStore

TipSetBestBlock(h) ==
    /\ viewStore = tipStore
    /\ tipStore' = [tipStore EXCEPT !.best = h]
    /\ viewStore' = tipStore'
    /\ UNCHANGED dbStore

(* The tip, coins and best block at once, reaches the disk. *)
TipFlush ==
    /\ dbStore' = tipStore
    /\ UNCHANGED <<tipStore, viewStore>>

Next ==
    \/ \E o \in Outpoint, c \in Coin \cup {Spent} : ViewWrite(o, c) \/ TipWrite(o, c)
    \/ \E h \in Hash : ViewSetBestBlock(h) \/ TipSetBestBlock(h)
    \/ ViewFlush
    \/ ViewDiscard
    \/ TipFlush

Spec == Init /\ [][Next]_absVars
=============================================================================
