----------------------------- MODULE CoinsCache -----------------------------
(***************************************************************************)
(* The stack of coin views of a Chainstate (src/src/coins.cpp,             *)
(* src/src/txdb.cpp): the coins database, the CoinsTip() cache on top of   *)
(* it, and the temporary CCoinsViewCache that ConnectTip and DisconnectTip *)
(* put on top of that.  CCoinsViewErrorCatcher, between database and tip,  *)
(* forwards every call.                                                    *)
(*                                                                         *)
(* A view that does not exist and a view that has just been constructed    *)
(* are the same state: no entries and a null hashBlock.                    *)
(***************************************************************************)

EXTENDS CoinEntry

CONSTANTS Outpoint, Hash, NullHash

ASSUME HashAssumption == NullHash \notin Hash

VARIABLES dbCoins,     \* coins in the database, Spent where there is none
          dbBest,      \* DB_BEST_BLOCK, NullHash when absent
          tip,         \* cacheCoins of CoinsTip()
          tipBest,     \* hashBlock of CoinsTip()
          view,        \* cacheCoins of the temporary view
          viewBest,    \* hashBlock of the temporary view
          logicError   \* a std::logic_error was thrown

vars == <<dbCoins, dbBest, tip, tipBest, view, viewBest, logicError>>
dbVars == <<dbCoins, dbBest>>
tipVars == <<tip, tipBest>>
viewVars == <<view, viewBest>>

HashOrNull == Hash \cup {NullHash}
Empty == [o \in Outpoint |-> NoEntry]

TypeOK ==
    /\ dbCoins \in [Outpoint -> CoinOrSpent]
    /\ dbBest \in HashOrNull
    /\ tip \in [Outpoint -> Slot]
    /\ tipBest \in HashOrNull
    /\ view \in [Outpoint -> Slot]
    /\ viewBest \in HashOrNull
    /\ logicError \in BOOLEAN

(* The coin and the best block a caller of each cache is shown. *)
TipCoin(o) == Shown(tip[o], dbCoins[o])
ViewCoin(o) == Shown(view[o], TipCoin(o))
TipBest == IF tipBest = NullHash THEN dbBest ELSE tipBest
ViewBest == IF viewBest = NullHash THEN TipBest ELSE viewBest

(* A database left by an earlier run, under empty caches. *)
Init ==
    /\ dbCoins \in [Outpoint -> CoinOrSpent]
    /\ dbBest \in HashOrNull
    /\ tip = Empty
    /\ tipBest = NullHash
    /\ view = Empty
    /\ viewBest = NullHash
    /\ logicError = FALSE

-----------------------------------------------------------------------------
(* The temporary view. *)

(* A miss in the view reads the tip, which caches what it reads. *)
TipAfterViewMiss(o) ==
    [tip EXCEPT ![o] = IF view[o] = NoEntry THEN FetchCoin(@, dbCoins[o]) ELSE @]

(* GetCoin, AccessCoin, HaveCoin. *)
ViewFetchCoin(o) ==
    /\ view' = [view EXCEPT ![o] = FetchCoin(@, TipCoin(o))]
    /\ tip' = TipAfterViewMiss(o)
    /\ UNCHANGED <<dbVars, tipBest, viewBest, logicError>>

(***************************************************************************)
(* AddCoin, called by AddCoins and ApplyTxInUndo.  The callers pass        *)
(* possible_overwrite for a coinbase output or for an output HaveCoin just *)
(* reported, and otherwise only for an output no unspent coin exists for   *)
(* (transaction ids are unique).                                           *)
(***************************************************************************)
ViewAddCoin(o, c, possible_overwrite) ==
    /\ possible_overwrite \/ ViewCoin(o) = Spent
    /\ IF AddCoinThrows(view[o], possible_overwrite)
       THEN logicError' = TRUE /\ UNCHANGED view
       ELSE /\ view' = [view EXCEPT ![o] = AddCoin(@, c, possible_overwrite)]
            /\ UNCHANGED logicError
    /\ UNCHANGED <<dbVars, tipVars, viewBest>>

ViewSpendCoin(o) ==
    /\ view' = [view EXCEPT ![o] = SpendCoin(@, TipCoin(o))]
    /\ tip' = TipAfterViewMiss(o)
    /\ UNCHANGED <<dbVars, tipBest, viewBest, logicError>>

(* A null hashBlock is filled from the base, level by level. *)
ViewGetBestBlock ==
    /\ viewBest = NullHash
    /\ tipBest' = TipBest
    /\ viewBest' = TipBest
    /\ UNCHANGED <<dbVars, tip, view, logicError>>

ViewSetBestBlock(h) ==
    /\ viewBest' = h
    /\ UNCHANGED <<dbVars, tipVars, view, logicError>>

(* Mutant: BatchWrite does not take over the child's hashBlock. *)
ViewFlushKeepsBest ==
    /\ viewBest # NullHash
    /\ tip' = [o \in Outpoint |-> BatchWrite(tip[o], view[o])]
    /\ view' = Empty
    /\ viewBest' = NullHash
    /\ UNCHANGED <<dbVars, tipBest, logicError>>

(***************************************************************************)
(* view.Flush() and the end of the view's life.  Both ConnectBlock and     *)
(* DisconnectBlock end with SetBestBlock, so hashBlock is never null here. *)
(***************************************************************************)
ViewFlush ==
    /\ viewBest # NullHash
    /\ IF \E o \in Outpoint : BatchWriteThrows(tip[o], view[o])
       THEN logicError' = TRUE /\ UNCHANGED <<tipVars, viewVars>>
       ELSE /\ tip' = [o \in Outpoint |-> BatchWrite(tip[o], view[o])]
            /\ tipBest' = viewBest
            /\ view' = Empty
            /\ viewBest' = NullHash
            /\ UNCHANGED logicError
    /\ UNCHANGED dbVars

(* ConnectTip returns early when ConnectBlock fails: the view goes away. *)
ViewDiscard ==
    /\ view' = Empty
    /\ viewBest' = NullHash
    /\ UNCHANGED <<dbVars, tipVars, logicError>>

-----------------------------------------------------------------------------
(* The tip cache. *)

NoView == view = Empty /\ viewBest = NullHash

TipFetchCoin(o) ==
    /\ tip' = [tip EXCEPT ![o] = FetchCoin(@, dbCoins[o])]
    /\ UNCHANGED <<dbVars, tipBest, viewVars, logicError>>

(* Removed mempool transactions drop the inputs they brought in. *)
TipUncache(o) ==
    /\ tip' = [tip EXCEPT ![o] = Uncache(@)]
    /\ UNCHANGED <<dbVars, tipBest, viewVars, logicError>>

(* ReplayBlocks writes into a cache directly above the database. *)
TipAddCoin(o, c, possible_overwrite) ==
    /\ NoView
    /\ possible_overwrite \/ TipCoin(o) = Spent
    /\ IF AddCoinThrows(tip[o], possible_overwrite)
       THEN logicError' = TRUE /\ UNCHANGED tip
       ELSE /\ tip' = [tip EXCEPT ![o] = AddCoin(@, c, possible_overwrite)]
            /\ UNCHANGED logicError
    /\ UNCHANGED <<dbVars, tipBest, viewVars>>

TipSpendCoin(o) ==
    /\ NoView
    /\ tip' = [tip EXCEPT ![o] = SpendCoin(@, dbCoins[o])]
    /\ UNCHANGED <<dbVars, tipBest, viewVars, logicError>>

(* Loading a UTXO snapshot. *)
TipEmplaceCoin(o, c) ==
    /\ NoView
    /\ tip' = [tip EXCEPT ![o] = EmplaceCoin(@, c)]
    /\ UNCHANGED <<dbVars, tipBest, viewVars, logicError>>

TipGetBestBlock ==
    /\ tipBest' = TipBest
    /\ UNCHANGED <<dbVars, tip, viewVars, logicError>>

TipSetBestBlock(h) ==
    /\ NoView
    /\ tipBest' = h
    /\ UNCHANGED <<dbVars, tip, viewVars, logicError>>

(* The part of Flush and Sync they share: the database takes the DIRTY     *)
(* entries.  FlushStateToDisk asks for GetBestBlock first, and BatchWrite  *)
(* asserts that the hash is not null.                                      *)
WriteToDB ==
    /\ TipBest # NullHash
    /\ dbCoins' = [o \in Outpoint |-> DBWrite(dbCoins[o], tip[o])]
    /\ dbBest' = TipBest
    /\ tipBest' = TipBest
    /\ UNCHANGED <<viewVars, logicError>>

TipFlush ==
    /\ WriteToDB
    /\ tip' = Empty

TipSync ==
    /\ WriteToDB
    /\ tip' = [o \in Outpoint |-> SyncEntry(tip[o])]

-----------------------------------------------------------------------------
ViewStep ==
    \/ \E o \in Outpoint : ViewFetchCoin(o) \/ ViewSpendCoin(o)
    \/ \E o \in Outpoint, c \in Coin, po \in BOOLEAN : ViewAddCoin(o, c, po)
    \/ ViewGetBestBlock
    \/ \E h \in Hash : ViewSetBestBlock(h)
    \/ ViewFlush
    \/ ViewDiscard

TipStep ==
    \/ \E o \in Outpoint : TipFetchCoin(o) \/ TipUncache(o) \/ TipSpendCoin(o)
    \/ \E o \in Outpoint, c \in Coin : TipEmplaceCoin(o, c)
    \/ \E o \in Outpoint, c \in Coin, po \in BOOLEAN : TipAddCoin(o, c, po)
    \/ TipGetBestBlock
    \/ \E h \in Hash : TipSetBestBlock(h)
    \/ TipFlush
    \/ TipSync

Next == ~logicError /\ (ViewStep \/ TipStep)

Spec == Init /\ [][Next]_vars

-----------------------------------------------------------------------------
(* Properties. *)

(***************************************************************************)
(* The FRESH flag (coins.h: "the parent cache does not have this coin, or  *)
(* it is a spent coin in the parent cache") is never misapplied.  If it    *)
(* were, spending the coin would erase the entry and resurrect the         *)
(* parent's unspent coin.                                                  *)
(***************************************************************************)
FreshMeansAbsentBelow ==
    \A o \in Outpoint :
        /\ tip[o] # NoEntry /\ tip[o].fresh => dbCoins[o] = Spent
        /\ view[o] # NoEntry /\ view[o].fresh => TipCoin(o) = Spent

(***************************************************************************)
(* An entry that is not DIRTY shows what the level below shows, whatever   *)
(* the order of flushes, syncs, evictions and reads.  BatchWrite drops     *)
(* such entries and Uncache evicts them.                                   *)
(***************************************************************************)
CleanMeansSameBelow ==
    \A o \in Outpoint :
        /\ tip[o] # NoEntry /\ ~tip[o].dirty => tip[o].coin = dbCoins[o]
        /\ view[o] # NoEntry /\ ~view[o].dirty => view[o].coin = TipCoin(o)

(***************************************************************************)
(* SanityCheck's assertion on the flags of an entry (attr is not 2, 4 or   *)
(* 7), in the stronger form the code keeps: FRESH only with DIRTY and an   *)
(* unspent coin, and a spent coin only with DIRTY.                         *)
(***************************************************************************)
SaneEntry(e) ==
    e # NoEntry => /\ e.fresh => e.dirty /\ e.coin # Spent
                   /\ e.coin = Spent => e.dirty

SanityCheck == \A o \in Outpoint : SaneEntry(tip[o]) /\ SaneEntry(view[o])

(* Neither AddCoin nor BatchWrite ever throws its logic_error. *)
NoLogicError == ~logicError

(* The inductive invariant. *)
CacheInv == FreshMeansAbsentBelow /\ CleanMeansSameBelow /\ SanityCheck /\ NoLogicError

(* The plain stores the cache stack stands for. *)
DBStore == [coins |-> dbCoins, best |-> dbBest]
TipStore == [coins |-> [o \in Outpoint |-> TipCoin(o)], best |-> TipBest]
ViewStore == [coins |-> [o \in Outpoint |-> ViewCoin(o)], best |-> ViewBest]

Abstract == INSTANCE CoinsView
                WITH dbStore <- DBStore, tipStore <- TipStore, viewStore <- ViewStore

(***************************************************************************)
(* The cache stack implements plain stores: reading, caching, evicting and *)
(* syncing are invisible, and a flush hands over the coins and the best    *)
(* block of the level above exactly and together.                          *)
(***************************************************************************)
ImplementsCoinsView == Abstract!Spec
=============================================================================
