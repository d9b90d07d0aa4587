--------------------------- MODULE CoinsCacheProofs ---------------------------
(***************************************************************************)
(* The coins cache keeps its flags meaningful, never throws, and           *)
(* implements plain stores, for every set of outpoints, coins and blocks.  *)
(***************************************************************************)
EXTENDS CoinsCache, TLAPS

(* Time for the provers on a busy machine. *)
USE SMTT(60)

-----------------------------------------------------------------------------
(* Facts about one entry. *)

(* A new entry is an entry, never NoEntry, with the fields it was given. *)
LEMMA NewEntryFacts ==
    ASSUME NEW c \in CoinOrSpent, NEW d \in BOOLEAN, NEW f \in BOOLEAN
    PROVE  /\ NewEntry(c, d, f) \in Entry
           /\ NewEntry(c, d, f) # NoEntry
           /\ NewEntry(c, d, f).coin = c
           /\ NewEntry(c, d, f).dirty = d
           /\ NewEntry(c, d, f).fresh = f
  BY NoEntryAssumption DEF NewEntry, Entry

(* The fields of a slot that holds an entry. *)
LEMMA SlotFields ==
    ASSUME NEW e \in Slot, e # NoEntry
    PROVE  e.coin \in CoinOrSpent /\ e.dirty \in BOOLEAN /\ e.fresh \in BOOLEAN
  BY DEF Slot, Entry

(* Every cache operation maps slots to slots. *)
LEMMA SlotType ==
    ASSUME NEW e \in Slot, NEW p \in Slot, NEW b \in CoinOrSpent
    PROVE  /\ Shown(e, b) \in CoinOrSpent
           /\ FetchCoin(e, b) \in Slot
           /\ SpendCoin(e, b) \in Slot
           /\ Uncache(e) \in Slot
           /\ BatchWrite(p, e) \in Slot
           /\ DBWrite(b, e) \in CoinOrSpent
           /\ SyncEntry(e) \in Slot
  BY DEF Slot, Entry, CoinOrSpent, NewEntry, Shown, FetchCoin, SpendCoin,
         Uncache, BatchWrite, DBWrite, SyncEntry

LEMMA NewSlotType ==
    ASSUME NEW e \in Slot, NEW c \in Coin, NEW po \in BOOLEAN
    PROVE  AddCoin(e, c, po) \in Slot /\ EmplaceCoin(e, c) \in Slot
  BY DEF Slot, Entry, CoinOrSpent, NewEntry, AddCoin, EmplaceCoin

(***************************************************************************)
(* An entry is sound over the coin its base shows: the flags tell the      *)
(* truth about the base and are one of the combinations SanityCheck        *)
(* accepts.                                                                *)
(***************************************************************************)
Sound(e, base) ==
    e # NoEntry => /\ e.fresh => base = Spent
                   /\ ~e.dirty => e.coin = base
                   /\ e.fresh => e.dirty /\ e.coin # Spent
                   /\ e.coin = Spent => e.dirty

(* Reading, evicting and spending keep an entry sound and show the right   *)
(* coin.                                                                   *)
LEMMA EntryOps ==
    ASSUME NEW e \in Slot, NEW b \in CoinOrSpent, Sound(e, b)
    PROVE  /\ Sound(FetchCoin(e, b), b)
           /\ Shown(FetchCoin(e, b), b) = Shown(e, b)
           /\ Sound(Uncache(e), b)
           /\ Shown(Uncache(e), b) = Shown(e, b)
           /\ Sound(SpendCoin(e, b), b)
           /\ Shown(SpendCoin(e, b), b) = Spent
  <1> USE CoinAssumption, NewEntryFacts DEF CoinOrSpent, Shown, Sound
  <1>1. /\ Sound(FetchCoin(e, b), b)
        /\ Shown(FetchCoin(e, b), b) = Shown(e, b)
    BY Zenon DEF FetchCoin
  <1>2. /\ Sound(Uncache(e), b)
        /\ Shown(Uncache(e), b) = Shown(e, b)
    BY DEF Uncache
  <1>3. /\ Sound(SpendCoin(e, b), b)
        /\ Shown(SpendCoin(e, b), b) = Spent
    <2> DEFINE it == FetchCoin(e, b)
    <2>1. SpendCoin(e, b) = IF it = NoEntry \/ it.fresh THEN NoEntry
                            ELSE NewEntry(Spent, TRUE, FALSE)
      BY DEF SpendCoin
    <2>2. it = NoEntry => e = NoEntry /\ b = Spent
      BY Zenon DEF FetchCoin
    <2>3. it # NoEntry /\ it.fresh => b = Spent
      BY <1>1
    <2> HIDE DEF it
    <2>4. CASE it = NoEntry \/ it.fresh
      BY <2>1, <2>2, <2>3, <2>4, Zenon
    <2>5. CASE ~(it = NoEntry \/ it.fresh)
      <3> DEFINE spent == NewEntry(Spent, TRUE, FALSE)
      <3>1. spent # NoEntry /\ spent.coin = Spent /\ spent.dirty = TRUE /\ spent.fresh = FALSE
        BY Zenon
      <3>2. SpendCoin(e, b) = spent
        BY <2>1, <2>5
      <3> HIDE DEF spent
      <3> QED  BY <3>1, <3>2
    <2> QED  BY <2>4, <2>5
  <1> QED  BY <1>1, <1>2, <1>3

(* So do adding and emplacing a coin; a caller that keeps AddCoin's        *)
(* contract never makes it throw.                                          *)
LEMMA NewCoinOps ==
    ASSUME NEW e \in Slot, NEW b \in CoinOrSpent, NEW c \in Coin,
           NEW po \in BOOLEAN, Sound(e, b)
    PROVE  /\ Sound(EmplaceCoin(e, c), b)
           /\ Shown(EmplaceCoin(e, c), b) = IF e = NoEntry THEN c ELSE e.coin
           /\ (po \/ Shown(e, b) = Spent) =>
                 /\ ~AddCoinThrows(e, po)
                 /\ Sound(AddCoin(e, c, po), b)
                 /\ Shown(AddCoin(e, c, po), b) = c
  <1> USE CoinAssumption, NewEntryFacts DEF CoinOrSpent, Shown, Sound
  <1>1. /\ Sound(EmplaceCoin(e, c), b)
        /\ Shown(EmplaceCoin(e, c), b) = IF e = NoEntry THEN c ELSE e.coin
    BY Zenon DEF EmplaceCoin
  <1>2. ASSUME po \/ Shown(e, b) = Spent
        PROVE  /\ ~AddCoinThrows(e, po)
               /\ Sound(AddCoin(e, c, po), b)
               /\ Shown(AddCoin(e, c, po), b) = c
    <2> DEFINE f == \/ ~po /\ (e = NoEntry \/ ~e.dirty)
                    \/ e # NoEntry /\ e.fresh
               new == NewEntry(c, TRUE, f)
    <2>1. f \in BOOLEAN
      OBVIOUS
    <2>2. AddCoin(e, c, po) = new
      BY Zenon DEF AddCoin
    <2>3. f => b = Spent
      BY <1>2
    <2>4. new # NoEntry /\ new.coin = c /\ new.dirty = TRUE /\ new.fresh = f
      <3> HIDE DEF f
      <3> QED  BY <2>1, ZenonT(60)
    <2> HIDE DEF new, f
    <2>5. ~AddCoinThrows(e, po)
      BY <1>2 DEF AddCoinThrows
    <2> QED  BY <2>2, <2>3, <2>4, <2>5
  <1> QED  BY <1>1, <1>2

(***************************************************************************)
(* A flush from a cache into the cache below it never throws, keeps the    *)
(* parent's entry sound and makes the parent show what the child showed.   *)
(***************************************************************************)
LEMMA FlushOps ==
    ASSUME NEW e \in Slot, NEW p \in Slot, NEW b \in CoinOrSpent,
           Sound(p, b), Sound(e, Shown(p, b))
    PROVE  /\ ~BatchWriteThrows(p, e)
           /\ Sound(BatchWrite(p, e), b)
           /\ Shown(BatchWrite(p, e), b) = Shown(e, Shown(p, b))
  <1>1. ~BatchWriteThrows(p, e)
    BY DEF BatchWriteThrows, Shown, Sound
  <1>2. CASE e = NoEntry \/ ~e.dirty
    BY <1>1, <1>2, Zenon DEF BatchWrite, Shown, Sound
  <1>3. CASE e # NoEntry /\ e.dirty /\ p = NoEntry
    <2> DEFINE new == NewEntry(e.coin, TRUE, e.fresh)
    <2>1. BatchWrite(p, e) = new
      BY <1>3, Zenon DEF BatchWrite, Sound
    <2>2. e.coin \in CoinOrSpent /\ e.fresh \in BOOLEAN
      BY <1>3, SlotFields
    <2>3. new # NoEntry /\ new.coin = e.coin /\ new.dirty = TRUE /\ new.fresh = e.fresh
      BY <2>2, NewEntryFacts, Zenon
    <2> HIDE DEF new
    <2> QED  BY <1>1, <1>3, <2>1, <2>3 DEF Shown, Sound
  <1>4. CASE e # NoEntry /\ e.dirty /\ p # NoEntry
    <2> DEFINE new == NewEntry(e.coin, TRUE, p.fresh)
    <2>1. BatchWrite(p, e) = IF p.fresh /\ e.coin = Spent THEN NoEntry ELSE new
      BY <1>4 DEF BatchWrite
    <2>2. e.coin \in CoinOrSpent /\ p.fresh \in BOOLEAN
      BY <1>4, SlotFields
    <2>3. new # NoEntry /\ new.coin = e.coin /\ new.dirty = TRUE /\ new.fresh = p.fresh
      BY <2>2, NewEntryFacts, Zenon
    <2> HIDE DEF new
    <2> QED  BY <1>1, <1>4, <2>1, <2>3 DEF Shown, Sound
  <1> QED  BY <1>1, <1>2, <1>3, <1>4

(* A write to the database stores what the cache showed; the entries that  *)
(* Sync keeps are sound over it.                                           *)
LEMMA DBOps ==
    ASSUME NEW e \in Slot, NEW b \in CoinOrSpent, Sound(e, b)
    PROVE  /\ DBWrite(b, e) = Shown(e, b)
           /\ Sound(SyncEntry(e), Shown(e, b))
           /\ Shown(SyncEntry(e), Shown(e, b)) = Shown(e, b)
  BY CoinAssumption, NewEntryFacts, Zenon DEF CoinOrSpent, Slot, Entry, Shown, DBWrite, SyncEntry, Sound

-----------------------------------------------------------------------------
(* The invariant. *)

(* The named parts of CacheInv, entry by entry. *)
SoundInv ==
    \A o \in Outpoint : Sound(tip[o], dbCoins[o]) /\ Sound(view[o], TipCoin(o))

IInv == TypeOK /\ SoundInv /\ NoLogicError

LEMMA InitIInv == Init => IInv
  <1> SUFFICES ASSUME Init PROVE IInv
    OBVIOUS
  <1>1. Empty \in [Outpoint -> Slot] /\ \A o \in Outpoint : Empty[o] = NoEntry
    BY DEF Empty, Slot
  <1>2. TypeOK
    BY <1>1, Zenon DEF Init, TypeOK, HashOrNull
  <1>3. SoundInv
    BY <1>1 DEF Init, SoundInv, Sound
  <1> QED  BY <1>2, <1>3 DEF Init, IInv, NoLogicError

(* What the tip shows is a coin or Spent. *)
LEMMA TipCoinType ==
    ASSUME TypeOK, NEW o \in Outpoint
    PROVE  TipCoin(o) \in CoinOrSpent
  BY SlotType, ZenonT(60) DEF TypeOK, TipCoin

(***************************************************************************)
(* A read that misses in the view leaves the tip sound and showing the     *)
(* same coins.                                                             *)
(***************************************************************************)
LEMMA TipAfterMiss ==
    ASSUME IInv, NEW o \in Outpoint, NEW p \in Outpoint
    PROVE  /\ TipAfterViewMiss(o) \in [Outpoint -> Slot]
           /\ Sound(TipAfterViewMiss(o)[p], dbCoins[p])
           /\ Shown(TipAfterViewMiss(o)[p], dbCoins[p]) = TipCoin(p)
  <1>1. \A q \in Outpoint : tip[q] \in Slot /\ dbCoins[q] \in CoinOrSpent /\ Sound(tip[q], dbCoins[q])
    BY DEF IInv, TypeOK, SoundInv
  <1>2. \A q \in Outpoint : FetchCoin(tip[q], dbCoins[q]) \in Slot
    BY <1>1, SlotType, Zenon
  <1>3. \A q \in Outpoint : /\ Sound(FetchCoin(tip[q], dbCoins[q]), dbCoins[q])
                            /\ Shown(FetchCoin(tip[q], dbCoins[q]), dbCoins[q]) = TipCoin(q)
    BY <1>1, EntryOps DEF TipCoin
  <1> QED  BY <1>1, <1>2, <1>3 DEF TipAfterViewMiss, IInv, TypeOK, TipCoin

(***************************************************************************)
(* What a step has to establish: sound entries over what the levels below  *)
(* show after it.                                                          *)
(***************************************************************************)
LEMMA IInvPrime ==
    ASSUME TypeOK', ~logicError',
           \A q \in Outpoint : /\ Sound(tip'[q], dbCoins'[q])
                               /\ Sound(view'[q], Shown(tip'[q], dbCoins'[q]))
    PROVE  IInv'
  BY DEF IInv, SoundInv, NoLogicError, TipCoin

(***************************************************************************)
(* What the stores look like after a step, given what each level shows.    *)
(***************************************************************************)
LEMMA StoresPrime ==
    ASSUME NEW tc \in [Outpoint -> CoinOrSpent], NEW vc \in [Outpoint -> CoinOrSpent],
           \A q \in Outpoint : /\ Shown(tip'[q], dbCoins'[q]) = tc[q]
                               /\ Shown(view'[q], tc[q]) = vc[q]
    PROVE  /\ TipStore' = [coins |-> tc, best |-> TipBest']
           /\ ViewStore' = [coins |-> vc, best |-> ViewBest']
  BY DEF TipStore, ViewStore, TipCoin, ViewCoin

(* The coins the levels show before a step. *)
TipCoins == [o \in Outpoint |-> TipCoin(o)]
ViewCoins == [o \in Outpoint |-> ViewCoin(o)]

LEMMA StoresNow ==
    ASSUME IInv
    PROVE  /\ TipCoins \in [Outpoint -> CoinOrSpent]
           /\ ViewCoins \in [Outpoint -> CoinOrSpent]
           /\ TipStore = [coins |-> TipCoins, best |-> TipBest]
           /\ ViewStore = [coins |-> ViewCoins, best |-> ViewBest]
  <1>1. \A o \in Outpoint : TipCoin(o) \in CoinOrSpent
    BY TipCoinType DEF IInv
  <1>2. \A o \in Outpoint : ViewCoin(o) \in CoinOrSpent
    BY <1>1, SlotType, Zenon DEF IInv, TypeOK, ViewCoin
  <1> QED  BY <1>1, <1>2 DEF TipCoins, ViewCoins, TipStore, ViewStore

-----------------------------------------------------------------------------
(* The steps of the temporary view. *)

(* A new entry for one outpoint of the view. *)
LEMMA ViewUpdate ==
    ASSUME IInv, NEW o \in Outpoint, NEW e \in Slot, NEW c \in CoinOrSpent,
           Sound(e, TipCoin(o)), Shown(e, TipCoin(o)) = c,
           view' = [view EXCEPT ![o] = e],
           tip' \in [Outpoint -> Slot],
           \A q \in Outpoint : /\ Sound(tip'[q], dbCoins[q])
                               /\ Shown(tip'[q], dbCoins[q]) = TipCoin(q),
           UNCHANGED <<dbVars, tipBest, viewBest, logicError>>
    PROVE  IInv' /\ Abstract!ViewWrite(o, c)
  <1>1. \A q \in Outpoint : /\ Sound(view'[q], TipCoin(q))
                            /\ Shown(view'[q], TipCoin(q)) = [ViewCoins EXCEPT ![o] = c][q]
    BY DEF IInv, TypeOK, SoundInv, ViewCoins, ViewCoin
  <1>2. TypeOK'
    BY Zenon DEF IInv, TypeOK, dbVars
  <1>3. IInv'
    BY <1>1, <1>2, IInvPrime DEF IInv, NoLogicError, dbVars
  <1>4. /\ TipStore' = [coins |-> TipCoins, best |-> TipBest']
        /\ ViewStore' = [coins |-> [ViewCoins EXCEPT ![o] = c], best |-> ViewBest']
    <2>1. [ViewCoins EXCEPT ![o] = c] \in [Outpoint -> CoinOrSpent]
      BY StoresNow
    <2>2. \A q \in Outpoint : /\ Shown(tip'[q], dbCoins'[q]) = TipCoins[q]
                              /\ Shown(view'[q], TipCoins[q]) = [ViewCoins EXCEPT ![o] = c][q]
      BY <1>1 DEF TipCoins, dbVars
    <2> QED  BY <2>1, <2>2, StoresNow, StoresPrime, Zenon
  <1>5. TipBest' = TipBest /\ ViewBest' = ViewBest /\ DBStore' = DBStore
    BY DEF TipBest, ViewBest, DBStore, dbVars
  <1>6. Abstract!ViewWrite(o, c)
    BY <1>4, <1>5, StoresNow DEF Abstract!ViewWrite
  <1> QED  BY <1>3, <1>6

(* The facts about the view that its steps start from. *)
LEMMA ViewFacts ==
    ASSUME IInv, NEW o \in Outpoint
    PROVE  /\ view[o] \in Slot
           /\ TipCoin(o) \in CoinOrSpent
           /\ ViewCoin(o) \in CoinOrSpent
           /\ Sound(view[o], TipCoin(o))
  BY TipCoinType, SlotType, Zenon DEF IInv, TypeOK, SoundInv, ViewCoin

(* Reading through the view writes back the coin it showed. *)
LEMMA ViewFetchCoinStep ==
    ASSUME IInv, NEW o \in Outpoint, ViewFetchCoin(o)
    PROVE  IInv' /\ Abstract!ViewWrite(o, ViewCoin(o))
  <1> DEFINE e == FetchCoin(view[o], TipCoin(o))
  <1>1. e \in Slot /\ Sound(e, TipCoin(o)) /\ Shown(e, TipCoin(o)) = ViewCoin(o)
    BY ViewFacts, SlotType, EntryOps DEF ViewCoin
  <1>2. view' = [view EXCEPT ![o] = e] /\ UNCHANGED <<dbVars, tipBest, viewBest, logicError>>
    BY DEF ViewFetchCoin
  <1>3. /\ tip' \in [Outpoint -> Slot]
        /\ \A q \in Outpoint : /\ Sound(tip'[q], dbCoins[q])
                                /\ Shown(tip'[q], dbCoins[q]) = TipCoin(q)
    BY TipAfterMiss DEF ViewFetchCoin
  <1> HIDE DEF e
  <1> QED  BY <1>1, <1>2, <1>3, ViewFacts, ViewUpdate, Zenon

LEMMA ViewSpendCoinStep ==
    ASSUME IInv, NEW o \in Outpoint, ViewSpendCoin(o)
    PROVE  IInv' /\ Abstract!ViewWrite(o, Spent)
  <1> DEFINE e == SpendCoin(view[o], TipCoin(o))
  <1>1. e \in Slot /\ Sound(e, TipCoin(o)) /\ Shown(e, TipCoin(o)) = Spent
    BY ViewFacts, SlotType, EntryOps
  <1>2. view' = [view EXCEPT ![o] = e] /\ UNCHANGED <<dbVars, tipBest, viewBest, logicError>>
    BY DEF ViewSpendCoin
  <1>3. /\ tip' \in [Outpoint -> Slot]
        /\ \A q \in Outpoint : /\ Sound(tip'[q], dbCoins[q])
                                /\ Shown(tip'[q], dbCoins[q]) = TipCoin(q)
    BY TipAfterMiss DEF ViewSpendCoin
  <1>4. Spent \in CoinOrSpent
    BY DEF CoinOrSpent
  <1> HIDE DEF e
  <1> QED  BY <1>1, <1>2, <1>3, <1>4, ViewUpdate, Zenon

LEMMA ViewAddCoinStep ==
    ASSUME IInv, NEW o \in Outpoint, NEW c \in Coin, NEW po \in BOOLEAN,
           ViewAddCoin(o, c, po)
    PROVE  IInv' /\ Abstract!ViewWrite(o, c)
  <1> DEFINE e == AddCoin(view[o], c, po)
  <1>1. po \/ Shown(view[o], TipCoin(o)) = Spent
    BY DEF ViewAddCoin, ViewCoin
  <1>2. /\ ~AddCoinThrows(view[o], po)
        /\ e \in Slot /\ Sound(e, TipCoin(o)) /\ Shown(e, TipCoin(o)) = c
    BY <1>1, ViewFacts, NewSlotType, NewCoinOps
  <1>3. view' = [view EXCEPT ![o] = e] /\ UNCHANGED <<dbVars, tipVars, viewBest, logicError>>
    BY <1>2 DEF ViewAddCoin
  <1>4. /\ tip' \in [Outpoint -> Slot]
        /\ \A q \in Outpoint : /\ Sound(tip'[q], dbCoins[q])
                                /\ Shown(tip'[q], dbCoins[q]) = TipCoin(q)
    BY <1>3 DEF tipVars, IInv, TypeOK, SoundInv, TipCoin
  <1>5. c \in CoinOrSpent
    BY Zenon DEF CoinOrSpent
  <1> HIDE DEF e
  <1> QED  BY <1>2, <1>3, <1>4, <1>5, ViewUpdate, Zenon DEF tipVars

(* Only hash pointers change: the entries stay sound. *)
LEMMA BestUpdate ==
    ASSUME IInv, tipBest' \in HashOrNull, viewBest' \in HashOrNull,
           UNCHANGED <<dbVars, tip, view, logicError>>
    PROVE  /\ IInv'
           /\ TipStore' = [coins |-> TipCoins, best |-> TipBest']
           /\ ViewStore' = [coins |-> ViewCoins, best |-> ViewBest']
           /\ DBStore' = DBStore
  <1>1. TypeOK'
    BY DEF IInv, TypeOK, dbVars
  <1>2. IInv'
    BY <1>1, IInvPrime DEF IInv, SoundInv, NoLogicError, TipCoin, dbVars
  <1>3. \A q \in Outpoint : /\ Shown(tip'[q], dbCoins'[q]) = TipCoins[q]
                            /\ Shown(view'[q], TipCoins[q]) = ViewCoins[q]
    BY DEF TipCoins, ViewCoins, TipCoin, ViewCoin, dbVars
  <1> QED  BY <1>2, <1>3, StoresNow, StoresPrime DEF DBStore, dbVars

LEMMA BestType == TypeOK => TipBest \in HashOrNull /\ ViewBest \in HashOrNull
  BY DEF TypeOK, TipBest, ViewBest

LEMMA ViewGetBestBlockStep ==
    ASSUME IInv, ViewGetBestBlock
    PROVE  IInv' /\ UNCHANGED <<DBStore, TipStore, ViewStore>>
  <1>1. tipBest' \in HashOrNull /\ viewBest' \in HashOrNull
    BY BestType DEF ViewGetBestBlock, IInv
  <1>2. TipBest' = TipBest /\ ViewBest' = ViewBest
    BY DEF ViewGetBestBlock, TipBest, ViewBest, dbVars
  <1> QED  BY <1>1, <1>2, BestUpdate, StoresNow DEF ViewGetBestBlock

LEMMA ViewSetBestBlockStep ==
    ASSUME IInv, NEW h \in Hash, ViewSetBestBlock(h)
    PROVE  IInv' /\ Abstract!ViewSetBestBlock(h)
  <1>1. tipBest' \in HashOrNull /\ viewBest' \in HashOrNull
    BY DEF ViewSetBestBlock, IInv, TypeOK, HashOrNull, tipVars
  <1>2. TipBest' = TipBest /\ ViewBest' = h
    BY HashAssumption DEF ViewSetBestBlock, TipBest, ViewBest, dbVars, tipVars
  <1> QED  BY <1>1, <1>2, BestUpdate, StoresNow
           DEF ViewSetBestBlock, Abstract!ViewSetBestBlock, tipVars

(* Dropping every entry of the view: it shows what the tip shows. *)
LEMMA EmptyFacts ==
    /\ Empty \in [Outpoint -> Slot]
    /\ \A q \in Outpoint : Empty[q] = NoEntry
    /\ \A q \in Outpoint : \A b : Sound(Empty[q], b) /\ Shown(Empty[q], b) = b
  BY DEF Empty, Slot, Sound, Shown

LEMMA ViewFlushStep ==
    ASSUME IInv, ViewFlush
    PROVE  IInv' /\ Abstract!ViewFlush
  <1>1. \A q \in Outpoint : /\ tip[q] \in Slot /\ view[q] \in Slot /\ dbCoins[q] \in CoinOrSpent
                            /\ Sound(tip[q], dbCoins[q]) /\ Sound(view[q], Shown(tip[q], dbCoins[q]))
    BY Zenon DEF IInv, TypeOK, SoundInv, TipCoin
  <1>2. \A q \in Outpoint : /\ ~BatchWriteThrows(tip[q], view[q])
                            /\ BatchWrite(tip[q], view[q]) \in Slot
                            /\ Sound(BatchWrite(tip[q], view[q]), dbCoins[q])
                            /\ Shown(BatchWrite(tip[q], view[q]), dbCoins[q]) = ViewCoin(q)
    BY <1>1, FlushOps, SlotType DEF ViewCoin, TipCoin
  <1>3. /\ tip' = [o \in Outpoint |-> BatchWrite(tip[o], view[o])]
        /\ tipBest' = viewBest
        /\ view' = Empty
        /\ viewBest' = NullHash
        /\ UNCHANGED <<dbVars, logicError>>
        /\ viewBest # NullHash
    BY <1>2, Zenon DEF ViewFlush
  <1>4. \A q \in Outpoint : /\ Sound(tip'[q], dbCoins'[q])
                            /\ Shown(tip'[q], dbCoins'[q]) = ViewCoin(q)
    BY <1>2, <1>3 DEF dbVars
  <1>5. TypeOK'
    BY <1>2, <1>3, EmptyFacts, Zenon DEF IInv, TypeOK, HashOrNull, dbVars
  <1>6. IInv'
    BY <1>3, <1>4, <1>5, EmptyFacts, IInvPrime DEF IInv, NoLogicError
  <1>7. TipBest' = ViewBest /\ ViewBest' = ViewBest
    BY <1>3, Zenon DEF TipBest, ViewBest
  <1>8. \A q \in Outpoint : /\ Shown(tip'[q], dbCoins'[q]) = ViewCoins[q]
                            /\ Shown(view'[q], ViewCoins[q]) = ViewCoins[q]
    BY <1>3, <1>4, EmptyFacts DEF ViewCoins
  <1>9. TipStore' = ViewStore /\ ViewStore' = ViewStore
    BY <1>7, <1>8, StoresNow, StoresPrime
  <1> QED  BY <1>3, <1>6, <1>9 DEF Abstract!ViewFlush, DBStore, dbVars

LEMMA ViewDiscardStep ==
    ASSUME IInv, ViewDiscard
    PROVE  IInv' /\ Abstract!ViewDiscard
  <1>1. TypeOK'
    BY EmptyFacts, Zenon DEF ViewDiscard, IInv, TypeOK, HashOrNull, dbVars, tipVars
  <1>2. \A q \in Outpoint : /\ Sound(tip'[q], dbCoins'[q])
                            /\ Shown(tip'[q], dbCoins'[q]) = TipCoins[q]
                            /\ Sound(view'[q], Shown(tip'[q], dbCoins'[q]))
                            /\ Shown(view'[q], TipCoins[q]) = TipCoins[q]
    BY EmptyFacts DEF ViewDiscard, IInv, SoundInv, TipCoins, TipCoin, dbVars, tipVars
  <1>3. IInv'
    BY <1>1, <1>2, IInvPrime DEF ViewDiscard, IInv, NoLogicError
  <1>4. TipBest' = TipBest /\ ViewBest' = TipBest
    BY Zenon DEF ViewDiscard, TipBest, ViewBest, dbVars, tipVars
  <1>5. TipStore' = TipStore /\ ViewStore' = TipStore
    BY <1>2, <1>4, StoresNow, StoresPrime
  <1> QED  BY <1>3, <1>5 DEF ViewDiscard, Abstract!ViewDiscard, DBStore, dbVars

-----------------------------------------------------------------------------
(* The steps of the tip cache. *)

LEMMA TipFacts ==
    ASSUME IInv, NEW o \in Outpoint
    PROVE  /\ tip[o] \in Slot
           /\ dbCoins[o] \in CoinOrSpent
           /\ Sound(tip[o], dbCoins[o])
  BY Zenon DEF IInv, TypeOK, SoundInv

(* A new entry that shows the same coin is invisible, under any view. *)
LEMMA TipReadUpdate ==
    ASSUME IInv, NEW o \in Outpoint, NEW e \in Slot,
           Sound(e, dbCoins[o]), Shown(e, dbCoins[o]) = TipCoin(o),
           tip' = [tip EXCEPT ![o] = e],
           UNCHANGED <<dbVars, tipBest, viewVars, logicError>>
    PROVE  IInv' /\ UNCHANGED <<DBStore, TipStore, ViewStore>>
  <1>1. \A q \in Outpoint : /\ Sound(tip'[q], dbCoins'[q])
                            /\ Shown(tip'[q], dbCoins'[q]) = TipCoins[q]
                            /\ Sound(view'[q], Shown(tip'[q], dbCoins'[q]))
                            /\ Shown(view'[q], TipCoins[q]) = ViewCoins[q]
    BY DEF IInv, TypeOK, SoundInv, TipCoins, ViewCoins, TipCoin, ViewCoin, dbVars, viewVars
  <1>2. TypeOK'
    BY DEF IInv, TypeOK, dbVars, viewVars
  <1>3. IInv'
    BY <1>1, <1>2, IInvPrime DEF IInv, NoLogicError
  <1>4. TipBest' = TipBest /\ ViewBest' = ViewBest
    BY DEF TipBest, ViewBest, dbVars, viewVars
  <1> QED  BY <1>1, <1>3, <1>4, StoresNow, StoresPrime DEF DBStore, dbVars

(* A new entry that shows another coin changes the tip and, as there is no *)
(* view on top of it, what a new view would show.                          *)
LEMMA TipWriteUpdate ==
    ASSUME IInv, NoView, NEW o \in Outpoint, NEW e \in Slot, NEW c \in CoinOrSpent,
           Sound(e, dbCoins[o]), Shown(e, dbCoins[o]) = c,
           tip' = [tip EXCEPT ![o] = e],
           UNCHANGED <<dbVars, tipBest, viewVars, logicError>>
    PROVE  IInv' /\ Abstract!TipWrite(o, c)
  <1> DEFINE tc == [TipCoins EXCEPT ![o] = c]
  <1>1. \A q \in Outpoint : view[q] = NoEntry /\ view'[q] = NoEntry
    BY EmptyFacts DEF NoView, viewVars
  <1>2. \A q \in Outpoint : /\ Sound(tip'[q], dbCoins'[q])
                            /\ Shown(tip'[q], dbCoins'[q]) = tc[q]
    BY DEF IInv, TypeOK, SoundInv, TipCoins, TipCoin, dbVars
  <1>3. \A q \in Outpoint : \A b : Sound(view'[q], b) /\ Shown(view'[q], b) = b
    BY <1>1 DEF Sound, Shown
  <1>4. TypeOK'
    BY Zenon DEF IInv, TypeOK, dbVars, viewVars
  <1>5. IInv'
    BY <1>2, <1>3, <1>4, IInvPrime DEF IInv, NoLogicError
  <1>6. TipBest' = TipBest /\ ViewBest' = TipBest /\ ViewBest = TipBest
    BY DEF TipBest, ViewBest, NoView, dbVars, viewVars
  <1>7. tc \in [Outpoint -> CoinOrSpent]
    BY StoresNow, Zenon
  <1>8. TipStore' = [coins |-> tc, best |-> TipBest] /\ ViewStore' = TipStore'
    <2> HIDE DEF tc
    <2> QED  BY <1>2, <1>3, <1>6, <1>7, StoresPrime
  <1>9. ViewStore = TipStore
    BY <1>1, <1>6 DEF ViewStore, TipStore, ViewCoin, Shown
  <1>10. DBStore' = DBStore
    BY DEF DBStore, dbVars
  <1> QED  BY <1>5, <1>8, <1>9, <1>10, StoresNow DEF Abstract!TipWrite

LEMMA TipFetchCoinStep ==
    ASSUME IInv, NEW o \in Outpoint, TipFetchCoin(o)
    PROVE  IInv' /\ UNCHANGED <<DBStore, TipStore, ViewStore>>
  <1> DEFINE e == FetchCoin(tip[o], dbCoins[o])
  <1>1. e \in Slot /\ Sound(e, dbCoins[o]) /\ Shown(e, dbCoins[o]) = TipCoin(o)
    BY TipFacts, SlotType, EntryOps DEF TipCoin
  <1>2. tip' = [tip EXCEPT ![o] = e] /\ UNCHANGED <<dbVars, tipBest, viewVars, logicError>>
    BY DEF TipFetchCoin
  <1> HIDE DEF e
  <1> QED  BY <1>1, <1>2, TipReadUpdate, Zenon

LEMMA TipUncacheStep ==
    ASSUME IInv, NEW o \in Outpoint, TipUncache(o)
    PROVE  IInv' /\ UNCHANGED <<DBStore, TipStore, ViewStore>>
  <1> DEFINE e == Uncache(tip[o])
  <1>1. e \in Slot /\ Sound(e, dbCoins[o]) /\ Shown(e, dbCoins[o]) = TipCoin(o)
    BY TipFacts, SlotType, EntryOps, Zenon DEF TipCoin
  <1>2. tip' = [tip EXCEPT ![o] = e] /\ UNCHANGED <<dbVars, tipBest, viewVars, logicError>>
    BY DEF TipUncache
  <1> HIDE DEF e
  <1> QED  BY <1>1, <1>2, TipReadUpdate, Zenon

LEMMA TipSpendCoinStep ==
    ASSUME IInv, NEW o \in Outpoint, TipSpendCoin(o)
    PROVE  IInv' /\ Abstract!TipWrite(o, Spent)
  <1> DEFINE e == SpendCoin(tip[o], dbCoins[o])
  <1>1. e \in Slot /\ Sound(e, dbCoins[o]) /\ Shown(e, dbCoins[o]) = Spent
    BY TipFacts, SlotType, EntryOps, Zenon
  <1>2. /\ NoView
        /\ tip' = [tip EXCEPT ![o] = e]
        /\ UNCHANGED <<dbVars, tipBest, viewVars, logicError>>
    BY DEF TipSpendCoin
  <1>3. Spent \in CoinOrSpent
    BY DEF CoinOrSpent
  <1> HIDE DEF e
  <1> QED  BY <1>1, <1>2, <1>3, TipWriteUpdate, Zenon

LEMMA TipAddCoinStep ==
    ASSUME IInv, NEW o \in Outpoint, NEW c \in Coin, NEW po \in BOOLEAN,
           TipAddCoin(o, c, po)
    PROVE  IInv' /\ Abstract!TipWrite(o, c)
  <1> DEFINE e == AddCoin(tip[o], c, po)
  <1>1. po \/ Shown(tip[o], dbCoins[o]) = Spent
    BY DEF TipAddCoin, TipCoin
  <1>2. /\ ~AddCoinThrows(tip[o], po)
        /\ e \in Slot /\ Sound(e, dbCoins[o]) /\ Shown(e, dbCoins[o]) = c
    BY <1>1, TipFacts, NewSlotType, NewCoinOps
  <1>3. /\ NoView
        /\ tip' = [tip EXCEPT ![o] = e]
        /\ UNCHANGED <<dbVars, tipBest, viewVars, logicError>>
    BY <1>2 DEF TipAddCoin
  <1>4. c \in CoinOrSpent
    BY DEF CoinOrSpent
  <1> HIDE DEF e
  <1> QED  BY <1>2, <1>3, <1>4, TipWriteUpdate, Zenon

(* Emplacing writes the coin or, over an existing entry, nothing. *)
LEMMA TipEmplaceCoinStep ==
    ASSUME IInv, NEW o \in Outpoint, NEW c \in Coin, TipEmplaceCoin(o, c)
    PROVE  IInv' /\ \E d \in CoinOrSpent : Abstract!TipWrite(o, d)
  <1> DEFINE e == EmplaceCoin(tip[o], c)
             d == Shown(e, dbCoins[o])
  <1>1. e \in Slot /\ Sound(e, dbCoins[o])
    BY TipFacts, NewSlotType, NewCoinOps, Zenon
  <1>2. /\ NoView
        /\ tip' = [tip EXCEPT ![o] = e]
        /\ UNCHANGED <<dbVars, tipBest, viewVars, logicError>>
    BY DEF TipEmplaceCoin
  <1>3. d \in CoinOrSpent
    BY <1>1, TipFacts, SlotType
  <1> HIDE DEF e
  <1>4. IInv' /\ Abstract!TipWrite(o, d)
    BY <1>1, <1>2, <1>3, TipWriteUpdate, Zenon
  <1> QED  BY <1>3, <1>4, Zenon

LEMMA TipGetBestBlockStep ==
    ASSUME IInv, TipGetBestBlock
    PROVE  IInv' /\ UNCHANGED <<DBStore, TipStore, ViewStore>>
  <1>1. tipBest' \in HashOrNull /\ viewBest' \in HashOrNull
    BY BestType DEF TipGetBestBlock, IInv, TypeOK, viewVars
  <1>2. TipBest' = TipBest /\ ViewBest' = ViewBest
    BY DEF TipGetBestBlock, TipBest, ViewBest, dbVars, viewVars
  <1> QED  BY <1>1, <1>2, BestUpdate, StoresNow DEF TipGetBestBlock, viewVars

LEMMA TipSetBestBlockStep ==
    ASSUME IInv, NEW h \in Hash, TipSetBestBlock(h)
    PROVE  IInv' /\ Abstract!TipSetBestBlock(h)
  <1>1. tipBest' \in HashOrNull /\ viewBest' \in HashOrNull
    BY DEF TipSetBestBlock, IInv, TypeOK, HashOrNull, viewVars
  <1>2. TipBest' = h /\ ViewBest' = h /\ ViewBest = TipBest
    BY HashAssumption DEF TipSetBestBlock, TipBest, ViewBest, NoView, viewVars
  <1>3. ViewCoins = TipCoins
    BY EmptyFacts DEF TipSetBestBlock, NoView, ViewCoins, TipCoins, ViewCoin, Shown
  <1>4. /\ IInv'
        /\ TipStore' = [coins |-> TipCoins, best |-> h]
        /\ ViewStore' = TipStore'
        /\ DBStore' = DBStore
    BY <1>1, <1>2, <1>3, BestUpdate DEF TipSetBestBlock, viewVars
  <1> QED  BY <1>2, <1>3, <1>4, StoresNow DEF Abstract!TipSetBestBlock

(***************************************************************************)
(* Writing to the database, with any sound entries left in the tip that    *)
(* show the same coins.                                                    *)
(***************************************************************************)
LEMMA DBUpdate ==
    ASSUME IInv, WriteToDB, tip' \in [Outpoint -> Slot],
           \A q \in Outpoint : /\ Sound(tip'[q], TipCoin(q))
                               /\ Shown(tip'[q], TipCoin(q)) = TipCoin(q)
    PROVE  IInv' /\ Abstract!TipFlush
  <1>1. \A q \in Outpoint : DBWrite(dbCoins[q], tip[q]) = TipCoin(q)
    BY TipFacts, DBOps, Zenon DEF TipCoin
  <1>2. dbCoins' = TipCoins
    BY <1>1 DEF WriteToDB, TipCoins
  <1>3. \A q \in Outpoint : dbCoins'[q] = TipCoin(q)
    BY <1>2, Zenon DEF TipCoins
  <1>4. \A q \in Outpoint : /\ Sound(tip'[q], dbCoins'[q])
                            /\ Shown(tip'[q], dbCoins'[q]) = TipCoins[q]
                            /\ Sound(view'[q], Shown(tip'[q], dbCoins'[q]))
                            /\ Shown(view'[q], TipCoins[q]) = ViewCoins[q]
    BY <1>3 DEF WriteToDB, IInv, SoundInv, TipCoins, ViewCoins, ViewCoin, viewVars
  <1>5. TypeOK'
    BY <1>2, StoresNow, BestType, Zenon DEF WriteToDB, IInv, TypeOK, viewVars
  <1>6. IInv'
    BY <1>4, <1>5, IInvPrime, Zenon DEF WriteToDB, IInv, NoLogicError
  <1>7. TipBest' = TipBest /\ ViewBest' = ViewBest /\ dbBest' = TipBest
    BY Zenon DEF WriteToDB, TipBest, ViewBest, viewVars
  <1>8. TipStore' = TipStore /\ ViewStore' = ViewStore
    BY <1>4, <1>7, StoresNow, StoresPrime
  <1>9. DBStore' = TipStore
    BY <1>2, <1>7, StoresNow DEF DBStore
  <1> QED  BY <1>6, <1>8, <1>9, Zenon DEF Abstract!TipFlush

LEMMA TipFlushStep ==
    ASSUME IInv, TipFlush
    PROVE  IInv' /\ Abstract!TipFlush
  BY EmptyFacts, DBUpdate DEF TipFlush

LEMMA TipSyncStep ==
    ASSUME IInv, TipSync
    PROVE  IInv' /\ Abstract!TipFlush
  <1>1. \A q \in Outpoint : /\ SyncEntry(tip[q]) \in Slot
                            /\ Sound(SyncEntry(tip[q]), TipCoin(q))
                            /\ Shown(SyncEntry(tip[q]), TipCoin(q)) = TipCoin(q)
    BY TipFacts, SlotType, DBOps DEF TipCoin
  <1>2. tip' = [o \in Outpoint |-> SyncEntry(tip[o])] /\ WriteToDB
    BY DEF TipSync
  <1> QED  BY <1>1, <1>2, DBUpdate, Zenon

-----------------------------------------------------------------------------
(* The specification. *)

(* Every step keeps the invariant and is a step of the plain stores. *)
LEMMA NextStep ==
    ASSUME IInv, [Next]_vars
    PROVE  IInv' /\ [Abstract!Next]_(Abstract!absVars)
  <1> USE DEF Abstract!absVars
  <1>1. CASE UNCHANGED vars
    <2>1. TypeOK' /\ ~logicError'
      BY <1>1, Zenon DEF IInv, TypeOK, NoLogicError, vars
    <2>2. IInv'
      BY <1>1, <2>1, IInvPrime, Zenon DEF IInv, SoundInv, TipCoin, vars
    <2>3. UNCHANGED <<DBStore, TipStore, ViewStore>>
      BY <1>1 DEF DBStore, TipStore, ViewStore, TipCoin, ViewCoin, TipBest, ViewBest, vars
    <2> QED  BY <2>2, <2>3
  <1>2. CASE ViewStep
    <2>1. ASSUME NEW o \in Outpoint, ViewFetchCoin(o)
          PROVE  IInv' /\ Abstract!Next
      BY <2>1, ViewFetchCoinStep, ViewFacts DEF Abstract!Next, CoinOrSpent
    <2>2. ASSUME NEW o \in Outpoint, ViewSpendCoin(o)
          PROVE  IInv' /\ Abstract!Next
      BY <2>2, ViewSpendCoinStep DEF Abstract!Next
    <2>3. ASSUME NEW o \in Outpoint, NEW c \in Coin, NEW po \in BOOLEAN,
                 ViewAddCoin(o, c, po)
          PROVE  IInv' /\ Abstract!Next
      BY <2>3, ViewAddCoinStep DEF Abstract!Next
    <2>4. CASE ViewGetBestBlock
      BY <2>4, ViewGetBestBlockStep
    <2>5. ASSUME NEW h \in Hash, ViewSetBestBlock(h)
          PROVE  IInv' /\ Abstract!Next
      BY <2>5, ViewSetBestBlockStep DEF Abstract!Next
    <2>6. CASE ViewFlush
      BY <2>6, ViewFlushStep DEF Abstract!Next
    <2>7. CASE ViewDiscard
      BY <2>7, ViewDiscardStep, Zenon DEF Abstract!Next
    <2> QED  BY <1>2, <2>1, <2>2, <2>3, <2>4, <2>5, <2>6, <2>7 DEF ViewStep
  <1>3. CASE TipStep
    <2>1. ASSUME NEW o \in Outpoint, TipFetchCoin(o) \/ TipUncache(o)
          PROVE  IInv' /\ UNCHANGED <<DBStore, TipStore, ViewStore>>
      BY <2>1, TipFetchCoinStep, TipUncacheStep
    <2>2. ASSUME NEW o \in Outpoint, TipSpendCoin(o)
          PROVE  IInv' /\ Abstract!Next
      BY <2>2, TipSpendCoinStep DEF Abstract!Next
    <2>3. ASSUME NEW o \in Outpoint, NEW c \in Coin, TipEmplaceCoin(o, c)
          PROVE  IInv' /\ Abstract!Next
      BY <2>3, TipEmplaceCoinStep DEF Abstract!Next, CoinOrSpent
    <2>4. ASSUME NEW o \in Outpoint, NEW c \in Coin, NEW po \in BOOLEAN,
                 TipAddCoin(o, c, po)
          PROVE  IInv' /\ Abstract!Next
      BY <2>4, TipAddCoinStep DEF Abstract!Next
    <2>5. CASE TipGetBestBlock
      BY <2>5, TipGetBestBlockStep
    <2>6. ASSUME NEW h \in Hash, TipSetBestBlock(h)
          PROVE  IInv' /\ Abstract!Next
      BY <2>6, TipSetBestBlockStep DEF Abstract!Next
    <2>7. CASE TipFlush
      BY <2>7, TipFlushStep DEF Abstract!Next
    <2>8. CASE TipSync
      BY <2>8, TipSyncStep DEF Abstract!Next
    <2> QED  BY <1>3, <2>1, <2>2, <2>3, <2>4, <2>5, <2>6, <2>7, <2>8 DEF TipStep
  <1> QED  BY <1>1, <1>2, <1>3 DEF Next

(* IInv is CacheInv, the conjunction of the properties the runs check. *)
LEMMA IInvImplies == IInv => TypeOK /\ CacheInv
  <1> SUFFICES ASSUME IInv PROVE TypeOK /\ CacheInv
    BY Zenon
  <1>1. FreshMeansAbsentBelow
    BY Zenon DEF IInv, SoundInv, Sound, FreshMeansAbsentBelow
  <1>2. CleanMeansSameBelow
    BY Zenon DEF IInv, SoundInv, Sound, CleanMeansSameBelow
  <1>3. SanityCheck
    BY DEF IInv, SoundInv, Sound, SanityCheck, SaneEntry
  <1> QED  BY <1>1, <1>2, <1>3 DEF IInv, CacheInv

(***************************************************************************)
(* Every state the cache stack reaches has meaningful flags at both levels *)
(* and no exception was thrown on the way, whatever sequence of reads,     *)
(* writes, evictions and flushes coins.cpp performed.                      *)
(***************************************************************************)
THEOREM CacheInvariant == Spec => [](TypeOK /\ CacheInv)
  <1>1. IInv /\ [Next]_vars => IInv'
    BY NextStep
  <1> QED  BY InitIInv, IInvImplies, <1>1, PTL DEF Spec

(* Variables of the cache stack always hold values of their types. *)
THEOREM TypeCorrect == Spec => []TypeOK
  BY CacheInvariant, PTL

(* A FRESH entry never hides an unspent coin of the level below. *)
THEOREM FreshCorrect == Spec => []FreshMeansAbsentBelow
  <1>1. TypeOK /\ CacheInv => FreshMeansAbsentBelow
    BY DEF CacheInv
  <1> QED  BY <1>1, CacheInvariant, PTL

(* An entry that is not DIRTY never differs from the level below. *)
THEOREM CleanCorrect == Spec => []CleanMeansSameBelow
  <1>1. TypeOK /\ CacheInv => CleanMeansSameBelow
    BY DEF CacheInv
  <1> QED  BY <1>1, CacheInvariant, PTL

(* The assertion of CCoinsViewCache::SanityCheck on entry flags holds. *)
THEOREM SanityCheckHolds == Spec => []SanityCheck
  <1>1. TypeOK /\ CacheInv => SanityCheck
    BY DEF CacheInv
  <1> QED  BY <1>1, CacheInvariant, PTL

(* No call of AddCoin or BatchWrite throws std::logic_error. *)
THEOREM NeverThrows == Spec => []NoLogicError
  <1>1. TypeOK /\ CacheInv => NoLogicError
    BY DEF CacheInv
  <1> QED  BY <1>1, CacheInvariant, PTL

(* The initial caches show the database at both levels. *)
LEMMA InitRefines == Init => Abstract!Init
  <1> SUFFICES ASSUME Init PROVE Abstract!Init
    OBVIOUS
  <1>1. \A q \in Outpoint : TipCoin(q) = dbCoins[q] /\ ViewCoin(q) = dbCoins[q]
    BY EmptyFacts DEF Init, TipCoin, ViewCoin, Shown
  <1>2. TipBest = dbBest /\ ViewBest = dbBest
    BY DEF Init, TipBest, ViewBest
  <1>3. [o \in Outpoint |-> TipCoin(o)] = dbCoins /\ [o \in Outpoint |-> ViewCoin(o)] = dbCoins
    BY <1>1 DEF Init
  <1>4. DBStore \in Abstract!Store
    BY DEF Init, DBStore, Abstract!Store, CoinOrSpent, HashOrNull
  <1> QED  BY <1>2, <1>3, <1>4 DEF Abstract!Init, DBStore, TipStore, ViewStore

(***************************************************************************)
(* The cache stack implements the plain stores of CoinsView: no caching,   *)
(* eviction or FRESH shortcut is ever visible to a reader, and every flush *)
(* moves the coins and the best block together.                            *)
(***************************************************************************)
THEOREM Refinement == Spec => ImplementsCoinsView
  <1>1. IInv /\ [Next]_vars => IInv' /\ [Abstract!Next]_(Abstract!absVars)
    BY NextStep
  <1> QED  BY InitIInv, InitRefines, <1>1, PTL DEF Spec, ImplementsCoinsView, Abstract!Spec
=============================================================================
