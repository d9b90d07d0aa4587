------------------------------ MODULE CoinEntry ------------------------------
(***************************************************************************)
(* One outpoint of a CCoinsViewCache (src/src/coins.h, src/src/coins.cpp): *)
(* the entry the cache holds for it, or NoEntry, and what every operation  *)
(* of the cache does to it.  All operations of the class treat outpoints   *)
(* independently of each other, so a cache is a function from outpoints to *)
(* these entries and its operations are these operators applied pointwise. *)
(*                                                                         *)
(* A Coin is an unspent output (CTxOut, height, coinbase flag); Spent is   *)
(* the nulled coin for which Coin::IsSpent() holds.                        *)
(***************************************************************************)

CONSTANTS Coin, Spent, NoEntry

ASSUME CoinAssumption == Spent \notin Coin

CoinOrSpent == Coin \cup {Spent}

(* CCoinsCacheEntry: the coin and the two bits of `flags`. *)
Entry == [coin: CoinOrSpent, dirty: BOOLEAN, fresh: BOOLEAN]

(* NoEntry stands for "cacheCoins.find(outpoint) == cacheCoins.end()". *)
ASSUME NoEntryAssumption == NoEntry \notin Entry

Slot == Entry \cup {NoEntry}

NewEntry(c, d, f) == [coin |-> c, dirty |-> d, fresh |-> f]

(* What a reader of the cache sees at this outpoint when the backing view  *)
(* shows base.                                                             *)
Shown(e, base) == IF e = NoEntry THEN base ELSE e.coin

(***************************************************************************)
(* FetchCoin.  GetCoin of every base view answers true for unspent coins   *)
(* only, so a miss on a spent coin leaves no entry and the branch that     *)
(* would mark a fetched spent coin FRESH is never taken.                   *)
(***************************************************************************)
FetchCoin(e, base) ==
    IF e # NoEntry \/ base = Spent THEN e ELSE NewEntry(base, FALSE, FALSE)

(* AddCoin throws logic_error when the caller promised a new coin and an   *)
(* unspent one is cached.                                                  *)
AddCoinThrows(e, possible_overwrite) ==
    ~possible_overwrite /\ e # NoEntry /\ e.coin # Spent

(* Mutants: AddCoin without its test on DIRTY, and AddCoin that ignores    *)
(* possible_overwrite when it chooses FRESH.                               *)
AddCoinAlwaysFresh(e, c, possible_overwrite) ==
    NewEntry(c, TRUE, ~possible_overwrite \/ (e # NoEntry /\ e.fresh))
AddCoinIgnoresOverwrite(e, c, possible_overwrite) ==
    NewEntry(c, TRUE, e = NoEntry \/ ~e.dirty \/ e.fresh)

(***************************************************************************)
(* AddCoin: the flags are or-ed into the entry.  A coin that replaces a    *)
(* spent-but-DIRTY entry is not FRESH: its spentness has not reached the   *)
(* parent yet.                                                             *)
(***************************************************************************)
AddCoin(e, c, possible_overwrite) ==
    LET fresh == ~possible_overwrite /\ (e = NoEntry \/ ~e.dirty)
    IN  NewEntry(c, TRUE, fresh \/ (e # NoEntry /\ e.fresh))

(* SpendCoin, after its FetchCoin(e, base). *)
SpendCoin(e, base) ==
    LET it == FetchCoin(e, base)
    IN  IF it = NoEntry \/ it.fresh THEN NoEntry
        ELSE NewEntry(Spent, TRUE, FALSE)

(* EmplaceCoinInternalDANGER: unordered_map::emplace keeps an existing     *)
(* entry.                                                                  *)
EmplaceCoin(e, c) == IF e = NoEntry THEN NewEntry(c, TRUE, FALSE) ELSE e

(* Uncache drops an entry with no flags. *)
Uncache(e) == IF e # NoEntry /\ ~e.dirty /\ ~e.fresh THEN NoEntry ELSE e

(* BatchWrite throws logic_error when a FRESH child entry meets an unspent *)
(* entry of the parent.                                                    *)
BatchWriteThrows(parent, child) ==
    /\ child # NoEntry
    /\ child.dirty
    /\ parent # NoEntry
    /\ child.fresh
    /\ parent.coin # Spent

(* Mutant: overwriting the parent's entry does not make it DIRTY. *)
BatchWriteKeepsClean(parent, child) ==
    IF child = NoEntry \/ ~child.dirty THEN parent
    ELSE IF parent = NoEntry
         THEN IF child.fresh /\ child.coin = Spent THEN NoEntry
              ELSE NewEntry(child.coin, TRUE, child.fresh)
         ELSE IF parent.fresh /\ child.coin = Spent THEN NoEntry
              ELSE NewEntry(child.coin, parent.dirty, parent.fresh)

(***************************************************************************)
(* BatchWrite into a parent cache: clean entries are ignored; an entry the *)
(* parent lacks is copied unless it is FRESH and spent; an entry the       *)
(* parent has is overwritten, or erased when the parent's is FRESH and the *)
(* child spent it.  Overwriting does not copy FRESH.                       *)
(***************************************************************************)
BatchWrite(parent, child) ==
    IF child = NoEntry \/ ~child.dirty THEN parent
    ELSE IF parent = NoEntry
         THEN IF child.fresh /\ child.coin = Spent THEN NoEntry
              ELSE NewEntry(child.coin, TRUE, child.fresh)
         ELSE IF parent.fresh /\ child.coin = Spent THEN NoEntry
              ELSE NewEntry(child.coin, TRUE, parent.fresh)

(* BatchWrite into the database: DIRTY entries are written or, when spent, *)
(* erased.                                                                 *)
DBWrite(stored, e) == IF e = NoEntry \/ ~e.dirty THEN stored ELSE e.coin

(* Sync keeps the unspent entries and clears their flags. *)
SyncEntry(e) ==
    IF e = NoEntry \/ e.coin = Spent THEN NoEntry
    ELSE NewEntry(e.coin, FALSE, FALSE)
=============================================================================
