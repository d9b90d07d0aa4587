---------------------------- MODULE CoinsRecovery ----------------------------
(***************************************************************************)
(* Blocks are connected to and disconnected from the UTXO set in memory,   *)
(* the coins cache is flushed to the database in several batches, the node *)
(* may die between any two of them, and ReplayBlocks repairs the database  *)
(* at the next start (src/src/validation.cpp, src/src/txdb.cpp).           *)
(*                                                                         *)
(* A coin is the height of the block that created it: the outpoint         *)
(* determines the rest of it.  Which block to connect or disconnect next   *)
(* is decided by ActivateBestChain, and is any neighbour of the tip here.  *)
(* Clean cache entries are left out; CoinsCache shows they are invisible.  *)
(***************************************************************************)

EXTENDS CoinEntry, Naturals, Sequences, SequencesExt, TLC

CONSTANTS Outpoint,
          Block, Genesis, NoBlock,
          Parent,     \* pprev, for every block but Genesis
          Txs,        \* the transactions of a block, the coinbase first
          MaxCrashes  \* bound on the number of crashes

ASSUME TreeAssumption ==
    /\ Genesis \in Block
    /\ NoBlock \notin Block
    /\ Parent \in [Block \ {Genesis} -> Block]
    /\ Txs \in [Block -> Seq([ins: SUBSET Outpoint, outs: SUBSET Outpoint])]
    /\ Txs[Genesis] = <<>>
    /\ \A b \in Block \ {Genesis} : Len(Txs[b]) > 0 /\ Txs[b][1].ins = {}
    /\ MaxCrashes \in Nat

(* The branch of a block, above genesis and up to it (@@ has TLC tabulate  *)
(* it), its nHeight and its ancestors, itself included.                    *)
Up[b \in Block] == IF b = Genesis THEN <<>> ELSE Append(Up[Parent[b]], b)
Branch == Up @@ <<>>
Height == [b \in Block |-> Len(Branch[b])] @@ <<>>
Ancestors(b) == {Genesis} \cup ToSet(Branch[b])

(* pindexFork: LastCommonAncestor, or none when there was no old tip. *)
Fork(a, b) ==
    IF a = NoBlock THEN NoBlock
    ELSE CHOOSE f \in Ancestors(a) \cap Ancestors(b) :
             \A g \in Ancestors(a) \cap Ancestors(b) : Height[g] <= Height[f]

(* The blocks above the fork (above genesis when there is no fork) on the  *)
(* branch of b, lowest first.                                              *)
BranchAbove(fork, b) ==
    SubSeq(Branch[b], IF fork = NoBlock THEN 1 ELSE Height[fork] + 1, Len(Branch[b]))

VARIABLES db,         \* coins in the database
          dbBest,     \* DB_BEST_BLOCK or NoBlock
          heads,      \* DB_HEAD_BLOCKS: <<>> or <<new tip, old tip>>
          diskIndex,  \* blocks of the block index database, with their undo
          index,      \* block index in memory: the blocks with data
          undo,       \* undo data written for connected blocks
          cache,      \* DIRTY entries of the cache being used or flushed
          tip,        \* m_chain.Tip()
          pc,         \* what the node is doing
          flush,      \* the BatchWrite in progress: its target, old tip and
                      \* the outpoints that are not written yet
          crashes

vars == <<db, dbBest, heads, diskIndex, index, undo, cache, tip, pc, flush, crashes>>
dbVars == <<db, dbBest, heads>>

Empty == [o \in Outpoint |-> NoEntry]
NoCoins == [o \in Outpoint |-> Spent]
NoUndo == [b \in {} |-> NoCoins]
NoFlush == [new |-> NoBlock, old |-> NoBlock, todo |-> {}]


Init ==
    /\ db = NoCoins
    /\ dbBest = NoBlock
    /\ heads = <<>>
    /\ diskIndex = [index |-> {}, undo |-> NoUndo]
    /\ index = {Genesis}
    /\ undo = NoUndo
    /\ cache = Empty
    /\ tip = NoBlock
    /\ pc = "running"
    /\ flush = NoFlush
    /\ crashes = 0

-----------------------------------------------------------------------------
(* Changing coins.  A work record holds the entries of a cache above the   *)
(* plain coins base; ok stays TRUE as long as no assertion or contract     *)
(* was broken and no mismatch was met; undo collects the coins spent.  The *)
(* outpoints of one transaction are distinct, so it is applied at once.    *)

Work(base) == [entries |-> Empty, base |-> base, ok |-> TRUE, undo |-> NoCoins]
Look(w, o) == Shown(w.entries[o], w.base[o])

(* SpendCoin returned true: there was an entry, or an unspent coin below. *)
Found(w, o) == FetchCoin(w.entries[o], w.base[o]) # NoEntry

(* A transaction: the outpoints in S are spent, each o in T gets coin[o].  *)
(* AddCoin's contract is that only possible_overwrite[o] may replace an    *)
(* unspent coin.                                                           *)
Change(w, S, T, coin, possible_overwrite) ==
    [w EXCEPT !.entries = [o \in Outpoint |->
         IF o \in S THEN SpendCoin(@[o], w.base[o])
         ELSE IF o \in T THEN AddCoin(@[o], coin[o], possible_overwrite[o])
         ELSE @[o]],
              !.ok = @ /\ \A o \in T : possible_overwrite[o] \/ Look(w, o) = Spent]

Unspent(w) == [o \in Outpoint |-> Look(w, o) # Spent]
Always(v) == [o \in Outpoint |-> v]

(* UpdateCoins: the inputs are spent, the spent coins go to the undo data, *)
(* the outputs are added; only a coinbase may overwrite.                   *)
UpdateCoins(w, tx, coinbase, height) ==
    [Change(w, tx.ins, tx.outs, Always(height), Always(coinbase)) EXCEPT
        !.ok = @ /\ \A o \in tx.ins : Found(w, o),
        !.undo = [o \in tx.ins |-> Look(w, o)] @@ @]

(* RollforwardBlock: like UpdateCoins, when the block may have been        *)
(* applied in part: every addition may be an overwrite.                    *)
RollforwardTx(w, tx, height) ==
    Change(w, tx.ins, tx.outs, Always(height), Unspent(w))

(* One transaction of DisconnectBlock: its outputs are spent and have to   *)
(* be the ones the block created; its inputs are restored by               *)
(* ApplyTxInUndo, which overwrites what HaveCoin finds, uncleanly.         *)
DisconnectTx(w, tx, blockUndo, height) ==
    [Change(w, tx.outs, tx.ins, blockUndo, Unspent(w)) EXCEPT
        !.ok = /\ @
               /\ \A o \in tx.outs : Found(w, o) /\ Look(w, o) = height
               /\ \A o \in tx.ins : Look(w, o) = Spent]

(* Op(w, x) for every x of the sequence s in turn.  The sets of one        *)
(* element make TLC evaluate every intermediate result once.               *)
InTurn(Op(_, _), w, s) ==
    LET after[i \in 0..Len(s)] == IF i = 0 THEN {w} ELSE {Op(v, s[i]) : v \in after[i - 1]}
    IN  CHOOSE v \in after[Len(s)] : TRUE

ConnectBlock(w, b) == InTurn(LAMBDA v, tx : UpdateCoins(v, tx, tx.ins = {}, Height[b]), w, Txs[b])

RollforwardBlock(w, b) == InTurn(LAMBDA v, tx : RollforwardTx(v, tx, Height[b]), w, Txs[b])

(* Mutant: transactions are undone first to last. *)
DisconnectBlockForwards(w, b, blockUndo) ==
    InTurn(LAMBDA v, tx : DisconnectTx(v, tx, blockUndo, Height[b]), w, Txs[b])

(* A transaction without inputs is the coinbase; Genesis has no effect.    *)
(* Transactions are undone last to first. *)
DisconnectBlock(w, b, blockUndo) ==
    InTurn(LAMBDA v, tx : DisconnectTx(v, tx, blockUndo, Height[b]), w, Reverse(Txs[b]))

-----------------------------------------------------------------------------
(* The running node. *)

TipCoins == [o \in Outpoint |-> Shown(cache[o], db[o])]

(* view.Flush() into CoinsTip(). *)
FlushView(w) == [o \in Outpoint |-> BatchWrite(cache[o], w.entries[o])]

(* A block arrives and its data is stored. *)
AcceptBlock(b) ==
    /\ pc = "running"
    /\ b \notin index
    /\ b # Genesis => Parent[b] \in index
    /\ index' = index \cup {b}
    /\ UNCHANGED <<dbVars, diskIndex, undo, cache, tip, pc, flush, crashes>>

(* ConnectTip.  Undo data is written once; genesis only sets the tip. *)
ConnectTip(b) ==
    /\ pc = "running"
    /\ b \in index
    /\ IF b = Genesis THEN tip = NoBlock ELSE tip = Parent[b]
    /\ LET w == ConnectBlock(Work(TipCoins), b)
       IN  /\ w.ok
           /\ cache' = FlushView(w)
           /\ undo' = IF b = Genesis \/ b \in DOMAIN undo THEN undo
                      ELSE [x \in DOMAIN undo \cup {b} |-> IF x = b THEN w.undo ELSE undo[x]]
    /\ tip' = b
    /\ UNCHANGED <<dbVars, diskIndex, index, pc, flush, crashes>>

(* DisconnectTip gives up on anything but DISCONNECT_OK. *)
DisconnectTip ==
    /\ pc = "running"
    /\ tip \notin {NoBlock, Genesis}
    /\ LET w == DisconnectBlock(Work(TipCoins), tip, undo[tip])
       IN  /\ w.ok
           /\ cache' = FlushView(w)
    /\ tip' = Parent[tip]
    /\ UNCHANGED <<dbVars, diskIndex, index, undo, pc, flush, crashes>>

-----------------------------------------------------------------------------
(* Writing to disk. *)

(* FlushStateToDisk when only the block index is due. *)
WriteBlockIndex ==
    /\ pc = "running"
    /\ diskIndex' = [index |-> index, undo |-> undo]
    /\ UNCHANGED <<dbVars, index, undo, cache, tip, pc, flush, crashes>>

(* The head of CCoinsViewDB::BatchWrite: the tip it starts from is the one *)
(* of an interrupted flush when there is one.                              *)
OldTip == IF dbBest = NoBlock /\ heads # <<>> THEN heads[2] ELSE dbBest

Dirty(c) == {o \in Outpoint : c[o] # NoEntry /\ c[o].dirty}

(* Mutant: the coins are flushed without the block index. *)
BeginFlushCoinsOnly ==
    /\ pc = "running"
    /\ tip # NoBlock
    /\ pc' = "flushing"
    /\ flush' = [new |-> tip, old |-> OldTip, todo |-> Dirty(cache)]
    /\ UNCHANGED <<dbVars, diskIndex, index, undo, cache, tip, crashes>>

(* A full FlushStateToDisk: the block index is on disk before the coins    *)
(* that refer to it begin to be.                                           *)
BeginFlush ==
    /\ pc = "running"
    /\ tip # NoBlock
    /\ diskIndex' = [index |-> index, undo |-> undo]
    /\ pc' = "flushing"
    /\ flush' = [new |-> tip, old |-> OldTip, todo |-> Dirty(cache)]
    /\ UNCHANGED <<dbVars, index, undo, cache, tip, crashes>>

Written(S) == [o \in Outpoint |-> IF o \in S THEN DBWrite(db[o], cache[o]) ELSE db[o]]

(* Mutant: the batch does not mark the transition. *)
PartialBatchUnmarked(S) ==
    /\ pc \in {"flushing", "replaying"}
    /\ S # {}
    /\ S \subseteq flush.todo
    /\ db' = Written(S)
    /\ flush' = [flush EXCEPT !.todo = @ \ S]
    /\ UNCHANGED <<dbBest, heads, diskIndex, index, undo, cache, tip, pc, crashes>>

(* A partial batch; the first one marks the database as in transition. *)
PartialBatch(S) ==
    /\ pc \in {"flushing", "replaying"}
    /\ S # {}
    /\ S \subseteq flush.todo
    /\ db' = Written(S)
    /\ dbBest' = NoBlock
    /\ heads' = <<flush.new, flush.old>>
    /\ flush' = [flush EXCEPT !.todo = @ \ S]
    /\ UNCHANGED <<diskIndex, index, undo, cache, tip, pc, crashes>>

(* Mutant: a replay that is flushed does not go on to LoadChainTip. *)
FinalBatchKeepsReplaying ==
    /\ pc \in {"flushing", "replaying"}
    /\ db' = Written(flush.todo)
    /\ dbBest' = flush.new
    /\ heads' = <<>>
    /\ UNCHANGED flush
    /\ cache' = Empty
    /\ tip' = flush.new
    /\ pc' = IF pc = "replaying" THEN pc ELSE "running"
    /\ UNCHANGED <<diskIndex, index, undo, crashes>>

(* The last batch.  A replay's cache goes away and LoadChainTip follows. *)
FinalBatch ==
    /\ pc \in {"flushing", "replaying"}
    /\ db' = Written(flush.todo)
    /\ dbBest' = flush.new
    /\ heads' = <<>>
    /\ flush' = NoFlush
    /\ cache' = Empty
    /\ tip' = flush.new
    /\ pc' = "running"
    /\ UNCHANGED <<diskIndex, index, undo, crashes>>

-----------------------------------------------------------------------------
(* Crash and restart. *)

Crash ==
    /\ pc \in {"running", "flushing", "replaying"}
    /\ crashes < MaxCrashes
    /\ crashes' = crashes + 1
    /\ pc' = "down"
    /\ index' = diskIndex.index
    /\ undo' = diskIndex.undo
    /\ cache' = Empty
    /\ tip' = NoBlock
    /\ flush' = NoFlush
    /\ UNCHANGED <<dbVars, diskIndex>>

(* The branches ReplayBlocks walks; there is no old one before the first   *)
(* flush.                                                                  *)
OldBranch ==
    IF heads[2] = NoBlock THEN <<>>
    ELSE BranchAbove(Fork(heads[2], heads[1]), heads[2])
NewBranch == BranchAbove(Fork(heads[2], heads[1]), heads[1])

(* ReplayBlocks gives up: a head is not in the block index, or a block to  *)
(* roll back has no undo data.                                             *)
ReplayFails ==
    \/ heads[1] \notin index
    \/ heads[2] # NoBlock /\ heads[2] \notin index
    \/ ~(ToSet(OldBranch) \subseteq DOMAIN undo)

(* Mutant: the old branch is not rolled back. *)
ReplayedForwardOnly == InTurn(RollforwardBlock, Work(db), NewBranch).entries

Replayed ==
    LET Rollback(w, b) == DisconnectBlock(w, b, undo[b])
    IN  InTurn(RollforwardBlock, InTurn(Rollback, Work(db), Reverse(OldBranch)), NewBranch).entries

(* A consistent database: the tip is its best block.  An empty one starts  *)
(* from genesis again (LoadGenesisBlock).                                  *)
LoadChainTip ==
    IF dbBest = NoBlock \/ dbBest \in index
    THEN /\ pc' = "running"
         /\ tip' = dbBest
         /\ index' = index \cup {Genesis}
    ELSE pc' = "failed" /\ UNCHANGED <<tip, index>>

(* An interrupted flush: roll back the old branch, roll forward the new    *)
(* one, in a cache above the database, and flush that.                     *)
ReplayBlocks ==
    IF ReplayFails THEN pc' = "failed" /\ UNCHANGED <<cache, flush>>
    ELSE /\ pc' = "replaying"
         /\ \E entries \in {Replayed} :
                /\ cache' = entries
                /\ flush' = [new |-> heads[1], old |-> OldTip, todo |-> Dirty(entries)]

RestartClean ==
    /\ pc = "down"
    /\ heads = <<>>
    /\ LoadChainTip
    /\ UNCHANGED <<dbVars, diskIndex, undo, cache, flush, crashes>>

RestartReplay ==
    /\ pc = "down"
    /\ heads # <<>>
    /\ ReplayBlocks
    /\ UNCHANGED <<dbVars, diskIndex, index, undo, tip, crashes>>

-----------------------------------------------------------------------------
Next ==
    \/ \E b \in Block : AcceptBlock(b) \/ ConnectTip(b)
    \/ DisconnectTip
    \/ WriteBlockIndex
    \/ BeginFlush
    \/ \E S \in SUBSET Outpoint : PartialBatch(S)
    \/ FinalBatch
    \/ Crash
    \/ RestartClean
    \/ RestartReplay

(* A node that is started runs its startup and its flushes to the end.     *)
Fairness ==
    /\ WF_vars(FinalBatch)
    /\ WF_vars(RestartClean)
    /\ WF_vars(RestartReplay)

SafetySpec == Init /\ [][Next]_vars
Spec == SafetySpec /\ Fairness

-----------------------------------------------------------------------------
(* Properties. *)

(* The UTXO set of a chain by definition: every transaction removes its    *)
(* inputs and adds its outputs at the block's height.                      *)
TxEffect(coins, tx, height) ==
    [o \in tx.outs |-> height] @@ [o \in tx.ins |-> Spent] @@ coins
CoinsAt[b \in Block] ==
    IF b = Genesis THEN NoCoins
    ELSE FoldLeft(LAMBDA c, tx : TxEffect(c, tx, Height[b]), CoinsAt[Parent[b]], Txs[b])
UTXO == CoinsAt @@ <<>>
UTXOAt(b) == IF b = NoBlock THEN NoCoins ELSE UTXO[b]

(***************************************************************************)
(* Whenever the node runs, after whatever reorganisations, flushes,        *)
(* crashes and replays, the coins it sees are exactly the UTXO set of its  *)
(* tip.                                                                    *)
(***************************************************************************)
CoinsMatchTip == pc \in {"running", "flushing"} => TipCoins = UTXOAt(tip)

(***************************************************************************)
(* A database that names a best block holds exactly that block's UTXO set. *)
(* One in transition holds for every outpoint the old or the new tip's     *)
(* coin, never a third one: what makes the replay's idempotent rollback    *)
(* and rollforward sufficient.                                             *)
(***************************************************************************)
DatabaseTruthful ==
    IF heads = <<>> THEN db = UTXOAt(dbBest)
    ELSE \A o \in Outpoint : db[o] \in {UTXOAt(heads[1])[o], UTXOAt(heads[2])[o]}

(***************************************************************************)
(* The order of writes in FlushStateToDisk (block index before coins)      *)
(* makes every start after a crash succeed: no head is unknown and no      *)
(* block to roll back lacks undo data.                                     *)
(***************************************************************************)
RecoveryNeverFails == pc # "failed"

(***************************************************************************)
(* The running node never meets an unclean disconnect, never trips         *)
(* UpdateCoins' assertion and never breaks the contract of AddCoin that    *)
(* CoinsCache relies on, on any block it can connect or disconnect.        *)
(***************************************************************************)
StepsAreClean ==
    pc = "running" =>
        /\ \A b \in index : (b # Genesis /\ tip = Parent[b]) => ConnectBlock(Work(TipCoins), b).ok
        /\ tip \notin {NoBlock, Genesis} =>
               /\ tip \in DOMAIN undo
               /\ DisconnectBlock(Work(TipCoins), tip, undo[tip]).ok

(* As crashes stop, the node is up again sooner or later. *)
EventuallyRuns == []<>(pc \in {"running", "flushing"})
=============================================================================
