----------------------------- MODULE BaseIndex -----------------------------
(***************************************************************************)
(* An optional index of the chain (src/src/index/base.cpp) with the hooks  *)
(* of the most demanding one, CoinStatsIndex                               *)
(* (src/src/index/coinstatsindex.cpp): a database of its own, next to the  *)
(* one of the chainstate, filled first by a thread that walks the chain    *)
(* and then by the callbacks of the validation interface, which arrive one *)
(* at a time and in order (SerialQueue) but late.                          *)
(*                                                                         *)
(* The statistics of a block are sums over the blocks of its chain (MuHash *)
(* is one as well), so a value is the number of times every block has been *)
(* counted.  Which chain is the best is the business of ChainSelection:    *)
(* here the tip moves freely.  Blocks and undo data can be read; a write   *)
(* to the index database survives a crash of the process.                  *)
(***************************************************************************)
EXTENDS Integers, Sequences

CONSTANTS Block, Genesis, None,
          Chain,        \* the blocks from Genesis to every block
          MayFail,      \* the writes to the index database that may fail
          MaxMoves,     \* bound: the changes of the tip
          MaxFlushes,   \* bound: the flushes of the chainstate
          MaxStops      \* bound: crashes and shutdowns

ASSUME TreeAssumption ==
    /\ None \notin Block /\ Genesis \in Block /\ Chain[Genesis] = <<Genesis>>
    /\ \A b \in Block :
           /\ Chain[b] \in Seq(Block) /\ Len(Chain[b]) > 0
           /\ Chain[b][1] = Genesis /\ Chain[b][Len(Chain[b])] = b
           /\ \A i \in 1..Len(Chain[b]) : Chain[Chain[b][i]] = SubSeq(Chain[b], 1, i)

ASSUME FailureAssumption == MayFail \subseteq {"commit", "rewind", "append"}

VARIABLES
    (* the node *)
    phase,        \* "up", "down", ended by "assert" or "null", or how Init fails
    tip,          \* m_chain.Tip()
    known,        \* the block index
    flushed,      \* the tip and the block index on disk
    queue,        \* the callbacks of the validation interface that wait
    fatal,        \* FatalErrorf was called
    interrupt,    \* m_interrupt
    (* the index in memory *)
    best,         \* m_best_block_index
    synced,       \* m_synced
    stats,        \* m_muhash and the totals
    sync,         \* ThreadSync: pc and pindex
    callback,     \* the callback that is running: pc and pindex
    reader,       \* a caller of BlockUntilSyncedToCurrentChain
    (* the index database *)
    locator,      \* DB_BEST_BLOCK, its first entry
    muhash,       \* DB_MUHASH
    byHeight,     \* DBHeightKey
    byHash,       \* DBHashKey
    moves, flushes, stops

chainstate == <<tip, known, flushed, queue>>
memory == <<best, synced, stats>>
database == <<locator, muhash, byHeight, byHash>>
counters == <<moves, flushes, stops>>
vars == <<phase, chainstate, fatal, interrupt, memory, sync, callback, reader, database, counters>>

-----------------------------------------------------------------------------
(* CBlockIndex and CChain.  The length of a chain stands for the height.   *)
Height(b) == Len(Chain[b])
Parent(b) == IF Height(b) = 1 THEN None ELSE Chain[b][Height(b) - 1]
IsAncestor(a, b) == Height(a) <= Height(b) /\ Chain[b][Height(a)] = a
ChainOf(b) == IF b = None THEN <<>> ELSE Chain[b]
BlocksOf(b) == {ChainOf(b)[i] : i \in 1..Len(ChainOf(b))}

(* FindFork: how many blocks the chains of a and b have in common. *)
ForkHeight(a, b) ==
    LET Common == {i \in 1..Len(ChainOf(a)) : i <= Len(ChainOf(b)) /\ ChainOf(a)[i] = ChainOf(b)[i]}
    IN  CHOOSE n \in {0} \cup Common : \A i \in Common : i <= n

(* The statistics. *)
Zero == [b \in Block |-> 0]
Sum(b) == [x \in Block |-> IF x \in BlocksOf(b) THEN 1 ELSE 0]

NoEntry == [block |-> None, value |-> Zero]
NoValue == [found |-> FALSE, value |-> Zero]
Found(v) == [found |-> TRUE, value |-> v]

Heights == {Height(b) : b \in Block}

(* LookUpOne. *)
LookUp(b) ==
    LET e == byHeight[Height(b)]
    IN  IF e.block = None THEN NoValue ELSE IF e.block = b THEN Found(e.value) ELSE byHash[b]

Connected(b) == [type |-> "BlockConnected", block |-> b]
Flushed(b) == [type |-> "ChainStateFlushed", block |-> b]

Init ==
    /\ phase = "down" /\ tip = None /\ known = {} /\ queue = <<>>
    /\ \E b \in Block \cup {None} :     \* the index may be enabled later
           flushed = [tip |-> b, known |-> BlocksOf(b)]
    /\ fatal = FALSE /\ interrupt = FALSE
    /\ best = None /\ synced = FALSE /\ stats = Zero
    /\ sync = [pc |-> "off", pindex |-> None]
    /\ callback = [pc |-> "idle", pindex |-> None]
    /\ reader = [pc |-> "ready", tip |-> None]
    /\ locator = None /\ muhash = Zero
    /\ byHeight = [h \in Heights |-> NoEntry] /\ byHash = [b \in Block |-> NoValue]
    /\ moves = 0 /\ flushes = 0 /\ stops = 0

-----------------------------------------------------------------------------
(* The chainstate, under cs_main. *)

Unlocked == phase = "up" /\ sync.pc # "commit"

(* What ConnectTip and DisconnectTip may flush on the way from tip to b:   *)
(* the coins are those of the block they come to, the locator is still of  *)
(* the block they come from.                                               *)
FlushPoints(b) ==
    LET n == ForkHeight(tip, b)
        Step(from, to) == [tip |-> to, locator |-> from]
    IN  {Step(Parent(x), x) : x \in {Chain[b][i] : i \in (n + 1..Height(b)) \ {1}}}
        \cup {Step(x, Parent(x)) : x \in {ChainOf(tip)[i] : i \in n + 1..Len(ChainOf(tip))}}

(* ActivateBestChain, or InvalidateBlock when b is an ancestor of the tip. *)
(* The blocks are signalled at the end, after a flush on the way.          *)
Activate(b) ==
    LET n == ForkHeight(tip, b)
        signals == [i \in 1..Height(b) - n |-> Connected(Chain[b][n + i])]
    IN  /\ Unlocked /\ b # tip /\ moves < MaxMoves
        /\ tip' = b
        /\ known' = known \cup BlocksOf(b)
        /\ \/ /\ queue' = queue \o signals
              /\ UNCHANGED <<flushed, flushes>>
           \/ /\ flushes < MaxFlushes
              /\ \E f \in FlushPoints(b) :
                     /\ flushed' = [tip |-> f.tip, known |-> known']
                     /\ queue' = Append(queue, Flushed(f.locator)) \o signals
              /\ flushes' = flushes + 1
        /\ moves' = moves + 1
        /\ UNCHANGED <<phase, fatal, interrupt, memory, sync, callback, reader, database, stops>>

(* FlushStateToDisk; Shutdown forces one. *)
Flush ==
    /\ Unlocked /\ tip # None
    /\ flushes < MaxFlushes \/ (interrupt /\ flushed.tip # tip)
    /\ flushed' = [tip |-> tip, known |-> known]
    /\ queue' = Append(queue, Flushed(tip))
    /\ flushes' = IF flushes < MaxFlushes THEN flushes + 1 ELSE flushes
    /\ UNCHANGED <<phase, tip, known, fatal, interrupt, memory, sync, callback, reader, database, moves, stops>>

-----------------------------------------------------------------------------
(* Steps of the index: they leave the chainstate alone. *)

FatalErrorf == fatal' = TRUE

(* Commit with b as m_best_block_index and v as the statistics. *)
Committed(b, v) == locator' = b /\ muhash' = v /\ UNCHANGED <<byHeight, byHash>>

(* A Commit whose errors are not handled. *)
Commit(b, v) ==
    \/ b # None /\ Committed(b, v)
    \/ (b = None \/ "commit" \in MayFail) /\ UNCHANGED database

(* CoinStatsIndex::CustomAppend.  It reads the entry of the parent and     *)
(* fails if that is missing.                                               *)
CanAppend(b) == b # Genesis => LookUp(Parent(b)).found

CustomAppend(b) ==
    LET v == [stats EXCEPT ![b] = @ + 1]
    IN  /\ CanAppend(b)
        /\ stats' = v
        /\ byHeight' = [byHeight EXCEPT ![Height(b)] = [block |-> b, value |-> v]]
        /\ UNCHANGED <<locator, muhash, byHash>>

(* The sums are changed before the entry is written. *)
AppendFails(b) ==
    /\ \/ ~CanAppend(b) /\ UNCHANGED stats
       \/ CanAppend(b) /\ "append" \in MayFail /\ stats' = [stats EXCEPT ![b] = @ + 1]
    /\ FatalErrorf
    /\ UNCHANGED database

(* CoinStatsIndex::CustomRewind: the entries from new up to current are    *)
(* copied to the hash index, and the blocks are reversed.                  *)
Reversed(current, n) ==
    [x \in Block |-> IF \E i \in n + 1..Height(current) : Chain[current][i] = x
                     THEN stats[x] - 1 ELSE stats[x]]

(* Mutant: the entries that will be overwritten are not kept. *)
CopyNothing(n, m) == UNCHANGED byHash

CopyHeightIndexToHashIndex(n, m) ==
    byHash' = [b \in Block |->
        IF Height(b) \in n..m /\ byHeight[Height(b)].block = b
        THEN Found(byHeight[Height(b)].value) ELSE byHash[b]]

(* ReverseBlock reads what is stored for the parent, and asserts that the  *)
(* sum is the same once the block is reversed.                             *)
Mismatch(current, new) ==
    {i \in Height(new)..Height(current) - 1 :
        LookUp(Chain[current][i]) # Found(Reversed(current, i))}
ReverseStops(current, new, i) ==
    i \in Mismatch(current, new) /\ \A j \in Mismatch(current, new) : j <= i

(* BaseIndex::Rewind.  First its assertions and the copy, which fails if   *)
(* an entry is missing ...                                                 *)
RewindAsserts(current, new) == current = best /\ IsAncestor(new, current)
RewindCopies(current, new) ==
    /\ \A h \in Height(new)..Height(current) : byHeight[h].block # None
    /\ CopyHeightIndexToHashIndex(Height(new), Height(current))
    /\ UNCHANGED <<phase, fatal, memory, locator, muhash, byHeight>>
CopyFails(current, new) ==
    /\ "rewind" \in MayFail \/ \E h \in Height(new)..Height(current) : byHeight[h].block = None
    /\ FatalErrorf
    /\ UNCHANGED <<phase, memory, database>>

(* ... then the blocks are reversed and the new state is committed.        *)
RewindCommits(current, new) ==
    /\ Mismatch(current, new) = {}
    /\ stats' = Reversed(current, Height(new))
    /\ best' = new
    /\ Committed(new, stats')
    /\ UNCHANGED <<phase, fatal, synced>>
CommitFails(current, new) ==
    /\ "rewind" \in MayFail /\ Mismatch(current, new) = {}
    /\ stats' = Reversed(current, Height(new))
    /\ FatalErrorf
    /\ UNCHANGED <<phase, best, synced, database>>
ReverseFails(current, new) ==
    /\ \E i \in Mismatch(current, new) :
           /\ ReverseStops(current, new, i) /\ ~LookUp(Chain[current][i]).found
           /\ stats' = Reversed(current, i + 1)
    /\ FatalErrorf
    /\ UNCHANGED <<phase, best, synced, database>>

(* The process ends: an assertion fails, or a null pointer is used. *)
Aborts(why) ==
    /\ phase' = why
    /\ UNCHANGED <<fatal, memory, sync, callback, database>>
ReverseAsserts(current, new) ==
    /\ \E i \in Mismatch(current, new) :
           ReverseStops(current, new, i) /\ LookUp(Chain[current][i]).found
    /\ Aborts("assert")

-----------------------------------------------------------------------------
(* ThreadSync. *)

At(pc, b) == [pc |-> pc, pindex |-> b]
Common == ForkHeight(sync.pindex, tip)

SyncStep(pc) ==
    /\ phase = "up" /\ sync.pc = pc
    /\ UNCHANGED <<chainstate, interrupt, callback, reader, counters>>

(* StartBackgroundSync, once ImportBlocks has activated the best chain. *)
SyncStart ==
    /\ SyncStep("off") /\ tip # None
    /\ sync' = At(IF synced THEN "done" ELSE "loop", best)
    /\ UNCHANGED <<phase, fatal, memory, database>>

SyncInterrupted ==
    /\ SyncStep("loop") /\ interrupt
    /\ best' = sync.pindex
    /\ Commit(sync.pindex, stats)
    /\ sync' = At("done", None)
    /\ UNCHANGED <<phase, fatal, synced, stats>>

(* Mutant: m_synced is not set. *)
SyncFinishedOnly ==
    /\ SyncStep("loop") /\ ~interrupt /\ Common = Height(tip)
    /\ best' = sync.pindex
    /\ Commit(sync.pindex, stats)
    /\ sync' = At("done", None)
    /\ UNCHANGED <<phase, fatal, synced, stats>>

SyncFinished ==
    /\ SyncStep("loop") /\ ~interrupt /\ Common = Height(tip)
    /\ best' = sync.pindex
    /\ Commit(sync.pindex, stats)
    /\ synced' = TRUE
    /\ sync' = At("done", None)
    /\ UNCHANGED <<phase, fatal, stats>>

SyncNext ==
    /\ SyncStep("loop") /\ ~interrupt /\ Common < Height(tip)
    /\ Common = Len(ChainOf(sync.pindex))
    /\ sync' = At("write", Chain[tip][Common + 1])
    /\ UNCHANGED <<phase, fatal, memory, database>>

(* The chain has been reorganised under the thread. *)
SyncRewind ==
    LET new == Chain[tip][Common] IN
    /\ SyncStep("loop") /\ ~interrupt /\ Common < Height(tip)
    /\ Common < Len(ChainOf(sync.pindex))
    /\ IF ~RewindAsserts(sync.pindex, new) THEN Aborts("assert")
       ELSE \/ RewindCopies(sync.pindex, new) /\ sync' = At("commit", sync.pindex)
            \/ CopyFails(sync.pindex, new) /\ sync' = At("done", None)

SyncRewound ==
    LET new == Chain[tip][Common] IN
    /\ SyncStep("commit")
    /\ \/ RewindCommits(sync.pindex, new) /\ sync' = At("write", Chain[tip][Common + 1])
       \/ (CommitFails(sync.pindex, new) \/ ReverseFails(sync.pindex, new)) /\ sync' = At("done", None)
       \/ ReverseAsserts(sync.pindex, new)

(* Mutant: the block that is about to be indexed is committed. *)
SyncWriteEarly ==
    /\ SyncStep("write")
    /\ best' = sync.pindex
    /\ Commit(sync.pindex, stats)
    /\ sync' = At("append", sync.pindex)
    /\ UNCHANGED <<phase, fatal, synced, stats>>

(* Every SYNC_LOCATOR_WRITE_INTERVAL. *)
SyncWrite ==
    /\ SyncStep("write")
    /\ best' = Parent(sync.pindex)
    /\ Commit(Parent(sync.pindex), stats)
    /\ sync' = At("append", sync.pindex)
    /\ UNCHANGED <<phase, fatal, synced, stats>>

SyncAppend ==
    /\ SyncStep("write") \/ SyncStep("append")
    /\ \/ CustomAppend(sync.pindex) /\ sync' = At("loop", sync.pindex) /\ UNCHANGED fatal
       \/ AppendFails(sync.pindex) /\ sync' = At("done", None)
    /\ UNCHANGED <<phase, best, synced>>

-----------------------------------------------------------------------------
(* The callbacks. *)

CallbackStep(pc) ==
    /\ phase = "up" /\ callback.pc = pc
    /\ UNCHANGED <<tip, known, flushed, interrupt, sync, counters>>

Take(type) ==
    /\ CallbackStep("idle")
    /\ queue # <<>> /\ Head(queue).type = type
    /\ queue' = Tail(queue)

Ignore == callback' = callback /\ UNCHANGED <<phase, fatal, memory, database>>

(* BlockConnected up to Rewind or CustomAppend.  The block before genesis  *)
(* is the null pointer for GetAncestor and for pprev.                      *)
BlockConnected ==
    LET b == Head(queue).block IN
    /\ Take("BlockConnected") /\ UNCHANGED reader
    /\ IF ~synced THEN Ignore
       ELSE IF best = None
       THEN /\ IF b = Genesis THEN callback' = At("append", b) /\ UNCHANGED fatal
                              ELSE callback' = callback /\ FatalErrorf
            /\ UNCHANGED <<phase, memory, database>>
       ELSE IF b # Genesis /\ ~IsAncestor(Parent(b), best) THEN Ignore
       ELSE IF best = Parent(b)
       THEN callback' = At("append", b) /\ UNCHANGED <<phase, fatal, memory, database>>
       ELSE IF b = Genesis THEN Aborts("null")
       ELSE IF ~RewindAsserts(best, Parent(b)) THEN Aborts("assert")
       ELSE \/ RewindCopies(best, Parent(b)) /\ callback' = At("commit", b)
            \/ CopyFails(best, Parent(b)) /\ UNCHANGED callback

BlockConnectedRewound ==
    LET b == callback.pindex IN
    /\ CallbackStep("commit") /\ UNCHANGED <<queue, reader>>
    /\ \/ RewindCommits(best, Parent(b)) /\ callback' = At("append", b)
       \/ (CommitFails(best, Parent(b)) \/ ReverseFails(best, Parent(b))) /\ callback' = At("idle", None)
       \/ ReverseAsserts(best, Parent(b))

BlockConnectedAppend ==
    LET b == callback.pindex IN
    /\ CallbackStep("append") /\ UNCHANGED <<queue, reader>>
    /\ \/ CustomAppend(b) /\ best' = b /\ UNCHANGED fatal
       \/ AppendFails(b) /\ UNCHANGED best
    /\ callback' = At("idle", None)
    /\ UNCHANGED <<phase, synced>>

ChainStateFlushed ==
    LET b == Head(queue).block IN
    /\ Take("ChainStateFlushed") /\ UNCHANGED reader
    /\ IF ~synced THEN Ignore
       ELSE IF b \notin known THEN FatalErrorf /\ UNCHANGED <<phase, callback, memory, database>>
       ELSE IF best = None THEN Aborts("null")
       ELSE IF ~IsAncestor(b, best) THEN Ignore
       ELSE Commit(best, stats) /\ UNCHANGED <<phase, fatal, memory, callback>>

-----------------------------------------------------------------------------
(* BlockUntilSyncedToCurrentChain, and the end and the start of the node.  *)

ReaderStep(pc) ==
    /\ phase = "up" /\ reader.pc = pc
    /\ UNCHANGED <<tip, known, flushed, fatal, interrupt, memory, sync, callback, database, counters>>

(* RPC calls come in once there is a tip. *)
ReaderBegin ==
    /\ ReaderStep("ready") /\ Unlocked /\ synced /\ tip # None
    /\ IF best = None THEN phase' = "null" /\ UNCHANGED reader
       ELSE /\ reader' = [pc |-> IF IsAncestor(tip, best) THEN "returned" ELSE "sync", tip |-> tip]
            /\ UNCHANGED phase
    /\ UNCHANGED queue

(* SyncWithValidationInterfaceQueue. *)
ReaderSync ==
    /\ ReaderStep("sync") /\ UNCHANGED phase
    /\ queue' = Append(queue, [type |-> "Sync", block |-> None])
    /\ reader' = [reader EXCEPT !.pc = "syncing"]

ReaderReturn ==
    /\ Take("Sync")
    /\ reader' = [reader EXCEPT !.pc = "returned"]
    /\ UNCHANGED <<phase, fatal, memory, callback, database>>

(* Interrupt of init.cpp, also after a fatal error. *)
Interrupt ==
    /\ phase = "up" /\ ~interrupt
    /\ fatal \/ stops < MaxStops
    /\ interrupt' = TRUE
    /\ stops' = IF fatal THEN stops ELSE stops + 1
    /\ UNCHANGED <<phase, chainstate, fatal, memory, sync, callback, reader, database, moves, flushes>>

Off ==
    /\ phase' = "down" /\ tip' = None /\ known' = {} /\ queue' = <<>>
    /\ fatal' = FALSE /\ interrupt' = FALSE
    /\ best' = None /\ synced' = FALSE /\ stats' = Zero
    /\ sync' = At("off", None) /\ callback' = At("idle", None)
    /\ reader' = [pc |-> "ready", tip |-> None]
    /\ UNCHANGED <<flushed, database, moves, flushes>>

(* Shutdown: the chainstate is flushed, the queue drained, the thread      *)
(* joined.                                                                 *)
Shutdown ==
    /\ phase = "up" /\ interrupt /\ flushed.tip = tip
    /\ queue = <<>> /\ callback.pc = "idle" /\ sync.pc \in {"off", "done"}
    /\ Off
    /\ UNCHANGED stops

Crash ==
    \/ phase = "up" /\ stops < MaxStops /\ stops' = stops + 1 /\ Off
    \/ phase \in {"assert", "null"} /\ Off /\ UNCHANGED stops

(* Mutant: m_synced is set without regard to the tip. *)
StartUpSynced ==
    /\ phase = "down"
    /\ IF locator # None /\ locator \notin flushed.known
       THEN phase' = "refused" /\ UNCHANGED <<tip, known, memory>>
       ELSE /\ phase' = "up"
            /\ tip' = flushed.tip /\ known' = flushed.known
            /\ best' = locator /\ stats' = muhash
            /\ synced' = TRUE
    /\ UNCHANGED <<flushed, queue, fatal, interrupt, sync, callback, reader, database, counters>>

(* BaseIndex::Init and CustomInit, on the chainstate as it was flushed. *)
StartUp ==
    /\ phase = "down"
    /\ IF locator # None /\ locator \notin flushed.known
       THEN phase' = "refused" /\ UNCHANGED <<tip, known, memory>>
       ELSE IF locator # None /\ LookUp(locator) # Found(muhash)
       THEN phase' = "corrupted" /\ UNCHANGED <<tip, known, memory>>
       ELSE /\ phase' = "up"
            /\ tip' = flushed.tip /\ known' = flushed.known
            /\ best' = locator /\ stats' = muhash
            /\ synced' = (locator = flushed.tip)
    /\ UNCHANGED <<flushed, queue, fatal, interrupt, sync, callback, reader, database, counters>>

-----------------------------------------------------------------------------
ThreadSync ==
    SyncStart \/ SyncInterrupted \/ SyncFinished \/ SyncNext \/ SyncRewind \/ SyncRewound \/ SyncWrite \/ SyncAppend
Callback ==
    BlockConnected \/ BlockConnectedRewound \/ BlockConnectedAppend \/ ChainStateFlushed \/ ReaderReturn

Next ==
    \/ ThreadSync \/ Callback
    \/ ReaderBegin \/ ReaderSync
    \/ (\E b \in Block : Activate(b)) \/ Flush
    \/ Interrupt \/ Shutdown \/ Crash \/ StartUp

(* The threads run; a node that stops, stops in good order and is started  *)
(* again.                                                                  *)
Fairness ==
    /\ WF_vars(ThreadSync) /\ WF_vars(Callback)
    /\ WF_vars(interrupt /\ Flush) /\ WF_vars(Shutdown)
    /\ WF_vars(phase # "up" /\ Crash) /\ WF_vars(StartUp)

SafetySpec == Init /\ [][Next]_vars
Spec == SafetySpec /\ Fairness

-----------------------------------------------------------------------------
(* Properties. *)

(***************************************************************************)
(* Whatever LookUpStats may answer is the sum over exactly the chain of    *)
(* the block, after any reorganisation, crash and restart; and what is on  *)
(* disk passes the test of CustomInit.                                     *)
(***************************************************************************)
StatsExact ==
    /\ \A b \in Block : LookUp(b).found => LookUp(b).value = Sum(b)
    /\ locator # None => LookUp(locator) = Found(muhash)

(* No event is out of the order the callbacks rely on. *)
NoFatalError == ~fatal /\ phase # "corrupted"

(***************************************************************************)
(* BlockUntilSyncedToCurrentChain "blocks the current thread until the     *)
(* index is caught up to the current state of the block chain".            *)
(***************************************************************************)
CaughtUpOnReturn == reader.pc = "returned" => LookUp(reader.tip).found

(* The assertions of Rewind hold. *)
AssertionsHold == phase # "assert"

(* The chain and the stops come to an end; then the index follows the tip. *)
InSync == phase = "refused" \/ (phase = "up" /\ (tip = None \/ (best # None /\ IsAncestor(tip, best))))
CatchesUp == []<>InSync
=============================================================================
