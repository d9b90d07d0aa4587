------------------------------ MODULE BlockFiles ------------------------------
(***************************************************************************)
(* Block and undo files of src/src/node/blockstorage.cpp: blocks are       *)
(* appended to blkNNNNN.dat as they arrive, undo data to revNNNNN.dat as   *)
(* blocks are connected, the block index that points into both is written  *)
(* by FlushStateToDisk, and old files are pruned.  The process may die, or *)
(* the machine lose power, between any two disk operations.                *)
(*                                                                         *)
(* A file is a sequence of slots of one block each; nSize and nUndoSize    *)
(* count slots.  Only BlockfileType::NORMAL is modelled (no snapshot), and *)
(* files are not read back by a reindex (fKnown is false).                 *)
(***************************************************************************)

EXTENDS Integers, Sequences, FiniteSets

CONSTANTS Block, Genesis,
          Parent,        \* pprev, for every block but Genesis
          Garbage,       \* the contents of a slot that never reached the disk
          FileCapacity,  \* MAX_BLOCKFILE_SIZE in blocks
          MaxFile,       \* bound: the highest file number
          Keep,          \* MIN_BLOCKS_TO_KEEP
          PowerLoss,     \* whether a crash may lose what was not synced
          MaxCrashes     \* bound on the number of crashes

ASSUME BlockFilesAssumption ==
    /\ Genesis \in Block /\ Garbage \notin Block
    /\ Parent \in [Block \ {Genesis} -> Block]
    /\ FileCapacity \in Nat \ {0, 1}   \* 128 MiB, and a block has at most 4 MB
    /\ {MaxFile, Keep, MaxCrashes} \subseteq Nat
    /\ PowerLoss \in BOOLEAN

(* The blocks are a tree: every one has a height. *)
ASSUME TreeAssumption ==
    /\ IsFiniteSet(Block)
    /\ \E h \in [Block -> 0..Cardinality(Block)] :
         h = [b \in Block |-> IF b = Genesis THEN 0 ELSE 1 + h[Parent[b]]]

File == 0..MaxFile
Height[b \in Block] == IF b = Genesis THEN 0 ELSE 1 + Height[Parent[b]]

VARIABLES index,       \* position and status of every block in m_block_index
          info,        \* m_blockfile_info
          cursor,      \* m_blockfile_cursors[NORMAL]
          dirty,       \* m_dirty_blockindex and m_dirty_fileinfo
          checkPrune,  \* m_check_for_pruning
          tip,         \* m_chain.Tip()
          pc,          \* "running", the step of FlushStateToDisk, or down
          flush,       \* that call's mode, fDoFullFlush and setFilesToPrune
          disk,        \* the block tree database
          coinsTip,    \* the best block of the coins database
          blk, rev,    \* the slots of the block and undo files
          unsynced,    \* the slots not synced since they were written
          crashes

memVars == <<index, info, cursor, dirty, checkPrune, tip>>
fileVars == <<blk, rev, unsynced>>
vars == <<memVars, fileVars, pc, flush, disk, coinsTip, crashes>>

NoPos == [data |-> FALSE, undo |-> FALSE, file |-> 0, pos |-> 0, upos |-> 0]
NewInfo == [size |-> 0, undoSize |-> 0, last |-> 0]
NoFlush == [mode |-> "NONE", full |-> FALSE, prune |-> {}]
Clean == [blocks |-> {}, files |-> {}]
Nothing == [index |-> [b \in Block |-> NoPos], info |-> [f \in File |-> NewInfo],
            last |-> 0, pruned |-> FALSE]

(* Files that do not exist are empty here: the code creates a file when it *)
(* writes to it, and every file has a first block.                         *)
Exists(f) == blk[f] # <<>>

(* A slot of a block file and a slot of an undo file. *)
BlkSlot(f, p) == <<"blk", f, p>>
RevSlot(f, p) == <<"rev", f, p>>
SlotsOf(kind, f) == {s \in unsynced : s[1] = kind /\ s[2] = f}

Put(s, p, x) == IF p <= Len(s) THEN [s EXCEPT ![p] = x] ELSE Append(s, x)

-----------------------------------------------------------------------------
(* Storing blocks and undo data. *)

(* Mutant: nHeightLast is the height of the last arrival. *)
AddBlockLastArrived(i, height) == [i EXCEPT !.size = @ + 1, !.last = height]

(* CBlockFileInfo::AddBlock; nHeightFirst only matters with a snapshot. *)
AddBlock(i, height) ==
    [i EXCEPT !.size = @ + 1, !.last = IF height > @ THEN height ELSE @]

(* Mutant: the file that is left is not synced. *)
FindBlockPosLeavesUnsynced ==
    LET full == info[cursor.file].size + 1 > FileCapacity
        n == IF full THEN cursor.file + 1 ELSE cursor.file
    IN  [file |-> n, synced |-> {},
         cursor |-> IF full THEN [file |-> n, undoHeight |-> 0] ELSE cursor]

(* FindBlockPos: a full file is left for the next number, once its block   *)
(* file is synced, and its undo file too if that has kept up; the current  *)
(* file alone may hold unsynced blocks.                                    *)
FindBlockPos ==
    LET n == cursor.file
        full == info[n].size + 1 > FileCapacity
    IN  [file |-> IF full THEN n + 1 ELSE n,
         cursor |-> IF full THEN [file |-> n + 1, undoHeight |-> 0] ELSE cursor,
         synced |-> IF ~full THEN {}
                    ELSE SlotsOf("blk", n)
                         \cup (IF info[n].last = cursor.undoHeight THEN SlotsOf("rev", n) ELSE {})]

(* AcceptBlock from SaveBlockToDisk on, for a requested block in any       *)
(* order.  FlushStateToDisk(NONE) is called last; it has something to do   *)
(* when Allocate claimed new space in prune mode.                          *)
SaveBlockToDisk(b, allocated) ==
    LET at == FindBlockPos
        f == at.file
        p == info[f].size + 1
    IN  /\ pc = "running"
        /\ ~index[b].data
        /\ f \in File
        /\ info' = [info EXCEPT ![f] = AddBlock(@, Height[b])]
        /\ cursor' = at.cursor
        /\ blk' = [blk EXCEPT ![f] = Put(@, p, b)]
        /\ unsynced' = (unsynced \ at.synced) \cup {BlkSlot(f, p)}
        /\ index' = [index EXCEPT ![b] = [NoPos EXCEPT !.data = TRUE, !.file = f, !.pos = p]]
        /\ dirty' = [blocks |-> dirty.blocks \cup {b}, files |-> dirty.files \cup {f}]
        /\ checkPrune' = (checkPrune \/ allocated)
        /\ pc' = IF checkPrune' THEN "flush" ELSE "running"
        /\ UNCHANGED <<tip, rev, flush, disk, coinsTip, crashes>>

(* WriteUndoDataForBlock, when the block has no undo position yet.  The    *)
(* undo file of an older block file is synced with the undo data of its    *)
(* highest block, the current one when FindBlockPos leaves it.             *)
WriteUndoDataForBlock(b) ==
    LET f == index[b].file
        p == info[f].undoSize + 1
        last == f < cursor.file /\ Height[b] = info[f].last
        written == unsynced \cup {RevSlot(f, p)}
    IN  /\ info' = [info EXCEPT ![f].undoSize = p]
        /\ rev' = [rev EXCEPT ![f] = Put(@, p, b)]
        /\ unsynced' = IF last THEN {s \in written : ~(s[1] = "rev" /\ s[2] = f)} ELSE written
        /\ cursor' = IF f = cursor.file /\ Height[b] > cursor.undoHeight
                     THEN [cursor EXCEPT !.undoHeight = Height[b]] ELSE cursor
        /\ index' = [index EXCEPT ![b].undo = TRUE, ![b].upos = p]
        /\ dirty' = [blocks |-> dirty.blocks \cup {b}, files |-> dirty.files \cup {f}]

(* ConnectTip up to its FlushStateToDisk(IF_NEEDED).  Which child of the   *)
(* tip is connected is ActivateBestChain's choice.  New undo data may have *)
(* allocated space, as above.                                              *)
ConnectTip(b, allocated) ==
    /\ pc = "running"
    /\ b # Genesis
    /\ Parent[b] = tip
    /\ index[b].data
    /\ IF index[b].undo
       THEN ~allocated /\ UNCHANGED <<info, rev, unsynced, cursor, index, dirty>>
       ELSE WriteUndoDataForBlock(b)
    /\ checkPrune' = (checkPrune \/ allocated)
    /\ tip' = b
    /\ pc' = "flush"
    /\ flush' = [NoFlush EXCEPT !.mode = "IF_NEEDED"]
    /\ UNCHANGED <<blk, disk, coinsTip, crashes>>

(* DisconnectTip needs the block and its undo data. *)
DisconnectTip ==
    /\ pc = "running"
    /\ index[tip].data
    /\ index[tip].undo
    /\ tip' = Parent[tip]
    /\ pc' = "flush"
    /\ flush' = [NoFlush EXCEPT !.mode = "IF_NEEDED"]
    /\ UNCHANGED <<index, info, cursor, dirty, checkPrune, fileVars, disk, coinsTip, crashes>>

-----------------------------------------------------------------------------
(* Pruning and flushing. *)

(* GetPruneRange's end and the files FindFilesToPrune(Manual) may take.  *)
Prunable(limit) ==
    LET most == IF Height[tip] > Keep THEN Height[tip] - Keep ELSE 0
        end == IF limit < most THEN limit ELSE most
    IN  IF Height[tip] = 0 THEN {}
        ELSE {f \in File : f < cursor.file /\ info[f].size # 0 /\ info[f].last <= end}

(* FindFilesToPrune takes the lowest ones until the usage is below the     *)
(* target; FindFilesToPruneManual all of them below its height.            *)
PruneChoices ==
    LET auto == Prunable(Height[tip])
        Lowest(S) == \A f \in S, g \in auto \ S : f < g
    IN  IF checkPrune THEN {S \in SUBSET auto : Lowest(S)} ELSE {{}}

PruneManualChoices == {Prunable(h) : h \in 1..Height[tip]}

(* Mutant: pruned blocks are not marked dirty. *)
PruneFilesKeepsBlocksClean(S) ==
    /\ index' = [b \in Block |-> IF index[b].file \in S THEN NoPos ELSE index[b]]
    /\ info' = [f \in File |-> IF f \in S THEN NewInfo ELSE info[f]]
    /\ dirty' = [dirty EXCEPT !.files = @ \cup S]

(* PruneOneBlockFile, for every file of S. *)
PruneFiles(S) ==
    /\ index' = [b \in Block |-> IF index[b].file \in S THEN NoPos ELSE index[b]]
    /\ info' = [f \in File |-> IF f \in S THEN NewInfo ELSE info[f]]
    /\ dirty' = [blocks |-> dirty.blocks \cup {b \in Block : index[b].file \in S},
                 files |-> dirty.files \cup S]

(* The mode of this call: a call the last operation ends with, or one of   *)
(* the periodic task, of a shutdown (ALWAYS), of PruneAndFlush or of the   *)
(* pruneblockchain RPC (both NONE).                                        *)
Mode == IF pc = "flush" THEN {flush.mode} ELSE {"NONE", "PERIODIC", "ALWAYS"}

(* What is due: a prune or ALWAYS forces a full flush, NONE nothing else;  *)
(* the cache size and the clock decide in the other modes.                 *)
FullFlushDue(mode, S) ==
    IF S # {} \/ mode = "ALWAYS" THEN {TRUE} ELSE IF mode = "NONE" THEN {FALSE} ELSE BOOLEAN
WriteDue(mode, full) ==
    IF full THEN {TRUE} ELSE IF mode = "PERIODIC" THEN BOOLEAN ELSE {FALSE}

(* The head of FlushStateToDisk: prune in memory, then sync the current    *)
(* block and undo file (FlushChainstateBlockFile).                         *)
FlushStateToDisk(mode, S) ==
    /\ pc \in {"running", "flush"}
    /\ mode \in Mode
    /\ PruneFiles(S)
    /\ disk' = [disk EXCEPT !.pruned = @ \/ S # {}]
    /\ \E full \in FullFlushDue(mode, S) : \E write \in WriteDue(mode, full) :
          IF write
          THEN /\ pc' = "writeIndex"
               /\ flush' = [mode |-> mode, full |-> full, prune |-> S]
               /\ unsynced' = unsynced \ (SlotsOf("blk", cursor.file) \cup SlotsOf("rev", cursor.file))
          ELSE /\ pc' = "running"
               /\ flush' = NoFlush
               /\ UNCHANGED unsynced
    /\ UNCHANGED <<cursor, tip, blk, rev, coinsTip, crashes>>

FlushAndPrune ==
    /\ \E mode \in Mode, S \in PruneChoices : FlushStateToDisk(mode, S)
    /\ checkPrune' = FALSE

(* PruneAndFlush sets m_check_for_pruning first. *)
PruneAndFlush ==
    /\ pc = "running"
    /\ ~checkPrune
    /\ checkPrune' = TRUE
    /\ pc' = "flush"
    /\ UNCHANGED <<index, info, cursor, dirty, tip, fileVars, flush, disk, coinsTip, crashes>>

PruneBlockFilesManual ==
    /\ pc = "running"
    /\ \E S \in PruneManualChoices : FlushStateToDisk("NONE", S)
    /\ UNCHANGED checkPrune

(* After the block index come the files to unlink, then the coins. *)
Continue(left) ==
    /\ pc' = IF left # {} THEN "unlink" ELSE IF flush.full THEN "flushCoins" ELSE "running"
    /\ flush' = IF pc' = "running" THEN NoFlush ELSE [flush EXCEPT !.prune = left]

(* One synced batch with what is dirty. *)
WriteBlockIndexDB ==
    /\ pc = "writeIndex"
    /\ disk' = [disk EXCEPT
           !.index = [b \in Block |-> IF b \in dirty.blocks THEN index[b] ELSE @[b]],
           !.info = [f \in File |-> IF f \in dirty.files THEN info[f] ELSE @[f]],
           !.last = cursor.file]
    /\ dirty' = Clean
    /\ Continue(flush.prune)
    /\ UNCHANGED <<index, info, cursor, checkPrune, tip, fileVars, coinsTip, crashes>>

Unlink(S) ==
    /\ blk' = [f \in File |-> IF f \in S THEN <<>> ELSE blk[f]]
    /\ rev' = [f \in File |-> IF f \in S THEN <<>> ELSE rev[f]]
    /\ unsynced' = {s \in unsynced : s[2] \notin S}

(* One file of UnlinkPrunedFiles, lowest first. *)
UnlinkPrunedFile(f) ==
    /\ pc = "unlink"
    /\ f \in flush.prune
    /\ \A g \in flush.prune : f <= g
    /\ Unlink({f})
    /\ Continue(flush.prune \ {f})
    /\ UNCHANGED <<memVars, disk, coinsTip, crashes>>

(* CoinsTip().Flush(), whose own crashes CoinsRecovery models. *)
FlushCoins ==
    /\ pc = "flushCoins"
    /\ coinsTip' = tip
    /\ pc' = "running"
    /\ flush' = NoFlush
    /\ UNCHANGED <<memVars, fileVars, disk, crashes>>

-----------------------------------------------------------------------------
(* Crash and start. *)

(* The process dies.  When the machine does too, any of the slots that     *)
(* were not synced hold garbage afterwards.                                *)
Crash(lost) ==
    /\ pc # "down" /\ pc # "failed"
    /\ crashes < MaxCrashes
    /\ lost # {} => PowerLoss
    /\ blk' = [f \in File |-> [p \in DOMAIN blk[f] |->
                   IF BlkSlot(f, p) \in lost THEN Garbage ELSE blk[f][p]]]
    /\ rev' = [f \in File |-> [p \in DOMAIN rev[f] |->
                   IF RevSlot(f, p) \in lost THEN Garbage ELSE rev[f][p]]]
    /\ unsynced' = IF PowerLoss THEN {} ELSE unsynced
    /\ crashes' = crashes + 1
    /\ pc' = "down"
    /\ index' = Nothing.index
    /\ info' = Nothing.info
    /\ cursor' = [file |-> 0, undoHeight |-> 0]
    /\ dirty' = Clean
    /\ checkPrune' = FALSE
    /\ tip' = Genesis
    /\ flush' = NoFlush
    /\ UNCHANGED <<disk, coinsTip>>

(* The files ScanAndUnlinkAlreadyPrunedFiles removes, and a mutant that    *)
(* forgets them.                                                           *)
NoPrunedFiles == {}
AlreadyPrunedFiles ==
    IF disk.pruned THEN {f \in File : f < disk.last /\ disk.info[f].size = 0} ELSE {}

(* LoadBlockIndexDB and ScanAndUnlinkAlreadyPrunedFiles; the tip is the    *)
(* coins database's.  A missing block file ends the start.                 *)
LoadBlockIndexDB ==
    /\ pc = "down"
    /\ index' = disk.index
    /\ info' = disk.info
    /\ cursor' = [file |-> disk.last, undoHeight |-> 0]
    /\ tip' = coinsTip
    /\ IF \A b \in Block : disk.index[b].data => Exists(disk.index[b].file)
       THEN pc' = "running" /\ Unlink(AlreadyPrunedFiles)
       ELSE pc' = "failed" /\ UNCHANGED fileVars
    /\ UNCHANGED <<dirty, checkPrune, flush, disk, coinsTip, crashes>>

-----------------------------------------------------------------------------
(* After LoadGenesisBlock and the flush that ends the first start. *)
Init ==
    LET stored == [NoPos EXCEPT !.data = TRUE, !.pos = 1]
    IN  /\ index = [b \in Block |-> IF b = Genesis THEN stored ELSE NoPos]
        /\ info = [f \in File |-> IF f = 0 THEN AddBlock(NewInfo, 0) ELSE NewInfo]
        /\ cursor = [file |-> 0, undoHeight |-> 0]
        /\ dirty = Clean
        /\ checkPrune = FALSE
        /\ tip = Genesis
        /\ pc = "running"
        /\ flush = NoFlush
        /\ disk = [Nothing EXCEPT !.index = index, !.info = info]
        /\ coinsTip = Genesis
        /\ blk = [f \in File |-> IF f = 0 THEN <<Genesis>> ELSE <<>>]
        /\ rev = [f \in File |-> <<>>]
        /\ unsynced = {}
        /\ crashes = 0

Next ==
    \/ \E b \in Block, allocated \in BOOLEAN : SaveBlockToDisk(b, allocated)
    \/ \E b \in Block, allocated \in BOOLEAN : ConnectTip(b, allocated)
    \/ DisconnectTip
    \/ FlushAndPrune
    \/ PruneAndFlush
    \/ PruneBlockFilesManual
    \/ WriteBlockIndexDB
    \/ \E f \in File : UnlinkPrunedFile(f)
    \/ FlushCoins
    \/ \E lost \in SUBSET unsynced : Crash(lost)
    \/ LoadBlockIndexDB

Spec == Init /\ [][Next]_vars

-----------------------------------------------------------------------------
(* Properties. *)

HoldsBlock(e, b) == e.pos \in DOMAIN blk[e.file] /\ blk[e.file][e.pos] = b
HoldsUndo(e, b) == e.upos \in DOMAIN rev[e.file] /\ rev[e.file][e.upos] = b

(***************************************************************************)
(* Block data that the block tree database points at is on stable storage: *)
(* no crash and no power loss at any moment, and no later write to the     *)
(* file, leaves an entry on disk without its block.  What the index in     *)
(* memory points at can be read back, through rewritten file tails and     *)
(* pruning, and is never another block's: a power loss may only have taken *)
(* undo data.                                                              *)
(***************************************************************************)
IndexReadable ==
    /\ \A b \in Block : LET e == disk.index[b] IN
           e.data => HoldsBlock(e, b) /\ BlkSlot(e.file, e.pos) \notin unsynced
    /\ pc \notin {"down", "failed"} =>
           \A b \in Block : LET e == index[b] IN
               /\ e.data => HoldsBlock(e, b)
               /\ e.undo => HoldsUndo(e, b) \/ (PowerLoss /\ HoldsUndo(e, Garbage))

(***************************************************************************)
(* Pruning unlinks a file only after the index stopped referring to it, so *)
(* that the "Checking all blk files are present" of the next start never   *)
(* fails.                                                                  *)
(***************************************************************************)
StartNeverFails == pc # "failed"

(***************************************************************************)
(* validation.h: "Block files containing a block-height within             *)
(* MIN_BLOCKS_TO_KEEP of ActiveChain().Tip() will not be pruned", for the  *)
(* blocks really in the files, whatever order they arrived in and whatever *)
(* the file information went through.                                      *)
(***************************************************************************)
RecentBlocksKept ==
    [][\A b \in Block : (pc \in {"running", "flush"} /\ pc' # "down" /\ index[b].data /\ ~index'[b].data)
            => Height[b] + Keep <= Height[tip]]_vars

(***************************************************************************)
(* Pruned files do not pile up: when a start is over, only the files the   *)
(* index uses, and those above the last one it knows, are on disk.         *)
(***************************************************************************)
NoOrphanFiles ==
    [][pc = "down" /\ pc' = "running" =>
        \A f \in File : (f < cursor'.file /\ blk'[f] # <<>>)
            => \E b \in Block : index'[b].data /\ index'[b].file = f]_vars
===============================================================================
