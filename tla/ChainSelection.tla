---------------------------- MODULE ChainSelection ----------------------------
(***************************************************************************)
(* The block index and the choice of the active chain                      *)
(* (src/src/validation.cpp): headers and blocks arrive in any order,       *)
(* ActivateBestChain works towards the best candidate and releases cs_main *)
(* on the way, RPCs invalidate, reconsider and prefer blocks, the node     *)
(* prunes and restarts.                                                    *)
(*                                                                         *)
(* nStatus, nTx and nChainTx are sets of blocks.  m_best_invalid, only a   *)
(* warning depends on it, is left out.  The holder of m_chainstate_mutex   *)
(* is the pc of ActivateBestChain or InvalidateBlock; every other action   *)
(* is one critical section of cs_main.                                     *)
(***************************************************************************)

EXTENDS Integers, FiniteSets, FiniteSetsExt, TLC

CONSTANTS Block, Genesis, NoBlock,
          Parent,         \* pprev, for every block but Genesis
          Proof,          \* GetBlockProof
          Address,        \* order of the CBlockIndex pointers
          BadBody,        \* blocks ContextualCheckBlock rejects
          Bad,            \* blocks ConnectBlock rejects
          Keep,           \* MIN_BLOCKS_TO_KEEP
          MayInvalidate, MayReconsider, MayPrefer,  \* arguments of the RPCs
          MayPrune, MayRestart,
          PruneApart,     \* bound: pruning and invalidateblock are not combined
          MaxCalls        \* bound: the number of RPCs, prunings and restarts

ASSUME ChainAssumption ==
    /\ Genesis \in Block /\ NoBlock \notin Block
    /\ Parent \in [Block \ {Genesis} -> Block]
    /\ Proof \in [Block -> Nat \ {0}]
    /\ Address \in [Block -> Nat]
    /\ \A a, b \in Block : Address[a] = Address[b] => a = b
    /\ Genesis \notin BadBody \cup Bad
    /\ {Keep, MaxCalls} \subseteq Nat
    /\ {MayPrune, MayRestart, PruneApart} \subseteq BOOLEAN

Up[b \in Block] == {b} \cup IF b = Genesis THEN {} ELSE Up[Parent[b]]
WorkUp[b \in Block] == Proof[b] + IF b = Genesis THEN 0 ELSE WorkUp[Parent[b]]

(* A block and its ancestors, its nHeight and its nChainWork (@@ has TLC   *)
(* tabulate them).                                                         *)
Ancestors == Up @@ <<>>
Height == [b \in Block |-> Cardinality(Ancestors[b]) - 1] @@ <<>>
ChainWork == WorkUp @@ <<>>
Highest(S) == CHOOSE b \in S : \A c \in S : Height[c] <= Height[b]
Fork(a, b) == Highest(Ancestors[a] \cap Ancestors[b])

VARIABLES headers,      \* m_block_index
          seen,         \* nTx > 0, which is BLOCK_VALID_TRANSACTIONS
          data,         \* BLOCK_HAVE_DATA
          linked,       \* HaveNumChainTxs()
          scripts,      \* BLOCK_VALID_SCRIPTS
          failedValid, failedChild,  \* BLOCK_FAILED_VALID, BLOCK_FAILED_CHILD
          failedBlocks, \* m_failed_blocks
          candidates,   \* setBlockIndexCandidates
          unlinked,     \* the second components of m_blocks_unlinked
          seq,          \* nSequenceId
          counters,     \* nBlockSequenceId, nBlockReverseSequenceId,
                        \* nLastPreciousChainwork
          tip, bestHeader, havePruned,
          cs,           \* cs_main is held by ActivateBestChain
          pc,           \* what the holder of m_chainstate_mutex is doing
          act,          \* its locals
          pending,      \* some thread is about to call ActivateBestChain
          calls

status == <<headers, seen, data, linked, scripts, failedValid, failedChild, failedBlocks>>
order == <<seq, counters>>
thread == <<cs, pc, act, pending>>
vars == <<status, candidates, unlinked, order, tip, bestHeader, havePruned, thread, calls>>

Failed == failedValid \cup failedChild

(* IsValid(BLOCK_VALID_TRANSACTIONS) && HaveNumChainTxs() *)
Connectable == (seen \cap linked) \ Failed

(* CBlockIndexWorkComparator, a sorting before b, for sequence ids s. *)
WorseBy(s, a, b) ==
    \/ ChainWork[a] < ChainWork[b]
    \/ /\ ChainWork[a] = ChainWork[b]
       /\ \/ s[a] > s[b]
          \/ s[a] = s[b] /\ Address[a] > Address[b]
Worse(a, b) == WorseBy(seq, a, b)
Best(S) == CHOOSE b \in S : \A c \in S : ~Worse(b, c)

InChain(b) == b \in Ancestors[tip]

NoAct == [mostWork |-> NoBlock, start |-> NoBlock, old |-> NoBlock, moved |-> FALSE]

Init ==
    /\ headers = {Genesis} /\ seen = {Genesis} /\ data = {Genesis}
    /\ linked = {Genesis} /\ scripts = {Genesis}
    /\ failedValid = {} /\ failedChild = {} /\ failedBlocks = {}
    /\ candidates = {Genesis}
    /\ unlinked = {}
    /\ seq = [b \in Block |-> IF b = Genesis THEN 1 ELSE 0]
    /\ counters = [next |-> 2, reverse |-> -1, precious |-> 0]
    /\ tip = Genesis /\ bestHeader = Genesis
    /\ havePruned = FALSE
    /\ cs = FALSE /\ pc = "idle" /\ act = NoAct /\ pending = FALSE
    /\ calls = 0

-----------------------------------------------------------------------------
(* Headers and blocks arrive. *)

(* The failed blocks that a header on top of prev descends from. *)
FailedAncestors(prev) == IF prev \in scripts \ Failed THEN {} ELSE failedBlocks \cap Ancestors[prev]

(* AcceptBlockHeader, for a header that is new and valid by itself.  On a  *)
(* failed parent it is refused; below a failed block the blocks in between *)
(* are marked (for the first failed block the loop meets).                 *)
AcceptBlockHeader(b) ==
    /\ ~cs
    /\ b \notin headers
    /\ Parent[b] \in headers \ Failed
    /\ IF FailedAncestors(Parent[b]) # {}
       THEN /\ \E f \in FailedAncestors(Parent[b]) :
                   failedChild' = failedChild \cup (Ancestors[Parent[b]] \ Ancestors[f])
            /\ UNCHANGED <<headers, bestHeader>>
       ELSE /\ headers' = headers \cup {b}
            /\ bestHeader' = IF ChainWork[bestHeader] < ChainWork[b] THEN b ELSE bestHeader
            /\ UNCHANGED failedChild
    /\ UNCHANGED <<seen, data, linked, scripts, failedValid, failedBlocks, candidates, unlinked,
                   order, tip, havePruned, thread, calls>>

(* TryAddBlockIndexCandidate, for the blocks of S. *)
TryAddBlockIndexCandidate(S, s) == candidates \cup {d \in S : ~WorseBy(s, d, tip)}

(* Mutant: only the children of b are looked for. *)
LinkedChildrenOnly(b) == {b} \cup {d \in unlinked : Parent[d] = b}

(* The blocks that become connectable with b: those that waited for it. *)
Linked(b) ==
    {d \in unlinked \cup {b} : b \in Ancestors[d] /\ Ancestors[d] \ Ancestors[b] \subseteq unlinked}

(* ReceivedBlockTransactions.  The queue hands out sequence ids level by   *)
(* level; siblings come in the order they were stored, which is any here.  *)
ReceivedBlockTransactions(b) ==
    /\ seen' = seen \cup {b}
    /\ data' = data \cup {b}
    /\ IF Parent[b] \in linked
       THEN LET new == Linked(b)
            IN  /\ linked' = linked \cup new
                /\ unlinked' = unlinked \ (new \ {b})
                /\ \E at \in [new -> 0..Cardinality(new) - 1] :
                      /\ \A x, y \in new : /\ x # y => at[x] # at[y]
                                           /\ Height[x] < Height[y] => at[x] < at[y]
                      /\ seq' = [d \in Block |-> IF d \in new THEN counters.next + at[d] ELSE seq[d]]
                /\ counters' = [counters EXCEPT !.next = @ + Cardinality(new)]
                /\ candidates' = TryAddBlockIndexCandidate(new, seq')
       ELSE /\ linked' = linked \ {b}
            /\ unlinked' = IF Parent[b] \in Failed THEN unlinked ELSE unlinked \cup {b}
            /\ UNCHANGED <<order, candidates>>

(* AcceptBlock on a known header, then ActivateBestChain is called; a      *)
(* block that was not asked for has to look useful.                        *)
AcceptBlock(b, requested) ==
    /\ ~cs
    /\ b \in headers \ Failed
    /\ b \notin data
    /\ ~requested => /\ b \notin seen
                     /\ ChainWork[b] >= ChainWork[tip]
                     /\ Height[b] <= Height[tip] + Keep
    /\ IF b \in BadBody
       THEN /\ failedValid' = failedValid \cup {b}
            /\ UNCHANGED <<seen, data, linked, unlinked, order, candidates, pending>>
       ELSE /\ ReceivedBlockTransactions(b)
            /\ pending' = TRUE
            /\ UNCHANGED failedValid
    /\ UNCHANGED <<headers, scripts, failedChild, failedBlocks, tip, bestHeader, havePruned,
                   cs, pc, act, calls>>

-----------------------------------------------------------------------------
(* ActivateBestChain. *)

(* Mutants: nothing is pruned, or the tip too. *)
PruneNoCandidates(S, newTip) == S

(* PruneBlockIndexCandidates. *)
PruneBlockIndexCandidates(S, newTip) == {c \in S : ~Worse(c, newTip)}

(* InvalidChainFound on the blocks of S. *)
InvalidChainFound(S, newTip) ==
    bestHeader' = IF Ancestors[bestHeader] \cap S # {} THEN newTip ELSE bestHeader

(* m_chainstate_mutex is taken. *)
ActivateBestChain ==
    /\ pc = "idle" /\ pending
    /\ pending' = FALSE
    /\ pc' = "unlocked"
    /\ act' = NoAct
    /\ UNCHANGED <<status, candidates, unlinked, order, tip, bestHeader, havePruned, cs, calls>>

(* cs_main is taken for one turn of the outer loop. *)
LockMain ==
    /\ pc = "unlocked" /\ ~cs
    /\ cs' = TRUE
    /\ pc' = "find"
    /\ act' = [act EXCEPT !.start = tip, !.moved = FALSE]
    /\ UNCHANGED <<status, candidates, unlinked, order, tip, bestHeader, havePruned, pending, calls>>

(* Mutant: the outer loop is left after one turn. *)
UnlockReturns(mostWork) == cs' = FALSE /\ pc' = "idle" /\ act' = NoAct

(* cs_main is released, the function returns or loops. *)
Unlock(mostWork) ==
    /\ cs' = FALSE
    /\ IF act.moved /\ tip # mostWork
       THEN pc' = "unlocked" /\ act' = [act EXCEPT !.mostWork = mostWork]
       ELSE pc' = "idle" /\ act' = NoAct

(* The first block from the candidate b down to the active chain that is   *)
(* failed or has no data.                                                  *)
Unusable(b) == (Ancestors[b] \ Ancestors[tip]) \cap (Failed \cup (Block \ data))

(* One turn of FindMostWorkChain's loop that drops a candidate, with the   *)
(* blocks above the unusable one.                                          *)
DropCandidate(b) ==
    LET test == Highest(Unusable(b))
        above == Ancestors[b] \ Ancestors[test]
    IN  /\ candidates' = candidates \ (above \cup {test})
        /\ IF test \in Failed
           THEN failedChild' = failedChild \cup above /\ UNCHANGED unlinked
           ELSE unlinked' = unlinked \cup above /\ UNCHANGED failedChild
        /\ UNCHANGED <<cs, pc, act>>

(* A target is chosen, or there is nothing to do. *)
Target(b) ==
    /\ IF b = NoBlock \/ b = tip THEN Unlock(b)
       ELSE pc' = "step" /\ act' = [act EXCEPT !.mostWork = b, !.old = tip] /\ UNCHANGED cs
    /\ UNCHANGED <<candidates, unlinked, failedChild>>

FindMostWorkChain ==
    /\ pc = "find"
    /\ LET b == Best(candidates)
       IN  IF act.mostWork # NoBlock THEN Target(act.mostWork)
           ELSE IF candidates = {} THEN Target(NoBlock)
           ELSE IF Unusable(b) # {} THEN DropCandidate(b)
           ELSE Target(b)
    /\ UNCHANGED <<headers, seen, data, linked, scripts, failedValid, failedBlocks, order, tip,
                   bestHeader, havePruned, pending, calls>>

(* The head of ActivateBestChainStep: back to the fork.  A block whose     *)
(* data is pruned cannot be disconnected: FatalError ends the node.        *)
DisconnectToFork ==
    /\ pc = "step"
    /\ LET fork == Fork(tip, act.mostWork)
           pruned == (Ancestors[tip] \ Ancestors[fork]) \ data
       IN  IF pruned = {} THEN tip' = fork /\ pc' = "connect"
           ELSE tip' = Highest(pruned) /\ pc' = "aborted"
    /\ UNCHANGED <<status, candidates, unlinked, order, bestHeader, havePruned, cs, act, pending, calls>>

(* Mutant: cs_main is released after every step. *)
EndStepReleases(newTip, mostWork) ==
    act' = [act EXCEPT !.mostWork = mostWork, !.moved = TRUE] /\ pc' = "release"

(* The end of a step: go on until the tip is not worse than at the start   *)
(* of this critical section.                                               *)
EndStep(newTip, mostWork) ==
    /\ act' = [act EXCEPT !.mostWork = mostWork, !.moved = TRUE]
    /\ pc' = IF Worse(newTip, act.start) THEN "find" ELSE "release"

(* ConnectTip of the next block towards the target. *)
ConnectTip ==
    /\ pc = "connect"
    /\ LET b == CHOOSE c \in Ancestors[act.mostWork] : Height[c] = Height[tip] + 1
       IN  IF b \notin data
           THEN /\ pc' = "aborted"
                /\ UNCHANGED <<tip, scripts, candidates, failedValid, failedBlocks, bestHeader, act>>
           ELSE IF b \in Bad
           THEN /\ failedValid' = failedValid \cup {b}
                /\ failedBlocks' = failedBlocks \cup {b}
                /\ candidates' = candidates \ {b}
                /\ InvalidChainFound({b, act.mostWork}, tip)
                /\ EndStep(tip, NoBlock)
                /\ UNCHANGED <<tip, scripts>>
           ELSE /\ tip' = b
                /\ scripts' = scripts \cup {b}
                /\ candidates' = PruneBlockIndexCandidates(candidates, b)
                /\ IF ChainWork[b] > ChainWork[act.old] \/ b = act.mostWork
                   THEN EndStep(b, act.mostWork)
                   ELSE UNCHANGED <<act, pc>>
                /\ UNCHANGED <<failedValid, failedBlocks, bestHeader>>
    /\ UNCHANGED <<headers, seen, data, linked, failedChild, unlinked, order, havePruned, cs,
                   pending, calls>>

ReleaseMain ==
    /\ pc = "release"
    /\ Unlock(act.mostWork)
    /\ UNCHANGED <<status, candidates, unlinked, order, tip, bestHeader, havePruned, pending, calls>>

-----------------------------------------------------------------------------
(* RPCs.  Each is followed by ActivateBestChain. *)

Call == calls < MaxCalls /\ calls' = calls + 1

(* PreciousBlock. *)
PreciousBlock(b) ==
    /\ ~cs /\ Call
    /\ b \in headers \cap MayPrefer
    /\ ChainWork[b] >= ChainWork[tip]
    /\ LET id == IF ChainWork[tip] > counters.precious THEN -1 ELSE counters.reverse
           s == [seq EXCEPT ![b] = id]
       IN  /\ seq' = s
           /\ counters' = [counters EXCEPT !.reverse = id - 1, !.precious = ChainWork[tip]]
           /\ candidates' = IF b \in Connectable
                            THEN {c \in candidates \cup {b} : ~WorseBy(s, c, tip)}
                            ELSE candidates \ {b}
    /\ pending' = TRUE
    /\ UNCHANGED <<status, unlinked, tip, bestHeader, havePruned, cs, pc, act>>

(* InvalidateBlock takes the mutex and collects the blocks off the active  *)
(* chain that may be needed as candidates.                                 *)
InvalidateBlock(p) ==
    /\ pc = "idle" /\ Call
    /\ PruneApart => ~havePruned
    /\ p \in (headers \cap MayInvalidate) \ {Genesis}
    /\ pc' = "invalidate"
    /\ act' = [block |-> p, mark |-> p,
               byWork |-> {c \in Connectable : ~InChain(c) /\ ~Worse(c, Parent[p])}]
    /\ UNCHANGED <<status, candidates, unlinked, order, tip, bestHeader, havePruned, cs, pending>>

(* One turn of its loop: the tip is disconnected and marked.  The test     *)
(* that should turn the block above it into a FAILED_CHILD compares the    *)
(* parent of the block just disconnected with the one disconnected before. *)
InvalidateTip ==
    /\ pc = "invalidate"
    /\ InChain(act.block) /\ tip \in data
    /\ LET p == Parent[tip]
           found == {c \in act.byWork : ~Worse(c, p)}
           child == p = act.mark /\ act.mark \in failedValid
       IN  /\ failedValid' = (failedValid \cup {tip}) \ (IF child THEN {act.mark} ELSE {})
           /\ failedChild' = failedChild \cup (IF child THEN {act.mark} ELSE {})
           /\ candidates' = (candidates \ {tip}) \cup {p} \cup found
           /\ act' = [act EXCEPT !.mark = tip, !.byWork = @ \ found]
           /\ tip' = p
    /\ UNCHANGED <<headers, seen, data, linked, scripts, failedBlocks, unlinked, order, bestHeader,
                   havePruned, cs, pc, pending, calls>>

(* DisconnectTip cannot read the tip, and InvalidateBlock gives up. *)
InvalidateFails ==
    /\ pc = "invalidate"
    /\ InChain(act.block) /\ tip \notin data
    /\ pc' = "idle" /\ act' = NoAct /\ pending' = TRUE
    /\ UNCHANGED <<status, candidates, unlinked, order, tip, bestHeader, havePruned, cs, calls>>

(* Mutant: late blocks are not looked for. *)
NoLateCandidates(failed) == {}

(* Blocks that may have arrived while InvalidateBlock was disconnecting. *)
LateCandidates(failed) == {c \in (seen \cap linked) \ failed : ~Worse(c, tip)}

(* Its last critical section: the block is marked whether it was in the    *)
(* chain or not, and candidates that arrived meanwhile are added.          *)
InvalidateDone ==
    /\ pc = "invalidate"
    /\ ~InChain(act.block)
    /\ failedValid' = failedValid \cup {act.mark}
    /\ failedBlocks' = failedBlocks \cup {act.mark}
    /\ candidates' = (candidates \ {act.mark}) \cup LateCandidates(failedValid' \cup failedChild)
    /\ InvalidChainFound({act.mark}, tip)
    /\ pc' = "idle" /\ act' = NoAct /\ pending' = TRUE
    /\ UNCHANGED <<headers, seen, data, linked, scripts, failedChild, unlinked, order, tip,
                   havePruned, cs, calls>>

(* Mutant: descendants keep their flags. *)
ReconsiderBlockOnly(p) == {p} \cap Failed

(* The first loop of ResetBlockFailureFlags: the blocks it clears, and     *)
(* those of them that become candidates; m_failed_blocks afterwards.       *)
FailedDescendants(p) == {b \in Failed : p \in Ancestors[b]}
BetterThanTip(S) == {b \in S \cap seen \cap linked : Worse(tip, b)}
WithoutFailed(S) == failedBlocks \ S

(* ResetBlockFailureFlags: the block, its descendants, its ancestors. *)
ResetBlockFailureFlags(p) ==
    LET below == FailedDescendants(p)
        cleared == below \cup (Failed \cap Ancestors[p])
    IN  /\ ~cs /\ Call
        /\ p \in headers \cap MayReconsider
        /\ failedValid' = failedValid \ cleared
        /\ failedChild' = failedChild \ cleared
        /\ failedBlocks' = WithoutFailed(cleared)
        /\ candidates' = candidates \cup BetterThanTip(below)
        /\ pending' = TRUE
        /\ UNCHANGED <<headers, seen, data, linked, scripts, unlinked, order, tip, bestHeader,
                       havePruned, cs, pc, act>>

-----------------------------------------------------------------------------
(* Pruning and restart. *)

(* PruneOneBlockFile, for files with the blocks of S: nothing within Keep  *)
(* of the tip.                                                             *)
Prune(S) ==
    /\ ~cs /\ MayPrune /\ Call
    /\ PruneApart => failedValid \subseteq Bad /\ pc # "invalidate"
    /\ S # {}
    /\ \A b \in S : Height[b] + Keep <= Height[tip]
    /\ data' = data \ S
    /\ unlinked' = unlinked \ S
    /\ havePruned' = TRUE
    /\ UNCHANGED <<headers, seen, linked, scripts, failedValid, failedChild, failedBlocks,
                   candidates, order, tip, bestHeader, thread>>

(* A clean restart: LoadBlockIndex, LoadChainTip, and the first call of    *)
(* ActivateBestChain.  Sequence ids and m_failed_blocks are not stored.    *)
Restart ==
    LET zero == [b \in Block |-> 0]
        nChainTx == {b \in headers : Ancestors[b] \subseteq seen}
        child == {b \in headers : (Ancestors[b] \ {b}) \cap Failed # {}} \ Failed
        valid == headers \ (Failed \cup child)
    IN  /\ pc = "idle" /\ MayRestart /\ Call
        /\ seq' = zero
        /\ counters' = [next |-> 1, reverse |-> -1, precious |-> 0]
        /\ linked' = nChainTx
        /\ unlinked' = {b \in (headers \cap seen) \ {Genesis} : Parent[b] \notin nChainTx}
        /\ failedChild' = failedChild \cup child
        /\ failedBlocks' = {}
        /\ candidates' = {b \in valid \cap seen \cap nChainTx : ~WorseBy(zero, b, tip)}
        /\ bestHeader' = CHOOSE b \in valid : \A c \in valid : ~WorseBy(zero, b, c)
        /\ pending' = TRUE
        /\ UNCHANGED <<headers, seen, data, scripts, failedValid, tip, havePruned, cs, pc, act>>

-----------------------------------------------------------------------------
ActivationStep ==
    ActivateBestChain \/ LockMain \/ FindMostWorkChain \/ DisconnectToFork \/ ConnectTip \/ ReleaseMain

InvalidationStep == InvalidateTip \/ InvalidateFails \/ InvalidateDone

Next ==
    \/ \E b \in Block \ {Genesis} : AcceptBlockHeader(b)
    \/ \E b \in Block \ {Genesis}, requested \in BOOLEAN : AcceptBlock(b, requested)
    \/ ActivationStep
    \/ \E b \in Block : PreciousBlock(b) \/ InvalidateBlock(b) \/ ResetBlockFailureFlags(b)
    \/ InvalidationStep
    \/ \E S \in SUBSET data : Prune(S)
    \/ Restart

(* The threads that hold m_chainstate_mutex or wait for it go on. *)
Fairness == WF_vars(ActivationStep) /\ WF_vars(InvalidationStep)

SafetySpec == Init /\ [][Next]_vars
Spec == SafetySpec /\ Fairness

-----------------------------------------------------------------------------
(* Properties. *)

AllProcessed(b) == Ancestors[b] \subseteq seen
AllData(b) == Ancestors[b] \subseteq data
HasInvalid(b) == Ancestors[b] \cap failedValid # {}

(***************************************************************************)
(* CheckBlockIndex: "If this block sorts at least as good as the current   *)
(* tip and is valid and we have all data for its parents, it must be in    *)
(* setBlockIndexCandidates", and the tip too even if data was pruned.      *)
(* InvalidateBlock may miss blocks until it is done.                       *)
(***************************************************************************)
CandidatesComplete ==
    ~cs /\ pc # "invalidate" =>
        \A b \in headers :
            (~Worse(b, tip) /\ AllProcessed(b) /\ ~HasInvalid(b) /\ (AllData(b) \/ b = tip))
                => b \in candidates

(***************************************************************************)
(* CheckBlockIndex: a block that sorts worse than the tip, or whose        *)
(* ancestors were not all processed, is not a candidate.  Downloading a    *)
(* pruned block again gives it a new place in the order, so that the first *)
(* part is only true of a node that did not prune.                         *)
(***************************************************************************)
CandidatesSound ==
    ~cs => \A b \in candidates : (havePruned \/ ~Worse(b, tip)) /\ AllProcessed(b)

(***************************************************************************)
(* CheckBlockIndex on nChainTx and m_blocks_unlinked: only blocks whose    *)
(* ancestors were all processed have HaveNumChainTxs, and all of these do  *)
(* on a valid and complete branch; a stored block on a valid branch that   *)
(* waits for an ancestor is in m_blocks_unlinked, as is one that           *)
(* ActivateBestChain dropped for missing data; none that misses nothing is.*)
(***************************************************************************)
UnlinkedComplete ==
    ~cs => \A b \in headers \ {Genesis} :
               /\ b \in linked => AllProcessed(b)
               /\ AllData(b) /\ ~HasInvalid(b) => b \in linked
               /\ (b \in data /\ ~AllProcessed(b) /\ ~HasInvalid(b)) => b \in unlinked
               /\ b \in unlinked => ~AllData(b)
               /\ (/\ b \in data /\ AllProcessed(b) /\ ~AllData(b) /\ ~HasInvalid(b)
                   /\ ~Worse(b, tip) /\ b \notin candidates /\ pc # "invalidate") => b \in unlinked

(***************************************************************************)
(* A block is marked failed only below an invalid block, and no block of   *)
(* the active chain is: CheckBlockIndex, and FindMostWorkChain's "we know  *)
(* all blocks in it are valid already".  Members of m_failed_blocks are    *)
(* BLOCK_FAILED_VALID, as AcceptBlockHeader asserts when a new header      *)
(* descends from one, whatever was invalidated, reconsidered or found      *)
(* invalid since it went there.                                            *)
(***************************************************************************)
FailuresJustified ==
    ~cs => /\ \A b \in Failed : HasInvalid(b)
           /\ Ancestors[tip] \cap Failed = {}
           /\ failedBlocks \subseteq failedValid

(***************************************************************************)
(* ActivateBestChain: "We absolutely may not unlock cs_main until we've    *)
(* made forward progress": the tip it leaves is not worse than the one it  *)
(* found, however many candidates turned out to be invalid.                *)
(***************************************************************************)
ForwardProgress == [][cs /\ ~cs' => ~Worse(tip', act.start)]_vars

(***************************************************************************)
(* Once nothing more arrives, the node ends on a chain with the most work  *)
(* among those it has all blocks of and that are not invalid: no wake-up   *)
(* of ActivateBestChain is lost and no target it caches is kept too long.  *)
(* Only FatalError, when a reorganisation needs a pruned block, stops it.  *)
(***************************************************************************)
TipIsBest ==
    pc # "aborted" => \A b \in headers : (AllData(b) /\ Ancestors[b] \cap (Bad \cup Failed) = {})
        => ChainWork[b] <= ChainWork[tip]
EventuallyBest == <>[]TipIsBest
===============================================================================
