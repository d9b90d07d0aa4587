-------------------------- MODULE BaseIndexProofs --------------------------
(***************************************************************************)
(* For every tree of blocks, every number of moves of the tip, flushes,    *)
(* crashes and restarts: as long as only commits whose errors are ignored  *)
(* fail, what the index answers is exact and no fatal error comes up.      *)
(***************************************************************************)
EXTENDS BaseIndexLemmas

(* Time for the provers on a busy machine. *)
USE ZenonT(60)

-----------------------------------------------------------------------------
(* The callbacks. *)

(* While callbacks are acted on the thread is not running. *)
LEMMA CallbackFacts ==
    ASSUME IInv, phase = "up", synced
    PROVE  /\ Position = best /\ sync.pc \in {"off", "done"}
           /\ TypeOK /\ Entries /\ Durable /\ IndexedTo(best) /\ Turns /\ fatal = FALSE
<1>1. TypeOK /\ Entries /\ Durable /\ IndexedTo(Position) /\ Turns /\ fatal = FALSE
  BY DEF IInv
<1>2. sync.pc \in {"off", "done"}
  BY <1>1 DEF Turns, TypeOK, ControlOK
<1>3. Position = best
  BY <1>2 DEF Position
<1> QED
  BY <1>1, <1>2, <1>3, SMT

(* A step with only the queue changed. *)
LEMMA QueueGood ==
    ASSUME IInv, phase = "up", phase' = "up", queue' \in Seq(Event), Named(queue', known),
           synced /\ best = None /\ callback.pc = "idle" => FromGenesis(queue', tip),
           UNCHANGED <<tip, known, flushed, fatal, memory, sync, callback, database>>
    PROVE  IInv'
<1>1. TypeOK /\ Entries /\ Durable /\ IndexedTo(Position) /\ Turns /\ fatal = FALSE
  BY SMT DEF IInv
<1>2. UNCHANGED <<best, synced, stats, locator, muhash, byHeight, byHash>>
  BY SMT DEF memory, database
<1>3. PICK p \in Pointer : p = Position
  BY <1>1, SMT DEF IndexedTo
<1>4. Position' = p
  BY <1>2, <1>3, SMT DEF Position, Parent, Height
<1>5. IndexedTo(p)' /\ Entries' /\ Durable'
  BY <1>1, <1>2, <1>3 DEF IndexedTo, Entries, Durable
<1>6. ControlOK'
  BY <1>1, <1>2 DEF TypeOK, ControlOK
<1>7. Common' = Common
  BY DEF Common
<1>8. Turns'
  BY <1>1, <1>2, <1>7 DEF Turns, Height
<1> QED
  BY <1>1, <1>2, <1>4, <1>5, <1>6, <1>8, Restores

(* What is known of the event that is taken, and of the others. *)
LEMMA TakeFacts ==
    ASSUME IInv, NEW type, Take(type)
    PROVE  /\ phase = "up" /\ callback.pc = "idle" /\ UNCHANGED <<tip, known, flushed, sync>>
           /\ queue' \in Seq(Event) /\ Named(queue', known)
           /\ Head(queue).type = type /\ Head(queue).block \in Pointer
           /\ type = "BlockConnected" => Head(queue).block \in Block
           /\ type = "ChainStateFlushed" => Head(queue).block \in known
           /\ type # "BlockConnected" /\ synced /\ best = None => FromGenesis(queue', tip)
           /\ type = "BlockConnected" /\ synced /\ best = None => Head(queue) = Connected(Genesis)
<1>1. /\ phase = "up" /\ callback.pc = "idle" /\ UNCHANGED <<tip, known, flushed, sync>>
      /\ queue # <<>> /\ Head(queue).type = type /\ queue' = Tail(queue)
  BY DEF Take, CallbackStep
<1>2. TypeOK /\ Announced /\ queue \in Seq(Event)
  BY <1>1 DEF IInv, TypeOK
<1>3. Head(queue) = queue[1] /\ Head(queue) \in Event /\ 1 \in 1..Len(queue)
  BY <1>1, <1>2, HeadTailProperties, EmptySeq, SMT
<1>4. queue' \in Seq(Event)
  BY <1>1, <1>2, HeadTailProperties
<1>5. Named(queue', known)
  BY <1>1, <1>2, NamedTail DEF Announced
<1>6. /\ type = "BlockConnected" => Head(queue).block # None
      /\ type = "ChainStateFlushed" => Head(queue).block \in known
  BY <1>1, <1>2, <1>3 DEF Announced, Named
<1>7. Head(queue).block \in Pointer
  BY <1>3 DEF Event
<1>8. ASSUME type # "BlockConnected", synced, best = None PROVE FromGenesis(queue', tip)
  BY <1>1, <1>2, <1>8, QueueTail DEF Announced
<1>9. ASSUME type = "BlockConnected", synced, best = None PROVE Head(queue) = Connected(Genesis)
  <2>1. FromGenesis(queue, tip)
    BY <1>1, <1>2, <1>9 DEF Announced
  <2>2. \E j \in 1..1 : queue[j] = Connected(Genesis)
    BY <1>1, <1>3, <1>9, <2>1 DEF FromGenesis
  <2> QED
    BY <1>3, <2>2, SMT
<1> QED
  BY <1>1, <1>4, <1>5, <1>6, <1>7, <1>8, <1>9 DEF Pointer

(* BlockConnected up to Rewind or CustomAppend. *)
LEMMA BlockConnectedGood ==
    ASSUME OnlyCommitsFail, IInv, BlockConnected
    PROVE  IInv' /\ phase' # "assert"
<1> DEFINE h == Head(queue).block
<1>1. Take("BlockConnected")
  BY DEF BlockConnected
<1>2. /\ phase = "up" /\ callback.pc = "idle" /\ UNCHANGED <<tip, known, flushed, sync>>
      /\ queue' \in Seq(Event) /\ Named(queue', known) /\ h \in Block
      /\ synced /\ best = None => Head(queue) = Connected(Genesis)
  BY <1>1, TakeFacts
<1>3. PICK b \in Block : b = h
  BY <1>2
<1>4. IF ~synced THEN Ignore
       ELSE IF best = None
       THEN /\ IF b = Genesis THEN callback' = At("append", b) /\ UNCHANGED fatal
                              ELSE callback' = callback /\ FatalErrorf
            /\ UNCHANGED <<phase, memory, database>>
       ELSE IF b # Genesis /\ ~IsAncestor(Parent(b), best) THEN Ignore
       ELSE IF best = Parent(b)
       THEN callback' = At("append", b) /\ UNCHANGED <<phase, fatal, memory, database>>
       ELSE IF b = Genesis THEN Aborts("null")
       ELSE IF ~RewindAsserts(best, Parent(b)) THEN Aborts("assert")
       ELSE \/ RewindCopies(best, Parent(b)) /\ callback' = At("commit", b)
            \/ CopyFails(best, Parent(b)) /\ UNCHANGED callback
  BY <1>3 DEF BlockConnected
<1>5. CASE Ignore /\ (synced => best # None)
  BY <1>2, <1>5, QueueGood DEF Ignore
<1>6. ASSUME synced,
             callback' = [pc |-> "append", pindex |-> b], Parent(b) = best,
             UNCHANGED <<phase, fatal, memory, database>>
      PROVE  IInv' /\ phase' # "assert"
  <2>1. /\ Position = best /\ sync.pc \in {"off", "done"}
        /\ TypeOK /\ Entries /\ Durable /\ IndexedTo(best) /\ Turns /\ fatal = FALSE
    BY <1>2, <1>6, CallbackFacts, SMT
  <2>2. UNCHANGED <<best, synced, stats, locator, muhash, byHeight, byHash>>
    BY <1>6, SMT DEF memory, database
  <2>3. PICK p \in Pointer : p = best
    BY <2>1 DEF TypeOK, ControlOK
  <2>4. Position' = p /\ IndexedTo(p)' /\ Entries' /\ Durable'
    BY <1>2, <2>1, <2>2, <2>3 DEF Position, IndexedTo, Entries, Durable
  <2>5. ControlOK'
    BY <1>2, <1>6, <2>1, <2>2 DEF TypeOK, ControlOK, Pointer
  <2>6. Turns'
    BY <1>2, <1>6, <2>1, <2>2, <2>3, Chains DEF Turns, Parent, Height
  <2> QED
    BY <1>2, <1>6, <2>1, <2>4, <2>5, <2>6, Restores
<1>7. CASE ~synced
  BY <1>4, <1>5, <1>7 DEF Ignore, CallbackStep
<1>8. CASE synced /\ best = None
  <2>1. b = Genesis
    BY <1>2, <1>3, <1>8, SMT DEF Connected
  <2>2. Parent(b) = best
    BY <1>8, <2>1, Parents
  <2> QED
    BY <1>4, <1>6, <1>8, <2>1, <2>2 DEF At
<1>9. CASE synced /\ best # None /\ b # Genesis /\ ~IsAncestor(Parent(b), best)
  BY <1>2, <1>4, <1>5, <1>9 DEF Ignore
<1>10. CASE synced /\ best # None /\ ~(b # Genesis /\ ~IsAncestor(Parent(b), best)) /\ best = Parent(b)
  BY <1>4, <1>6, <1>10 DEF At
<1>11. CASE synced /\ best # None /\ best # Parent(b) /\ b = Genesis
  <2>1. Aborts("null")
    BY <1>4, <1>11
  <2> QED
    BY <1>2, <2>1, AbortsGood DEF Aborts
<1>12. CASE synced /\ best # None /\ best # Parent(b) /\ b # Genesis /\ IsAncestor(Parent(b), best)
  <2>1. /\ Position = best /\ sync.pc \in {"off", "done"}
        /\ TypeOK /\ Entries /\ Durable /\ IndexedTo(best) /\ Turns /\ fatal = FALSE
    BY <1>2, <1>12, CallbackFacts, SMT
  <2>2. PICK p \in Block : p = best
    BY <1>12, <2>1, SMT DEF TypeOK, ControlOK, Pointer
  <2>3. PICK n \in Block : n = Parent(b)
    BY <1>12, Parents
  <2>4. ~CopyFails(p, n)
    BY <1>12, <2>1, <2>2, <2>3, CopyWorks DEF IndexedTo
  <2>5. RewindCopies(p, n) /\ callback' = [pc |-> "commit", pindex |-> b]
    BY <1>4, <1>12, <2>2, <2>3, <2>4 DEF RewindAsserts, At
  <2>6. Entries' /\ Durable' /\ IndexedTo(p)'
    BY <2>1, <2>2, <2>5, CopyKeeps
  <2>7. UNCHANGED <<phase, fatal, best, synced>>
    BY <2>5 DEF RewindCopies, memory
  <2>8. Position' = p
    BY <1>2, <2>1, <2>2, <2>7 DEF Position
  <2>9. ControlOK'
    BY <1>2, <2>1, <2>5, <2>7 DEF TypeOK, ControlOK, Pointer
  <2>10. Turns'
    <3>1. b # None /\ n # None /\ p # None /\ IsAncestor(n, p)
      BY <1>12, <2>2, <2>3, Chains
    <3>2. callback'.pc = "commit" /\ callback'.pindex = b /\ Parent(callback'.pindex) = n
      BY <2>3, <2>5
    <3> QED
      BY <1>2, <1>12, <2>1, <2>2, <2>7, <3>1, <3>2 DEF Turns, Parent, Height, IsAncestor
  <2> QED
    BY <1>2, <2>1, <2>5, <2>6, <2>7, <2>8, <2>9, <2>10, Restores
<1> QED
  BY <1>7, <1>8, <1>9, <1>10, <1>11, <1>12

(* The rest of Rewind in a callback. *)
LEMMA BlockConnectedRewoundGood ==
    ASSUME OnlyCommitsFail, IInv, BlockConnectedRewound
    PROVE  IInv' /\ phase' # "assert"
<1>1. /\ phase = "up" /\ callback.pc = "commit" /\ UNCHANGED <<tip, known, flushed, sync, queue>>
      /\ \/ RewindCommits(best, Parent(callback.pindex)) /\ callback' = At("append", callback.pindex)
         \/ CommitFails(best, Parent(callback.pindex)) \/ ReverseFails(best, Parent(callback.pindex))
         \/ ReverseAsserts(best, Parent(callback.pindex))
  BY SMT DEF BlockConnectedRewound, CallbackStep
<1>2. /\ synced /\ callback.pindex # None /\ best # None
      /\ Parent(callback.pindex) # None /\ IsAncestor(Parent(callback.pindex), best)
  BY <1>1 DEF IInv, Turns
<1>3. /\ Position = best /\ sync.pc \in {"off", "done"}
      /\ TypeOK /\ Entries /\ Durable /\ IndexedTo(best) /\ Turns /\ fatal = FALSE
  BY <1>1, <1>2, CallbackFacts
<1>4. PICK p \in Block : p = best
  BY <1>2, <1>3 DEF TypeOK, ControlOK, Pointer
<1>5. PICK b \in Block : b = callback.pindex
  BY <1>2, <1>3 DEF TypeOK, ControlOK, Pointer
<1>6. PICK n \in Block : n = Parent(b)
  BY <1>2, <1>5, Parents
<1>7. RewindCommits(p, n) /\ callback' = [pc |-> "append", pindex |-> b]
  BY <1>1, <1>3, <1>4, <1>5, <1>6, ReverseWorks DEF At
<1>8. Entries' /\ Durable' /\ IndexedTo(n)' /\ best' = n
  BY <1>2, <1>3, <1>4, <1>5, <1>6, <1>7, RewindKeeps
<1>9. UNCHANGED <<phase, fatal, synced>>
  BY <1>7 DEF RewindCommits
<1>10. Position' = n
  BY <1>1, <1>3, <1>8 DEF Position
<1>11. ControlOK'
  BY <1>1, <1>3, <1>7, <1>8, <1>9 DEF TypeOK, ControlOK, Pointer
<1>12. Turns'
  <2>1. callback'.pc = "append" /\ callback'.pindex = b /\ b # None /\ Parent(b) = n
    BY <1>6, <1>7, Chains
  <2> QED
    BY <1>1, <1>2, <1>3, <1>8, <1>9, <2>1 DEF Turns, Parent, Height
<1>13. Named(queue', known) /\ queue' \in Seq(Event)
  BY <1>1, <1>3 DEF IInv, Announced, TypeOK
<1> QED
  BY <1>1, <1>3, <1>7, <1>8, <1>9, <1>10, <1>11, <1>12, <1>13, Restores

(* A callback indexes a block. *)
LEMMA BlockConnectedAppendGood ==
    ASSUME OnlyCommitsFail, IInv, BlockConnectedAppend
    PROVE  IInv'
<1>1. /\ phase = "up" /\ callback.pc = "append" /\ UNCHANGED <<tip, known, flushed, sync, queue, phase, synced>>
      /\ \/ CustomAppend(callback.pindex) /\ best' = callback.pindex /\ UNCHANGED fatal
         \/ AppendFails(callback.pindex)
      /\ callback' = [pc |-> "idle", pindex |-> None]
  BY DEF BlockConnectedAppend, CallbackStep, At
<1>2. synced /\ callback.pindex # None /\ Parent(callback.pindex) = best
  BY <1>1 DEF IInv, Turns
<1>3. /\ Position = best /\ sync.pc \in {"off", "done"}
      /\ TypeOK /\ Entries /\ Durable /\ IndexedTo(best) /\ Turns /\ fatal = FALSE
  BY <1>1, <1>2, CallbackFacts
<1>4. PICK b \in Block : b = callback.pindex
  BY <1>2, <1>3 DEF TypeOK, ControlOK, Pointer
<1>5. IndexedTo(Parent(b))
  BY <1>2, <1>3, <1>4
<1>6. CustomAppend(b) /\ best' = b /\ UNCHANGED fatal
  <2>1. CanAppend(b)
    BY <1>5, Appendable DEF IndexedTo
  <2> QED
    BY <1>1, <1>4, <2>1 DEF AppendFails, OnlyCommitsFail
<1>7. Entries' /\ Durable' /\ IndexedTo(b)'
  BY <1>3, <1>5, <1>6, Appended
<1>8. Position' = b
  BY <1>1, <1>3, <1>6 DEF Position
<1>9. ControlOK'
  BY <1>1, <1>3, <1>6 DEF TypeOK, ControlOK, Pointer
<1>10. Turns'
  BY <1>1, <1>2, <1>3 DEF Turns
<1>11. Named(queue', known) /\ queue' \in Seq(Event)
  BY <1>1, <1>3 DEF IInv, Announced, TypeOK
<1> QED
  BY <1>1, <1>3, <1>6, <1>7, <1>8, <1>9, <1>10, <1>11, Chains, Restores

(* ChainStateFlushed. *)
LEMMA ChainStateFlushedGood ==
    ASSUME IInv, ChainStateFlushed
    PROVE  IInv' /\ phase' # "assert"
<1>1. Take("ChainStateFlushed")
  BY SMT DEF ChainStateFlushed
<1>2. /\ phase = "up" /\ callback.pc = "idle" /\ UNCHANGED <<tip, known, flushed, sync>>
      /\ queue' \in Seq(Event) /\ Named(queue', known) /\ Head(queue).block \in known
      /\ synced /\ best = None => FromGenesis(queue', tip)
  <2>1. "ChainStateFlushed" # "BlockConnected"
    OBVIOUS
  <2> QED
    BY <1>1, <2>1, TakeFacts
<1>3. \/ Ignore
      \/ synced /\ best = None /\ Aborts("null")
      \/ synced /\ Commit(best, stats) /\ UNCHANGED <<phase, fatal, memory, callback>>
  BY <1>2 DEF ChainStateFlushed
<1>4. CASE Ignore
  BY <1>2, <1>4, QueueGood DEF Ignore
<1>5. CASE Aborts("null")
  BY <1>2, <1>5, AbortsGood DEF Aborts
<1>6. CASE synced /\ Commit(best, stats) /\ UNCHANGED <<phase, fatal, memory, callback>>
  <2>1. /\ Position = best /\ sync.pc \in {"off", "done"}
        /\ TypeOK /\ Entries /\ Durable /\ IndexedTo(best) /\ Turns /\ fatal = FALSE
    BY <1>2, <1>6, CallbackFacts, SMT
  <2>2. UNCHANGED <<best, synced, stats>>
    BY <1>6, SMT DEF memory
  <2>3. PICK p \in Pointer : p = best
    BY <2>1, SMT DEF TypeOK, ControlOK
  <2>4. Entries' /\ Durable' /\ IndexedTo(p)'
    BY <1>6, <2>1, <2>2, <2>3, CommitKeeps
  <2>5. Position' = p
    BY <1>2, <2>1, <2>2, <2>3 DEF Position
  <2>6. ControlOK'
    BY <1>2, <1>6, <2>1, <2>2 DEF TypeOK, ControlOK
  <2>7. Turns'
    BY <1>2, <1>6, <2>1, <2>2 DEF Turns
  <2> QED
    BY <1>2, <1>6, <2>1, <2>2, <2>4, <2>5, <2>6, <2>7, Restores
<1> QED
  BY <1>3, <1>4, <1>5, <1>6

-----------------------------------------------------------------------------
(* The chainstate, the readers, the end and the start. *)

(* The blocks of a prefix are blocks of the chain. *)
LEMMA BelowBlocks ==
    ASSUME NEW a, NEW b \in Pointer, Below(a, b)
    PROVE  BlocksOf(a) \subseteq BlocksOf(b)
<1>1. a \in Pointer /\ Len(ChainOf(a)) <= Len(ChainOf(b)) /\ \A i \in 1..Len(ChainOf(a)) : ChainOf(a)[i] = ChainOf(b)[i]
  BY BelowChains
<1>2. Len(ChainOf(a)) \in Nat /\ Len(ChainOf(b)) \in Nat
  BY <1>1, PointerChains
<1>3. \A i \in 1..Len(ChainOf(a)) : i \in 1..Len(ChainOf(b))
  BY <1>1, <1>2, SMT
<1> QED
  BY <1>1, <1>3 DEF BlocksOf

(* A block is one of its chain. *)
LEMMA SelfOnChain ==
    ASSUME NEW b \in Block
    PROVE  b \in BlocksOf(b) /\ BlocksOf(b) \subseteq Block
<1>1. b \in Pointer /\ b # None /\ ChainOf(b) = Chain[b] /\ Len(ChainOf(b)) = Height(b)
  BY Chains, PointerChains DEF Pointer
<1>2. Height(b) \in 1..Len(ChainOf(b)) /\ ChainOf(b)[Height(b)] = b
  BY <1>1, Chains, SMT
<1> QED
  BY <1>1, <1>2, PointerChains DEF BlocksOf

(* A flush on the way is of blocks that are known. *)
LEMMA FlushPointsGood ==
    ASSUME NEW b \in Block, tip \in Pointer, NEW f \in FlushPoints(b)
    PROVE  /\ f.tip \in Pointer /\ f.locator \in Block
           /\ BlocksOf(f.tip) \subseteq BlocksOf(b) \cup BlocksOf(tip)
           /\ f.locator \in BlocksOf(b) \cup BlocksOf(tip)
<1> DEFINE n == ForkHeight(tip, b)
<1>1. b \in Pointer /\ Height(b) \in Nat \ {0} /\ n \in Nat /\ Len(ChainOf(tip)) \in Nat
  <2>1. b \in Pointer /\ Height(b) \in Nat \ {0} /\ Len(ChainOf(tip)) \in Nat
    BY Chains, PointerChains DEF Pointer
  <2> QED
    BY <2>1, Forks, SMT
<1>2. CASE \E i \in (n + 1..Height(b)) \ {1} :
             f = [tip |-> Chain[b][i], locator |-> Parent(Chain[b][i])]
  <2>1. PICK i \in (n + 1..Height(b)) \ {1} :
             f = [tip |-> Chain[b][i], locator |-> Parent(Chain[b][i])]
    BY <1>2
  <2>2. i \in 1..Height(b) /\ i # 1
    BY <1>1, <2>1, SMT
  <2>3. Chain[b][i] \in Block /\ Height(Chain[b][i]) = i /\ Below(Chain[b][i], b)
    BY <2>2, Prefixes, OnChainBelow
  <2>4. Parent(Chain[b][i]) \in Block /\ Below(Parent(Chain[b][i]), Chain[b][i])
    BY <2>2, <2>3, Parents, ParentBelow
  <2>5. BlocksOf(Parent(Chain[b][i])) \subseteq BlocksOf(Chain[b][i]) /\ BlocksOf(Chain[b][i]) \subseteq BlocksOf(b)
    BY <1>1, <2>3, <2>4, BelowBlocks DEF Pointer
  <2>6. Parent(Chain[b][i]) \in BlocksOf(b)
    BY <2>4, <2>5, SelfOnChain
  <2> QED
    BY <2>1, <2>3, <2>4, <2>5, <2>6 DEF Pointer
<1>3. CASE \E i \in n + 1..Len(ChainOf(tip)) :
             f = [tip |-> Parent(ChainOf(tip)[i]), locator |-> ChainOf(tip)[i]]
  <2>1. PICK i \in n + 1..Len(ChainOf(tip)) :
             f = [tip |-> Parent(ChainOf(tip)[i]), locator |-> ChainOf(tip)[i]]
    BY <1>3
  <2>2. i \in 1..Len(ChainOf(tip)) /\ tip \in Block /\ ChainOf(tip) = Chain[tip] /\ i \in 1..Height(tip)
    BY <1>1, <2>1, PointerChains, SMT
  <2>3. PICK x \in Block : x = ChainOf(tip)[i] /\ Below(x, tip)
    BY <2>2, Prefixes, OnChainBelow
  <2>4. Parent(x) \in Pointer /\ Below(Parent(x), x)
    BY <2>3, Parents, ParentBelow
  <2>5. Below(Parent(x), tip)
    BY <2>3, <2>4, BelowTransitive
  <2>6. BlocksOf(Parent(x)) \subseteq BlocksOf(tip) /\ x \in BlocksOf(tip)
    BY <2>2, <2>3, <2>5, BelowBlocks DEF BlocksOf
  <2> QED
    BY <2>1, <2>3, <2>4, <2>6
<1>4. \/ \E i \in (n + 1..Height(b)) \ {1} : f = [tip |-> Chain[b][i], locator |-> Parent(Chain[b][i])]
      \/ \E i \in n + 1..Len(ChainOf(tip)) : f = [tip |-> Parent(ChainOf(tip)[i]), locator |-> ChainOf(tip)[i]]
  BY DEF FlushPoints
<1> QED
  BY <1>2, <1>3, <1>4

(* ActivateBestChain and InvalidateBlock. *)
LEMMA ActivateGood ==
    ASSUME IInv, NEW b \in Block, Activate(b)
    PROVE  IInv' /\ phase' # "assert"
<1> DEFINE n == ForkHeight(tip, b)
           signals == [i \in 1..Height(b) - n |-> Connected(Chain[b][n + i])]
<1>1. /\ phase = "up" /\ sync.pc # "commit" /\ b # tip /\ tip' = b /\ known' = known \cup BlocksOf(b)
      /\ UNCHANGED <<phase, fatal, memory, sync, callback, database>>
      /\ \/ queue' = queue \o signals /\ UNCHANGED flushed
         \/ \E f \in FlushPoints(b) : /\ flushed' = [tip |-> f.tip, known |-> known']
                                      /\ queue' = Append(queue, Flushed(f.locator)) \o signals
  BY DEF Activate, Unlocked
<1>2. TypeOK /\ Entries /\ Durable /\ IndexedTo(Position) /\ Turns /\ Announced /\ fatal = FALSE
  BY <1>1 DEF IInv
<1>3. UNCHANGED <<best, synced, stats, locator, muhash, byHeight, byHash>>
  BY <1>1, SMT DEF memory, database
<1>4. /\ tip \in Pointer /\ b \in Pointer /\ b # None /\ queue \in Seq(Event) /\ BlocksOf(tip) \subseteq known
      /\ known \subseteq Block /\ BlocksOf(b) \subseteq Block
  BY <1>2, Chains, SelfOnChain DEF TypeOK, ChainstateOK, Pointer
<1>5. n \in Nat /\ n <= Height(b) /\ Height(b) \in Nat \ {0} /\ (tip = None => n = 0)
  <2>1. Len(ChainOf(b)) = Height(b) /\ Height(b) \in Nat \ {0} /\ Len(ChainOf(tip)) \in Nat
        /\ (tip = None => Len(ChainOf(tip)) = 0)
    BY <1>4, PointerChains, Chains
  <2> QED
    BY <1>4, <2>1, Forks, SMT
<1>6. \A i \in 1..Height(b) - n : Chain[b][n + i] \in Block
  <2>1. \A i \in 1..Height(b) - n : n + i \in 1..Height(b)
    BY <1>5, SMT
  <2> QED
    BY <2>1, Chains
<1>7. /\ signals \in Seq(Event) /\ Len(signals) = Height(b) - n
      /\ \A i \in 1..Height(b) - n : signals[i] = Connected(Chain[b][n + i])
  <2>1. Height(b) - n \in Nat
    BY <1>5, SMT
  <2>2. \A i \in 1..Height(b) - n : Connected(Chain[b][n + i]) \in Event
    BY <1>6, EventTypes DEF Pointer
  <2>3. signals \in [1..Height(b) - n -> Event]
    BY <2>2, SMT
  <2> HIDE DEF n
  <2> QED
    BY <2>1, <2>3, SMT
<1>8. \A i \in 1..Len(signals) : signals[i].type = "BlockConnected" /\ signals[i].block # None
  <2> HIDE DEF signals, n
  <2>1. ASSUME NEW i \in 1..Len(signals) PROVE signals[i].type = "BlockConnected" /\ signals[i].block # None
    <3>1. i \in 1..Height(b) - n
      BY <1>7
    <3>2. signals[i] = Connected(Chain[b][n + i])
      BY <1>7, <3>1
    <3>3. Chain[b][n + i] \in Block
      BY <1>6, <3>1
    <3> QED
      BY <3>2, <3>3, Chains, SMT DEF Connected
  <2> QED
    BY <2>1, SMT
<1>9. tip = None => signals # <<>> /\ signals[1] = Connected(Genesis)
  <2>1. ASSUME tip = None PROVE signals # <<>> /\ signals[1] = Connected(Genesis)
    <3>1. n = 0 /\ 1 \in 1..Height(b) - n /\ n + 1 = 1
      BY <1>5, <2>1, SMT
    <3>2. signals[1] = Connected(Chain[b][1])
      BY <1>7, <3>1
    <3> HIDE DEF signals
    <3>3. Len(signals) # 0
      BY <1>5, <1>7, <3>1, SMT
    <3> QED
      BY <1>7, <3>2, <3>3, Chains, EmptySeq
  <2> QED
    BY <2>1
<1> HIDE DEF signals, n
<1>10. Named(queue, known')
  BY <1>1, <1>2 DEF Announced, Named
<1>11. PICK q \in Seq(Event) :
        /\ queue' = q \o signals /\ Named(q, known')
        /\ FromGenesis(queue, tip) => FromGenesis(q, tip)
        /\ flushed' \in [tip : Pointer, known : SUBSET Block] /\ BlocksOf(flushed'.tip) \subseteq flushed'.known
  <2>1. CASE queue' = queue \o signals /\ UNCHANGED flushed
    BY <1>2, <1>4, <1>10, <2>1 DEF TypeOK, ChainstateOK
  <2>2. CASE \E f \in FlushPoints(b) : /\ flushed' = [tip |-> f.tip, known |-> known']
                                       /\ queue' = Append(queue, Flushed(f.locator)) \o signals
    <3>1. PICK f \in FlushPoints(b) : /\ flushed' = [tip |-> f.tip, known |-> known']
                                      /\ queue' = Append(queue, Flushed(f.locator)) \o signals
      BY <2>2
    <3>2. /\ f.tip \in Pointer /\ f.locator \in Block
          /\ BlocksOf(f.tip) \subseteq known' /\ f.locator \in known'
      BY <1>1, <1>4, FlushPointsGood
    <3>3. known' \subseteq Block
      BY <1>1, <1>4
    <3>4. Flushed(f.locator) \in Event /\ Flushed(f.locator).type = "ChainStateFlushed"
          /\ Flushed(f.locator).block = f.locator
      BY <3>2, EventTypes DEF Flushed, Pointer
    <3>5. Append(queue, Flushed(f.locator)) \in Seq(Event)
      BY <1>4, <3>4, AppendProperties
    <3>6. Named(Append(queue, Flushed(f.locator)), known')
      BY <1>4, <1>10, <3>2, <3>4, NamedAppend
    <3>7. FromGenesis(queue, tip) => FromGenesis(Append(queue, Flushed(f.locator)), tip)
      BY <1>4, <3>4, QueueAppend
    <3> QED
      BY <3>1, <3>2, <3>3, <3>5, <3>6, <3>7
  <2> QED
    BY <1>1, <2>1, <2>2
<1>12. queue' \in Seq(Event) /\ Named(queue', known')
  BY <1>7, <1>8, <1>11, ConcatProperties, NamedConcat
<1>13. FromGenesis(queue, tip) => FromGenesis(queue', tip')
  BY <1>7, <1>9, <1>11, QueueConcat
<1>14. TypeOK'
  <2>1. tip' \in Pointer /\ known' \subseteq Block /\ BlocksOf(tip)' \subseteq known'
    BY <1>1, <1>4 DEF BlocksOf, ChainOf
  <2>2. ChainstateOK'
    BY <1>11, <2>1 DEF ChainstateOK, BlocksOf, ChainOf
  <2>3. ControlOK'
    BY <1>1, <1>2, <1>3 DEF TypeOK, ControlOK
  <2> QED
    BY <1>12, <2>2, <2>3 DEF TypeOK
<1>15. Announced'
  BY <1>1, <1>2, <1>3, <1>12, <1>13 DEF Announced
<1>16. Turns'
  BY <1>1, <1>2, <1>3, <1>4 DEF Turns, Parent, Height, IsAncestor
<1>17. PICK p \in Pointer : p = Position
  BY <1>2 DEF IndexedTo
<1>18. Position' = p
  BY <1>1, <1>3, <1>17 DEF Position, Parent, Height
<1>19. IndexedTo(Position)' /\ Entries' /\ Durable'
  BY <1>2, <1>3, <1>17, <1>18 DEF IndexedTo, Entries, Durable
<1> QED
  BY <1>1, <1>2, <1>14, <1>15, <1>16, <1>19 DEF IInv

(* FlushStateToDisk. *)
LEMMA FlushGood ==
    ASSUME IInv, Flush
    PROVE  IInv' /\ phase' # "assert"
<1>1. /\ phase = "up" /\ tip # None /\ flushed' = [tip |-> tip, known |-> known]
      /\ queue' = Append(queue, Flushed(tip))
      /\ UNCHANGED <<phase, tip, known, fatal, memory, sync, callback, database>>
  BY DEF Flush, Unlocked
<1>2. TypeOK /\ Entries /\ Durable /\ IndexedTo(Position) /\ Turns /\ Announced /\ fatal = FALSE
  BY <1>1 DEF IInv
<1>3. UNCHANGED <<best, synced, stats, locator, muhash, byHeight, byHash>>
  BY <1>1 DEF memory, database
<1>4. tip \in Block /\ tip \in Pointer /\ tip \in known /\ known \subseteq Block /\ queue \in Seq(Event)
  <2>1. tip \in Pointer /\ known \subseteq Block /\ BlocksOf(tip) \subseteq known /\ queue \in Seq(Event)
    BY <1>2 DEF TypeOK, ChainstateOK
  <2>2. tip \in Block
    BY <1>1, <2>1 DEF Pointer
  <2> QED
    BY <2>1, <2>2, SelfOnChain
<1>5. Flushed(tip) \in Event /\ Flushed(tip).type = "ChainStateFlushed" /\ Flushed(tip).block = tip
  BY <1>4, EventTypes DEF Flushed
<1>6. queue' \in Seq(Event) /\ Named(queue', known)
  BY <1>1, <1>2, <1>4, <1>5, AppendProperties, NamedAppend DEF Announced
<1>7. FromGenesis(queue, tip) => FromGenesis(queue', tip)
  BY <1>1, <1>4, <1>5, QueueAppend
<1>8. TypeOK'
  <2>1. ChainstateOK'
    BY <1>1, <1>2, <1>4 DEF TypeOK, ChainstateOK, BlocksOf, ChainOf
  <2>2. ControlOK'
    BY <1>1, <1>2, <1>3 DEF TypeOK, ControlOK
  <2> QED
    BY <1>6, <2>1, <2>2 DEF TypeOK
<1>9. Announced'
  BY <1>1, <1>2, <1>3, <1>6, <1>7 DEF Announced
<1>10. Common' = Common
  BY <1>1 DEF Common
<1>11. Turns'
  BY <1>1, <1>2, <1>3, <1>10 DEF Turns
<1>12. PICK p \in Pointer : p = Position
  BY <1>2 DEF IndexedTo
<1>13. Position' = p
  BY <1>1, <1>3, <1>12 DEF Position, Parent, Height
<1>14. IndexedTo(Position)' /\ Entries' /\ Durable'
  BY <1>2, <1>3, <1>12, <1>13 DEF IndexedTo, Entries, Durable
<1> QED
  BY <1>1, <1>2, <1>8, <1>9, <1>11, <1>14 DEF IInv

(* BlockUntilSyncedToCurrentChain. *)
LEMMA ReaderGood ==
    ASSUME IInv, ReaderBegin \/ ReaderSync \/ ReaderReturn \/ Interrupt
    PROVE  IInv' /\ phase' # "assert"
<1>1. phase = "up" /\ UNCHANGED <<tip, known, flushed, fatal, memory, sync, callback, database>>
  BY DEF ReaderBegin, ReaderSync, ReaderReturn, Interrupt, ReaderStep, Take, CallbackStep, chainstate
<1>2. queue \in Seq(Event) /\ Announced
  BY <1>1 DEF IInv, TypeOK
<1>3. CASE ReaderBegin \/ Interrupt
  <2>1. queue' = queue /\ phase' \in {"up", "null"}
    BY <1>1, <1>3 DEF ReaderBegin, Interrupt, chainstate
  <2>2. CASE phase' = "up"
    BY <1>1, <1>2, <2>1, <2>2, QueueGood DEF Announced
  <2>3. CASE phase' = "null"
    BY <1>1, <1>2, <2>1, <2>3, AbortsGood DEF Aborts
  <2> QED
    BY <2>1, <2>2, <2>3
<1>4. CASE ReaderSync
  <2> DEFINE e == [type |-> "Sync", block |-> None]
  <2>1. queue' = Append(queue, e) /\ phase' = "up"
    BY <1>1, <1>4 DEF ReaderSync
  <2>2. e \in Event /\ e.type = "Sync"
    BY EventTypes DEF Pointer
  <2> HIDE DEF e
  <2>3. queue' \in Seq(Event) /\ Named(queue', known)
    BY <1>2, <2>1, <2>2, AppendProperties, NamedAppend DEF Announced
  <2>4. FromGenesis(queue, tip) => FromGenesis(queue', tip)
    BY <1>2, <2>1, <2>2, QueueAppend
  <2> QED
    BY <1>1, <1>2, <2>1, <2>3, <2>4, QueueGood DEF Announced
<1>5. CASE ReaderReturn
  <2>1. Take("Sync") /\ phase' = "up"
    BY <1>1, <1>5 DEF ReaderReturn
  <2>2. queue' \in Seq(Event) /\ Named(queue', known) /\ (synced /\ best = None => FromGenesis(queue', tip))
    BY <2>1, TakeFacts, SMT
  <2> QED
    BY <1>1, <2>1, <2>2, QueueGood, SMT
<1> QED
  BY <1>3, <1>4, <1>5, SMT

(* The end of the process, in whatever way. *)
LEMMA OffGood ==
    ASSUME IInv, Off
    PROVE  IInv' /\ phase' # "assert"
<1>1. /\ phase' = "down" /\ tip' = None /\ known' = {} /\ queue' = <<>> /\ fatal' = FALSE
      /\ best' = None /\ synced' = FALSE
      /\ sync' = [pc |-> "off", pindex |-> None] /\ callback' = [pc |-> "idle", pindex |-> None]
      /\ UNCHANGED <<flushed, locator, muhash, byHeight, byHash>>
  BY SMT DEF Off, At, database
<1>2. TypeOK /\ Entries /\ Durable
  BY DEF IInv
<1>3. ChainstateOK'
  <2>1. BlocksOf(None) = {}
    BY PointerChains, SMT DEF BlocksOf, Pointer
  <2> QED
    BY <1>1, <1>2, <2>1 DEF TypeOK, ChainstateOK, Pointer, BlocksOf, ChainOf
<1>4. TypeOK'
  BY <1>1, <1>3, EmptySeq DEF TypeOK, ControlOK, Pointer
<1> QED
  BY <1>1, <1>2, <1>4 DEF IInv, Entries, Durable, Idle

(* Init and CustomInit. *)
LEMMA StartUpGood ==
    ASSUME IInv, StartUp
    PROVE  IInv' /\ phase' # "assert"
<1>1. /\ phase = "down"
      /\ UNCHANGED <<flushed, queue, fatal, sync, callback, locator, muhash, byHeight, byHash>>
  BY DEF StartUp, database
<1>2. TypeOK /\ Entries /\ Durable /\ Idle /\ fatal = FALSE
  BY <1>1 DEF IInv
<1>3. ASSUME locator # None PROVE LookUp(locator) = Found(muhash)
  BY <1>2, <1>3, LookUpTop DEF Durable, Pointer
<1>4. CASE phase' = "refused" /\ UNCHANGED <<tip, known, memory>>
  <2>1. TypeOK' /\ Entries' /\ Durable'
    <3>1. UNCHANGED <<tip, known, flushed, queue, best, synced, stats, sync, callback>>
      BY <1>1, <1>4 DEF memory
    <3>2. ChainstateOK' /\ ControlOK'
      BY <1>2, <3>1 DEF TypeOK, ChainstateOK, ControlOK, BlocksOf, ChainOf
    <3> QED
      BY <1>1, <1>2, <3>1, <3>2 DEF TypeOK, Entries, Durable
  <2> QED
    BY <1>1, <1>2, <1>4, <2>1 DEF IInv
<1>5. CASE /\ phase' = "up" /\ tip' = flushed.tip /\ known' = flushed.known
           /\ best' = locator /\ stats' = muhash /\ synced' = (locator = flushed.tip)
  <2>1. TypeOK'
    <3>1. ChainstateOK'
      BY <1>1, <1>2, <1>5 DEF TypeOK, ChainstateOK, BlocksOf, ChainOf
    <3>2. ControlOK'
      BY <1>1, <1>2, <1>5 DEF TypeOK, ControlOK, Durable
    <3> QED
      BY <1>1, <1>2, <3>1, <3>2 DEF TypeOK
  <2>2. PICK p \in Pointer : p = locator
    BY <1>2 DEF Durable
  <2>3. Position' = p
    BY <1>1, <1>2, <1>5, <2>2 DEF Position, Idle
  <2>4. Below(p, p)
    BY BelowSelf
  <2>5. IndexedTo(Position)' /\ Entries' /\ Durable'
    BY <1>1, <1>2, <1>5, <2>2, <2>3, <2>4 DEF IndexedTo, Entries, Durable
  <2>6. Turns'
    BY <1>1, <1>2 DEF Turns, Idle
  <2>7. Announced'
    <3>1. queue' = <<>> /\ Len(queue') = 0
      BY <1>1, <1>2, EmptySeq DEF Idle
    <3>2. Named(queue', known')
      BY <3>1, SMT DEF Named
    <3>3. ASSUME synced', best' = None PROVE FromGenesis(queue', tip')
      <4>1. tip' = None
        BY <1>5, <3>3
      <4> QED
        BY <3>1, <4>1, SMT DEF FromGenesis
    <3> QED
      BY <3>2, <3>3 DEF Announced
  <2> QED
    BY <1>1, <1>2, <1>5, <2>1, <2>5, <2>6, <2>7 DEF IInv
<1> QED
  BY <1>3, <1>4, <1>5, SMT DEF StartUp

-----------------------------------------------------------------------------
LEMMA InitGood ==
    Init => IInv
<1> SUFFICES ASSUME Init PROVE IInv
  OBVIOUS
<1>1. BlocksOf(None) = {} /\ None \in Pointer /\ Len(ChainOf(None)) = 0
  <2>1. None \in Pointer /\ Len(ChainOf(None)) = 0
    BY PointerChains DEF Pointer
  <2> QED
    BY <2>1, SMT DEF BlocksOf
<1>2. Zero \in Value /\ Sum(None) = Zero
  BY SumType DEF Zero, Value, Pointer
<1>3. \A b \in Pointer : BlocksOf(b) \subseteq Block
  BY <1>1, SelfOnChain DEF Pointer
<1>4. ChainstateOK
  BY <1>1, <1>3, SMT DEF Init, ChainstateOK, Pointer
<1>5. TypeOK
  BY <1>4, EmptySeq DEF Init, TypeOK, ControlOK, Pointer
<1>6. Entries
  BY <1>2 DEF Init, Entries, NoEntry, NoValue, Pointer
<1>7. Durable
  <2>1. locator = None /\ muhash = Zero
    BY DEF Init
  <2>2. Holds(byHeight, None)
    BY <1>1, SMT DEF Holds
  <2> QED
    BY <1>1, <1>2, <2>1, <2>2, SMT DEF Durable
<1> QED
  BY <1>5, <1>6, <1>7, SMT DEF Init, IInv, Idle

(* Nothing happens. *)
LEMMA StutterGood ==
    IInv /\ UNCHANGED vars => IInv'
<1> SUFFICES ASSUME IInv, UNCHANGED vars PROVE IInv'
  OBVIOUS
<1>1. UNCHANGED <<phase, tip, known, flushed, queue, fatal, best, synced, stats, sync, callback, locator, muhash,
                  byHeight, byHash>>
  BY DEF vars, chainstate, memory, database
<1>2. TypeOK <=> TypeOK'
  BY <1>1 DEF TypeOK, ChainstateOK, ControlOK, BlocksOf, ChainOf
<1>3. (Entries <=> Entries') /\ (Durable <=> Durable') /\ (Idle <=> Idle') /\ (Announced <=> Announced')
  BY <1>1 DEF Entries, Durable, Idle, Announced
<1>4. Position' = Position /\ Common' = Common
  BY <1>1 DEF Position, Common
<1>5. Turns <=> Turns'
  BY <1>1, <1>4 DEF Turns
<1>6. IndexedTo(Position) <=> IndexedTo(Position)'
  BY <1>1, <1>4 DEF IndexedTo
<1> QED
  BY <1>1, <1>2, <1>3, <1>5, <1>6 DEF IInv

(* Which assertion may fail. *)
OnlyFirst == phase' = "assert" /\ phase # "assert" => SyncRewind /\ sync.pindex # best

(* Every step keeps the invariant. *)
LEMMA NextGood ==
    ASSUME OnlyCommitsFail, IInv, Next
    PROVE  IInv' /\ OnlyFirst
<1>1. CASE SyncStart \/ SyncInterrupted \/ SyncFinished \/ SyncNext \/ SyncWrite
  <2>1. phase' = phase
    BY <1>1 DEF SyncStart, SyncInterrupted, SyncFinished, SyncNext, SyncWrite
  <2> QED
    BY <1>1, <2>1, SyncStartGood, SyncCommitGood, SyncNextGood DEF OnlyFirst
<1>2. CASE SyncRewind
  BY <1>2, SyncRewindGood DEF OnlyFirst
<1>3. CASE SyncRewound \/ SyncAppend \/ BlockConnected \/ BlockConnectedRewound \/ BlockConnectedAppend
  <2>1. SyncAppend \/ BlockConnectedAppend => phase' = phase
    BY DEF SyncAppend, BlockConnectedAppend
  <2> QED
    BY <1>3, <2>1, SyncRewoundGood, SyncAppendGood, BlockConnectedGood, BlockConnectedRewoundGood,
       BlockConnectedAppendGood DEF OnlyFirst
<1>4. CASE ChainStateFlushed \/ ReaderReturn \/ ReaderBegin \/ ReaderSync \/ Interrupt \/ StartUp \/ Flush
  BY <1>4, ChainStateFlushedGood, ReaderGood, StartUpGood, FlushGood DEF OnlyFirst
<1>5. CASE \E b \in Block : Activate(b)
  BY <1>5, ActivateGood DEF OnlyFirst
<1>6. CASE Shutdown \/ Crash
  <2>1. Off
    BY <1>6, SMT DEF Shutdown, Crash
  <2> QED
    BY <2>1, OffGood DEF OnlyFirst
<1> QED
  BY <1>1, <1>2, <1>3, <1>4, <1>5, <1>6 DEF Next, ThreadSync, Callback

(***************************************************************************)
(* The height index has the chain up to the block the statistics count,    *)
(* the committed block is on it, and the sync thread and the callbacks     *)
(* take turns (src/src/index/base.cpp), in every tree of blocks.           *)
(***************************************************************************)
THEOREM Invariance ==
    ASSUME OnlyCommitsFail
    PROVE  SafetySpec => []IInv
<1>1. IInv /\ [Next]_vars => IInv'
  BY NextGood, StutterGood, SMT
<1> QED
  BY <1>1, InitGood, PTL DEF SafetySpec

(***************************************************************************)
(* Whatever LookUpStats answers is the sum over the chain of the block,    *)
(* and the state on disk passes CustomInit (src/src/index/                 *)
(* coinstatsindex.cpp), as long as only commits fail whose errors are      *)
(* ignored.                                                                *)
(***************************************************************************)
THEOREM Exactness ==
    ASSUME OnlyCommitsFail
    PROVE  SafetySpec => []StatsExact
<1>1. ASSUME IInv PROVE StatsExact
  <2>1. Entries /\ Durable
    BY <1>1 DEF IInv
  <2>2. ASSUME NEW b \in Block, LookUp(b).found PROVE LookUp(b).value = Sum(b)
    <3>1. Height(b) \in Heights
      BY DEF Heights
    <3>2. CASE byHeight[Height(b)].block = None
      BY <2>2, <3>2 DEF LookUp, NoValue
    <3>3. CASE byHeight[Height(b)].block # None /\ byHeight[Height(b)].block = b
      BY <2>1, <3>1, <3>3 DEF LookUp, Found, Entries
    <3>4. CASE byHeight[Height(b)].block # None /\ byHeight[Height(b)].block # b
      BY <2>1, <2>2, <3>4 DEF LookUp, Entries
    <3> QED
      BY <3>2, <3>3, <3>4
  <2>3. ASSUME locator # None PROVE LookUp(locator) = Found(muhash)
    BY <2>1, <2>3, LookUpTop DEF Durable, Pointer
  <2> QED
    BY <2>2, <2>3 DEF StatsExact
<1> QED
  BY <1>1, Invariance, PTL

(***************************************************************************)
(* No callback is out of order for the index, no entry it needs is         *)
(* missing, and no start finds it corrupted, as long as only commits fail  *)
(* whose errors are ignored.                                               *)
(***************************************************************************)
THEOREM NoFatalErrors ==
    ASSUME OnlyCommitsFail
    PROVE  SafetySpec => []NoFatalError
<1>1. IInv => NoFatalError
  BY SMT DEF IInv, NoFatalError
<1> QED
  BY <1>1, Invariance, PTL

(***************************************************************************)
(* The only assertion of a rewind that can fail is the first one of        *)
(* BaseIndex::Rewind (src/src/index/base.cpp:240), in the sync thread, and *)
(* only while m_best_block_index is behind it.                             *)
(***************************************************************************)
THEOREM OnlyFirstAssertion ==
    ASSUME OnlyCommitsFail
    PROVE  SafetySpec => [][OnlyFirst]_vars
<1>1. IInv /\ [Next]_vars => [OnlyFirst]_vars
  BY NextGood, SMT
<1> QED
  BY <1>1, Invariance, PTL DEF SafetySpec
=============================================================================
