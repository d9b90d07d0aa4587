-------------------------- MODULE CheckQueueProofs --------------------------
(***************************************************************************)
(* The counters of the check queue are exact and Wait returns the right    *)
(* result, for any number of workers and checks and any batch size.        *)
(***************************************************************************)
EXTENDS CheckQueue, FiniteSetTheorems, TLAPS

(* Time for the provers on a busy machine. *)
USE SMTT(60)

-----------------------------------------------------------------------------
(* The inductive invariant. *)

(* A control object exists. *)
Controlling == {"adding", "notifyOne", "notifyAll", "start", "waiting", "woken", "working"}
Leaving == {"notifyStop", "joining", "gone"}

(* Exactly the working threads hold checks. *)
HoldsBatch == \A t \in Thread : pc[t] = "working" <=> vChecks[t] # {}

(* While a control object exists, a failure that is known is in fAllOk,    *)
(* and nothing else is; otherwise nothing is open.                         *)
Verdicts ==
    /\ Open \subseteq added
    /\ pc[Master] \in Controlling =>
           /\ ~fAllOk => added \cap Bad # {}
           /\ (added \ Open) \cap Bad # {} => ~fAllOk
    /\ pc[Master] \notin Controlling => Open = {} /\ fAllOk
    /\ \A t \in Thread : (pc[t] = "working" /\ ~fOk[t]) => ~fAllOk

StopInv ==
    /\ stop => pc[Master] \in Leaving
    /\ pc[Master] # "stopped"

IInv == TypeOK /\ CountersExact /\ HoldsBatch /\ Verdicts /\ StopInv /\ ResultExact

-----------------------------------------------------------------------------
(* Sets and their sizes. *)

LEMMA ThreadFinite == IsFiniteSet(Thread)
  BY CheckQueueAssumption, FS_AddElement DEF Thread

LEMMA OpenMember ==
    \A x : x \in Open <=> x \in queue \/ \E t \in Thread : x \in vChecks[t]
  BY DEF Open

LEMMA OpenMemberPrime ==
    \A x : x \in Open' <=> x \in queue' \/ \E t \in Thread : x \in vChecks'[t]
  BY DEF Open

(* The batch is not empty and no larger than what it is asked from. *)
LEMMA BatchPositive ==
    ASSUME NEW size \in Nat, NEW total \in Nat, NEW idle \in Nat
    PROVE  Batch(size, total, idle) \in Nat \ {0}
  <1>1. size \div (total + idle + 1) \in Int
    OBVIOUS
  <1>2. QED
    BY <1>1, CheckQueueAssumption DEF Batch

(* Removing a part from a finite set. *)
LEMMA CardinalityMinus ==
    ASSUME NEW S, NEW T \in SUBSET S, IsFiniteSet(S)
    PROVE  /\ IsFiniteSet(S \ T) /\ IsFiniteSet(T)
           /\ Cardinality(S) \in Nat /\ Cardinality(T) \in Nat
           /\ Cardinality(S \ T) = Cardinality(S) - Cardinality(T)
  <1>1. IsFiniteSet(T)
    BY FS_Subset
  <1>2. S \cap T = T
    OBVIOUS
  <1>3. QED
    BY <1>1, <1>2, FS_Difference, FS_CardinalityType, ZenonT(60)

-----------------------------------------------------------------------------
(***************************************************************************)
(* Head(t, p, total, idle, todo, allOk): what a thread t has established   *)
(* when the loop logically starts: t is counted in nTotal and nowhere      *)
(* else, and its last batch is accounted for.                              *)
(***************************************************************************)
Rest(t) == {x \in Check : x \in queue \/ \E u \in Thread \ {t} : x \in vChecks[u]}
OthersIdle(t, p) == {u \in Thread \ {t} : p[u] \in {"waiting", "woken"}}
OthersInLoop(t, p) == {u \in Thread \ {t} : p[u] \in {"waiting", "woken", "working", "stopped"}}

HeadCounters(t, p, total, idle, todo) ==
    /\ total = Cardinality(OthersInLoop(t, p)) + 1
    /\ idle = Cardinality(OthersIdle(t, p))
    /\ todo = Cardinality(Rest(t))

HeadVerdict(t, p, allOk) ==
    /\ allOk \in BOOLEAN
    /\ p[Master] \in Controlling =>
           /\ ~allOk => added \cap Bad # {}
           /\ (added \ Rest(t)) \cap Bad # {} => ~allOk
    /\ p[Master] \notin Controlling => Rest(t) = {} /\ allOk
    /\ \A u \in Thread \ {t} : (p[u] = "working" /\ ~fOk[u]) => ~allOk

(* p differs from pc only in that the master may have been notified. *)
Notified(t, p) ==
    \/ p = pc
    \/ t # Master /\ pc[Master] = "waiting" /\ p = [pc EXCEPT ![Master] = "woken"]

Head(t, p, total, idle, todo, allOk) ==
    /\ pc[t] \in {"start", "woken", "working"}
    /\ Notified(t, p)
    /\ HeadCounters(t, p, total, idle, todo)
    /\ HeadVerdict(t, p, allOk)

LEMMA HeadFacts ==
    ASSUME IInv, NEW t \in Thread, NEW p,
           pc[t] \in {"start", "woken", "working"}, Notified(t, p)
    PROVE  /\ p \in [Thread -> LoopState \cup MasterState]
           /\ \A w \in Worker : p[w] \in LoopState
           /\ \A u \in Thread \ {t} : p[u] = "working" <=> vChecks[u] # {}
           /\ p[Master] # "stopped"
           /\ stop => p[Master] \in Leaving /\ t # Master
           /\ p[Master] = "outside" <=> pc[Master] = "outside"
           /\ IsFiniteSet(Rest(t))
           /\ IsFiniteSet(OthersIdle(t, p)) /\ IsFiniteSet(OthersInLoop(t, p))
  <1> SUFFICES /\ p \in [Thread -> LoopState \cup MasterState]
               /\ \A w \in Worker : p[w] \in LoopState
               /\ \A u \in Thread \ {t} : p[u] = "working" <=> vChecks[u] # {}
               /\ p[Master] # "stopped"
               /\ stop => p[Master] \in Leaving /\ t # Master
               /\ p[Master] = "outside" <=> pc[Master] = "outside"
    <2>1. IsFiniteSet(Rest(t))
      BY CheckQueueAssumption, FS_Subset, Rest(t) \in SUBSET Check DEF Rest
    <2>2. IsFiniteSet(OthersIdle(t, p)) /\ IsFiniteSet(OthersInLoop(t, p))
      BY ThreadFinite, FS_Subset, OthersIdle(t, p) \in SUBSET Thread,
         OthersInLoop(t, p) \in SUBSET Thread
      DEF OthersIdle, OthersInLoop
    <2>3. QED
      BY <2>1, <2>2
  <1>1. CASE p = pc
    BY <1>1 DEF IInv, TypeOK, HoldsBatch, StopInv, Leaving
  <1>2. CASE t # Master /\ pc[Master] = "waiting" /\ p = [pc EXCEPT ![Master] = "woken"]
    BY <1>2, CheckQueueAssumption
    DEF IInv, TypeOK, HoldsBatch, StopInv, Leaving, LoopState, MasterState, Thread
  <1>3. QED
    BY <1>1, <1>2 DEF Notified

(* t moves a part S of the queue, possibly nothing, to its batch and goes  *)
(* to s.                                                                   *)
Moves(t, p, s, S) ==
    /\ s \in {"stopped", "outside", "waiting", "working"} /\ S \subseteq queue
    /\ pc' = [p EXCEPT ![t] = s]
    /\ vChecks' = [vChecks EXCEPT ![t] = S]
    /\ queue' = queue \ S

(* The sets and their sizes then. *)
SizesAfter(t, p, s) ==
    /\ Open' = Rest(t)
    /\ \A u \in Thread : vChecks'[u] \cap queue' = {}
    /\ \A u, v \in Thread : u # v => vChecks'[u] \cap vChecks'[v] = {}
    /\ Cardinality(Idle') =
           IF s = "waiting" THEN Cardinality(OthersIdle(t, p)) + 1
                            ELSE Cardinality(OthersIdle(t, p))
    /\ Cardinality(InLoop') =
           IF s = "outside" THEN Cardinality(OthersInLoop(t, p))
                            ELSE Cardinality(OthersInLoop(t, p)) + 1

LEMMA MoveSizes ==
    ASSUME IInv, NEW t \in Thread, NEW p,
           pc[t] \in {"start", "woken", "working"}, Notified(t, p),
           NEW s, NEW S, Moves(t, p, s, S)
    PROVE  SizesAfter(t, p, s)
  <1>t. TypeOK /\ CountersExact
    BY DEF IInv
  <1>m. /\ s \in {"stopped", "outside", "waiting", "working"} /\ S \subseteq queue
        /\ pc' = [p EXCEPT ![t] = s]
        /\ vChecks' = [vChecks EXCEPT ![t] = S]
        /\ queue' = queue \ S
    BY DEF Moves
  <1>p. p \in [Thread -> LoopState \cup MasterState]
    BY HeadFacts
  <1>f. IsFiniteSet(OthersIdle(t, p)) /\ IsFiniteSet(OthersInLoop(t, p))
    BY HeadFacts
  <1>v. /\ vChecks'[t] = S
        /\ \A u \in Thread \ {t} : vChecks'[u] = vChecks[u]
    BY <1>t, <1>m DEF TypeOK
  <1>1. Open' = Rest(t)
    <2>1. \A x : x \in Open' <=> x \in queue \/ \E u \in Thread \ {t} : x \in vChecks[u]
      BY OpenMemberPrime, <1>v, <1>t, <1>m DEF CountersExact
    <2>2. QED
      BY <2>1, <1>t DEF Rest, TypeOK
  <1>2. \A u \in Thread : vChecks'[u] \cap queue' = {}
    BY <1>v, <1>t, <1>m DEF CountersExact
  <1>3. \A u, v \in Thread : u # v => vChecks'[u] \cap vChecks'[v] = {}
    BY <1>v, <1>t, <1>m DEF CountersExact
  <1>4. Idle' = IF s = "waiting" THEN OthersIdle(t, p) \cup {t} ELSE OthersIdle(t, p)
    BY <1>p, <1>m DEF Idle, OthersIdle
  <1>5. InLoop' = IF s = "outside" THEN OthersInLoop(t, p) ELSE OthersInLoop(t, p) \cup {t}
    BY <1>p, <1>m DEF InLoop, OthersInLoop
  <1>6. t \notin OthersIdle(t, p) /\ t \notin OthersInLoop(t, p)
    BY DEF OthersIdle, OthersInLoop
  <1>7. /\ Cardinality(OthersIdle(t, p) \cup {t}) = Cardinality(OthersIdle(t, p)) + 1
        /\ Cardinality(OthersInLoop(t, p) \cup {t}) = Cardinality(OthersInLoop(t, p)) + 1
    BY <1>6, <1>f, FS_AddElement, Zenon
  <1>8. QED
    BY <1>1, <1>2, <1>3, <1>4, <1>5, <1>7 DEF SizesAfter

LEMMA RestAdded ==
    ASSUME IInv, NEW t \in Thread
    PROVE  Rest(t) \subseteq added
  <1>1. Open \subseteq added
    BY DEF IInv, Verdicts
  <1>2. QED
    BY <1>1, OpenMember DEF Rest

LEMMA TurnPreserves ==
    ASSUME IInv, NEW t \in Thread, NEW p, NEW total, NEW idle, NEW todo, NEW allOk,
           Head(t, p, total, idle, todo, allOk),
           Turn(t, p, total, idle, todo, allOk)
    PROVE  IInv'
  <1>t. TypeOK /\ ResultExact
    BY DEF IInv
  <1>h. /\ pc[t] \in {"start", "woken", "working"} /\ Notified(t, p)
        /\ HeadCounters(t, p, total, idle, todo) /\ HeadVerdict(t, p, allOk)
    BY DEF Head
  <1>f. /\ p \in [Thread -> LoopState \cup MasterState]
        /\ \A w \in Worker : p[w] \in LoopState
        /\ \A u \in Thread \ {t} : p[u] = "working" <=> vChecks[u] # {}
        /\ p[Master] # "stopped"
        /\ stop => p[Master] \in Leaving /\ t # Master
        /\ p[Master] = "outside" <=> pc[Master] = "outside"
    BY <1>h, HeadFacts
  <1>c. /\ IsFiniteSet(Rest(t))
        /\ Cardinality(Rest(t)) \in Nat /\ Cardinality(OthersIdle(t, p)) \in Nat
        /\ Cardinality(OthersInLoop(t, p)) \in Nat
    BY <1>h, HeadFacts, FS_CardinalityType
  <1>m. Master \in Thread /\ Worker \subseteq Thread /\ Master \notin Worker
    BY CheckQueueAssumption DEF Thread
  <1>u. nTodo' = todo /\ stop' = stop /\ added' = added
    BY DEF Turn
  <1>1. CASE Stop(t, p, total, idle, allOk)
    <2>1. /\ stop /\ pc' = [p EXCEPT ![t] = "stopped"] /\ queue' = queue \ {}
          /\ vChecks' = [vChecks EXCEPT ![t] = {}]
          /\ nTotal' = total /\ nIdle' = idle /\ fAllOk' = allOk
          /\ fOk' = fOk /\ returned' = returned
      BY <1>1 DEF Stop
    <2>m. Moves(t, p, "stopped", {})
      BY <2>1 DEF Moves
    <2>a. SizesAfter(t, p, "stopped")
      BY <1>h, <2>m, MoveSizes
    <2>2. TypeOK'
      BY <1>t, <1>f, <1>c, <1>h, <1>u, <1>m, <2>1 DEF TypeOK, HeadCounters, HeadVerdict, LoopState
    <2>3. CountersExact'
      BY <1>h, <1>u, <2>1, <2>a, Zenon DEF SizesAfter, CountersExact, HeadCounters
    <2>4. HoldsBatch'
      BY <1>f, <1>t, <2>1, Zenon DEF HoldsBatch, TypeOK
    <2>5. p[Master] \notin Controlling /\ pc'[Master] = p[Master]
      BY <1>f, <1>m, <2>1, Zenon DEF Controlling, Leaving
    <2>6. Verdicts'
      BY <1>h, <1>f, <1>u, <2>1, <2>a, <2>5 DEF SizesAfter, Verdicts, HeadVerdict
    <2>7. StopInv'
      BY <1>f, <1>u, <2>5 DEF StopInv
    <2>8. ResultExact'
      BY <1>t, <1>f, <1>u, <2>1, <2>5 DEF ResultExact
    <2>9. QED
      BY <2>2, <2>3, <2>4, <2>6, <2>7, <2>8 DEF IInv
  <1>2. CASE Return(t, p, total, idle, todo, allOk)
    <2>1. /\ ~stop /\ pc' = [p EXCEPT ![t] = "outside"] /\ queue' = queue \ {}
          /\ vChecks' = [vChecks EXCEPT ![t] = {}] /\ t = Master /\ todo = 0
          /\ nTotal' = total - 1 /\ nIdle' = idle /\ fAllOk' = TRUE
          /\ fOk' = fOk /\ returned' = allOk
      BY <1>2 DEF Return, MayReturn
    <2>m. Moves(t, p, "outside", {})
      BY <2>1 DEF Moves
    <2>a. SizesAfter(t, p, "outside")
      BY <1>h, <2>m, MoveSizes
    <2>2. TypeOK'
      BY <1>t, <1>f, <1>c, <1>h, <1>u, <1>m, <2>1
      DEF TypeOK, HeadCounters, HeadVerdict, MasterState
    <2>3. CountersExact'
      BY <1>c, <1>h, <1>u, <2>1, <2>a DEF SizesAfter, CountersExact, HeadCounters
    <2>4. HoldsBatch'
      BY <1>f, <1>t, <2>1 DEF HoldsBatch, TypeOK
    <2>5. Rest(t) = {}
      BY <1>c, <1>h, <2>1, FS_EmptySet, Zenon DEF HeadCounters
    <2>6. pc'[Master] = "outside"
      BY <1>f, <1>m, <2>1
    <2>7. \A u \in Thread : pc'[u] # "working"
      <3>1. \A u \in Thread : vChecks'[u] = {}
        BY <2>5, <2>a, OpenMemberPrime DEF SizesAfter
      <3>2. QED
        BY <3>1, <2>4 DEF SizesAfter, HoldsBatch
    <2>8. Verdicts'
      BY <2>1, <2>a, <2>5, <2>6, <2>7 DEF SizesAfter, Verdicts, Controlling
    <2>9. StopInv'
      BY <1>u, <2>1, <2>6 DEF StopInv
    <2>10. p[Master] \in Controlling
      BY <1>h, <2>1 DEF Notified, Controlling
    <2>11. ResultExact'
      BY <1>h, <1>u, <2>1, <2>5, <2>10 DEF ResultExact, HeadVerdict
    <2>12. QED
      BY <2>2, <2>3, <2>4, <2>8, <2>9, <2>11 DEF IInv
  <1>3. CASE Sleep(t, p, total, idle, todo, allOk)
    <2>1. /\ ~stop /\ pc' = [p EXCEPT ![t] = "waiting"] /\ queue' = queue \ {}
          /\ vChecks' = [vChecks EXCEPT ![t] = {}]
          /\ nTotal' = total /\ nIdle' = idle + 1 /\ fAllOk' = allOk
          /\ fOk' = fOk /\ returned' = returned
      BY <1>3 DEF Sleep
    <2>m. Moves(t, p, "waiting", {})
      BY <2>1 DEF Moves
    <2>a. SizesAfter(t, p, "waiting")
      BY <1>h, <2>m, MoveSizes
    <2>2. TypeOK'
      BY <1>t, <1>f, <1>c, <1>h, <1>u, <1>m, <2>1 DEF TypeOK, HeadCounters, HeadVerdict, LoopState
    <2>3. CountersExact'
      BY <1>h, <1>u, <2>1, <2>a, Zenon DEF SizesAfter, CountersExact, HeadCounters
    <2>4. HoldsBatch'
      BY <1>f, <1>t, <2>1, Zenon DEF HoldsBatch, TypeOK
    <2>5. /\ pc'[Master] \in Controlling <=> p[Master] \in Controlling
          /\ pc'[Master] # "stopped"
          /\ pc'[Master] = "outside" => pc[Master] = "outside"
      BY <1>f, <1>m, <1>h, <2>1, Zenon DEF Controlling, Notified
    <2>6. Verdicts'
      BY <1>h, <1>f, <1>u, <2>1, <2>a, <2>5, <1>t, RestAdded, Zenon DEF SizesAfter, Verdicts, HeadVerdict
    <2>7. StopInv'
      BY <1>u, <2>1, <2>5, Zenon DEF StopInv
    <2>8. ResultExact'
      BY <1>t, <1>u, <2>1, <2>5, Zenon DEF ResultExact
    <2>9. QED
      BY <2>2, <2>3, <2>4, <2>6, <2>7, <2>8 DEF IInv
  <1>4. CASE Take(t, p, total, idle, allOk)
    <2>s. PICK S \in SUBSET queue :
              /\ Cardinality(S) = Batch(Cardinality(queue), total, idle)
              /\ vChecks' = [vChecks EXCEPT ![t] = S] /\ queue' = queue \ S
      BY <1>4, Zenon DEF Take
    <2>1. /\ ~stop /\ pc' = [p EXCEPT ![t] = "working"]
          /\ nTotal' = total /\ nIdle' = idle /\ fAllOk' = allOk
          /\ fOk' = [fOk EXCEPT ![t] = allOk] /\ returned' = returned
      BY <1>4 DEF Take
    <2>m. Moves(t, p, "working", S)
      BY <2>1, <2>s DEF Moves
    <2>a. SizesAfter(t, p, "working")
      BY <1>h, <2>m, MoveSizes
    <2>e. S # {}
      <3>1. Cardinality(queue) \in Nat
        BY <1>t, CheckQueueAssumption, FS_Subset, FS_CardinalityType DEF TypeOK
      <3>2. Cardinality(S) # 0
        BY <3>1, <2>s, <1>c, <1>h, BatchPositive DEF HeadCounters
      <3>3. QED
        BY <3>2, FS_EmptySet
    <2>2. TypeOK'
      BY <1>t, <1>f, <1>c, <1>h, <1>u, <1>m, <2>1, <2>s
      DEF TypeOK, HeadCounters, HeadVerdict, LoopState
    <2>3. CountersExact'
      BY <1>h, <1>u, <2>1, <2>a, Zenon DEF SizesAfter, CountersExact, HeadCounters
    <2>4. HoldsBatch'
      BY <1>f, <1>t, <2>1, <2>s, <2>e, Zenon DEF HoldsBatch, TypeOK
    <2>5. /\ pc'[Master] \in Controlling <=> p[Master] \in Controlling
          /\ pc'[Master] # "stopped"
          /\ pc'[Master] = "outside" => pc[Master] = "outside"
      BY <1>f, <1>m, <1>h, <2>1, Zenon DEF Controlling, Notified
    <2>6. Verdicts'
      <3>1. \A u \in Thread : (pc'[u] = "working" /\ ~fOk'[u]) => ~fAllOk'
        <4>1. \A u \in Thread \ {t} : pc'[u] = p[u] /\ fOk'[u] = fOk[u]
          BY <1>t, <1>f, <2>1 DEF TypeOK
        <4>2. fOk'[t] = allOk
          BY <1>t, <2>1 DEF TypeOK
        <4> QED
          BY <1>h, <2>1, <4>1, <4>2, Zenon DEF HeadVerdict
      <3> QED
        BY <1>h, <1>u, <2>1, <2>a, <2>5, <3>1, RestAdded, Zenon DEF SizesAfter, Verdicts, HeadVerdict
    <2>7. StopInv'
      BY <1>u, <2>1, <2>5, Zenon DEF StopInv
    <2>8. ResultExact'
      BY <1>t, <1>u, <2>1, <2>5, Zenon DEF ResultExact
    <2>9. QED
      BY <2>2, <2>3, <2>4, <2>6, <2>7, <2>8, Zenon DEF IInv
  <1>5. QED
    BY <1>1, <1>2, <1>3, <1>4 DEF Turn

-----------------------------------------------------------------------------
(* The three ways to reach the head of the loop. *)

(* What IInv says of the sizes and of t's batch. *)
LEMMA LoopFacts ==
    ASSUME IInv, NEW t \in Thread
    PROVE  /\ nTotal = Cardinality(InLoop) /\ nIdle = Cardinality(Idle)
           /\ nTodo = Cardinality(Open)
           /\ IsFiniteSet(InLoop) /\ IsFiniteSet(Idle) /\ IsFiniteSet(Open)
           /\ Open \subseteq Check /\ vChecks[t] \subseteq Open
           /\ Rest(t) = Open \ vChecks[t]
           /\ pc[t] # "working" => vChecks[t] = {}
  <1>1. Open \subseteq Check /\ vChecks[t] \subseteq Open
    BY OpenMember DEF IInv, TypeOK
  <1>2. IsFiniteSet(Open)
    BY <1>1, CheckQueueAssumption, FS_Subset
  <1>3. IsFiniteSet(InLoop) /\ IsFiniteSet(Idle)
    BY ThreadFinite, FS_Subset, InLoop \in SUBSET Thread, Idle \in SUBSET Thread
    DEF InLoop, Idle
  <1>4. Rest(t) = Open \ vChecks[t]
    <2>1. \A x \in queue : x \notin vChecks[t]
      BY DEF IInv, CountersExact
    <2>2. \A u \in Thread \ {t} : \A x \in vChecks[u] : x \notin vChecks[t]
      BY DEF IInv, CountersExact
    <2>3. QED
      BY <1>1, <2>1, <2>2, OpenMember DEF Rest
  <1>5. pc[t] # "working" => vChecks[t] = {}
    BY DEF IInv, HoldsBatch
  <1>6. nTotal = Cardinality(InLoop) /\ nIdle = Cardinality(Idle) /\ nTodo = Cardinality(Open)
    BY DEF IInv, CountersExact
  <1>7. QED
    BY <1>1, <1>2, <1>3, <1>4, <1>5, <1>6

LEMMA EnterHead ==
    ASSUME IInv, NEW t \in Thread, pc[t] = "start"
    PROVE  Head(t, pc, nTotal + 1, nIdle, nTodo, fAllOk)
  <1>1. Rest(t) = Open
    BY LoopFacts, Zenon
  <1>2. OthersInLoop(t, pc) = InLoop /\ OthersIdle(t, pc) = Idle
    BY DEF OthersInLoop, OthersIdle, InLoop, Idle
  <1>3. HeadCounters(t, pc, nTotal + 1, nIdle, nTodo)
    BY <1>1, <1>2, LoopFacts DEF HeadCounters
  <1>4. HeadVerdict(t, pc, fAllOk)
    BY <1>1 DEF HeadVerdict, IInv, Verdicts, TypeOK
  <1>5. QED
    BY <1>3, <1>4, Zenon DEF Head, Notified

LEMMA ResumeHead ==
    ASSUME IInv, NEW t \in Thread, pc[t] = "woken"
    PROVE  Head(t, pc, nTotal, nIdle - 1, nTodo, fAllOk)
  <1>1. Rest(t) = Open
    BY LoopFacts, Zenon
  <1>2. /\ OthersInLoop(t, pc) = InLoop \ {t} /\ OthersIdle(t, pc) = Idle \ {t}
        /\ t \in InLoop /\ t \in Idle
    BY DEF OthersInLoop, OthersIdle, InLoop, Idle
  <1>3. /\ Cardinality(InLoop \ {t}) = Cardinality(InLoop) - 1
        /\ Cardinality(Idle \ {t}) = Cardinality(Idle) - 1
        /\ Cardinality(InLoop) \in Nat
    BY <1>2, LoopFacts, FS_RemoveElement, FS_CardinalityType, Zenon
  <1>4. HeadCounters(t, pc, nTotal, nIdle - 1, nTodo)
    BY <1>1, <1>2, <1>3, LoopFacts DEF HeadCounters
  <1>5. HeadVerdict(t, pc, fAllOk)
    BY <1>1 DEF HeadVerdict, IInv, Verdicts, TypeOK
  <1>6. QED
    BY <1>4, <1>5 DEF Head, Notified

LEMMA FinishHead ==
    ASSUME IInv, NEW t \in Thread, pc[t] = "working", NEW todo,
           todo = nTodo - Cardinality(vChecks[t])
    PROVE  Head(t, NotifyMaster(t, todo), nTotal, nIdle, todo, Verdict(t))
  <1> DEFINE p == NotifyMaster(t, todo)
  <1>0. pc \in [Thread -> LoopState \cup MasterState] /\ Master \in Thread
    BY DEF IInv, TypeOK, Thread
  <1>1. Notified(t, p)
    BY Zenon DEF Notified, NotifyMaster
  <1>2. OthersInLoop(t, p) = InLoop \ {t} /\ OthersIdle(t, p) = Idle /\ t \in InLoop
    BY <1>0, Zenon DEF OthersInLoop, OthersIdle, InLoop, Idle, NotifyMaster
  <1>3. /\ Cardinality(InLoop \ {t}) = Cardinality(InLoop) - 1
        /\ Cardinality(InLoop) \in Nat
    BY <1>2, LoopFacts, FS_RemoveElement, FS_CardinalityType, Zenon
  <1>4. todo = Cardinality(Rest(t))
    <2>1. /\ nTodo = Cardinality(Open) /\ IsFiniteSet(Open)
          /\ vChecks[t] \in SUBSET Open /\ Rest(t) = Open \ vChecks[t]
      BY LoopFacts, Zenon
    <2>2. Cardinality(Open \ vChecks[t]) = Cardinality(Open) - Cardinality(vChecks[t])
      BY <2>1, CardinalityMinus, Zenon
    <2> QED
      BY <2>1, <2>2, Zenon
  <1> HIDE DEF p
  <1>5. HeadCounters(t, p, nTotal, nIdle, todo)
    BY <1>2, <1>3, <1>4, LoopFacts DEF HeadCounters
  <1>6. HeadVerdict(t, p, Verdict(t))
    <2>1. /\ Open \subseteq added /\ pc[Master] \in Controlling
          /\ ~fAllOk => added \cap Bad # {}
          /\ (added \ Open) \cap Bad # {} => ~fAllOk
          /\ \A u \in Thread : (pc[u] = "working" /\ ~fOk[u]) => ~fAllOk
      <3>1. Open # {}
        BY LoopFacts DEF IInv, HoldsBatch
      <3>2. QED
        BY <3>1 DEF IInv, Verdicts
    <2>2. p[Master] \in Controlling
      BY <1>0, <2>1, Zenon DEF p, NotifyMaster, Controlling
    <2>3. ~Verdict(t) => added \cap Bad # {}
      BY <2>1, LoopFacts, Zenon DEF Verdict
    <2>4. (added \ Rest(t)) \cap Bad # {} => ~Verdict(t)
      BY <2>1, LoopFacts, Zenon DEF Verdict
    <2>5. \A u \in Thread \ {t} : (p[u] = "working" /\ ~fOk[u]) => ~Verdict(t)
      BY <1>0, <2>1, Zenon DEF p, Verdict, NotifyMaster
    <2>6. Verdict(t) \in BOOLEAN
      BY DEF Verdict
    <2>7. QED
      BY <2>2, <2>3, <2>4, <2>5, <2>6 DEF HeadVerdict
  <1>7. QED
    BY <1>1, <1>5, <1>6 DEF Head, p

-----------------------------------------------------------------------------
(* The actions. *)

LEMMA InitIInv == Init => IInv
  <1> SUFFICES ASSUME Init PROVE IInv
    OBVIOUS
  <1> USE DEF Init
  <1>1. Open = {} /\ Idle = {} /\ InLoop = {}
    BY Zenon DEF Open, Idle, InLoop
  <1>2. TypeOK
    BY CheckQueueAssumption, Zenon DEF TypeOK, Thread, LoopState, MasterState
  <1>3. CountersExact
    BY <1>1, FS_EmptySet DEF CountersExact
  <1>4. HoldsBatch /\ Verdicts /\ StopInv /\ ResultExact
    BY <1>1 DEF HoldsBatch, Verdicts, StopInv, ResultExact, Controlling, Thread
  <1>5. QED
    BY <1>2, <1>3, <1>4 DEF IInv

(* Steps that change program counters but neither the counters nor who is  *)
(* in the loop, idle or working.                                           *)
LEMMA PcStep ==
    ASSUME IInv, UNCHANGED queueVars, added' \subseteq Check,
           pc' \in [Thread -> LoopState \cup MasterState],
           \A w \in Worker : pc'[w] \in LoopState,
           Idle' = Idle, InLoop' = InLoop,
           \A t \in Thread : pc'[t] = "working" <=> pc[t] = "working",
           stop' \in BOOLEAN
    PROVE  TypeOK' /\ CountersExact' /\ HoldsBatch' /\ Open' = Open
  <1>1. /\ queue' = queue /\ nIdle' = nIdle /\ nTotal' = nTotal /\ nTodo' = nTodo
        /\ fAllOk' = fAllOk /\ vChecks' = vChecks /\ fOk' = fOk /\ returned' = returned
    BY DEF queueVars
  <1>2. Open' = Open
    BY <1>1 DEF Open
  <1>3. TypeOK'
    BY <1>1 DEF IInv, TypeOK
  <1>4. CountersExact'
    BY <1>1, <1>2 DEF IInv, CountersExact
  <1>5. HoldsBatch'
    BY <1>1 DEF IInv, HoldsBatch
  <1>6. QED
    BY <1>2, <1>3, <1>4, <1>5

LEMMA LoopStepPreserves ==
    ASSUME IInv, NEW t \in Thread, LoopStep(t)
    PROVE  IInv'
  <1>1. CASE Enter(t)
    BY <1>1, EnterHead, TurnPreserves DEF Enter
  <1>2. CASE Resume(t)
    BY <1>2, ResumeHead, TurnPreserves, Zenon DEF Resume
  <1>3. CASE Finish(t)
    BY <1>3, FinishHead, TurnPreserves DEF Finish
  <1>4. QED
    BY <1>1, <1>2, <1>3 DEF LoopStep

LEMMA WakeUpPreserves ==
    ASSUME IInv, NEW t \in Thread, WakeUp(t)
    PROVE  IInv'
  <1>0. TypeOK /\ Verdicts /\ StopInv /\ ResultExact
    BY DEF IInv
  <1>1. /\ pc[t] = "waiting" /\ pc' = [pc EXCEPT ![t] = "woken"]
        /\ UNCHANGED queueVars /\ stop' = stop /\ added' = added
        /\ fAllOk' = fAllOk /\ fOk' = fOk /\ returned' = returned
    BY Zenon DEF WakeUp, queueVars
  <1>2. /\ pc' \in [Thread -> LoopState \cup MasterState]
        /\ \A w \in Worker : pc'[w] \in LoopState
        /\ Idle' = Idle /\ InLoop' = InLoop
        /\ \A u \in Thread : pc'[u] = "working" <=> pc[u] = "working"
    BY <1>0, <1>1, Zenon DEF TypeOK, LoopState, Idle, InLoop, Thread
  <1>3. TypeOK' /\ CountersExact' /\ HoldsBatch' /\ Open' = Open
    BY <1>0, <1>1, <1>2, PcStep DEF TypeOK
  <1>4. /\ pc'[Master] \in Controlling <=> pc[Master] \in Controlling
        /\ pc'[Master] # "stopped" /\ pc'[Master] = "outside" => pc[Master] = "outside"
        /\ pc[Master] \in Leaving => pc'[Master] \in Leaving
    BY <1>0, <1>1, Zenon DEF TypeOK, StopInv, Controlling, Leaving, Thread
  <1>5. Verdicts'
    BY <1>0, <1>1, <1>2, <1>3, <1>4 DEF Verdicts
  <1>6. StopInv' /\ ResultExact'
    BY <1>0, <1>1, <1>4 DEF StopInv, ResultExact
  <1>7. QED
    BY <1>3, <1>5, <1>6 DEF IInv

(* The master goes on outside the loop, and may notify waiting workers. *)
MasterMoves(to) ==
    /\ pc[Master] \in MasterState /\ to \in MasterState \cup {"start"}
    /\ pc' \in [Thread -> LoopState \cup MasterState] /\ pc'[Master] = to
    /\ \A w \in Worker : pc'[w] = pc[w] \/ (pc[w] = "waiting" /\ pc'[w] = "woken")
    /\ UNCHANGED queueVars

LEMMA MasterMovesCounters ==
    ASSUME IInv, NEW to, MasterMoves(to), added' \subseteq Check, stop' \in BOOLEAN
    PROVE  /\ TypeOK' /\ CountersExact' /\ HoldsBatch' /\ Open' = Open
           /\ \A t \in Thread : pc'[t] = "working" <=> pc[t] = "working"
  <1> USE DEF MasterMoves
  <1>1. /\ \A w \in Worker : pc'[w] \in LoopState
        /\ Idle' = Idle /\ InLoop' = InLoop
        /\ \A t \in Thread : pc'[t] = "working" <=> pc[t] = "working"
    BY DEF IInv, TypeOK, LoopState, MasterState, Idle, InLoop, Thread
  <1>2. QED
    BY <1>1, PcStep, Zenon

(* If a control object exists after the step exactly when it did before it, *)
(* the results are untouched.                                              *)
LEMMA MasterMovesPreserves ==
    ASSUME IInv, NEW to, MasterMoves(to), added' = added, stop' \in BOOLEAN,
           pc[Master] \in Controlling <=> to \in Controlling,
           to # "outside", stop' => to \in Leaving
    PROVE  IInv'
  <1>1. /\ pc'[Master] = to /\ to # "stopped" /\ fAllOk' = fAllOk /\ fOk' = fOk
    BY Zenon DEF MasterMoves, queueVars, MasterState
  <1>2. added' \subseteq Check
    BY Zenon DEF IInv, TypeOK
  <1>3. /\ TypeOK' /\ CountersExact' /\ HoldsBatch' /\ Open' = Open
        /\ \A t \in Thread : pc'[t] = "working" <=> pc[t] = "working"
    BY <1>2, MasterMovesCounters, Zenon
  <1>4. Verdicts'
    BY <1>1, <1>3, Zenon DEF IInv, Verdicts
  <1>5. StopInv' /\ ResultExact'
    BY <1>1, Zenon DEF StopInv, ResultExact
  <1>6. QED
    BY <1>3, <1>4, <1>5, Zenon DEF IInv

LEMMA StepMoves ==
    ASSUME IInv, NEW from \in MasterState, NEW to \in MasterState \cup {"start"},
           Step(from, to), UNCHANGED queueVars
    PROVE  MasterMoves(to) /\ pc[Master] = from
  BY CheckQueueAssumption, Zenon DEF IInv, TypeOK, Step, MasterMoves, Thread, LoopState

LEMMA NotifyMoves ==
    ASSUME IInv, NEW S \in SUBSET WaitingWorkers, NEW to \in MasterState,
           pc[Master] \in MasterState, Notify(S, to)
    PROVE  MasterMoves(to) /\ added' = added /\ stop' = stop
  <1>1. pc' = [t \in Thread |-> IF t = Master THEN to ELSE IF t \in S THEN "woken" ELSE pc[t]]
    BY DEF Notify
  <1>2. \A w \in S : w \in Worker /\ pc[w] = "waiting"
    BY DEF WaitingWorkers
  <1>3. pc \in [Thread -> LoopState \cup MasterState] /\ Master \in Thread
        /\ Worker \subseteq Thread /\ Master \notin Worker
    BY CheckQueueAssumption DEF IInv, TypeOK, Thread
  <1>4. pc' \in [Thread -> LoopState \cup MasterState]
    BY <1>1, <1>3 DEF LoopState
  <1>5. pc'[Master] = to
    BY <1>1, <1>3
  <1>6. \A w \in Worker : pc'[w] = pc[w] \/ (pc[w] = "waiting" /\ pc'[w] = "woken")
    BY <1>1, <1>2, <1>3
  <1>7. QED
    BY <1>4, <1>5, <1>6, Zenon DEF MasterMoves, Notify

LEMMA ControlPreserves ==
    ASSUME IInv, Control
    PROVE  IInv'
  <1>1. Step("outside", "adding") /\ added' = {} /\ UNCHANGED queueVars /\ stop' = stop
    BY DEF Control
  <1>2. MasterMoves("adding") /\ pc[Master] = "outside"
    BY <1>1, StepMoves, Zenon DEF MasterState
  <1>3. /\ TypeOK' /\ CountersExact' /\ HoldsBatch' /\ Open' = Open
        /\ \A t \in Thread : pc'[t] = "working" <=> pc[t] = "working"
    BY <1>1, <1>2, MasterMovesCounters DEF IInv, TypeOK
  <1>4. pc'[Master] = "adding" /\ fAllOk' = fAllOk /\ fOk' = fOk
    BY <1>2, Zenon DEF MasterMoves, queueVars
  <1>5. Open = {} /\ fAllOk
    BY <1>2, Zenon DEF IInv, Verdicts, Controlling
  <1>6. Verdicts'
    BY <1>1, <1>3, <1>4, <1>5 DEF IInv, Verdicts, Controlling
  <1>7. StopInv' /\ ResultExact'
    BY <1>1, <1>2, <1>4 DEF IInv, StopInv, ResultExact, Leaving
  <1>8. QED
    BY <1>3, <1>6, <1>7 DEF IInv

LEMMA AddPreserves ==
    ASSUME IInv, NEW S \in SUBSET Check, Add(S)
    PROVE  IInv'
  <1> DEFINE to == IF Cardinality(S) = 1 THEN "notifyOne" ELSE "notifyAll"
  <1>0. TypeOK /\ CountersExact /\ HoldsBatch /\ Verdicts /\ StopInv
    BY Zenon DEF IInv
  <1>1. /\ pc[Master] = "adding" /\ pc' = [pc EXCEPT ![Master] = to]
        /\ S \cap added = {} /\ queue' = queue \cup S /\ nTodo' = nTodo + Cardinality(S)
        /\ added' = added \cup S /\ nIdle' = nIdle /\ nTotal' = nTotal /\ fAllOk' = fAllOk
        /\ stop' = stop /\ vChecks' = vChecks /\ fOk' = fOk /\ returned' = returned
    BY DEF Add, Step
  <1>2. to \in {"notifyOne", "notifyAll"}
    BY Zenon
  <1> HIDE DEF to
  <1>3. /\ pc' \in [Thread -> LoopState \cup MasterState] /\ pc'[Master] = to
        /\ \A w \in Worker : pc'[w] = pc[w]
        /\ Idle' = Idle /\ InLoop' = InLoop
        /\ \A t \in Thread : pc'[t] = "working" <=> pc[t] = "working"
    BY <1>0, <1>1, <1>2, CheckQueueAssumption, Zenon DEF TypeOK, MasterState, Idle, InLoop, Thread
  <1>4. Open' = Open \cup S /\ Open \cap S = {} /\ Open \subseteq added
    <2>1. Open \subseteq added
      BY <1>0 DEF Verdicts
    <2>2. QED
      BY <2>1, <1>1, OpenMember, OpenMemberPrime, Zenon
  <1>5. /\ IsFiniteSet(Open) /\ IsFiniteSet(S)
        /\ Cardinality(Open) \in Nat /\ Cardinality(S) \in Nat
    <2>1. IsFiniteSet(Open) /\ IsFiniteSet(S)
      BY LoopFacts, CheckQueueAssumption, FS_Subset, Zenon DEF Thread
    <2>2. QED
      BY <2>1, FS_CardinalityType, Zenon
  <1>6. TypeOK'
    BY <1>0, <1>1, <1>3, <1>5 DEF TypeOK
  <1>7. CountersExact'
    <2>1. Cardinality(Open') = Cardinality(Open) + Cardinality(S)
      BY <1>4, <1>5, FS_Union, FS_EmptySet
    <2>2. \A t \in Thread : vChecks'[t] \cap queue' = {}
      BY <1>0, <1>1, <1>4, OpenMember, Zenon DEF CountersExact
    <2>3. QED
      BY <1>0, <1>1, <1>3, <2>1, <2>2, Zenon DEF CountersExact
  <1>8. HoldsBatch'
    BY <1>0, <1>1, <1>3, Zenon DEF HoldsBatch
  <1>9. Verdicts'
    BY <1>0, <1>1, <1>2, <1>3, <1>4, Zenon DEF Verdicts, Controlling
  <1>10. StopInv' /\ ResultExact'
    BY <1>0, <1>1, <1>2, <1>3 DEF StopInv, ResultExact, Leaving
  <1>11. QED
    BY <1>6, <1>7, <1>8, <1>9, <1>10 DEF IInv

LEMMA WaitPreserves ==
    ASSUME IInv, Wait
    PROVE  IInv'
  <1>1. Step("adding", "start") /\ UNCHANGED queueVars /\ stop' = stop /\ added' = added
    BY DEF Wait
  <1>2. MasterMoves("start") /\ pc[Master] = "adding"
    BY <1>1, StepMoves DEF MasterState
  <1>3. ~stop /\ stop \in BOOLEAN
    BY <1>2 DEF IInv, StopInv, Leaving, TypeOK
  <1>4. QED
    BY <1>1, <1>2, <1>3, MasterMovesPreserves DEF Controlling

LEMMA DestroyPreserves ==
    ASSUME IInv, Destroy
    PROVE  IInv'
  <1>1. Step("outside", "notifyStop") /\ UNCHANGED queueVars /\ stop' = TRUE /\ added' = added
    BY DEF Destroy
  <1>2. MasterMoves("notifyStop") /\ pc[Master] = "outside"
    BY <1>1, StepMoves DEF MasterState
  <1>3. QED
    BY <1>1, <1>2, MasterMovesPreserves DEF Controlling, Leaving

LEMMA MasterStepPreserves ==
    ASSUME IInv, MasterStep
    PROVE  IInv'
  <1>0. stop \in BOOLEAN /\ (stop => pc[Master] \in Leaving)
    BY DEF IInv, TypeOK, StopInv
  <1>1. CASE NotifyOne \/ NotifyAll
    <2>1. /\ pc[Master] \in {"notifyOne", "notifyAll"}
          /\ \E S \in SUBSET WaitingWorkers : Notify(S, "adding")
      BY <1>1, Zenon DEF NotifyOne, NotifyAll
    <2>2. MasterMoves("adding") /\ added' = added /\ stop' = stop
      BY <2>1, NotifyMoves DEF MasterState
    <2>3. ~stop
      BY <1>0, <2>1 DEF Leaving
    <2>4. QED
      BY <1>0, <2>1, <2>2, <2>3, MasterMovesPreserves DEF Controlling
  <1>2. CASE NotifyStop
    <2>1. pc[Master] = "notifyStop" /\ Notify(WaitingWorkers, "joining")
      BY <1>2 DEF NotifyStop
    <2>2. MasterMoves("joining") /\ added' = added /\ stop' = stop
      BY <2>1, NotifyMoves DEF MasterState
    <2>3. QED
      BY <1>0, <2>1, <2>2, MasterMovesPreserves DEF Controlling, Leaving
  <1>3. CASE Join
    <2>1. Step("joining", "gone") /\ UNCHANGED queueVars /\ stop' = stop /\ added' = added
      BY <1>3 DEF Join
    <2>2. MasterMoves("gone") /\ pc[Master] = "joining"
      BY <2>1, StepMoves DEF MasterState
    <2>3. QED
      BY <1>0, <2>1, <2>2, MasterMovesPreserves DEF Controlling, Leaving
  <1>4. QED
    BY <1>1, <1>2, <1>3 DEF MasterStep

LEMMA NextPreserves == IInv /\ [Next]_vars => IInv'
  <1> SUFFICES ASSUME IInv, [Next]_vars PROVE IInv'
    OBVIOUS
  <1>1. CASE \E t \in Thread : LoopStep(t) \/ WakeUp(t)
    BY <1>1, LoopStepPreserves, WakeUpPreserves
  <1>2. CASE Control
    BY <1>2, ControlPreserves
  <1>3. CASE \E S \in SUBSET Check : Add(S)
    BY <1>3, AddPreserves
  <1>4. CASE Wait
    BY <1>4, WaitPreserves
  <1>5. CASE Destroy
    BY <1>5, DestroyPreserves
  <1>6. CASE MasterStep
    BY <1>6, MasterStepPreserves
  <1>7. CASE UNCHANGED vars
    <2>1. /\ UNCHANGED <<queue, nIdle, nTotal, fAllOk, nTodo, stop>>
          /\ UNCHANGED <<pc, vChecks, fOk, added, returned>>
      BY <1>7, Zenon DEF vars
    <2>2. Open' = Open /\ Idle' = Idle /\ InLoop' = InLoop
      BY <2>1, Zenon DEF Open, Idle, InLoop
    <2>3. TypeOK' /\ CountersExact' /\ HoldsBatch'
      BY <2>1, <2>2, Zenon DEF IInv, TypeOK, CountersExact, HoldsBatch
    <2>4. Verdicts' /\ StopInv' /\ ResultExact'
      BY <2>1, <2>2 DEF IInv, Verdicts, StopInv, ResultExact
    <2>5. QED
      BY <2>3, <2>4 DEF IInv
  <1>8. QED
    BY <1>1, <1>2, <1>3, <1>4, <1>5, <1>6, <1>7, ZenonT(60) DEF Next

(***************************************************************************)
(* The inductive invariant holds of CCheckQueue under every interleaving   *)
(* of Loop, Add, Wait and the destructor.                                  *)
(***************************************************************************)
THEOREM QueueInvariant == SafetySpec => []IInv
  BY InitIInv, NextPreserves, PTL DEF SafetySpec

(* Type correctness; nTodo, nIdle and nTotal never become negative. *)
THEOREM QueueTypeCorrect == SafetySpec => []TypeOK
  <1>1. IInv => TypeOK
    BY DEF IInv
  <1>2. QED
    BY <1>1, QueueInvariant, PTL

(* nTodo, nIdle and nTotal are exact, and no check is in two batches. *)
THEOREM CountersCorrect == SafetySpec => []CountersExact
  <1>1. IInv => CountersExact
    BY DEF IInv
  <1>2. QED
    BY <1>1, QueueInvariant, PTL

(* Once Wait has returned, nothing of the block is queued or executing. *)
THEOREM QueueFinished == SafetySpec => []FinishedBeforeContinuing
  <1>1. IInv => FinishedBeforeContinuing
    BY DEF IInv, Verdicts, FinishedBeforeContinuing, Controlling
  <1>2. QED
    BY <1>1, QueueInvariant, PTL

(* Wait returns TRUE exactly when no added check fails. *)
THEOREM ResultCorrect == SafetySpec => []ResultExact
  <1>1. IInv => ResultExact
    BY DEF IInv
  <1>2. QED
    BY <1>1, QueueInvariant, PTL
=============================================================================
