----------------------------- MODULE CheckQueue -----------------------------
(***************************************************************************)
(* CCheckQueue and CCheckQueueControl (src/src/checkqueue.h): the master   *)
(* adds script checks, worker threads take batches of them, and the master *)
(* joins the workers until every check is done.                            *)
(*                                                                         *)
(* An action is one critical section of m_mutex, or one notification, as   *)
(* these are sent after the lock is released.  A thread that executes its  *)
(* batch is "working".  As the code says, the order of the checks does not *)
(* matter; the queue is a set, and a batch any part of it.                 *)
(***************************************************************************)

EXTENDS Integers, FiniteSets

CONSTANTS Check,      \* the checks of one block
          Bad,        \* those that fail
          Worker, Master,
          nBatchSize

ASSUME CheckQueueAssumption ==
    /\ IsFiniteSet(Check) /\ Bad \subseteq Check
    /\ IsFiniteSet(Worker) /\ Master \notin Worker
    /\ nBatchSize \in Nat \ {0}

Thread == Worker \cup {Master}

VARIABLES queue, nIdle, nTotal, fAllOk, nTodo,
          stop,       \* m_request_stop
          pc,
          vChecks,    \* the batch of every thread
          fOk,
          added,      \* history: what the current control object added
          returned    \* history: what Wait returned last

vars == <<queue, nIdle, nTotal, fAllOk, nTodo, stop, pc, vChecks, fOk, added, returned>>

Idle == {t \in Thread : pc[t] \in {"waiting", "woken"}}
InLoop == {t \in Thread : pc[t] \in {"waiting", "woken", "working", "stopped"}}

Init ==
    /\ queue = {} /\ nIdle = 0 /\ nTotal = 0 /\ fAllOk = TRUE /\ nTodo = 0
    /\ stop = FALSE
    /\ pc = [t \in Thread |-> IF t = Master THEN "outside" ELSE "start"]
    /\ vChecks = [t \in Thread |-> {}]
    /\ fOk = [t \in Thread |-> TRUE]
    /\ added = {} /\ returned = TRUE

-----------------------------------------------------------------------------
(* Loop.  Turn is the rest of a critical section from "logically, the do   *)
(* loop starts here" on, with the program counters and the counters that   *)
(* its head left.                                                          *)

(* nNow. *)
Batch(size, total, idle) ==
    LET share == size \div (total + idle + 1)
        most == IF share < nBatchSize THEN share ELSE nBatchSize
    IN  IF most > 1 THEN most ELSE 1

(* Mutant: the master does not wait for the checks others are executing. *)
MayReturnOnEmptyQueue(t, todo) == t = Master

(* Nothing is queued and nothing is being executed. *)
MayReturn(t, todo) == t = Master /\ todo = 0

Stop(t, p, total, idle, allOk) ==
    /\ stop
    /\ pc' = [p EXCEPT ![t] = "stopped"]
    /\ nTotal' = total /\ nIdle' = idle /\ fAllOk' = allOk
    /\ vChecks' = [vChecks EXCEPT ![t] = {}]
    /\ UNCHANGED <<queue, fOk, returned>>

(* Mutant: the master is not taken out of nTotal. *)
ReturnStaysCounted(t, p, total, idle, todo, allOk) ==
    /\ ~stop /\ queue = {} /\ MayReturn(t, todo)
    /\ pc' = [p EXCEPT ![t] = "outside"]
    /\ nTotal' = total /\ nIdle' = idle
    /\ returned' = allOk /\ fAllOk' = TRUE
    /\ vChecks' = [vChecks EXCEPT ![t] = {}]
    /\ UNCHANGED <<queue, fOk>>

Return(t, p, total, idle, todo, allOk) ==
    /\ ~stop /\ queue = {} /\ MayReturn(t, todo)
    /\ pc' = [p EXCEPT ![t] = "outside"]
    /\ nTotal' = total - 1 /\ nIdle' = idle
    /\ returned' = allOk /\ fAllOk' = TRUE
    /\ vChecks' = [vChecks EXCEPT ![t] = {}]
    /\ UNCHANGED <<queue, fOk>>

Sleep(t, p, total, idle, todo, allOk) ==
    /\ ~stop /\ queue = {} /\ ~MayReturn(t, todo)
    /\ pc' = [p EXCEPT ![t] = "waiting"]
    /\ nTotal' = total /\ nIdle' = idle + 1 /\ fAllOk' = allOk
    /\ vChecks' = [vChecks EXCEPT ![t] = {}]
    /\ UNCHANGED <<queue, fOk, returned>>

Take(t, p, total, idle, allOk) ==
    /\ ~stop /\ queue # {}
    /\ \E S \in SUBSET queue :
          /\ Cardinality(S) = Batch(Cardinality(queue), total, idle)
          /\ vChecks' = [vChecks EXCEPT ![t] = S]
          /\ queue' = queue \ S
    /\ fOk' = [fOk EXCEPT ![t] = allOk]
    /\ pc' = [p EXCEPT ![t] = "working"]
    /\ nTotal' = total /\ nIdle' = idle /\ fAllOk' = allOk
    /\ UNCHANGED returned

Turn(t, p, total, idle, todo, allOk) ==
    /\ nTodo' = todo
    /\ \/ Stop(t, p, total, idle, allOk)
       \/ Return(t, p, total, idle, todo, allOk)
       \/ Sleep(t, p, total, idle, todo, allOk)
       \/ Take(t, p, total, idle, allOk)
    /\ UNCHANGED <<stop, added>>

(* The first iteration. *)
Enter(t) ==
    /\ pc[t] = "start"
    /\ Turn(t, pc, nTotal + 1, nIdle, nTodo, fAllOk)

(* Back from cond.wait. *)
Resume(t) ==
    /\ pc[t] = "woken"
    /\ Turn(t, pc, nTotal, nIdle - 1, nTodo, fAllOk)

(* Mutant: the last worker does not notify the master. *)
NotifyNobody(t, todo) == pc

(* m_master_cv.notify_one(). *)
NotifyMaster(t, todo) ==
    IF todo = 0 /\ t # Master /\ pc[Master] = "waiting" THEN [pc EXCEPT ![Master] = "woken"] ELSE pc

(* Mutant: fAllOk is set to the result of the batch. *)
VerdictOfBatch(t) == fOk[t] /\ vChecks[t] \cap Bad = {}

(* fAllOk after the batch of t, which is executed up to a failure. *)
Verdict(t) == fAllOk /\ fOk[t] /\ vChecks[t] \cap Bad = {}

(* The batch is accounted for. *)
Finish(t) ==
    /\ pc[t] = "working"
    /\ LET todo == nTodo - Cardinality(vChecks[t])
       IN  Turn(t, NotifyMaster(t, todo), nTotal, nIdle, todo, Verdict(t))

(* Condition variables may wake up a thread for no reason. *)
WakeUp(t) ==
    /\ pc[t] = "waiting"
    /\ pc' = [pc EXCEPT ![t] = "woken"]
    /\ UNCHANGED <<queue, nIdle, nTotal, fAllOk, nTodo, stop, vChecks, fOk, added, returned>>

-----------------------------------------------------------------------------
(* CCheckQueueControl and the destructor of the queue. *)

Step(from, to) == pc[Master] = from /\ pc' = [pc EXCEPT ![Master] = to]
queueVars == <<queue, nIdle, nTotal, fAllOk, nTodo, vChecks, fOk, returned>>

(* The constructor takes m_control_mutex. *)
Control ==
    /\ Step("outside", "adding")
    /\ added' = {}
    /\ UNCHANGED <<queueVars, stop>>

Add(S) ==
    /\ Step("adding", IF Cardinality(S) = 1 THEN "notifyOne" ELSE "notifyAll")
    /\ S # {} /\ S \cap added = {}
    /\ queue' = queue \cup S
    /\ nTodo' = nTodo + Cardinality(S)
    /\ added' = added \cup S
    /\ UNCHANGED <<nIdle, nTotal, fAllOk, stop, vChecks, fOk, returned>>

(* The threads a notification wakes up, then the master goes on. *)
Notify(S, to) ==
    /\ pc' = [t \in Thread |-> IF t = Master THEN to ELSE IF t \in S THEN "woken" ELSE pc[t]]
    /\ UNCHANGED <<queueVars, stop, added>>

WaitingWorkers == {w \in Worker : pc[w] = "waiting"}

NotifyOne ==
    /\ pc[Master] = "notifyOne"
    /\ IF WaitingWorkers = {} THEN Notify({}, "adding")
       ELSE \E w \in WaitingWorkers : Notify({w}, "adding")

NotifyAll ==
    /\ pc[Master] = "notifyAll"
    /\ Notify(WaitingWorkers, "adding")

(* Wait, by the caller or by the control object's destructor. *)
Wait ==
    /\ Step("adding", "start")
    /\ UNCHANGED <<queueVars, stop, added>>

(* ~CCheckQueue: ask to stop, notify, join. *)
Destroy ==
    /\ Step("outside", "notifyStop")
    /\ stop' = TRUE
    /\ UNCHANGED <<queueVars, added>>

(* Mutant: one worker is notified. *)
NotifyStopOne ==
    /\ pc[Master] = "notifyStop"
    /\ IF WaitingWorkers = {} THEN Notify({}, "joining")
       ELSE \E w \in WaitingWorkers : Notify({w}, "joining")

NotifyStop ==
    /\ pc[Master] = "notifyStop"
    /\ Notify(WaitingWorkers, "joining")

Join ==
    /\ Step("joining", "gone")
    /\ \A w \in Worker : pc[w] = "stopped"
    /\ UNCHANGED <<queueVars, stop, added>>

LoopStep(t) == Enter(t) \/ Resume(t) \/ Finish(t)
MasterStep == NotifyOne \/ NotifyAll \/ NotifyStop \/ Join

Next ==
    \/ \E t \in Thread : LoopStep(t) \/ WakeUp(t)
    \/ Control
    \/ \E S \in SUBSET Check : Add(S)
    \/ Wait
    \/ Destroy
    \/ MasterStep

(* Every thread gets the mutex and executes its checks sooner or later; a  *)
(* block has finitely many of them, and the control object is destroyed.   *)
Fairness ==
    /\ \A t \in Thread : WF_vars(LoopStep(t))
    /\ WF_vars(MasterStep)
    /\ WF_vars(Wait)

SafetySpec == Init /\ [][Next]_vars
Spec == SafetySpec /\ Fairness

-----------------------------------------------------------------------------
(* Properties. *)

LoopState == {"start", "waiting", "woken", "working", "stopped"}
MasterState == {"outside", "adding", "notifyOne", "notifyAll", "notifyStop", "joining", "gone"}

TypeOK ==
    /\ queue \subseteq Check /\ added \subseteq Check
    /\ nIdle \in Nat /\ nTotal \in Nat /\ nTodo \in Nat
    /\ fAllOk \in BOOLEAN /\ stop \in BOOLEAN /\ returned \in BOOLEAN
    /\ pc \in [Thread -> LoopState \cup MasterState]
    /\ \A w \in Worker : pc[w] \in LoopState
    /\ vChecks \in [Thread -> SUBSET Check]
    /\ fOk \in [Thread -> BOOLEAN]

(* The checks that are queued or being executed. *)
Open == queue \cup UNION {vChecks[t] : t \in Thread}

(***************************************************************************)
(* nTodo ("This includes elements that are no longer queued, but still in  *)
(* the worker's own batches"), nIdle and nTotal are what their comments    *)
(* say, whatever the order of batches, wake-ups and rounds; no check is in *)
(* two batches, and nTodo, unsigned in the code, never wraps around.       *)
(***************************************************************************)
CountersExact ==
    /\ nTodo = Cardinality(Open)
    /\ nIdle = Cardinality(Idle)
    /\ nTotal = Cardinality(InLoop)
    /\ \A t \in Thread : vChecks[t] \cap queue = {}
    /\ \A t, u \in Thread : t # u => vChecks[t] \cap vChecks[u] = {}

(***************************************************************************)
(* CCheckQueueControl "guarantees the passed queue is finished before      *)
(* continuing": without a control object nothing is queued, no worker      *)
(* still executes a check, and the next block starts with a clean result.  *)
(***************************************************************************)
FinishedBeforeContinuing == pc[Master] = "outside" => Open = {} /\ fAllOk

(***************************************************************************)
(* Wait returns "whether all evaluations were successful": TRUE exactly    *)
(* when no check that was added fails, although workers skip checks as     *)
(* soon as they know of a failure.                                         *)
(***************************************************************************)
ResultExact == pc[Master] = "outside" => (returned <=> added \cap Bad = {})

(***************************************************************************)
(* Wait returns: the notification of the last worker is never lost.        *)
(***************************************************************************)
WaitReturns == pc[Master] = "start" ~> pc[Master] = "outside"

(* The destructor's notification reaches every worker: join returns. *)
WorkersJoin == stop ~> pc[Master] = "gone"
=============================================================================
