------------------------ MODULE SchedulerTimeProofs ------------------------
(***************************************************************************)
(* With the one service thread the node starts, no task of Scheduler runs  *)
(* before its time.                                                        *)
(***************************************************************************)
EXTENDS SchedulerProofs

(* Time for the provers on a busy machine. *)
USE ZenonT(60)

(* With one service thread, nobody takes the task it waits for. *)
OneServiceThread == \A t, u \in Thread : t = u

Due(t) ==
    /\ pc[t] \in {"timed", "woken"} => taskQueue # <<>> /\ taskQueue[1].due <= until[t]
    /\ pc[t] \in {"process", "repeat"} => task[t].due <= now

(* Others may wake it up and put a task before that one. *)
Woke(t) ==
    \/ pc'[t] = pc[t]
    \/ pc[t] = "idle" /\ pc'[t] = "loop"
    \/ pc[t] = "timed" /\ pc'[t] = "woken"

Sooner == taskQueue # <<>> => taskQueue' # <<>> /\ taskQueue'[1].due <= taskQueue[1].due

Beside(t) == Woke(t) /\ Sooner /\ UNCHANGED <<now, until, task>>

LEMMA NotifyWoke ==
    ASSUME IInv, NEW t \in Thread, NEW a \in Actor, a # t, NEW l \in Kind(a), NotifyOne([pc EXCEPT ![a] = l])
    PROVE  Woke(t)
<1>1. Wakes([pc EXCEPT ![a] = l], pc')
  BY NotifyMoves, SMT DEF Moves, IInv, TypeOK
<1>2. t \in Actor /\ [pc EXCEPT ![a] = l][t] = pc[t]
  BY Actors, SMT DEF IInv, TypeOK, Labelled
<1>. QED BY <1>1, <1>2, SMT DEF Wakes, Woke

LEMMA GotoWoke ==
    ASSUME IInv, NEW t \in Thread, NEW a \in Actor, a # t, NEW l, Goto(a, l)
    PROVE  Woke(t)
BY Actors, SMT DEF Goto, Woke, IInv, TypeOK, Labelled

LEMMA InsertSooner ==
    ASSUME taskQueue \in Seq(TaskType), NEW x \in TaskType, Insert(x)
    PROVE  Sooner
<1>. SUFFICES ASSUME taskQueue # <<>>
              PROVE  taskQueue' # <<>> /\ taskQueue'[1].due <= taskQueue[1].due
  BY SMT DEF Sooner
<1>1. PICK k \in 0..Len(taskQueue) :
        /\ \A i \in k + 1..Len(taskQueue) : x.due < taskQueue[i].due
        /\ taskQueue' = SubSeq(taskQueue, 1, k) \o <<x>> \o SubSeq(taskQueue, k + 1, Len(taskQueue))
  BY DEF Insert
<1>2. Len(taskQueue) \in Nat /\ Len(taskQueue) > 0 /\ taskQueue[1] \in TaskType /\ taskQueue[1].due \in Nat /\ x.due \in Nat
  BY LenProperties, EmptySeq, FirstTask, SMT DEF TaskType
<1>. DEFINE head == SubSeq(taskQueue, 1, k)
            rest == SubSeq(taskQueue, k + 1, Len(taskQueue))
<1>3. /\ head \in Seq(TaskType) /\ Len(head) = k /\ (k > 0 => head[1] = taskQueue[1])
      /\ rest \in Seq(TaskType)
  <2>1. \A i \in 1..Len(taskQueue) : taskQueue[i] \in TaskType
    BY ElementOfSeq
  <2>. QED BY <1>2, <2>1, SubSeqProperties, SMT
<1>. HIDE DEF head, rest
<1>4. /\ head \o <<x>> \in Seq(TaskType) /\ Len(head \o <<x>>) = k + 1
      /\ (head \o <<x>>)[1] = IF k > 0 THEN head[1] ELSE x
  BY <1>3, ConcatProperties, SMT
<1>. DEFINE front == head \o <<x>>
<1>5. front \in Seq(TaskType) /\ Len(front) = k + 1 /\ k + 1 \in Nat /\ k + 1 > 0
  BY <1>2, <1>4, SMT
<1>. HIDE DEF front
<1>6. (front \o rest)[1] = front[1] /\ front \o rest # <<>>
  BY <1>3, <1>5, ConcatProperties, EmptySeq, SMT
<1>7. taskQueue' = front \o rest
  BY <1>1 DEF front, head, rest
<1>8. CASE k > 0
  BY <1>2, <1>3, <1>4, <1>6, <1>7, <1>8, SMT DEF front
<1>9. CASE k = 0
  BY <1>1, <1>2, <1>4, <1>6, <1>7, <1>9, SMT DEF front
<1>. QED BY <1>2, <1>8, <1>9, SMT

LEMMA BesideDue ==
    ASSUME IInv, NEW t \in Thread, Beside(t), Due(t), IInv'
    PROVE  Due(t)'
<1>1. /\ taskQueue # <<>> => taskQueue[1].due \in Nat
      /\ taskQueue' # <<>> => taskQueue'[1].due \in Nat
      /\ until[t] \in Nat
  <2>1. taskQueue # <<>> => taskQueue[1].due \in Nat
    BY FirstTask DEF IInv, TypeOK, DataOK, TaskType
  <2>2. taskQueue' \in Seq(TaskType)
    BY SMT DEF IInv, TypeOK, DataOK
  <2>3. taskQueue' # <<>> => taskQueue'[1] \in TaskType
    <3>1. taskQueue' # <<>> => Len(taskQueue') \in Nat /\ Len(taskQueue') # 0
      BY <2>2, EmptySeq, LenProperties, SMT
    <3>2. taskQueue' # <<>> => 1 \in 1..Len(taskQueue')
      BY <3>1, SMT
    <3>. QED BY <2>2, <3>2, ElementOfSeq, SMT
  <2>4. until[t] \in Nat
    BY SMT DEF IInv, TypeOK, DataOK
  <2>. QED BY <2>1, <2>3, <2>4, SMT DEF TaskType
<1>2. pc'[t] \in {"timed", "woken"} => taskQueue' # <<>> /\ taskQueue'[1].due <= until'[t]
  BY <1>1, SMT DEF Beside, Woke, Sooner, Due
<1>3. pc'[t] \in {"process", "repeat"} => task'[t].due <= now'
  BY SMT DEF Beside, Woke, Due
<1>. QED BY <1>2, <1>3 DEF Due

(* A call of the client by another thread. *)
LEMMA ScheduleBeside ==
    ASSUME IInv, NEW t \in Thread, NEW a \in Actor, a # t, ScheduleStep(a)
    PROVE  Beside(t)
<1>. USE DEF IInv, TypeOK
<1>0. taskQueue' = taskQueue => Sooner
  BY FirstTask, SMT DEF Sooner, DataOK, TaskType
<1>1. CASE MaybeScheduleProcessQueue(a)
  BY <1>0, <1>1, GotoWoke DEF MaybeScheduleProcessQueue, Beside, scheduler
<1>2. CASE ScheduleProcessQueue(a)
  <2>1. Task(Process, now) \in TaskType
    BY DEF Task, TaskType, DataOK
  <2>2. Sooner
    BY <1>2, <2>1, InsertSooner DEF ScheduleProcessQueue, Schedule, DataOK
  <2>. QED BY <1>2, <2>2, GotoWoke DEF ScheduleProcessQueue, Schedule, Beside
<1>3. CASE Notify(a)
  <2>1. Woke(t)
    BY <1>3, BackKind, NotifyWoke DEF Notify
  <2>. QED BY <1>0, <1>3, <2>1 DEF Notify, Beside, scheduler
<1>. QED BY <1>1, <1>2, <1>3 DEF ScheduleStep

LEMMA CallbackBeside ==
    ASSUME IInv, NEW t \in Thread, CallbackStep(Shutdown)
    PROVE  Beside(t)
<1>. USE Actors DEF IInv, TypeOK
<1>0. taskQueue' = taskQueue => Sooner
  BY FirstTask, SMT DEF Sooner, DataOK, TaskType
<1>1. PICK l \in {Back(Shutdown), "callback", "finish", "maybe"} : Goto(Shutdown, l)
  BY SMT DEF CallbackStep, ProcessQueue, Execute, Finish
<1>2. Woke(t)
  BY <1>1, GotoWoke
<1>. QED BY <1>0, <1>2 DEF Beside, CallbackStep, ProcessQueue, Execute, Finish, scheduler

LEMMA AdderBeside ==
    ASSUME IInv, NEW t \in Thread, NEW a \in Adder, AdderStep(a) \/ Signal(a) \/ Sync(a) \/ Quit(a)
    PROVE  Beside(t)
<1>. USE Actors DEF IInv, TypeOK
<1>0. taskQueue' = taskQueue => Sooner
  BY FirstTask, SMT DEF Sooner, DataOK, TaskType
<1>1. CASE ScheduleStep(a)
  BY <1>1, ScheduleBeside
<1>2. CASE ~ScheduleStep(a)
  <2>1. PICK l \in {"maybe", "ready", "sync", "gone"} : Goto(a, l)
    BY <1>2 DEF AdderStep, Signal, Sync, Quit, SyncAdd, SyncReturn, AddToProcessQueue
  <2>2. Woke(t)
    BY <2>1, GotoWoke
  <2>. QED BY <1>0, <1>2, <2>2 DEF Beside, AdderStep, Signal, Sync, Quit, SyncAdd, SyncReturn, AddToProcessQueue, scheduler
<1>. QED BY <1>1, <1>2

LEMMA ShutdownBeside ==
    ASSUME IInv, NEW t \in Thread, ShutdownStep \/ RequestStop \/ StopWhenDrained
    PROVE  Beside(t)
<1>. USE Actors DEF IInv, TypeOK
<1>0. taskQueue' = taskQueue => Sooner
  BY FirstTask, SMT DEF Sooner, DataOK, TaskType
<1>1. CASE ScheduleStep(Shutdown)
  BY <1>1, ScheduleBeside
<1>2. CASE CallbackStep(Shutdown)
  BY <1>2, CallbackBeside
<1>3. CASE NotifyAll
  <2>1. pc'[t] = IF t \in Waiting(pc) THEN Woken(pc[t]) ELSE pc[t]
    BY <1>3 DEF NotifyAll
  <2>2. Woke(t)
    BY <2>1 DEF Waiting, Woken, Woke
  <2>. QED BY <1>0, <1>3, <2>2 DEF Beside, NotifyAll, scheduler
<1>4. CASE Join \/ ForceFlush \/ EmptyQueue \/ RequestStop \/ StopWhenDrained
  <2>1. PICK l \in {"maybe", "joined", "gone", "process", "notifyAll"} : Goto(Shutdown, l)
    BY <1>4 DEF Join, ForceFlush, EmptyQueue, RequestStop, StopWhenDrained, AddToProcessQueue
  <2>2. Woke(t)
    BY <2>1, GotoWoke
  <2>. QED BY <1>0, <1>4, <2>2 DEF Beside, Join, ForceFlush, EmptyQueue, RequestStop, StopWhenDrained, AddToProcessQueue, scheduler
<1>. QED BY <1>1, <1>2, <1>3, <1>4, SMT DEF ShutdownStep

LEMMA MockForwardBeside ==
    ASSUME IInv, NEW t \in Thread, MockForward(1)
    PROVE  Beside(t)
<1>. USE Actors DEF IInv, TypeOK
<1>1. Woke(t)
  <2>1. [pc EXCEPT ![Shutdown] = pc[Shutdown]] = pc /\ pc[Shutdown] \in Kind(Shutdown)
    BY SMT DEF Labelled, Kind
  <2>. QED BY <2>1, NotifyWoke DEF MockForward
<1>2. Sooner
  <2>. SUFFICES ASSUME taskQueue # <<>>
                PROVE  taskQueue' # <<>> /\ taskQueue'[1].due <= taskQueue[1].due
    BY DEF Sooner
  <2>1. /\ taskQueue[1] \in TaskType /\ DOMAIN taskQueue = 1..Len(taskQueue)
        /\ Len(taskQueue) \in Nat /\ Len(taskQueue) # 0
    BY FirstTask, LenProperties, EmptySeq DEF DataOK
  <2>2. 1 \in DOMAIN taskQueue
    BY <2>1, SMT
  <2>3. /\ taskQueue'[1] = [taskQueue[1] EXCEPT !.due = IF @ > 1 THEN @ - 1 ELSE 0]
        /\ 1 \in DOMAIN taskQueue'
    BY <2>2 DEF MockForward
  <2>4. taskQueue' # <<>>
    BY <2>3, SMT
  <2>. QED BY <2>1, <2>3, <2>4, SMT DEF TaskType
<1>. QED BY <1>1, <1>2 DEF Beside, MockForward

(* The steps of the service thread itself. *)
LEMMA ServiceDue ==
    ASSUME IInv, NEW t \in Thread, ServiceStep(t) \/ WakeUp(t), Due(t), IInv'
    PROVE  Due(t)'
<1>. USE Actors
<1>0. DataOK /\ Labelled(pc)
  BY DEF IInv, TypeOK
<1>1. ASSUME pc'[t] \in {"loop", "idle", "gone", "notify", "maybe", "schedule", "callback", "finish"}
      PROVE  Due(t)'
  BY <1>1 DEF Due
<1>2. ASSUME NEW n, Settle(t, n)
      PROVE  Due(t)'
  <2>1. CASE WaitForTime(t, n)
    <3>1. /\ taskQueue' = taskQueue /\ taskQueue # <<>> /\ until'[t] = taskQueue[1].due /\ pc'[t] = "timed"
      BY <1>0, <1>2, <2>1 DEF Settle, WaitForTime, Goto, DataOK, Labelled
    <3>2. taskQueue[1].due \in Nat
      BY <1>0, <3>1, FirstTask DEF DataOK, TaskType
    <3>. QED BY <3>1, <3>2, SMT DEF Due
  <2>2. CASE WaitForTask(t, n)
    BY <1>0, <1>1, <2>2 DEF WaitForTask, Goto, Labelled
  <2>3. CASE Exit(t, n)
    <3>1. "gone" \in Kind(t)
      BY SMT DEF Kind, ThreadLabel
    <3>2. Moves(t, "gone")
      BY <1>0, <2>3, <3>1, NotifyMoves DEF Exit
    <3>3. pc'[t] = "gone"
      BY <1>0, <3>1, <3>2, MovesEffect
    <3>. QED BY <1>1, <3>3
  <2>. QED BY <1>2, <2>1, <2>2, <2>3 DEF Settle
<1>3. CASE Enter(t) \/ Loop(t)
  BY <1>2, <1>3 DEF Enter, Loop
<1>4. CASE Return(t)
  <2>1. CASE Settle(t, nThreads)
    BY <1>2, <2>1
  <2>2. CASE ~Settle(t, nThreads)
    <3>1. /\ until[t] <= now /\ taskQueue # <<>> /\ now' = now
          /\ task'[t] = taskQueue[1] /\ pc'[t] \in {"process", "repeat"} /\ pc[t] \in {"timed", "woken"}
      BY <1>0, <1>4, <2>2, SMT DEF Return, Goto, DataOK, Labelled
    <3>2. taskQueue[1].due \in Nat /\ until[t] \in Nat /\ now \in Nat
      BY <1>0, <3>1, FirstTask DEF DataOK, TaskType
    <3>3. taskQueue[1].due <= until[t]
      BY <3>1 DEF Due
    <3>4. task'[t].due <= now'
      BY <3>1, <3>2, <3>3, SMT
    <3>. QED BY <3>1, <3>4 DEF Due
  <2>. QED BY <2>1, <2>2, SMT
<1>5. CASE Repeat(t)
  BY <1>0, <1>1, <1>5 DEF Repeat, Schedule, Goto, Labelled
<1>6. CASE CallbackStep(t)
  BY <1>0, <1>1, <1>6 DEF CallbackStep, ProcessQueue, Execute, Finish, Goto, Back, Labelled
<1>7. CASE ScheduleStep(t)
  <2>1. CASE Notify(t)
    <3>1. Moves(t, "loop") /\ "loop" \in Kind(t) /\ "loop" \in Label
      BY <1>0, <2>1, BackKind, NotifyMoves DEF Notify, Back, Label, ThreadLabel
    <3>2. pc'[t] = "loop"
      BY <1>0, <3>1 DEF Moves, Wakes, Labelled
    <3>. QED BY <1>1, <3>2
  <2>2. CASE ~Notify(t)
    BY <1>0, <1>1, <1>7, <2>2 DEF ScheduleStep, MaybeScheduleProcessQueue, ScheduleProcessQueue, Schedule, Goto, Back, Labelled
  <2>. QED BY <2>1, <2>2
<1>8. CASE WakeUp(t)
  <2>1. pc'[t] = Woken(pc[t]) /\ pc[t] \in {"idle", "timed"} /\ UNCHANGED <<taskQueue, until>>
    BY <1>0, <1>8 DEF WakeUp, Waiting, Goto, Labelled, scheduler
  <2>. QED BY <2>1 DEF Due, Woken
<1>. QED BY <1>3, <1>4, <1>5, <1>6, <1>7, <1>8 DEF ServiceStep

LEMMA TickDue ==
    ASSUME IInv, NEW t \in Thread, Tick \/ UNCHANGED vars, Due(t)
    PROVE  Due(t)'
<1>1. /\ now \in Nat /\ (now' = now \/ now' = now + 1)
      /\ UNCHANGED <<pc, taskQueue, until, task>>
  BY DEF Tick, vars, scheduler, IInv, TypeOK, DataOK
<1>2. task[t].due \in Nat
  BY SMT DEF IInv, TypeOK, DataOK, TaskType
<1>. QED BY <1>1, <1>2, SMT DEF Due

(* "Call func at/after time t" (schedule in scheduler.h) holds in the      *)
(* node, which starts one service thread (init.cpp); with two, one may     *)
(* take the task the other waits for, and the other the next one too soon. *)
THEOREM NotBefore ==
    ASSUME OneServiceThread
    PROVE  SafetySpec => []NotBeforeTime
<1>. DEFINE AllDue == \A t \in Thread : Due(t)
<1>1. Init => AllDue
  BY Actors, SMT DEF Init, Due
<1>2. ASSUME IInv, [Next]_vars, AllDue
      PROVE  AllDue'
  <2>. SUFFICES ASSUME NEW t \in Thread PROVE Due(t)'
    BY SMT
  <2>1. IInv'
    BY <1>2, NextGood DEF Good
  <2>2. CASE \E u \in Thread : ServiceStep(u) \/ WakeUp(u)
    BY <1>2, <2>1, <2>2, ServiceDue DEF OneServiceThread
  <2>3. CASE Tick \/ UNCHANGED vars
    BY <1>2, <2>3, TickDue
  <2>4. CASE Beside(t)
    BY <1>2, <2>1, <2>4, BesideDue
  <2>. QED BY <1>2, <2>2, <2>3, <2>4, AdderBeside, ShutdownBeside, MockForwardBeside DEF Next
<1>3. AllDue => NotBeforeTime
  BY SMT DEF Due, NotBeforeTime
<1>. QED BY Invariance, <1>1, <1>2, <1>3, PTL DEF SafetySpec
=============================================================================
