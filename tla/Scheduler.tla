----------------------------- MODULE Scheduler -----------------------------
(***************************************************************************)
(* CScheduler and SingleThreadedSchedulerClient (src/src/scheduler.cpp),   *)
(* the queue of the validation interface on top of them                    *)
(* (src/src/validationinterface.cpp), the threads that add callbacks and   *)
(* wait for them, and the shutdown of the node (src/src/init.cpp).         *)
(*                                                                         *)
(* An action is one critical section of newTaskMutex or of                 *)
(* m_callbacks_mutex, or what a thread does between two of them.  A call   *)
(* of schedule reads the clock together with its critical section.  The    *)
(* locals of a thread are reset when they are no longer used.  A callback  *)
(* that throws ends the process and is left out.                           *)
(***************************************************************************)

EXTENDS Integers, Sequences, FiniteSets

CONSTANTS Thread,       \* the threads that run serviceQueue
          Client,       \* threads Shutdown joins before it stops the scheduler
          Loader,       \* those it joins afterwards: m_thread_load
          Shutdown,     \* the thread that shuts the node down
          QueueLimit,   \* of LimitValidationInterfaceQueue
          Delta,        \* period of the task given to scheduleEvery
          MaxTime,      \* bound: the clock
          MaxCallbacks  \* bound: the callbacks that are added

ASSUME SchedulerAssumption ==
    /\ IsFiniteSet(Thread) /\ Thread # {}
    /\ Thread \cap (Client \cup Loader) = {} /\ Client \cap Loader = {}
    /\ Shutdown \notin Thread \cup Client \cup Loader
    /\ QueueLimit \in Nat /\ Delta \in Nat /\ MaxTime \in Nat /\ MaxCallbacks \in Nat

Adder == Client \cup Loader
Actor == Thread \cup Adder \cup {Shutdown}

VARIABLES now,            \* steady_clock
          taskQueue,      \* in the order of the multimap
          nThreads,       \* nThreadsServicingQueue
          stopRequested, stopWhenEmpty,
          pending,        \* m_callbacks_pending
          areRunning,     \* m_are_callbacks_running
          pc,
          until,          \* timeToWaitFor of every service thread
          task,           \* the task it has taken
          callback,       \* the callback ProcessQueue has taken
          waits,          \* the promise an adder waits for
          added,          \* the number of callbacks added so far, their names
          executed        \* the callbacks executed so far

scheduler == <<taskQueue, nThreads, stopRequested, stopWhenEmpty, until, task>>
client == <<pending, areRunning, callback, added, executed>>
vars == <<now, scheduler, client, pc, waits>>

Process == "ProcessQueue"
Timer == "Repeat"
Task(kind, due) == [kind |-> kind, due |-> due]
NoTask == Task("none", 0)

Init ==
    /\ now = 0
    /\ taskQueue \in {<<>>, <<Task(Timer, Delta)>>}  \* scheduleEvery may have been called
    /\ nThreads = 0 /\ stopRequested = FALSE /\ stopWhenEmpty = FALSE
    /\ pending = <<>> /\ areRunning = FALSE
    /\ pc = [a \in Actor |-> IF a \in Thread THEN "start" ELSE "ready"]
    /\ until = [t \in Thread |-> 0]
    /\ task = [t \in Thread |-> NoTask]
    /\ callback = [a \in Thread \cup {Shutdown} |-> 0]
    /\ waits = [a \in Adder |-> 0]
    /\ added = 0 /\ executed = <<>>

Goto(a, label) == pc' = [pc EXCEPT ![a] = label]

(* Where an actor goes on when a call of the client returns. *)
Back(a) ==
    IF a \in Thread THEN "loop"
    ELSE IF a = Shutdown THEN "flushing"
    ELSE IF waits[a] > 0 THEN "syncing" ELSE "ready"

-----------------------------------------------------------------------------
(* CScheduler. *)

shouldStop == stopRequested \/ (stopWhenEmpty /\ taskQueue = <<>>)

Waiting(p) == {t \in Thread : p[t] \in {"idle", "timed"}}

Woken(label) == IF label = "idle" THEN "loop" ELSE "woken"

(* newTaskScheduled.notify_one(), with the program counters p. *)
NotifyOne(p) ==
    IF Waiting(p) = {} THEN pc' = p ELSE \E t \in Waiting(p) : pc' = [p EXCEPT ![t] = Woken(@)]

(* serviceQueue up to the next wait or to its end, with n threads in it. *)
Exit(t, n) ==
    /\ shouldStop
    /\ nThreads' = n - 1
    /\ NotifyOne([pc EXCEPT ![t] = "gone"])
    /\ until' = [until EXCEPT ![t] = 0]

WaitForTask(t, n) ==
    /\ ~shouldStop /\ taskQueue = <<>>
    /\ nThreads' = n
    /\ Goto(t, "idle")
    /\ until' = [until EXCEPT ![t] = 0]

WaitForTime(t, n) ==
    /\ ~shouldStop /\ taskQueue # <<>>
    /\ nThreads' = n
    /\ Goto(t, "timed")
    /\ until' = [until EXCEPT ![t] = taskQueue[1].due]

Settle(t, n) ==
    /\ Exit(t, n) \/ WaitForTask(t, n) \/ WaitForTime(t, n)
    /\ task' = [task EXCEPT ![t] = NoTask]
    /\ UNCHANGED <<now, taskQueue, stopRequested, stopWhenEmpty, client, waits>>

Enter(t) == pc[t] = "start" /\ Settle(t, nThreads + 1)

(* Back with the lock, from f() or from newTaskScheduled.wait. *)
Loop(t) == pc[t] = "loop" /\ Settle(t, nThreads)

(* wait_until returns, which is a timeout if the time has come.  The task  *)
(* that is taken then is the first one now.                                *)
Return(t) ==
    /\ pc[t] = "woken" \/ (pc[t] = "timed" /\ until[t] <= now)
    /\ IF until[t] > now \/ shouldStop \/ taskQueue = <<>> THEN Settle(t, nThreads)
       ELSE /\ task' = [task EXCEPT ![t] = taskQueue[1]]
            /\ taskQueue' = Tail(taskQueue)
            /\ Goto(t, IF taskQueue[1].kind = Process THEN "process" ELSE "repeat")
            /\ until' = [until EXCEPT ![t] = 0]
            /\ UNCHANGED <<now, nThreads, stopRequested, stopWhenEmpty, client, waits>>

(* Condition variables may wake up a thread for no reason. *)
WakeUp(t) ==
    /\ t \in Waiting(pc)
    /\ Goto(t, Woken(pc[t]))
    /\ UNCHANGED <<now, scheduler, client, waits>>

(* multimap::insert, after the tasks of the same time. *)
Insert(x) ==
    \E k \in 0..Len(taskQueue) :
        /\ \A i \in 1..k : taskQueue[i].due <= x.due
        /\ \A i \in k + 1..Len(taskQueue) : x.due < taskQueue[i].due
        /\ taskQueue' = SubSeq(taskQueue, 1, k) \o <<x>> \o SubSeq(taskQueue, k + 1, Len(taskQueue))

(* schedule, then the notification once the lock is released. *)
Schedule(a, x) ==
    /\ Insert(x)
    /\ Goto(a, "notify")
    /\ UNCHANGED <<now, nThreads, stopRequested, stopWhenEmpty, until, task, client, waits>>

Notify(a) ==
    /\ pc[a] = "notify"
    /\ NotifyOne([pc EXCEPT ![a] = Back(a)])
    /\ UNCHANGED <<now, scheduler, client, waits>>

(* Repeat: f() is called and scheduled again. *)
Repeat(t) == pc[t] = "repeat" /\ Schedule(t, Task(Timer, now + Delta))

(* MockForward by d, called by RPC (mockscheduler).  A time before the     *)
(* start of the clock is written 0.                                        *)
MockForward(d) ==
    /\ taskQueue' = [i \in DOMAIN taskQueue |->
           [taskQueue[i] EXCEPT !.due = IF @ > d THEN @ - d ELSE 0]]
    /\ NotifyOne(pc)
    /\ UNCHANGED <<now, nThreads, stopRequested, stopWhenEmpty, until, task, client, waits>>

Tick ==
    /\ now < MaxTime
    /\ now' = now + 1
    /\ UNCHANGED <<scheduler, client, pc, waits>>

-----------------------------------------------------------------------------
(* SingleThreadedSchedulerClient. *)

(* AddToProcessQueue up to MaybeScheduleProcessQueue. *)
AddToProcessQueue(a) ==
    /\ pending' = Append(pending, added + 1)
    /\ added' = added + 1
    /\ Goto(a, "maybe")
    /\ UNCHANGED <<now, scheduler, areRunning, callback, executed>>

MaybeScheduleProcessQueue(a) ==
    /\ pc[a] = "maybe"
    /\ Goto(a, IF areRunning \/ pending = <<>> THEN Back(a) ELSE "schedule")
    /\ UNCHANGED <<now, scheduler, client, waits>>

ScheduleProcessQueue(a) == pc[a] = "schedule" /\ Schedule(a, Task(Process, now))

(* Mutant: m_are_callbacks_running is not looked at. *)
ProcessQueueTwice(a) ==
    /\ pc[a] = "process"
    /\ IF pending = <<>>
       THEN /\ Goto(a, Back(a))
            /\ UNCHANGED <<pending, areRunning, callback>>
       ELSE /\ areRunning' = TRUE
            /\ callback' = [callback EXCEPT ![a] = Head(pending)]
            /\ pending' = Tail(pending)
            /\ Goto(a, "callback")
    /\ UNCHANGED <<now, scheduler, added, executed, waits>>

(* ProcessQueue: take a callback, call it, and let the next one be taken. *)
ProcessQueue(a) ==
    /\ pc[a] = "process"
    /\ IF areRunning \/ pending = <<>>
       THEN /\ Goto(a, Back(a))
            /\ UNCHANGED <<pending, areRunning, callback>>
       ELSE /\ areRunning' = TRUE
            /\ callback' = [callback EXCEPT ![a] = Head(pending)]
            /\ pending' = Tail(pending)
            /\ Goto(a, "callback")
    /\ UNCHANGED <<now, scheduler, added, executed, waits>>

Execute(a) ==
    /\ pc[a] = "callback"
    /\ executed' = Append(executed, callback[a])
    /\ Goto(a, "finish")
    /\ UNCHANGED <<now, scheduler, pending, areRunning, callback, added, waits>>

(* Mutant: the next ProcessQueue is not scheduled. *)
FinishOnly(a) ==
    /\ pc[a] = "finish"
    /\ areRunning' = FALSE
    /\ callback' = [callback EXCEPT ![a] = 0]
    /\ Goto(a, Back(a))
    /\ UNCHANGED <<now, scheduler, pending, added, executed, waits>>

Finish(a) ==
    /\ pc[a] = "finish"
    /\ areRunning' = FALSE
    /\ callback' = [callback EXCEPT ![a] = 0]
    /\ Goto(a, "maybe")
    /\ UNCHANGED <<now, scheduler, pending, added, executed, waits>>

-----------------------------------------------------------------------------
(* The threads that add callbacks. *)

(* One of the signals of CMainSignals. *)
Signal(a) ==
    /\ pc[a] = "ready" /\ added < MaxCallbacks
    /\ AddToProcessQueue(a)
    /\ UNCHANGED waits

(* An RPC calls SyncWithValidationInterfaceQueue; the validation code does *)
(* when LimitValidationInterfaceQueue finds more than QueueLimit callbacks.*)
Sync(a) ==
    /\ pc[a] = "ready" /\ added < MaxCallbacks
    /\ a \in Loader => Len(pending) > QueueLimit
    /\ Goto(a, "sync")
    /\ UNCHANGED <<now, scheduler, client, waits>>

SyncAdd(a) ==
    /\ pc[a] = "sync"
    /\ waits' = [waits EXCEPT ![a] = added + 1]
    /\ AddToProcessQueue(a)

(* The callback has set the promise. *)
SyncReturn(a) ==
    /\ pc[a] = "syncing"
    /\ \E i \in DOMAIN executed : executed[i] = waits[a]
    /\ waits' = [waits EXCEPT ![a] = 0]
    /\ Goto(a, "ready")
    /\ UNCHANGED <<now, scheduler, client>>

(* The thread ends. *)
Quit(a) ==
    /\ pc[a] = "ready"
    /\ Goto(a, "gone")
    /\ UNCHANGED <<now, scheduler, client, waits>>

-----------------------------------------------------------------------------
(* Shutdown (init.cpp). *)

Gone(S) == \A a \in S : pc[a] = "gone"

(* stop(), once the RPC and network threads are gone. *)
RequestStop ==
    /\ pc[Shutdown] = "ready" /\ Gone(Client)
    /\ stopRequested' = TRUE
    /\ Goto(Shutdown, "notifyAll")
    /\ UNCHANGED <<now, taskQueue, nThreads, stopWhenEmpty, until, task, client, waits>>

(* StopWhenDrained(), which the unit tests use instead. *)
StopWhenDrained ==
    /\ pc[Shutdown] = "ready" /\ Gone(Adder)
    /\ stopWhenEmpty' = TRUE
    /\ Goto(Shutdown, "notifyAll")
    /\ UNCHANGED <<now, taskQueue, nThreads, stopRequested, until, task, client, waits>>

(* Mutant: nobody is notified. *)
NotifyNobody ==
    /\ pc[Shutdown] = "notifyAll"
    /\ Goto(Shutdown, "join")
    /\ UNCHANGED <<now, scheduler, client, waits>>

NotifyAll ==
    /\ pc[Shutdown] = "notifyAll"
    /\ pc' = [a \in Actor |-> IF a = Shutdown THEN "join"
                              ELSE IF a \in Waiting(pc) THEN Woken(pc[a]) ELSE pc[a]]
    /\ UNCHANGED <<now, scheduler, client, waits>>

(* Mutant: the service threads are not joined. *)
JoinLoader ==
    /\ pc[Shutdown] = "join" /\ Gone(Loader)
    /\ Goto(Shutdown, IF stopWhenEmpty THEN "gone" ELSE "joined")
    /\ UNCHANGED <<now, scheduler, client, waits>>

(* The service threads, then m_thread_load; after StopWhenDrained the      *)
(* scheduler is destroyed.                                                 *)
Join ==
    /\ pc[Shutdown] = "join" /\ Gone(Thread \cup Loader)
    /\ Goto(Shutdown, IF stopWhenEmpty THEN "gone" ELSE "joined")
    /\ UNCHANGED <<now, scheduler, client, waits>>

(* ForceFlushStateToDisk: a ChainStateFlushed callback. *)
ForceFlush ==
    /\ pc[Shutdown] = "joined"
    /\ AddToProcessQueue(Shutdown)
    /\ UNCHANGED waits

(* FlushBackgroundCallbacks: EmptyQueue calls ProcessQueue until the queue *)
(* is empty, which after ForceFlush it is not.                             *)
EmptyQueue ==
    /\ pc[Shutdown] = "flushing"
    /\ Goto(Shutdown, IF pending = <<>> THEN "gone" ELSE "process")
    /\ UNCHANGED <<now, scheduler, client, waits>>

-----------------------------------------------------------------------------
CallbackStep(a) == ProcessQueue(a) \/ Execute(a) \/ Finish(a)
ScheduleStep(a) == MaybeScheduleProcessQueue(a) \/ ScheduleProcessQueue(a) \/ Notify(a)
ServiceStep(t) == Enter(t) \/ Loop(t) \/ Return(t) \/ Repeat(t) \/ CallbackStep(t) \/ ScheduleStep(t)
AdderStep(a) == SyncAdd(a) \/ SyncReturn(a) \/ ScheduleStep(a)
ShutdownStep == NotifyAll \/ Join \/ ForceFlush \/ EmptyQueue \/ CallbackStep(Shutdown) \/ ScheduleStep(Shutdown)

Next ==
    \/ \E t \in Thread : ServiceStep(t) \/ WakeUp(t)
    \/ \E a \in Adder : AdderStep(a) \/ Signal(a) \/ Sync(a) \/ Quit(a)
    \/ RequestStop \/ StopWhenDrained \/ ShutdownStep
    \/ MockForward(1)
    \/ Tick

(* Threads get their locks and callbacks return; an interrupted loader     *)
(* thread ends.  Neither the clock nor a spurious wake-up need help.       *)
Fairness ==
    /\ \A t \in Thread : WF_vars(ServiceStep(t))
    /\ \A a \in Adder : WF_vars(AdderStep(a))
    /\ \A a \in Loader : WF_vars(stopRequested /\ Quit(a))
    /\ WF_vars(ShutdownStep)

SafetySpec == Init /\ [][Next]_vars
Spec == SafetySpec /\ Fairness

-----------------------------------------------------------------------------
(* Properties. *)

(***************************************************************************)
(* The client keeps the promise of SerialQueue: "no two jobs will be       *)
(* executed at the same time" and jobs run in order, although any service  *)
(* thread and the shutdown thread may call ProcessQueue, two of them may   *)
(* be scheduled at once, and a job may be added while another one ends.    *)
(* Every job is executed, by the shutdown thread if nobody else.           *)
(***************************************************************************)
Executing == {a \in Thread \cup {Shutdown} : pc[a] \in {"callback", "finish"}}
Serial == INSTANCE SerialQueue WITH
    Callback <- Nat, pending <- pending, running <- {callback[a] : a \in Executing}
ImplementsSerialQueue == Serial!Spec

(***************************************************************************)
(* The assertions of EmptyQueue (no thread serves the queue) and of        *)
(* ~CScheduler (no thread serves it, and StopWhenDrained left no task).    *)
(***************************************************************************)
AssertionsHold ==
    /\ pc[Shutdown] = "flushing" => nThreads = 0
    /\ pc[Shutdown] = "gone" => nThreads = 0 /\ (stopWhenEmpty => taskQueue = <<>>)

(***************************************************************************)
(* "Call func at/after time t" (schedule in scheduler.h): the task a       *)
(* thread runs is due.                                                     *)
(***************************************************************************)
NotBeforeTime == \A t \in Thread : pc[t] \in {"process", "repeat"} => task[t].due <= now

(***************************************************************************)
(* SyncWithValidationInterfaceQueue: "Block until the validation queue     *)
(* drains", and no longer.                                                 *)
(***************************************************************************)
SyncReturns == \A a \in Adder : pc[a] = "syncing" ~> pc[a] = "ready"

(* Shutdown joins every thread and ends. *)
ShutdownCompletes == stopRequested ~> pc[Shutdown] = "gone"
=============================================================================
