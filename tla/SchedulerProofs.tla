-------------------------- MODULE SchedulerProofs --------------------------
(***************************************************************************)
(* Theorems about Scheduler, for any number of service threads and of      *)
(* threads that add callbacks: callbacks are executed one at a time and in *)
(* order, and the assertions of EmptyQueue and of ~CScheduler hold.        *)
(***************************************************************************)
EXTENDS Scheduler, FiniteSetTheorems, SequenceTheorems, TLAPS

(* Time for the provers on a busy machine. *)
USE SMTT(60)

ThreadLabel == {"start", "loop", "idle", "timed", "woken", "repeat", "process", "callback", "finish",
                "maybe", "schedule", "notify", "gone"}
AdderLabel == {"ready", "sync", "syncing", "maybe", "schedule", "notify", "gone"}
ShutdownLabel == {"ready", "notifyAll", "join", "joined", "flushing", "process", "callback", "finish",
                  "maybe", "schedule", "notify", "gone"}

Label == ThreadLabel \cup AdderLabel \cup ShutdownLabel

TaskType == [kind : {Process, Timer, "none"}, due : Nat]

(* The program counters p are of their kinds. *)
Labelled(p) ==
    /\ p \in [Actor -> Label]
    /\ \A t \in Thread : p[t] \in ThreadLabel
    /\ \A a \in Adder : p[a] \in AdderLabel
    /\ p[Shutdown] \in ShutdownLabel

DataOK ==
    /\ now \in Nat /\ added \in Nat
    /\ taskQueue \in Seq(TaskType)
    /\ stopRequested \in BOOLEAN /\ stopWhenEmpty \in BOOLEAN /\ areRunning \in BOOLEAN
    /\ pending \in Seq(Nat)
    /\ until \in [Thread -> Nat]
    /\ task \in [Thread -> TaskType]
    /\ callback \in [Thread \cup {Shutdown} -> Nat]

TypeOK == DataOK /\ Labelled(pc)

(* m_are_callbacks_running says whether someone executes a callback, and   *)
(* never two do.                                                           *)
OneRunning ==
    /\ Executing # {} => areRunning
    /\ areRunning => Executing # {}
    /\ \A a, b \in Executing : a = b

(* nThreadsServicingQueue counts the threads inside serviceQueue. *)
Serving == {t \in Thread : pc[t] \notin {"start", "gone"}}
Counted == nThreads = Cardinality(Serving)

(* How far the shutdown has come, and what that says of the others. *)
Stopping ==
    /\ pc[Shutdown] = "ready" => ~stopRequested /\ ~stopWhenEmpty
    /\ (\E t \in Thread : pc[t] = "gone") => stopRequested \/ stopWhenEmpty
    /\ pc[Shutdown] \notin {"ready", "notifyAll", "join"} => Gone(Thread)
    /\ stopWhenEmpty =>
         /\ ~stopRequested /\ Gone(Adder) /\ pc[Shutdown] \in {"notifyAll", "join", "gone"}
         /\ Gone(Thread) => taskQueue = <<>>

IInv == TypeOK /\ OneRunning /\ Counted /\ Stopping

-----------------------------------------------------------------------------
(* The kinds of actors do not overlap. *)
LEMMA Actors ==
    /\ Shutdown \in Actor /\ Shutdown \notin Thread /\ Shutdown \notin Adder
    /\ Thread \subseteq Actor /\ Adder \subseteq Actor
    /\ \A t \in Thread : t \notin Adder
BY SchedulerAssumption DEF Actor, Adder

(* What a notification does to the program counters: it wakes threads that *)
(* wait, and changes nothing else.                                         *)
Wakes(p, q) ==
    /\ q \in [Actor -> Label]
    /\ \A a \in Actor : \/ q[a] = p[a]
                        \/ a \in Thread /\ p[a] = "idle" /\ q[a] = "loop"
                        \/ a \in Thread /\ p[a] = "timed" /\ q[a] = "woken"

LEMMA NotifyOneWakes ==
    ASSUME NEW p, p \in [Actor -> Label], NotifyOne(p)
    PROVE  Wakes(p, pc')
<1>1. CASE Waiting(p) = {}
  BY <1>1 DEF NotifyOne, Wakes
<1>2. CASE Waiting(p) # {}
  <2>1. PICK t \in Waiting(p) : pc' = [p EXCEPT ![t] = Woken(@)]
    BY <1>2 DEF NotifyOne
  <2>2. t \in Thread /\ t \in Actor /\ p[t] \in {"idle", "timed"}
    BY Actors DEF Waiting
  <2>3. /\ p[t] = "idle" => Woken(p[t]) = "loop"
        /\ p[t] = "timed" => Woken(p[t]) = "woken"
    BY DEF Woken
  <2>4. Woken(p[t]) \in Label
    BY <2>2, <2>3 DEF Label, ThreadLabel
  <2>. QED BY <2>1, <2>2, <2>3, <2>4 DEF Wakes
<1>. QED BY <1>1, <1>2

(* Wakes keeps the kinds of labels, who executes and who serves. *)
LEMMA WakesLabelled ==
    ASSUME NEW p, NEW q, Labelled(p), Wakes(p, q)
    PROVE  /\ Labelled(q)
           /\ \A a \in Actor : q[a] \in {"callback", "finish"} <=> p[a] \in {"callback", "finish"}
           /\ \A a \in Actor : q[a] \in {"start", "gone"} <=> p[a] \in {"start", "gone"}
           /\ \A a \in Actor : a \notin Thread => q[a] = p[a]
           /\ \A a \in Actor : q[a] = "gone" <=> p[a] = "gone"
<1>. USE Actors
<1>1. \A t \in Thread : q[t] \in ThreadLabel
  BY DEF Wakes, Labelled, ThreadLabel
<1>2. \A a \in Actor : a \notin Thread => q[a] = p[a]
  BY DEF Wakes
<1>3. Labelled(q)
  BY <1>1, <1>2 DEF Labelled, Wakes
<1>4. \A a \in Actor : q[a] \in {"callback", "finish"} <=> p[a] \in {"callback", "finish"}
  BY DEF Wakes
<1>5. \A a \in Actor : (q[a] \in {"start", "gone"} <=> p[a] \in {"start", "gone"}) /\ (q[a] = "gone" <=> p[a] = "gone")
  BY DEF Wakes
<1>. QED BY <1>2, <1>3, <1>4, <1>5

-----------------------------------------------------------------------------
(* In every step one actor goes on, to l, and some threads are woken. *)
Moves(a, l) == Wakes([pc EXCEPT ![a] = l], pc')

Kind(a) == IF a \in Thread THEN ThreadLabel ELSE IF a = Shutdown THEN ShutdownLabel ELSE AdderLabel

LEMMA GotoMoves ==
    ASSUME Labelled(pc), NEW a \in Actor, NEW l \in Kind(a), Goto(a, l)
    PROVE  Moves(a, l)
<1>1. l \in Label
  BY DEF Kind, Label
<1>. QED BY <1>1 DEF Goto, Moves, Wakes, Labelled

LEMMA NotifyMoves ==
    ASSUME Labelled(pc), NEW a \in Actor, NEW l \in Kind(a), NotifyOne([pc EXCEPT ![a] = l])
    PROVE  Moves(a, l)
<1>1. l \in Label
  BY DEF Kind, Label
<1>2. [pc EXCEPT ![a] = l] \in [Actor -> Label]
  BY <1>1 DEF Labelled
<1>. QED BY <1>2, NotifyOneWakes, Zenon DEF Moves

(* What such a step leaves alone. *)
Runs(l) == l \in {"callback", "finish"}
Away(l) == l \in {"start", "gone"}

LEMMA MovesEffect ==
    ASSUME Labelled(pc), NEW a \in Actor, NEW l \in Kind(a), Moves(a, l)
    PROVE  /\ Labelled(pc')
           /\ \A b \in Actor : b # a =>
                /\ (Runs(pc'[b]) <=> Runs(pc[b])) /\ (Away(pc'[b]) <=> Away(pc[b]))
                /\ (pc'[b] = "gone" <=> pc[b] = "gone")
                /\ (b \notin Thread => pc'[b] = pc[b])
           /\ (Runs(pc'[a]) <=> Runs(l)) /\ (Away(pc'[a]) <=> Away(l)) /\ (pc'[a] = "gone" <=> l = "gone")
           /\ a \notin Thread => pc'[a] = l
<1>. DEFINE p == [pc EXCEPT ![a] = l]
<1>1. l \in Label
  BY DEF Kind, Label
<1>2. p \in [Actor -> Label] /\ p[a] = l /\ \A b \in Actor : b # a => p[b] = pc[b]
  BY <1>1, Zenon DEF Labelled
<1>3. Labelled(p)
  <2>1. \A t \in Thread : p[t] \in ThreadLabel
    BY <1>2, Actors DEF Labelled, Kind
  <2>2. \A b \in Adder : p[b] \in AdderLabel
    BY <1>2, Actors DEF Labelled, Kind
  <2>3. p[Shutdown] \in ShutdownLabel
    BY <1>2, Actors DEF Labelled, Kind
  <2>. QED BY <1>2, <2>1, <2>2, <2>3 DEF Labelled
<1>4. Wakes(p, pc')
  BY DEF Moves
<1>. HIDE DEF p
<1>5. /\ Labelled(pc')
      /\ \A b \in Actor : pc'[b] \in {"callback", "finish"} <=> p[b] \in {"callback", "finish"}
      /\ \A b \in Actor : pc'[b] \in {"start", "gone"} <=> p[b] \in {"start", "gone"}
      /\ \A b \in Actor : b \notin Thread => pc'[b] = p[b]
      /\ \A b \in Actor : pc'[b] = "gone" <=> p[b] = "gone"
  BY <1>3, <1>4, WakesLabelled
<1>6. \A b \in Actor : /\ Runs(pc'[b]) <=> Runs(p[b])
                       /\ Away(pc'[b]) <=> Away(p[b])
  BY <1>5 DEF Runs, Away
<1>. QED BY <1>2, <1>5, <1>6

-----------------------------------------------------------------------------
(* Steps of an actor that does not begin or end a callback. *)
LEMMA RunningKept ==
    ASSUME Labelled(pc), NEW a \in Actor, NEW l \in Kind(a), Moves(a, l),
           Runs(pc[a]) <=> Runs(l), OneRunning, UNCHANGED areRunning
    PROVE  Executing' = Executing /\ OneRunning'
<1>1. \A b \in Actor : Runs(pc'[b]) <=> Runs(pc[b])
  BY MovesEffect
<1>2. Executing' = Executing
  BY <1>1, Actors DEF Executing, Runs
<1>. QED BY <1>2 DEF OneRunning

(* Steps of an actor that does not enter or leave serviceQueue. *)
LEMMA CountKept ==
    ASSUME Labelled(pc), NEW a \in Actor, NEW l \in Kind(a), Moves(a, l),
           a \notin Thread \/ (Away(pc[a]) <=> Away(l)), Counted, UNCHANGED nThreads
    PROVE  Counted'
<1>1. \A b \in Thread : Away(pc'[b]) <=> Away(pc[b])
  BY MovesEffect, Actors
<1>2. Serving' = Serving
  BY <1>1 DEF Serving, Away
<1>. QED BY <1>2 DEF Counted

(* A service thread that goes on may also schedule tasks. *)
LEMMA ThreadKeepsStopping ==
    ASSUME Labelled(pc), NEW t \in Thread, NEW l \in ThreadLabel, Moves(t, l), l # "gone", pc[t] # "gone",
           Stopping, UNCHANGED <<stopRequested, stopWhenEmpty>>
    PROVE  Stopping'
<1>1. t \in Actor /\ l \in Kind(t)
  BY Actors, Zenon DEF Kind
<1>2. /\ pc'[Shutdown] = pc[Shutdown]
      /\ \A b \in Actor : pc'[b] = "gone" <=> pc[b] = "gone"
  BY <1>1, MovesEffect, Actors
<1>3. ~Gone(Thread) /\ ~Gone(Thread)' /\ (Gone(Adder) <=> Gone(Adder)')
  BY <1>2, Actors DEF Gone
<1>4. (\E b \in Thread : pc'[b] = "gone") => \E b \in Thread : pc[b] = "gone"
  BY <1>2, Actors
<1>. QED BY <1>2, <1>3, <1>4 DEF Stopping

(* So may a thread that adds callbacks, which StopWhenDrained waits for. *)
LEMMA AdderKeepsStopping ==
    ASSUME Labelled(pc), NEW a \in Adder, NEW l \in AdderLabel, Moves(a, l), pc[a] # "gone",
           Stopping, UNCHANGED <<stopRequested, stopWhenEmpty>>
    PROVE  Stopping'
<1>1. a \in Actor /\ l \in Kind(a)
  BY Actors DEF Kind
<1>2. /\ pc'[Shutdown] = pc[Shutdown]
      /\ \A b \in Thread : pc'[b] = "gone" <=> pc[b] = "gone"
  BY <1>1, MovesEffect, Actors
<1>3. ~stopWhenEmpty
  BY DEF Stopping, Gone
<1>4. Gone(Thread) <=> Gone(Thread)'
  BY <1>2 DEF Gone
<1>. QED BY <1>2, <1>3, <1>4 DEF Stopping

-----------------------------------------------------------------------------
(* A step keeps the invariant, and is one of SerialQueue or none. *)
Good == IInv' /\ [Serial!Next]_(Serial!vars)

(* A step that does not touch the callbacks is none. *)
LEMMA QuietStep ==
    ASSUME IInv, NEW a \in Actor, NEW l \in Kind(a), Moves(a, l), Runs(pc[a]) <=> Runs(l),
           UNCHANGED <<areRunning, pending, callback>>
    PROVE  Labelled(pc)' /\ OneRunning' /\ UNCHANGED Serial!vars
<1>1. Labelled(pc)'
  BY MovesEffect DEF IInv, TypeOK
<1>2. Executing' = Executing /\ OneRunning'
  BY RunningKept DEF IInv, TypeOK
<1>3. UNCHANGED Serial!vars
  BY <1>2 DEF Serial!vars
<1>. QED BY <1>1, <1>2, <1>3

(* The numbers of threads inside serviceQueue. *)
LEMMA ServingCounts ==
    ASSUME NEW t \in Thread
    PROVE  /\ IsFiniteSet(Serving) /\ Cardinality(Serving) \in Nat
           /\ t \in Serving => Cardinality(Serving \ {t}) = Cardinality(Serving) - 1
           /\ t \notin Serving => Cardinality(Serving \cup {t}) = Cardinality(Serving) + 1
<1>1. IsFiniteSet(Serving)
  BY FS_Subset, SchedulerAssumption DEF Serving
<1>. QED BY <1>1, FS_CardinalityType, FS_AddElement, FS_RemoveElement

LEMMA FirstTask ==
    ASSUME taskQueue \in Seq(TaskType), taskQueue # <<>>
    PROVE  taskQueue[1] \in TaskType /\ Tail(taskQueue) \in Seq(TaskType)
<1>1. Len(taskQueue) \in Nat /\ Len(taskQueue) # 0
  BY EmptySeq
<1>2. 1 \in 1..Len(taskQueue)
  BY <1>1
<1>. QED BY <1>2, ElementOfSeq, HeadTailProperties

(* serviceQueue goes on to the next wait or to its end. *)
LEMMA SettleGood ==
    ASSUME IInv, NEW t \in Thread, NEW n, Settle(t, n), ~Runs(pc[t]), pc[t] # "gone",
           n = IF pc[t] = "start" THEN nThreads + 1 ELSE nThreads
    PROVE  Good
<1>. USE Actors DEF IInv, TypeOK
<1>1. t \in Actor /\ Kind(t) = ThreadLabel /\ {"gone", "idle", "timed"} \subseteq ThreadLabel
  BY DEF Kind, ThreadLabel
<1>2. UNCHANGED <<now, taskQueue, stopRequested, stopWhenEmpty, areRunning, pending, callback, added>>
  BY DEF Settle, client
<1>3. task' \in [Thread -> TaskType]
  BY DEF Settle, DataOK, TaskType, NoTask, Task
<1>4. /\ t \in Serving <=> pc[t] # "start"
      /\ nThreads \in Nat /\ nThreads = Cardinality(Serving)
  BY ServingCounts, ZenonT(60) DEF Serving, Counted
<1>5. CASE Exit(t, n)
  <2>1. Moves(t, "gone")
    BY <1>1, <1>5, NotifyMoves DEF Exit
  <2>2. Labelled(pc)' /\ OneRunning' /\ UNCHANGED Serial!vars
    BY <1>1, <1>2, <2>1, QuietStep, ZenonT(60) DEF Runs
  <2>3. DataOK'
    BY <1>2, <1>3, <1>5, Zenon DEF DataOK, Exit
  <2>4. /\ pc'[Shutdown] = pc[Shutdown] /\ pc'[t] = "gone" /\ pc'[t] \in {"start", "gone"}
        /\ \A b \in Actor : b # t => /\ pc'[b] = "gone" <=> pc[b] = "gone"
                                     /\ Away(pc'[b]) <=> Away(pc[b])
    BY <1>1, <2>1, MovesEffect, Zenon
  <2>5. Serving' = Serving \ {t}
    BY <2>4 DEF Serving, Away
  <2>6. nThreads' = n - 1
    BY <1>5 DEF Exit
  <2>7. Counted'
    <3>1. CASE pc[t] = "start"
      <4>1. Serving' = Serving
        BY <1>4, <2>5, <3>1, Zenon
      <4>. QED BY <1>4, <2>6, <3>1, <4>1 DEF Counted
    <3>2. CASE pc[t] # "start"
      BY <1>4, <2>5, <2>6, <3>2, ServingCounts, ZenonT(60) DEF Counted
    <3>. QED BY <3>1, <3>2
  <2>8. Stopping'
    <3>1. shouldStop
      BY <1>5 DEF Exit
    <3>2. Gone(Adder) <=> Gone(Adder)'
      BY <2>4 DEF Gone
    <3>3. ~Gone(Thread)
      BY DEF Gone
    <3>. QED BY <1>2, <2>4, <3>1, <3>2, <3>3 DEF Stopping, shouldStop
  <2>. QED BY <2>2, <2>3, <2>7, <2>8 DEF Good
<1>6. CASE WaitForTask(t, n) \/ WaitForTime(t, n)
  <2>1. PICK l \in {"idle", "timed"} : Goto(t, l)
    BY <1>6 DEF WaitForTask, WaitForTime
  <2>2. Moves(t, l) /\ l \in Kind(t) /\ l \in ThreadLabel
    BY <1>1, <2>1, GotoMoves, Zenon
  <2>3. Labelled(pc)' /\ OneRunning' /\ UNCHANGED Serial!vars
    BY <1>1, <1>2, <2>2, QuietStep, ZenonT(60) DEF Runs
  <2>4. taskQueue # <<>> => taskQueue[1].due \in Nat
    BY FirstTask, Zenon DEF DataOK, TaskType
  <2>5. until' \in [Thread -> Nat]
    BY <1>6, <2>4 DEF DataOK, WaitForTask, WaitForTime
  <2>6. DataOK'
    BY <1>2, <1>3, <2>5, Zenon DEF DataOK
  <2>7. /\ pc'[t] \notin {"start", "gone"}
        /\ \A b \in Actor : b # t => (Away(pc'[b]) <=> Away(pc[b]))
    BY <1>1, <2>2, MovesEffect, Zenon DEF Away
  <2>8. Serving' = Serving \cup {t}
    BY <2>7, Zenon DEF Serving, Away
  <2>9. nThreads' = n
    BY <1>6, Zenon DEF WaitForTask, WaitForTime
  <2>10. Counted'
    <3>1. CASE pc[t] = "start"
      BY <1>4, <2>8, <2>9, <3>1, ServingCounts, Zenon DEF Counted
    <3>2. CASE pc[t] # "start"
      <4>1. Serving' = Serving
        BY <1>4, <2>8, <3>2, Zenon
      <4>. QED BY <1>4, <2>9, <3>2, <4>1, Zenon DEF Counted
    <3>. QED BY <3>1, <3>2, Zenon
  <2>11. Stopping'
    BY <1>2, <2>2, ThreadKeepsStopping, Zenon
  <2>. QED BY <2>3, <2>6, <2>10, <2>11 DEF Good
<1>. QED BY <1>5, <1>6 DEF Settle

-----------------------------------------------------------------------------
(* Most steps only move an actor on, perhaps with a new task. *)
Ordinary(a, l) ==
    /\ Moves(a, l) /\ pc[a] # "gone"
    /\ a \in Thread => ~Away(pc[a]) /\ ~Away(l)
    /\ a = Shutdown => pc[a] \notin {"ready", "notifyAll", "join"} /\ l # "ready"
    /\ UNCHANGED <<nThreads, stopRequested, stopWhenEmpty>>

LEMMA OrdinaryKeeps ==
    ASSUME IInv, NEW a \in Actor, NEW l \in Kind(a), Ordinary(a, l)
    PROVE  Counted' /\ Stopping'
<1>. USE DEF IInv, TypeOK
<1>1. Counted'
  BY CountKept DEF Ordinary
<1>2. CASE a \in Thread
  <2>1. l \in ThreadLabel /\ l # "gone"
    BY <1>2 DEF Kind, Ordinary, Away
  <2>2. Stopping'
    BY <1>2, <2>1, ThreadKeepsStopping DEF Ordinary
  <2>. QED BY <1>1, <2>2, Zenon
<1>3. CASE a \in Adder
  <2>1. l \in AdderLabel
    BY <1>3, Actors DEF Kind
  <2>2. Stopping'
    BY <1>3, <2>1, AdderKeepsStopping, ZenonT(60) DEF Ordinary
  <2>. QED BY <1>1, <2>2
<1>4. CASE a = Shutdown
  <2>1. Gone(Thread) /\ ~stopWhenEmpty
    BY <1>4, Zenon DEF Ordinary, Stopping
  <2>2. /\ pc'[Shutdown] = l /\ l # "ready"
        /\ \A b \in Thread : pc'[b] = "gone" <=> pc[b] = "gone"
    BY <1>4, Actors, MovesEffect DEF Ordinary
  <2>3. Gone(Thread)'
    BY <2>1, <2>2, Zenon DEF Gone
  <2>4. (\E b \in Thread : pc'[b] = "gone") => \E b \in Thread : pc[b] = "gone"
    BY <2>2
  <2>5. UNCHANGED <<stopRequested, stopWhenEmpty>>
    BY Zenon DEF Ordinary
  <2>6. Stopping'
    BY <2>1, <2>2, <2>3, <2>4, <2>5 DEF Stopping
  <2>. QED BY <1>1, <2>6
<1>. QED BY <1>2, <1>3, <1>4, Actors, ZenonT(60) DEF Actor, Adder

LEMMA OrdinaryGood ==
    ASSUME IInv, NEW a \in Actor, NEW l \in Kind(a), Ordinary(a, l), Runs(pc[a]) <=> Runs(l),
           UNCHANGED <<areRunning, pending, callback>>, DataOK'
    PROVE  Good
<1>1. Moves(a, l)
  BY DEF Ordinary
<1>2. Labelled(pc)' /\ OneRunning' /\ UNCHANGED Serial!vars
  BY <1>1, QuietStep
<1>3. Counted' /\ Stopping'
  BY OrdinaryKeeps, Zenon
<1>. QED BY <1>2, <1>3 DEF Good, IInv, TypeOK

(* schedule adds its task. *)
LEMMA InsertType ==
    ASSUME taskQueue \in Seq(TaskType), NEW x \in TaskType, Insert(x)
    PROVE  taskQueue' \in Seq(TaskType)
<1>1. PICK k \in 0..Len(taskQueue) :
        taskQueue' = SubSeq(taskQueue, 1, k) \o <<x>> \o SubSeq(taskQueue, k + 1, Len(taskQueue))
  BY ZenonT(60) DEF Insert
<1>2. Len(taskQueue) \in Nat /\ \A i \in 1..Len(taskQueue) : taskQueue[i] \in TaskType
  BY LenProperties, ElementOfSeq
<1>3. SubSeq(taskQueue, 1, k) \in Seq(TaskType)
  <2>1. \A i \in 1..k : taskQueue[i] \in TaskType
    BY <1>2
  <2>. QED BY <2>1, SubSeqProperties
<1>4. SubSeq(taskQueue, k + 1, Len(taskQueue)) \in Seq(TaskType)
  <2>1. \A i \in k + 1..Len(taskQueue) : taskQueue[i] \in TaskType
    BY <1>2
  <2>. QED BY <1>2, <2>1, SubSeqProperties
<1>5. <<x>> \in Seq(TaskType)
  OBVIOUS
<1>. QED BY <1>1, <1>3, <1>4, <1>5, ConcatProperties

LEMMA ScheduleGood ==
    ASSUME IInv, NEW a \in Actor, NEW x \in TaskType, Schedule(a, x), pc[a] \in {"repeat", "schedule"}
    PROVE  Good
<1>1. "notify" \in Kind(a)
  BY Zenon DEF Kind, ThreadLabel, AdderLabel, ShutdownLabel
<1>2. Moves(a, "notify")
  BY <1>1, GotoMoves, Zenon DEF Schedule, IInv, TypeOK
<1>3. Ordinary(a, "notify")
  BY <1>2, Zenon DEF Schedule, Ordinary, Away
<1>4. taskQueue' \in Seq(TaskType)
  BY InsertType, Zenon DEF Schedule, IInv, TypeOK, DataOK
<1>5. UNCHANGED <<now, until, task, areRunning, pending, callback, added, stopRequested, stopWhenEmpty>>
  BY Zenon DEF Schedule, client
<1>6. DataOK'
  BY <1>4, <1>5, Zenon DEF IInv, TypeOK, DataOK
<1>. QED BY <1>1, <1>3, <1>5, <1>6, OrdinaryGood, Zenon DEF Runs

-----------------------------------------------------------------------------
(* Steps that change nothing but the program counters. *)
Same == UNCHANGED <<now, scheduler, client, waits>>

LEMMA SameGood ==
    ASSUME IInv, NEW a \in Actor, NEW l \in Kind(a), Moves(a, l), Same, Runs(pc[a]) <=> Runs(l), pc[a] # "gone",
           a \in Thread => ~Away(pc[a]) /\ ~Away(l),
           a = Shutdown => pc[a] \notin {"ready", "notifyAll", "join"} /\ l # "ready"
    PROVE  Good
<1>1. /\ UNCHANGED <<now, added, taskQueue, nThreads, stopRequested, stopWhenEmpty, until, task>>
      /\ UNCHANGED <<areRunning, pending, callback>>
  BY Zenon DEF Same, scheduler, client
<1>2. DataOK'
  BY <1>1, Zenon DEF IInv, TypeOK, DataOK
<1>3. Ordinary(a, l)
  BY <1>1 DEF Ordinary
<1>. QED BY <1>1, <1>2, <1>3, OrdinaryGood, Zenon

LEMMA BackKind ==
    ASSUME NEW a \in Actor
    PROVE  /\ Back(a) \in Kind(a) /\ ~Runs(Back(a)) /\ ~Away(Back(a))
           /\ a = Shutdown => Back(a) # "ready"
BY Actors DEF Back, Kind, Runs, Away, ThreadLabel, AdderLabel, ShutdownLabel

LEMMA ScheduleStepGood ==
    ASSUME IInv, NEW a \in Actor, ScheduleStep(a)
    PROVE  Good
<1>1. CASE MaybeScheduleProcessQueue(a)
  <2>1. PICK l \in {Back(a), "schedule"} : Goto(a, l)
    BY <1>1, Zenon DEF MaybeScheduleProcessQueue
  <2>2. l \in Kind(a) /\ ~Runs(l) /\ ~Away(l) /\ (a = Shutdown => l # "ready")
    BY BackKind DEF Kind, ThreadLabel, AdderLabel, ShutdownLabel, Runs, Away
  <2>3. Moves(a, l)
    BY <2>1, <2>2, GotoMoves, Zenon DEF IInv, TypeOK
  <2>4. pc[a] = "maybe" /\ Same
    BY <1>1 DEF MaybeScheduleProcessQueue, Same
  <2>. QED BY <2>2, <2>3, <2>4, SameGood, ZenonT(60) DEF Runs, Away
<1>2. CASE ScheduleProcessQueue(a)
  <2>1. Task(Process, now) \in TaskType
    BY DEF Task, TaskType, IInv, TypeOK, DataOK
  <2>. QED BY <1>2, <2>1, ScheduleGood, Zenon DEF ScheduleProcessQueue
<1>3. CASE Notify(a)
  <2>1. Moves(a, Back(a))
    BY <1>3, BackKind, NotifyMoves DEF Notify, IInv, TypeOK
  <2>2. pc[a] = "notify" /\ Same
    BY <1>3, Zenon DEF Notify, Same
  <2>. QED BY <2>1, <2>2, BackKind, SameGood DEF Runs, Away
<1>. QED BY <1>1, <1>2, <1>3, Zenon DEF ScheduleStep

-----------------------------------------------------------------------------
(* ProcessQueue takes a callback: nobody executes one. *)
LEMMA TakeGood ==
    ASSUME IInv, NEW a \in Thread \cup {Shutdown}, ProcessQueue(a), ~areRunning, pending # <<>>
    PROVE  Good
<1>. USE DEF IInv, TypeOK
<1>1. a \in Actor /\ "callback" \in Kind(a)
  BY Actors DEF Kind, ThreadLabel, ShutdownLabel
<1>2. /\ pc[a] = "process" /\ Goto(a, "callback")
      /\ areRunning' = TRUE /\ callback' = [callback EXCEPT ![a] = Head(pending)] /\ pending' = Tail(pending)
      /\ UNCHANGED <<now, added, taskQueue, nThreads, stopRequested, stopWhenEmpty, until, task>>
  BY DEF ProcessQueue, scheduler
<1>3. Moves(a, "callback")
  BY <1>1, <1>2, GotoMoves, Zenon
<1>4. /\ Labelled(pc')
      /\ \A b \in Actor : b # a => (Runs(pc'[b]) <=> Runs(pc[b]))
      /\ Runs(pc'[a])
  BY <1>1, <1>3, MovesEffect DEF Runs
<1>5. Executing = {}
  BY Zenon DEF OneRunning
<1>6. Executing' = {a}
  BY <1>4, <1>5, Actors, ZenonT(60) DEF Executing, Runs
<1>7. OneRunning'
  BY <1>2, <1>6 DEF OneRunning
<1>8. Head(pending) \in Nat /\ Tail(pending) \in Seq(Nat)
  BY HeadTailProperties, Zenon DEF DataOK
<1>9. DataOK'
  BY <1>2, <1>8 DEF DataOK
<1>10. Counted' /\ Stopping'
  <2>1. Ordinary(a, "callback")
    BY <1>2, <1>3 DEF Ordinary, Away
  <2>. QED BY <1>1, <2>1, OrdinaryKeeps, ZenonT(60)
<1>11. Serial!Begin
  <2>1. callback'[a] = Head(pending)
    BY <1>2, Zenon DEF DataOK
  <2>2. {callback[b] : b \in Executing} = {} /\ {callback[b] : b \in Executing}' = {Head(pending)}
    BY <1>5, <1>6, <2>1, Zenon
  <2>. QED BY <1>2, <2>2, ZenonT(60) DEF Serial!Begin
<1>. QED BY <1>4, <1>7, <1>9, <1>10, <1>11, ZenonT(60) DEF Good, Serial!Next

(* The one that executed a callback lets the next one be taken. *)
LEMMA FinishGood ==
    ASSUME IInv, NEW a \in Thread \cup {Shutdown}, Finish(a)
    PROVE  Good
<1>. USE DEF IInv, TypeOK
<1>1. a \in Actor /\ "maybe" \in Kind(a)
  BY Actors, Zenon DEF Kind, ThreadLabel, ShutdownLabel
<1>2. /\ pc[a] = "finish" /\ Goto(a, "maybe")
      /\ areRunning' = FALSE /\ callback' = [callback EXCEPT ![a] = 0]
      /\ UNCHANGED <<now, added, pending, taskQueue, nThreads, stopRequested, stopWhenEmpty, until, task>>
  BY DEF Finish, scheduler
<1>3. Moves(a, "maybe")
  BY <1>1, <1>2, GotoMoves
<1>4. /\ Labelled(pc')
      /\ \A b \in Actor : b # a => (Runs(pc'[b]) <=> Runs(pc[b]))
      /\ ~Runs(pc'[a])
  BY <1>1, <1>3, MovesEffect, Zenon DEF Runs
<1>5. Executing = {a}
  BY <1>2, Zenon DEF OneRunning, Executing
<1>6. Executing' = {}
  BY <1>4, <1>5, Actors, Zenon DEF Executing, Runs
<1>7. OneRunning'
  BY <1>2, <1>6 DEF OneRunning
<1>8. DataOK'
  BY <1>2, ZenonT(60) DEF DataOK
<1>9. Counted' /\ Stopping'
  <2>1. Ordinary(a, "maybe")
    BY <1>2, <1>3, Zenon DEF Ordinary, Away
  <2>. QED BY <1>1, <2>1, OrdinaryKeeps, ZenonT(60)
<1>10. Serial!End
  <2>1. callback[a] \in {callback[b] : b \in Executing} /\ {callback[b] : b \in Executing}' = {}
    BY <1>5, <1>6
  <2>. QED BY <1>2, <2>1, Zenon DEF Serial!End
<1>. QED BY <1>4, <1>7, <1>8, <1>9, <1>10, ZenonT(60) DEF Good, Serial!Next

LEMMA CallbackStepGood ==
    ASSUME IInv, NEW a \in Thread \cup {Shutdown}, CallbackStep(a)
    PROVE  Good
<1>1. a \in Actor /\ "finish" \in Kind(a)
  BY Actors, Zenon DEF Kind, ThreadLabel, ShutdownLabel
<1>2. CASE ProcessQueue(a) /\ (areRunning \/ pending = <<>>)
  <2>1. pc[a] = "process" /\ Goto(a, Back(a)) /\ Same
    BY <1>2 DEF ProcessQueue, Same, client
  <2>2. Moves(a, Back(a))
    BY <1>1, <2>1, BackKind, GotoMoves, ZenonT(60) DEF IInv, TypeOK
  <2>. QED BY <1>1, <2>1, <2>2, BackKind, SameGood DEF Runs, Away
<1>3. CASE ProcessQueue(a) /\ ~areRunning /\ pending # <<>>
  BY <1>3, TakeGood, Zenon
<1>4. CASE Execute(a)
  <2>1. /\ pc[a] = "callback" /\ Goto(a, "finish")
        /\ UNCHANGED <<areRunning, pending, callback>>
        /\ UNCHANGED <<now, added, taskQueue, nThreads, stopRequested, stopWhenEmpty, until, task>>
    BY <1>4, Zenon DEF Execute, scheduler
  <2>2. Moves(a, "finish")
    BY <1>1, <2>1, GotoMoves, ZenonT(60) DEF IInv, TypeOK
  <2>3. Ordinary(a, "finish")
    BY <2>1, <2>2, Zenon DEF Ordinary, Away
  <2>4. DataOK'
    BY <2>1 DEF IInv, TypeOK, DataOK
  <2>. QED BY <1>1, <2>1, <2>3, <2>4, OrdinaryGood, ZenonT(60) DEF Runs
<1>5. CASE Finish(a)
  BY <1>5, FinishGood, Zenon
<1>. QED BY <1>2, <1>3, <1>4, <1>5, ZenonT(60) DEF CallbackStep

-----------------------------------------------------------------------------
(* A callback is added at the end of the queue. *)
LEMMA AddGood ==
    ASSUME IInv, NEW a \in Adder \cup {Shutdown}, AddToProcessQueue(a), pc[a] \in {"ready", "sync", "joined"},
           a = Shutdown => pc[a] = "joined"
    PROVE  Good
<1>. USE DEF IInv, TypeOK
<1>1. a \in Actor /\ "maybe" \in Kind(a) /\ a \notin Thread
  BY Actors, Zenon DEF Kind, AdderLabel, ShutdownLabel
<1>2. /\ pending' = Append(pending, added + 1) /\ added' = added + 1
      /\ UNCHANGED <<areRunning, callback, now, taskQueue, nThreads, stopRequested, stopWhenEmpty, until, task>>
  BY Zenon DEF AddToProcessQueue, scheduler
<1>3. Moves(a, "maybe")
  BY <1>1, GotoMoves, Zenon DEF AddToProcessQueue
<1>4. Labelled(pc')
  BY <1>1, <1>3, MovesEffect, ZenonT(60)
<1>5. Executing' = Executing /\ OneRunning'
  BY <1>1, <1>2, <1>3, RunningKept DEF Runs
<1>6. added + 1 \in Nat
  BY DEF DataOK
<1>7. DataOK'
  <2>1. pending' \in Seq(Nat)
    BY <1>2, <1>6, AppendProperties, Zenon DEF DataOK
  <2>. QED BY <1>2, <1>6, <2>1, Zenon DEF DataOK
<1>8. Counted' /\ Stopping'
  <2>1. Ordinary(a, "maybe")
    BY <1>1, <1>2, <1>3, Zenon DEF Ordinary
  <2>. QED BY <1>1, <2>1, OrdinaryKeeps, Zenon
<1>9. Serial!Add
  <2>1. /\ Len(pending') = Len(pending) + 1 /\ pending'[Len(pending')] = added + 1
    BY <1>2, <1>6, AppendProperties DEF DataOK
  <2>. QED BY <1>2, <1>5, <1>6, <2>1, Zenon DEF Serial!Add
<1>. QED BY <1>4, <1>5, <1>6, <1>7, <1>8, <1>9, ZenonT(60) DEF Good, Serial!Next

-----------------------------------------------------------------------------
(* The steps of the service threads. *)
LEMMA ReturnGood ==
    ASSUME IInv, NEW t \in Thread, Return(t)
    PROVE  Good
<1>1. pc[t] \in {"woken", "timed"}
  BY Zenon DEF Return
<1>2. CASE Settle(t, nThreads)
  BY <1>1, <1>2, SettleGood, Zenon DEF Runs
<1>3. CASE ~Settle(t, nThreads)
  <2>. DEFINE l == IF taskQueue[1].kind = Process THEN "process" ELSE "repeat"
  <2>1. /\ taskQueue # <<>> /\ taskQueue' = Tail(taskQueue)
        /\ task' = [task EXCEPT ![t] = taskQueue[1]] /\ until' = [until EXCEPT ![t] = 0]
        /\ Goto(t, l)
        /\ UNCHANGED <<now, nThreads, stopRequested, stopWhenEmpty, areRunning, pending, callback, added>>
    BY <1>3 DEF Return, client
  <2>2. t \in Actor /\ l \in Kind(t) /\ ~Runs(l) /\ ~Away(l)
    BY Actors, Zenon DEF Kind, ThreadLabel, Runs, Away
  <2>. HIDE DEF l
  <2>3. Moves(t, l)
    BY <2>1, <2>2, GotoMoves, Zenon DEF IInv, TypeOK
  <2>4. Ordinary(t, l)
    BY <1>1, <2>1, <2>2, <2>3, Actors, ZenonT(60) DEF Ordinary, Away
  <2>5. DataOK'
    BY <2>1, FirstTask, Zenon DEF IInv, TypeOK, DataOK
  <2>. QED BY <1>1, <2>1, <2>2, <2>4, <2>5, OrdinaryGood, Zenon DEF Runs
<1>. QED BY <1>2, <1>3, Zenon

LEMMA WakeUpGood ==
    ASSUME IInv, NEW t \in Thread, WakeUp(t)
    PROVE  Good
<1>1. pc[t] \in {"idle", "timed"} /\ Same /\ Goto(t, Woken(pc[t]))
  BY DEF WakeUp, Waiting, Same
<1>2. t \in Actor /\ Woken(pc[t]) \in Kind(t) /\ Woken(pc[t]) \in {"loop", "woken"}
  BY Actors, Zenon DEF Woken, Kind, ThreadLabel
<1>3. Moves(t, Woken(pc[t]))
  BY <1>1, <1>2, GotoMoves DEF IInv, TypeOK
<1>. QED BY <1>1, <1>2, <1>3, SameGood, Actors, ZenonT(60) DEF Runs, Away

LEMMA ServiceGood ==
    ASSUME IInv, NEW t \in Thread, ServiceStep(t)
    PROVE  Good
<1>1. CASE Enter(t)
  BY <1>1, SettleGood, Zenon DEF Enter, Runs
<1>2. CASE Loop(t)
  BY <1>2, SettleGood DEF Loop, Runs
<1>3. CASE Return(t)
  BY <1>3, ReturnGood, Zenon
<1>4. CASE Repeat(t)
  <2>1. Task(Timer, now + Delta) \in TaskType
    BY SchedulerAssumption DEF Task, TaskType, IInv, TypeOK, DataOK
  <2>. QED BY <1>4, <2>1, ScheduleGood, Actors, ZenonT(60) DEF Repeat
<1>5. CASE CallbackStep(t)
  BY <1>5, CallbackStepGood, Zenon
<1>6. CASE ScheduleStep(t)
  BY <1>6, ScheduleStepGood, Actors, Zenon
<1>. QED BY <1>1, <1>2, <1>3, <1>4, <1>5, <1>6 DEF ServiceStep

(* The steps of the threads that add callbacks. *)
LEMMA AdderGood ==
    ASSUME IInv, NEW a \in Adder, AdderStep(a) \/ Signal(a) \/ Sync(a) \/ Quit(a)
    PROVE  Good
<1>1. a \in Actor /\ a \notin Thread /\ a # Shutdown /\ {"ready", "sync", "gone"} \subseteq Kind(a)
  BY Actors, Zenon DEF Kind, AdderLabel
<1>2. CASE SyncAdd(a) \/ Signal(a)
  BY <1>1, <1>2, AddGood, Zenon DEF SyncAdd, Signal
<1>3. CASE SyncReturn(a)
  <2>1. /\ pc[a] = "syncing" /\ Goto(a, "ready")
        /\ UNCHANGED <<now, added, taskQueue, nThreads, stopRequested, stopWhenEmpty, until, task>>
        /\ UNCHANGED <<areRunning, pending, callback>>
    BY <1>3, Zenon DEF SyncReturn, scheduler, client
  <2>2. Moves(a, "ready")
    BY <1>1, <2>1, GotoMoves, Zenon DEF IInv, TypeOK
  <2>3. Ordinary(a, "ready") /\ DataOK'
    BY <1>1, <2>1, <2>2, Zenon DEF Ordinary, IInv, TypeOK, DataOK
  <2>. QED BY <1>1, <2>1, <2>3, OrdinaryGood, Zenon DEF Runs
<1>4. CASE Sync(a) \/ Quit(a)
  <2>1. PICK l \in {"sync", "gone"} : Goto(a, l)
    BY <1>4, Zenon DEF Sync, Quit
  <2>2. pc[a] = "ready" /\ Same /\ l \in Kind(a)
    BY <1>1, <1>4, Zenon DEF Sync, Quit, Same
  <2>3. Moves(a, l)
    BY <1>1, <2>1, <2>2, GotoMoves, ZenonT(60) DEF IInv, TypeOK
  <2>. QED BY <1>1, <2>2, <2>3, SameGood, Zenon DEF Runs
<1>5. CASE ScheduleStep(a)
  BY <1>1, <1>5, ScheduleStepGood, ZenonT(60)
<1>. QED BY <1>2, <1>3, <1>4, <1>5, Zenon DEF AdderStep

-----------------------------------------------------------------------------
(* The steps of the thread that shuts the node down.  Its first three have *)
(* a hold on Stopping that the others have not.                            *)
LEMMA ShutdownMoves ==
    ASSUME IInv, NEW l \in ShutdownLabel, Moves(Shutdown, l), ~Runs(pc[Shutdown]), ~Runs(l),
           UNCHANGED <<now, added, taskQueue, nThreads, until, task, areRunning, pending, callback>>,
           stopRequested' \in BOOLEAN, stopWhenEmpty' \in BOOLEAN, Stopping'
    PROVE  Good
<1>1. Shutdown \in Actor /\ l \in Kind(Shutdown) /\ Shutdown \notin Thread
  BY Actors, Zenon DEF Kind
<1>2. Labelled(pc)' /\ OneRunning' /\ UNCHANGED Serial!vars
  BY <1>1, QuietStep, Zenon
<1>3. Counted'
  BY <1>1, CountKept, Zenon DEF IInv, TypeOK
<1>4. DataOK'
  BY Zenon DEF IInv, TypeOK, DataOK
<1>. QED BY <1>2, <1>3, <1>4, ZenonT(60) DEF Good, IInv, TypeOK

(* What a step of that thread does to the others. *)
LEMMA ShutdownLeaves ==
    ASSUME IInv, NEW l \in ShutdownLabel, Moves(Shutdown, l)
    PROVE  /\ pc'[Shutdown] = l
           /\ \A a \in Thread \cup Adder : pc'[a] = "gone" <=> pc[a] = "gone"
           /\ Gone(Thread)' <=> Gone(Thread)
           /\ Gone(Adder)' <=> Gone(Adder)
<1>1. Shutdown \in Actor /\ l \in Kind(Shutdown)
  BY Actors, Zenon DEF Kind
<1>2. /\ pc'[Shutdown] = l
      /\ \A a \in Thread \cup Adder : pc'[a] = "gone" <=> pc[a] = "gone"
  BY <1>1, MovesEffect, Actors DEF IInv, TypeOK
<1>. QED BY <1>2 DEF Gone

LEMMA StopGood ==
    ASSUME IInv, RequestStop \/ StopWhenDrained
    PROVE  Good
<1>1. Shutdown \in Actor /\ "notifyAll" \in Kind(Shutdown) /\ "notifyAll" \in ShutdownLabel
  BY Actors, Zenon DEF Kind, ShutdownLabel
<1>2. /\ pc[Shutdown] = "ready" /\ Goto(Shutdown, "notifyAll")
      /\ UNCHANGED <<now, added, taskQueue, nThreads, until, task, areRunning, pending, callback>>
  BY Zenon DEF RequestStop, StopWhenDrained, client
<1>3. Moves(Shutdown, "notifyAll")
  BY <1>1, <1>2, GotoMoves, ZenonT(60) DEF IInv, TypeOK
<1>4. \/ stopRequested' = TRUE /\ stopWhenEmpty' = FALSE
      \/ stopRequested' = FALSE /\ stopWhenEmpty' = TRUE /\ Gone(Adder)
  BY <1>2 DEF RequestStop, StopWhenDrained, IInv, TypeOK, DataOK, Stopping
<1>5. ~Gone(Thread)
  BY <1>2, SchedulerAssumption, SMTT(30) DEF IInv, Stopping, Gone
<1>6. Stopping'
  BY <1>1, <1>3, <1>4, <1>5, ShutdownLeaves, ZenonT(60) DEF Stopping
<1>. QED BY <1>1, <1>2, <1>3, <1>4, <1>6, ShutdownMoves, ZenonT(30) DEF Runs

LEMMA NotifyAllGood ==
    ASSUME IInv, NotifyAll
    PROVE  Good
<1>1. "join" \in ShutdownLabel /\ "join" \in Label
  BY Zenon DEF ShutdownLabel, Label
<1>2. pc[Shutdown] = "notifyAll"
  BY Zenon DEF NotifyAll
<1>3. Moves(Shutdown, "join")
  <2>. DEFINE p == [pc EXCEPT ![Shutdown] = "join"]
  <2>1. /\ p[Shutdown] = "join"
        /\ \A a \in Actor : a # Shutdown => p[a] = pc[a]
    BY Actors, Zenon DEF IInv, TypeOK, Labelled
  <2>2. /\ pc'[Shutdown] = "join"
        /\ \A a \in Actor : a # Shutdown => pc'[a] = IF a \in Waiting(pc) THEN Woken(pc[a]) ELSE pc[a]
    BY Actors, Zenon DEF NotifyAll
  <2>3. \A a \in Waiting(pc) : /\ a \in Thread
                               /\ \/ pc[a] = "idle" /\ Woken(pc[a]) = "loop"
                                  \/ pc[a] = "timed" /\ Woken(pc[a]) = "woken"
    BY Zenon DEF Waiting, Woken
  <2>4. \A a \in Actor : pc'[a] \in Label
    BY <1>1, <2>2, <2>3 DEF IInv, TypeOK, Labelled, Label, ThreadLabel
  <2>5. pc' \in [Actor -> Label]
    BY <2>4, Zenon DEF NotifyAll
  <2>. QED BY <2>1, <2>2, <2>3, <2>5 DEF Moves, Wakes
<1>4. UNCHANGED <<now, added, taskQueue, nThreads, stopRequested, stopWhenEmpty, until, task, areRunning, pending, callback>>
  BY Zenon DEF NotifyAll, scheduler, client
<1>5. Stopping'
  BY <1>1, <1>2, <1>3, <1>4, ShutdownLeaves, SMTT(30) DEF IInv, Stopping
<1>. QED BY <1>1, <1>2, <1>3, <1>4, <1>5, ShutdownMoves, ZenonT(30) DEF Runs, IInv, TypeOK, DataOK

LEMMA JoinGood ==
    ASSUME IInv, Join
    PROVE  Good
<1>1. pc[Shutdown] = "join" /\ Gone(Thread)
  BY DEF Join, Gone
<1>2. PICK l \in {"gone", "joined"} : Goto(Shutdown, l) /\ (stopWhenEmpty <=> l = "gone")
  BY DEF Join
<1>3. Shutdown \in Actor /\ l \in Kind(Shutdown) /\ l \in ShutdownLabel
  BY Actors DEF Kind, ShutdownLabel
<1>4. Moves(Shutdown, l)
  BY <1>2, <1>3, GotoMoves DEF IInv, TypeOK
<1>5. UNCHANGED <<now, added, taskQueue, nThreads, stopRequested, stopWhenEmpty, until, task, areRunning, pending, callback>>
  BY Zenon DEF Join, scheduler, client
<1>6. Stopping'
  BY <1>1, <1>2, <1>3, <1>4, <1>5, ShutdownLeaves, ZenonT(60) DEF IInv, Stopping
<1>. QED BY <1>1, <1>3, <1>4, <1>5, <1>6, ShutdownMoves, ZenonT(60) DEF Runs, IInv, TypeOK, DataOK

LEMMA ShutdownGood ==
    ASSUME IInv, ShutdownStep
    PROVE  Good
<1>1. Shutdown \in Actor /\ {"gone", "process"} \subseteq Kind(Shutdown)
  BY Actors DEF Kind, ShutdownLabel
<1>2. CASE ForceFlush
  BY <1>2, AddGood, Zenon DEF ForceFlush
<1>3. CASE EmptyQueue
  <2>1. PICK l \in {"gone", "process"} : Goto(Shutdown, l)
    BY <1>3 DEF EmptyQueue
  <2>2. pc[Shutdown] = "flushing" /\ Same
    BY <1>3 DEF EmptyQueue, Same
  <2>3. Moves(Shutdown, l)
    BY <1>1, <2>1, GotoMoves, ZenonT(60) DEF IInv, TypeOK
  <2>. QED BY <1>1, <2>2, <2>3, SameGood, Actors, ZenonT(60) DEF Runs
<1>. QED BY <1>1, <1>2, <1>3, NotifyAllGood, JoinGood, CallbackStepGood, ScheduleStepGood DEF ShutdownStep

-----------------------------------------------------------------------------
(* MockForward and the clock. *)
LEMMA MockForwardGood ==
    ASSUME IInv, MockForward(1)
    PROVE  Good
<1>1. Shutdown \in Actor /\ pc[Shutdown] \in Kind(Shutdown) /\ pc[Shutdown] \in ShutdownLabel
  BY Actors DEF Kind, IInv, TypeOK, Labelled
<1>2. [pc EXCEPT ![Shutdown] = pc[Shutdown]] = pc
  BY <1>1 DEF IInv, TypeOK, Labelled
<1>3. Moves(Shutdown, pc[Shutdown])
  BY <1>1, <1>2, NotifyMoves DEF MockForward, IInv, TypeOK
<1>4. UNCHANGED <<now, nThreads, stopRequested, stopWhenEmpty, until, task, areRunning, pending, callback, added>>
  BY DEF MockForward, client
<1>5. taskQueue' \in Seq(TaskType) /\ (taskQueue = <<>> => taskQueue' = <<>>)
  <2>1. /\ taskQueue \in Seq(TaskType) /\ Len(taskQueue) \in Nat /\ DOMAIN taskQueue = 1..Len(taskQueue)
        /\ \A i \in 1..Len(taskQueue) : taskQueue[i] \in TaskType
    BY LenProperties, ElementOfSeq DEF IInv, TypeOK, DataOK
  <2>2. \A x \in TaskType : [x EXCEPT !.due = IF @ > 1 THEN @ - 1 ELSE 0] \in TaskType
    BY DEF TaskType
  <2>3. taskQueue' \in [1..Len(taskQueue) -> TaskType]
    BY <2>1, <2>2, Zenon DEF MockForward
  <2>4. taskQueue' \in Seq(TaskType) /\ Len(taskQueue') = Len(taskQueue)
    BY <2>1, <2>3, SeqDef, LenProperties
  <2>. QED BY <2>1, <2>4, EmptySeq, ZenonT(60)
<1>6. DataOK'
  BY <1>4, <1>5, ZenonT(60) DEF IInv, TypeOK, DataOK
<1>7. Labelled(pc)' /\ OneRunning' /\ UNCHANGED Serial!vars
  BY <1>1, <1>3, <1>4, QuietStep, ZenonT(60)
<1>8. Counted'
  BY <1>1, <1>3, <1>4, CountKept, SMTT(30) DEF IInv, TypeOK
<1>9. Stopping'
  BY <1>1, <1>3, <1>4, <1>5, ShutdownLeaves DEF IInv, Stopping
<1>. QED BY <1>6, <1>7, <1>8, <1>9, ZenonT(60) DEF Good, IInv, TypeOK

LEMMA TickGood ==
    ASSUME IInv, Tick \/ UNCHANGED vars
    PROVE  Good
<1>1. /\ now' \in Nat
      /\ UNCHANGED <<added, taskQueue, nThreads, stopRequested, stopWhenEmpty, until, task, areRunning, pending, callback, pc>>
  BY DEF Tick, vars, scheduler, client, IInv, TypeOK, DataOK
<1>2. DataOK' /\ Labelled(pc)'
  BY <1>1, Zenon DEF IInv, TypeOK, DataOK, Labelled
<1>3. Executing' = Executing /\ Serving' = Serving
  BY <1>1, Zenon DEF Executing, Serving
<1>4. OneRunning' /\ Counted'
  BY <1>1, <1>3, Zenon DEF IInv, OneRunning, Counted
<1>5. Stopping'
  BY <1>1, Zenon DEF IInv, Stopping, Gone
<1>6. UNCHANGED Serial!vars
  BY <1>1, <1>3 DEF Serial!vars
<1>. QED BY <1>2, <1>4, <1>5, <1>6, ZenonT(60) DEF Good, IInv, TypeOK

-----------------------------------------------------------------------------
LEMMA InitGood == Init => IInv /\ Serial!Init
<1>. SUFFICES ASSUME Init PROVE IInv /\ Serial!Init
  BY Zenon
<1>1. /\ pc \in [Actor -> Label]
      /\ \A t \in Thread : pc[t] = "start"
      /\ \A a \in Adder : pc[a] = "ready"
      /\ pc[Shutdown] = "ready"
  BY Actors, Zenon DEF Init, Label, ThreadLabel, AdderLabel
<1>2. Labelled(pc)
  BY <1>1 DEF Labelled, ThreadLabel, AdderLabel, ShutdownLabel
<1>3. taskQueue \in Seq(TaskType)
  <2>1. Task(Timer, Delta) \in TaskType
    BY SchedulerAssumption DEF Task, TaskType
  <2>2. <<>> \in Seq(TaskType) /\ <<Task(Timer, Delta)>> \in Seq(TaskType)
    BY <2>1
  <2>. QED BY <2>2, ZenonT(60) DEF Init
<1>4. DataOK
  <2>1. task \in [Thread -> TaskType]
    <3>1. NoTask \in TaskType
      BY DEF NoTask, Task, TaskType
    <3>. QED BY <3>1 DEF Init
  <2>2. until \in [Thread -> Nat] /\ callback \in [Thread \cup {Shutdown} -> Nat] /\ pending \in Seq(Nat)
    BY DEF Init
  <2>. QED BY <1>3, <2>1, <2>2, ZenonT(60) DEF Init, DataOK
<1>5. Executing = {} /\ Serving = {}
  BY <1>1, Zenon DEF Executing, Serving
<1>6. OneRunning /\ Counted
  BY <1>5, FS_EmptySet, ZenonT(60) DEF Init, OneRunning, Counted
<1>7. Stopping
  BY <1>1, Zenon DEF Init, Stopping
<1>8. Serial!Init
  BY <1>5, Zenon DEF Init, Serial!Init
<1>. QED BY <1>2, <1>4, <1>6, <1>7, <1>8 DEF IInv, TypeOK

LEMMA NextGood == IInv /\ [Next]_vars => Good
BY ServiceGood, WakeUpGood, AdderGood, StopGood, ShutdownGood, MockForwardGood, TickGood, ZenonT(60) DEF Next

(* m_are_callbacks_running, nThreadsServicingQueue and the flags of        *)
(* stopping say of the threads what they are meant to say.                 *)
THEOREM Invariance == SafetySpec => []IInv
<1>1. IInv /\ [Next]_vars => IInv'
  BY NextGood DEF Good
<1>. QED BY InitGood, <1>1, PTL DEF SafetySpec

(* SingleThreadedSchedulerClient: callbacks run one at a time, in the      *)
(* order they were added, each of them at most once, whichever of the      *)
(* service threads and the shutdown thread calls ProcessQueue.             *)
THEOREM Refinement == SafetySpec => Serial!SafetySpec
<1>1. IInv /\ [Next]_vars => [Serial!Next]_(Serial!vars)
  BY NextGood DEF Good
<1>. QED BY InitGood, Invariance, <1>1, PTL DEF SafetySpec, Serial!SafetySpec

(* The assertions of EmptyQueue and of ~CScheduler hold. *)
THEOREM Assertions == SafetySpec => []AssertionsHold
<1>1. IInv => AssertionsHold
  <2>. SUFFICES ASSUME IInv, pc[Shutdown] \in {"flushing", "gone"}
                PROVE  nThreads = 0 /\ (stopWhenEmpty => taskQueue = <<>>)
    BY Zenon DEF AssertionsHold
  <2>1. Gone(Thread)
    BY DEF IInv, Stopping
  <2>2. Serving = {}
    BY <2>1 DEF Gone, Serving
  <2>. QED BY <2>1, <2>2, FS_EmptySet, ZenonT(60) DEF IInv, Counted, Stopping
<1>. QED BY Invariance, <1>1, PTL

=============================================================================
