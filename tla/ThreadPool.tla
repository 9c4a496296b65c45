------------------------------ MODULE ThreadPool ------------------------------
(***************************************************************************)
(* The work-stealing pool of src/src/builder/scheduler.cpp: each worker    *)
(* pops its own deque, steals from the others' when it is empty, and       *)
(* sleeps on one condition variable when it finds no task anywhere.        *)
(*                                                                         *)
(* A deque is the sequence WorkDeque specifies (LockFreeDeque shows that   *)
(* the code implements it), front first.  steal_front may also fail on a   *)
(* deque that holds items: it lost a race.                                 *)
(*                                                                         *)
(* The handler is left open: it submits any tasks never submitted before,  *)
(* and returns.  Scanner is the one the program runs.                      *)
(***************************************************************************)
EXTENDS Integers, Sequences, SequencesExt, FiniteSets

CONSTANTS NumWorkers,      \* workers.size()
          STEAL_ATTEMPTS,  \* rounds of stealing before a worker sleeps (64)
          Task,            \* what may be submitted
          Root,            \* the task start() is given
          NoTask           \* std::nullopt

ASSUME WorkersAssumption  == NumWorkers \in Nat \ {0}
ASSUME AttemptsAssumption == STEAL_ATTEMPTS \in Nat
ASSUME TaskAssumption     == IsFiniteSet(Task) /\ Root \in Task /\ NoTask \notin Task

Worker == 0 .. NumWorkers - 1
Nobody == -1                     \* holds the mutex when no worker does

VARIABLES
    q,          \* [Worker -> Seq(Task)]: the deques
    pc,         \* [Worker -> where the worker is in worker_loop]
    task,       \* [Worker -> Task or NoTask]: task_id
    loot,       \* [Worker -> Task or NoTask]: t of the batch loop
    counter,    \* [Worker -> 0 .. N - 2]: steal_start_counter % (N - 1)
    tries,      \* [Worker -> rounds of stealing left]
    start,      \* [Worker -> 0 .. N - 2]: where this round starts
    k,          \* [Worker -> the victim of this round, or the deque looked at]
    left,       \* [Worker -> what is left of steal_count]
    sleep_guard, \* the worker that evaluates the predicate under the mutex
    stop,       \* pool_stop
    main,       \* where the thread that owns the pool is
    submitted,  \* every task ever pushed
    finished    \* every task whose handler has returned

pool_vars == <<q, pc, task, loot, counter, tries, start, k, left, sleep_guard,
               stop, main, submitted, finished>>
round_vars == <<counter, tries, start, k, left>>

Goto(w, label) == pc' = [pc EXCEPT ![w] = label]

-----------------------------------------------------------------------------
(* The thread that owns the pool *)

PoolInit ==
    /\ q = [w \in Worker |-> <<>>]
    /\ pc = [w \in Worker |-> "unborn"]
    /\ task = [w \in Worker |-> NoTask]
    /\ loot = [w \in Worker |-> NoTask]
    /\ counter = [w \in Worker |-> 0]
    /\ tries = [w \in Worker |-> 0]
    /\ start = [w \in Worker |-> 0]
    /\ k = [w \in Worker |-> 0]
    /\ left = [w \in Worker |-> 0]
    /\ sleep_guard = Nobody
    /\ stop = FALSE
    /\ main = "start"
    /\ submitted = {}
    /\ finished = {}

\* start(): the first task, then the threads in the order of their ids.
StartPush ==
    /\ main = "start"
    /\ q' = [q EXCEPT ![0] = Append(@, Root)]
    /\ submitted' = submitted \cup {Root}
    /\ main' = "spawn"
    /\ UNCHANGED <<pc, task, loot, round_vars, sleep_guard, stop, finished>>

StartSpawn(w) ==
    /\ main = "spawn"
    /\ pc[w] = "unborn"
    /\ \A v \in Worker : v < w => pc[v] # "unborn"
    /\ Goto(w, "loop")
    /\ main' = IF w = NumWorkers - 1 THEN "running" ELSE "spawn"
    /\ UNCHANGED <<q, task, loot, round_vars, sleep_guard, stop, submitted, finished>>

\* Mutant: request_stop without the mutex.
DestroyStopUnlocked ==
    /\ main = "running"
    /\ stop' = TRUE
    /\ main' = "notify_all"
    /\ UNCHANGED <<q, pc, task, loot, round_vars, sleep_guard, submitted, finished>>

\* ~ThreadPool: request_stop in a critical section of its own, ...
DestroyStop ==
    /\ main = "running"
    /\ sleep_guard = Nobody
    /\ stop' = TRUE
    /\ main' = "notify_all"
    /\ UNCHANGED <<q, pc, task, loot, round_vars, sleep_guard, submitted, finished>>

\* ... then the wake-up, ...
DestroyNotifyAll ==
    /\ main = "notify_all"
    /\ pc' = [w \in Worker |-> IF pc[w] = "wait" THEN "lock" ELSE pc[w]]
    /\ main' = "join"
    /\ UNCHANGED <<q, task, loot, round_vars, sleep_guard, stop, submitted, finished>>

\* ... then every thread is joined.
DestroyJoin ==
    /\ main = "join"
    /\ \A w \in Worker : pc[w] = "exited"
    /\ main' = "joined"
    /\ UNCHANGED <<q, pc, task, loot, round_vars, sleep_guard, stop, submitted, finished>>

-----------------------------------------------------------------------------
(* worker_loop: finding a task *)

\* Mutant: pop_back returns the item and leaves it in.
NotPopped(s) == s
Popped(s)    == SubSeq(s, 1, Len(s) - 1)

PopBack(w) ==
    /\ pc[w] = "loop"
    /\ q[w] # <<>>
    /\ task' = [task EXCEPT ![w] = q[w][Len(q[w])]]
    /\ q' = [q EXCEPT ![w] = Popped(@)]
    /\ Goto(w, "exec")
    /\ UNCHANGED <<loot, round_vars, sleep_guard, stop, main, submitted, finished>>

\* Mutant: the loop is left as soon as stop is requested.
PopStopped(w) ==
    /\ pc[w] = "loop" /\ stop
    /\ Goto(w, "exited")
    /\ UNCHANGED <<q, task, loot, round_vars, sleep_guard, stop, main, submitted, finished>>

PopNothing(w) ==
    /\ pc[w] = "loop"
    /\ q[w] = <<>>
    /\ tries' = [tries EXCEPT ![w] = STEAL_ATTEMPTS]
    /\ Goto(w, "steal")
    /\ UNCHANGED <<q, task, loot, counter, start, k, left, sleep_guard, stop, main, submitted, finished>>

\* try_steal from its first line to its loop.
TrySteal(w) ==
    /\ pc[w] = "steal"
    /\ \/ /\ NumWorkers > 1 /\ tries[w] > 0
          /\ tries' = [tries EXCEPT ![w] = @ - 1]
          /\ start' = [start EXCEPT ![w] = counter[w]]
          /\ counter' = [counter EXCEPT ![w] = (@ + 1) % (NumWorkers - 1)]
          /\ k' = [k EXCEPT ![w] = 0]
          /\ Goto(w, "probe")
       \/ /\ NumWorkers = 1 \/ tries[w] = 0       \* no task found
          /\ tries' = [tries EXCEPT ![w] = 0]
          /\ start' = [start EXCEPT ![w] = 0]
          /\ Goto(w, "lock")
          /\ UNCHANGED <<counter, k>>
    /\ UNCHANGED <<q, task, loot, left, sleep_guard, stop, main, submitted, finished>>

\* Mutant: the offset may be 0, so a worker may steal from itself.
VictimOrSelf(w, s, i) == (w + ((s + i) % (NumWorkers - 1))) % NumWorkers
VictimOf(w, s, i) == (w + 1 + ((s + i) % (NumWorkers - 1))) % NumWorkers
Victim(w) == VictimOf(w, start[w], k[w])

\* steal_front on the victim: a task, or none because it is empty or another
\* thread was faster.
Probe(w) ==
    LET v == Victim(w) IN
    /\ pc[w] = "probe"
    /\ \/ /\ q[v] # <<>>
          /\ task' = [task EXCEPT ![w] = Head(q[v])]
          /\ q' = [q EXCEPT ![v] = Tail(@)]
          /\ Goto(w, "size")
          /\ UNCHANGED k
       \/ /\ k[w] < NumWorkers - 2
          /\ k' = [k EXCEPT ![w] = @ + 1]
          /\ UNCHANGED <<q, pc, task>>
       \/ /\ k[w] = NumWorkers - 2
          /\ k' = [k EXCEPT ![w] = 0]
          /\ Goto(w, "steal")
          /\ UNCHANGED <<q, task>>
    /\ UNCHANGED <<loot, counter, tries, start, left, sleep_guard, stop, main, submitted, finished>>

\* steal_count = victim.tasks.size() / 2.  size() loads front and then back, and the
\* deque changes in between: what it returns may be any number, here up to that of
\* the tasks there are.
BatchSize(w) ==
    /\ pc[w] = "size"
    /\ \E n \in 0 .. Cardinality(submitted) : left' = [left EXCEPT ![w] = n \div 2]
    /\ Goto(w, "batch")
    /\ UNCHANGED <<q, task, loot, counter, tries, start, k, sleep_guard, stop, main, submitted, finished>>

\* One more steal_front of the batch, or the end of it.
BatchSteal(w) ==
    LET v == Victim(w) IN
    /\ pc[w] = "batch"
    /\ \/ /\ left[w] > 0 /\ q[v] # <<>>
          /\ loot' = [loot EXCEPT ![w] = Head(q[v])]
          /\ q' = [q EXCEPT ![v] = Tail(@)]
          /\ left' = [left EXCEPT ![w] = @ - 1]
          /\ Goto(w, "batch_push")
          /\ UNCHANGED <<tries, start, k>>
       \/ /\ left' = [left EXCEPT ![w] = 0]
          /\ tries' = [tries EXCEPT ![w] = 0]
          /\ start' = [start EXCEPT ![w] = 0]
          /\ k' = [k EXCEPT ![w] = 0]
          /\ Goto(w, "exec")
          /\ UNCHANGED <<q, loot>>
    /\ UNCHANGED <<task, counter, sleep_guard, stop, main, submitted, finished>>

BatchTaskAgain(w) == task[w]      \* mutant: the task in hand, not the stolen one
BatchTask(w)      == loot[w]

\* The stolen task goes to the own deque: no lock, no notification.
BatchPush(w) ==
    /\ pc[w] = "batch_push"
    /\ q' = [q EXCEPT ![w] = Append(@, BatchTask(w))]
    /\ loot' = [loot EXCEPT ![w] = NoTask]
    /\ Goto(w, "batch")
    /\ UNCHANGED <<task, round_vars, sleep_guard, stop, main, submitted, finished>>

-----------------------------------------------------------------------------
(* worker_loop: no task, so condition.wait(lock, predicate) *)

\* The mutex is taken, at first and after every wake-up; the predicate starts.
WaitLock(w) ==
    /\ pc[w] = "lock"
    /\ sleep_guard = Nobody
    /\ sleep_guard' = w
    /\ k' = [k EXCEPT ![w] = 0]
    /\ Goto(w, "predicate")
    /\ UNCHANGED <<q, task, loot, counter, tries, start, left, stop, main, submitted, finished>>

\* stop_requested: the worker returns, and the lock with it.
WaitStop(w) ==
    /\ pc[w] = "predicate" /\ k[w] = 0 /\ stop
    /\ sleep_guard' = Nobody
    /\ Goto(w, "exited")
    /\ UNCHANGED <<q, task, loot, round_vars, stop, main, submitted, finished>>

PastLastDeque(i) == i = NumWorkers        \* mutant: one deque too many
LastDeque(i)     == i = NumWorkers - 1

\* One deque looked at, with the mutex held; the last one empty too: wait.
WaitLook(w) ==
    /\ pc[w] = "predicate" /\ (k[w] = 0 => ~stop)
    /\ \/ /\ q[k[w]] # <<>>
          /\ sleep_guard' = Nobody
          /\ k' = [k EXCEPT ![w] = 0]
          /\ Goto(w, "loop")
       \/ /\ q[k[w]] = <<>> /\ ~LastDeque(k[w])
          /\ k' = [k EXCEPT ![w] = @ + 1]
          /\ UNCHANGED <<sleep_guard, pc>>
       \/ /\ q[k[w]] = <<>> /\ LastDeque(k[w])
          /\ sleep_guard' = Nobody
          /\ k' = [k EXCEPT ![w] = 0]
          /\ Goto(w, "wait")
    /\ UNCHANGED <<q, task, loot, counter, tries, start, left, stop, main, submitted, finished>>

\* A condition variable may wake without a notification.
SpuriousWake(w) ==
    /\ pc[w] = "wait"
    /\ Goto(w, "lock")
    /\ UNCHANGED <<q, task, loot, round_vars, sleep_guard, stop, main, submitted, finished>>

-----------------------------------------------------------------------------
(* What a handler does with the pool *)

\* submit: the push is all its critical section does.
SubmitPush(w, t) ==
    /\ pc[w] = "exec"
    /\ sleep_guard = Nobody
    /\ t \in Task \ submitted
    /\ q' = [q EXCEPT ![w] = Append(@, t)]
    /\ submitted' = submitted \cup {t}
    /\ Goto(w, "notify")
    /\ UNCHANGED <<task, loot, round_vars, sleep_guard, stop, main, finished>>

\* condition.notify_one(): one waiting worker, if there is one.
SubmitNotify(w) ==
    /\ pc[w] = "notify"
    /\ \/ \E v \in Worker :
            /\ pc[v] = "wait"
            /\ pc' = [pc EXCEPT ![w] = "exec", ![v] = "lock"]
       \/ /\ \A v \in Worker : pc[v] # "wait"
          /\ Goto(w, "exec")
    /\ UNCHANGED <<q, task, loot, round_vars, sleep_guard, stop, main, submitted, finished>>

HandlerReturn(w) ==
    /\ pc[w] = "exec"
    /\ finished' = finished \cup {task[w]}
    /\ task' = [task EXCEPT ![w] = NoTask]
    /\ Goto(w, "loop")
    /\ UNCHANGED <<q, loot, round_vars, sleep_guard, stop, main, submitted>>

-----------------------------------------------------------------------------
FindTask(w) == \/ PopBack(w) \/ PopNothing(w) \/ TrySteal(w) \/ Probe(w)
               \/ BatchSize(w) \/ BatchSteal(w) \/ BatchPush(w)
Sleep(w) == WaitLock(w) \/ WaitStop(w) \/ WaitLook(w) \/ SpuriousWake(w)
Handle(w) == (\E t \in Task : SubmitPush(w, t)) \/ SubmitNotify(w) \/ HandlerReturn(w)

Start == StartPush \/ \E w \in Worker : StartSpawn(w)
Destroy == DestroyStop \/ DestroyNotifyAll \/ DestroyJoin

Terminated == main = "joined" /\ UNCHANGED pool_vars

PoolNext == \/ Start
            \/ Destroy
            \/ \E w \in Worker : FindTask(w) \/ Sleep(w) \/ Handle(w)
            \/ Terminated

PoolSpec == PoolInit /\ [][PoolNext]_pool_vars

\* The scheduler runs every thread that can move; a thread blocked on the mutex
\* is let in sooner or later; a handler returns.  Nothing is assumed of stealing,
\* which may lose every race, nor of spurious wake-ups.
WorkerFairness(w) ==
    /\ WF_pool_vars(FindTask(w) \/ WaitStop(w) \/ WaitLook(w))
    /\ SF_pool_vars(WaitLock(w))
    /\ WF_pool_vars(SubmitNotify(w) \/ HandlerReturn(w))

PoolFairSpec ==
    /\ PoolSpec
    /\ WF_pool_vars(Start \/ DestroyNotifyAll \/ DestroyJoin)
    /\ \A w \in Worker : WorkerFairness(w)

-----------------------------------------------------------------------------
(* Properties *)

Asleep == {"wait", "exited"}
Stealing == {"probe", "size", "batch", "batch_push"}
Held(w)  == {task[w], loot[w]} \ {NoTask}
Tasks(w) == ToSet(q[w]) \cup Held(w)
Label == {"unborn", "loop", "steal", "probe", "size", "batch", "batch_push",
          "lock", "predicate", "wait", "exited", "exec", "notify"}

PoolTypeOK ==
    /\ q \in [Worker -> Seq(Task)]
    /\ pc \in [Worker -> Label]
    /\ task \in [Worker -> Task \cup {NoTask}]
    /\ loot \in [Worker -> Task \cup {NoTask}]
    /\ counter \in [Worker -> Nat] /\ start \in [Worker -> Nat]
    /\ tries \in [Worker -> Nat]
    /\ k \in [Worker -> Worker]
    /\ left \in [Worker -> Nat]
    /\ sleep_guard \in Worker \cup {Nobody}
    /\ stop \in BOOLEAN
    /\ main \in {"start", "spawn", "running", "notify_all", "join", "joined"}
    /\ submitted \subseteq Task
    /\ finished \subseteq Task

\* No task is lost on its way between the deques and the workers' hands: what
\* was submitted has been handled, is in a deque, or is held by a worker, the
\* task between the steal_front and the push_back of a batch included (lines
\* 57-75).
NoTaskLost == submitted = finished \cup UNION {Tasks(w) : w \in Worker}

\* No task is in two places, so no directory is scanned twice.
NoTaskTwice ==
    /\ \A w \in Worker : /\ IsInjective(q[w])
                         /\ ToSet(q[w]) \cap Held(w) = {}
                         /\ task[w] = loot[w] => task[w] = NoTask
                         /\ finished \cap Tasks(w) = {}
    /\ \A v, w \in Worker : v # w => Tasks(v) \cap Tasks(w) = {}

\* A worker never sleeps on, or exits with, work of its own.  Batch-stolen tasks
\* are pushed without a lock and without a notification (line 71), so this is
\* what makes them safe: whoever holds tasks is awake.
SleepersOweNothing ==
    \A w \in Worker : pc[w] \in Asleep => q[w] = <<>> /\ Held(w) = {}

\* The probes of one try_steal go to every other worker and never to the thief
\* itself, wherever the rotation starts (lines 49-54): a thief that finds nothing
\* has overlooked nobody, and the back of a deque has one user.
RoundReachesAll ==
    \A w \in Worker : pc[w] \in Stealing =>
        {VictimOf(w, start[w], i) : i \in 0 .. NumWorkers - 2} = Worker \ {w}

\* The destructor drains the pool: once every thread is joined, every task ever
\* submitted has been handled, even those submitted after request_stop.
JoinedIsDrained == main = "joined" => finished = submitted

\* Every submitted task is eventually handled, though notify_one may wake a worker
\* that loses every race and batches are moved without a notification.
EveryTaskHandled ==
    \A t \in Task : t \in submitted ~> t \in finished

\* The destructor returns: no worker sleeps through request_stop and notify_all
\* (lines 171-185).
DestructorReturns == stop ~> main = "joined"
=============================================================================
