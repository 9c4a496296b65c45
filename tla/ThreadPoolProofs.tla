---------------------------- MODULE ThreadPoolProofs ----------------------------
(***************************************************************************)
(* Proofs about ThreadPool, for any number of workers, of steal attempts   *)
(* and of tasks.                                                           *)
(***************************************************************************)
EXTENDS ThreadPool, SequenceFacts

-----------------------------------------------------------------------------
(* Stealing stays in range *)

\* The victim of a probe is another worker of the pool: the offsets that try_steal
\* adds to its own id (line 53) are 1 .. N - 1, and so never 0 modulo N.
LEMMA VictimIsOther ==
    ASSUME NEW w \in Worker, NEW s \in Nat, NEW i \in Nat, NumWorkers > 1
    PROVE  VictimOf(w, s, i) \in Worker \ {w}
<1> DEFINE r == (s + i) % (NumWorkers - 1)
           offset == 1 + r
<1>1. NumWorkers \in Nat /\ NumWorkers - 1 \in Nat /\ NumWorkers - 1 > 0
  BY WorkersAssumption
<1>2. r \in 0 .. NumWorkers - 2 /\ offset \in 1 .. NumWorkers - 1
  BY <1>1
<1>3. w + offset \in Nat /\ w \in 0 .. NumWorkers - 1
  BY <1>2, <1>1 DEF Worker
<1>4. VictimOf(w, s, i) = (w + offset) % NumWorkers
  <2> HIDE DEF r
  <2>1. w + 1 + r = w + (1 + r)
    BY <1>1, <1>2, <1>3
  <2> QED BY <2>1 DEF VictimOf, r
<1>5. CASE w + offset < NumWorkers
  <2>1. (w + offset) % NumWorkers = w + offset
    BY <1>5, <1>3, <1>1
  <2> QED BY <2>1, <1>2, <1>3, <1>4, <1>5, <1>1 DEF Worker
<1>6. CASE w + offset >= NumWorkers
  <2>1. (w + offset) % NumWorkers = w + offset - NumWorkers
    BY <1>6, <1>3, <1>2, <1>1
  <2> QED BY <2>1, <1>2, <1>3, <1>4, <1>6, <1>1 DEF Worker
<1> QED BY <1>5, <1>6, <1>3, <1>1

\* From any start of the rotation every remainder comes up among the first m.
LEMMA RotationComplete ==
    ASSUME NEW m \in Nat \ {0}, NEW s \in Nat, NEW r \in 0 .. m - 1
    PROVE  \E i \in 0 .. m - 1 : (s + i) % m = r
<1>1. PICK d \in Nat, z \in 0 .. m - 1 : s = d * m + z
  <2>1. s \div m \in Nat /\ s % m \in 0 .. m - 1 /\ s = (s \div m) * m + (s % m)
    OBVIOUS
  <2> QED BY <2>1
<1>2. CASE z <= r
  <2>1. r - z \in 0 .. m - 1 /\ s + (r - z) = d * m + r
    BY <1>1, <1>2
  <2>2. PICK a : a = s + (r - z)
    OBVIOUS
  <2>3. a = d * m + r
    BY <2>1, <2>2
  <2>4. a % m = r
    BY <2>3, Division
  <2> QED BY <2>1, <2>2, <2>4
<1>3. CASE r < z
  <2>1. PICK x \in Nat : x = d * m
    OBVIOUS
  <2>2. r - z + m \in 0 .. m - 1 /\ s + (r - z + m) = x + m + r
    BY <1>1, <1>3, <2>1
  <2>3. (d + 1) * m = x + m
    BY <2>1
  <2>4. PICK a, e : a = s + (r - z + m) /\ e = d + 1
    OBVIOUS
  <2>5. e \in Nat /\ a = e * m + r
    BY <2>1, <2>2, <2>3, <2>4
  <2>6. a % m = r
    BY <2>5, Division
  <2> QED BY <2>2, <2>4, <2>6
<1> QED BY <1>1, <1>2, <1>3

\* Every other worker is the victim of one of the N - 1 probes of a round.
LEMMA EveryOtherIsVictim ==
    ASSUME NEW w \in Worker, NEW v \in Worker \ {w}, NEW s \in Nat
    PROVE  \E i \in 0 .. NumWorkers - 2 : VictimOf(w, s, i) = v
<1>1. /\ NumWorkers \in Nat \ {0} /\ w \in Nat /\ w < NumWorkers
      /\ v \in Nat /\ v < NumWorkers /\ v # w
  BY WorkersAssumption DEF Worker
<1>2. PICK m : m = NumWorkers - 1
  OBVIOUS
<1>3. m \in Nat \ {0} /\ 0 .. m - 1 = 0 .. NumWorkers - 2
  BY <1>1, <1>2
<1>4. PICK r \in 0 .. m - 1 : w + 1 + r = v \/ w + 1 + r = v + NumWorkers
  <2>1. CASE w < v
    <3>1. v - w - 1 \in 0 .. m - 1 /\ w + 1 + (v - w - 1) = v
      BY <1>1, <1>2, <2>1
    <3> QED BY <3>1
  <2>2. CASE v < w
    <3>1. v + NumWorkers - w - 1 \in 0 .. m - 1
          /\ w + 1 + (v + NumWorkers - w - 1) = v + NumWorkers
      BY <1>1, <1>2, <2>2
    <3> QED BY <3>1
  <2> QED BY <1>1, <2>1, <2>2
<1>5. PICK i \in 0 .. m - 1 : (s + i) % m = r
  BY <1>3, RotationComplete
<1>6. PICK x : x = w + 1 + r
  OBVIOUS
<1>7. x % NumWorkers = v
  <2>1. PICK e \in {0, 1} : x = e * NumWorkers + v
    BY <1>1, <1>4, <1>6
  <2>2. e \in Nat /\ v \in 0 .. NumWorkers - 1
    BY <1>1
  <2> QED BY <1>1, <2>1, <2>2, Division
<1>8. VictimOf(w, s, i) = (w + 1 + r) % NumWorkers
  BY <1>2, <1>5 DEF VictimOf
<1> QED BY <1>3, <1>6, <1>7, <1>8

-----------------------------------------------------------------------------
(* Type correctness *)

\* The deque after one that is not the last, and the victim after one that is not
\* the last, are of the pool: what the loops of worker_loop and try_steal step to.
LEMMA NextWorker ==
    ASSUME NEW i \in Worker
    PROVE  (i # NumWorkers - 1 => i + 1 \in Worker) /\ (i < NumWorkers - 2 => i + 1 \in Worker)
BY WorkersAssumption DEF Worker

\* Where a worker is in its loop, and what it then holds.
Handling == {"size", "batch", "batch_push", "exec", "notify"}
Drained  == {"steal", "probe", "lock", "predicate", "wait", "exited"}

\* The strengthening that makes the invariants inductive: a lone worker never
\* reaches the loop over its victims (line 44); task_id and t hold a task exactly
\* where the code uses them; and from the failed pop_back until the next one the
\* own deque stays empty, because nobody else may push to it.
ControlOf(w) ==
    /\ pc[w] \in Stealing => NumWorkers > 1
    /\ task[w] # NoTask <=> pc[w] \in Handling
    /\ loot[w] # NoTask <=> pc[w] = "batch_push"
    /\ pc[w] \in Drained => q[w] = <<>>
    /\ main = "start" => pc[w] = "unborn"
    /\ main = "joined" => pc[w] = "exited"
Control == /\ main = "start" => submitted = {}
           /\ \A w \in Worker : ControlOf(w)

\* The thief is never the owner: the deque's front and back are used by different
\* threads (line 54), and the victim is a worker of the pool.
NoSelfSteal ==
    \A w \in Worker : pc[w] \in Stealing => Victim(w) \in Worker \ {w}

\* Where the control of a worker is in try_steal, its victim is another worker
\* (the offset is between 1 and N - 1, lines 53-54).
LEMMA StealFromOther ==
    PoolTypeOK /\ Control => NoSelfSteal
<1> SUFFICES ASSUME PoolTypeOK, Control, NEW w \in Worker, pc[w] \in Stealing
             PROVE  Victim(w) \in Worker \ {w}
  BY DEF NoSelfSteal
<1>1. NumWorkers > 1
  BY DEF Control, ControlOf
<1>2. start[w] \in Nat /\ k[w] \in Nat
  BY WorkersAssumption DEF PoolTypeOK, Worker
<1> QED BY <1>1, <1>2, VictimIsOther DEF Victim

\* Every variable keeps its type through every step of the pool.
LEMMA TypeStep == PoolTypeOK /\ Control /\ [PoolNext]_pool_vars => PoolTypeOK'
<1> SUFFICES ASSUME PoolTypeOK, Control, [PoolNext]_pool_vars
             PROVE  PoolTypeOK'
  OBVIOUS
<1>0. \A w \in Worker : pc[w] \in Stealing => NumWorkers > 1 /\ Victim(w) \in Worker
  BY StealFromOther DEF Control, ControlOf, NoSelfSteal
<1> USE WorkersAssumption, AttemptsAssumption, TaskAssumption DEF PoolTypeOK, Label, Goto, round_vars
<1>z. 0 \in Worker
  BY DEF Worker
<1>1. CASE StartPush
  <2>1. Append(q[0], Root) \in Seq(Task)
    BY <1>z, LastAdded
  <2> QED BY <1>z, <2>1, <1>1 DEF StartPush
<1>2. ASSUME NEW w \in Worker, StartSpawn(w) PROVE PoolTypeOK'
  BY <1>2 DEF StartSpawn
<1>3. CASE DestroyStop
  BY <1>3 DEF DestroyStop
<1>4. CASE DestroyNotifyAll
  BY <1>4 DEF DestroyNotifyAll
<1>5. CASE DestroyJoin
  BY <1>5 DEF DestroyJoin
<1>6. ASSUME NEW w \in Worker, PopBack(w) PROVE PoolTypeOK'
  <2>1. q[w][Len(q[w])] \in Task /\ Popped(q[w]) \in Seq(Task)
    BY <1>6, LastTaken DEF PopBack, Popped, Shorter
  <2> QED BY <2>1, <1>6 DEF PopBack
<1>7. ASSUME NEW w \in Worker, PopNothing(w) PROVE PoolTypeOK'
  BY <1>7 DEF PopNothing
<1>8. ASSUME NEW w \in Worker, TrySteal(w) PROVE PoolTypeOK'
  <2>1. CASE NumWorkers > 1 /\ tries[w] > 0 /\ pc[w] = "steal"
             /\ tries' = [tries EXCEPT ![w] = @ - 1]
             /\ start' = [start EXCEPT ![w] = counter[w]]
             /\ counter' = [counter EXCEPT ![w] = (@ + 1) % (NumWorkers - 1)]
             /\ k' = [k EXCEPT ![w] = 0] /\ Goto(w, "probe")
    <3>1. (counter[w] + 1) % (NumWorkers - 1) \in Nat
      <4>1. counter[w] + 1 \in Int /\ NumWorkers - 1 \in Nat /\ NumWorkers - 1 > 0
        BY <2>1
      <4> QED BY <4>1
    <3>2. tries[w] - 1 \in Nat
      BY <2>1
    <3> QED BY <3>1, <3>2, <2>1, <1>z, <1>8 DEF TrySteal
  <2>2. CASE tries' = [tries EXCEPT ![w] = 0] /\ start' = [start EXCEPT ![w] = 0]
             /\ Goto(w, "lock") /\ UNCHANGED <<counter, k>>
    BY <2>2, <1>8 DEF TrySteal
  <2> QED BY <2>1, <2>2, <1>8 DEF TrySteal
<1>9. ASSUME NEW w \in Worker, Probe(w) PROVE PoolTypeOK'
  <2> DEFINE v == Victim(w)
  <2>1. v \in Worker
    BY <1>0, <1>9 DEF Probe, Stealing
  <2>2. CASE q[v] # <<>> /\ task' = [task EXCEPT ![w] = Head(q[v])]
             /\ q' = [q EXCEPT ![v] = Tail(@)] /\ Goto(w, "size") /\ UNCHANGED k
    <3>1. Head(q[v]) \in Task /\ Tail(q[v]) \in Seq(Task)
      BY <2>1, <2>2, HeadTaken
    <3> HIDE DEF v
    <3> QED BY <2>1, <3>1, <2>2, <1>9 DEF Probe
  <2>3. CASE k[w] < NumWorkers - 2 /\ k' = [k EXCEPT ![w] = @ + 1] /\ UNCHANGED <<q, pc, task>>
    <3>1. k[w] \in Worker
      OBVIOUS
    <3>2. k[w] + 1 \in Worker
      BY <3>1, <2>3, NextWorker
    <3> QED BY <3>2, <2>3, <1>9 DEF Probe
  <2>4. CASE k' = [k EXCEPT ![w] = 0] /\ Goto(w, "steal") /\ UNCHANGED <<q, task>>
    BY <2>4, <1>z, <1>9 DEF Probe
  <2> QED BY <2>2, <2>3, <2>4, <1>9 DEF Probe
<1>10. ASSUME NEW w \in Worker, BatchSize(w) PROVE PoolTypeOK'
  <2>1. Cardinality(submitted) \in Nat
    BY FS_Subset, FS_CardinalityType
  <2>2. \A n \in 0 .. Cardinality(submitted) : n \div 2 \in Nat
    BY <2>1
  <2> QED BY <2>2, <1>10 DEF BatchSize
<1>11. ASSUME NEW w \in Worker, BatchSteal(w) PROVE PoolTypeOK'
  <2> DEFINE v == Victim(w)
  <2>1. v \in Worker
    BY <1>0, <1>11 DEF BatchSteal, Stealing
  <2>2. CASE left[w] > 0 /\ q[v] # <<>> /\ loot' = [loot EXCEPT ![w] = Head(q[v])]
             /\ q' = [q EXCEPT ![v] = Tail(@)] /\ left' = [left EXCEPT ![w] = @ - 1]
             /\ Goto(w, "batch_push") /\ UNCHANGED <<tries, start, k>>
    <3>1. Head(q[v]) \in Task /\ Tail(q[v]) \in Seq(Task)
      BY <2>1, <2>2, HeadTaken
    <3>2. left[w] - 1 \in Nat
      BY <2>2, SMTT(30)
    <3> HIDE DEF v
    <3> QED BY <2>1, <3>1, <3>2, <2>2, <1>11 DEF BatchSteal
  <2>3. CASE left' = [left EXCEPT ![w] = 0] /\ tries' = [tries EXCEPT ![w] = 0]
             /\ start' = [start EXCEPT ![w] = 0] /\ k' = [k EXCEPT ![w] = 0]
             /\ Goto(w, "exec") /\ UNCHANGED <<q, loot>>
    BY <2>3, <1>z, <1>11 DEF BatchSteal
  <2> QED BY <2>2, <2>3, <1>11 DEF BatchSteal
<1>12. ASSUME NEW w \in Worker, BatchPush(w) PROVE PoolTypeOK'
  <2>1. loot[w] \in Task
    BY <1>12 DEF BatchPush, Control, ControlOf
  <2>2. Append(q[w], BatchTask(w)) \in Seq(Task)
    BY <2>1, LastAdded DEF BatchTask
  <2> QED BY <2>2, <1>12 DEF BatchPush
<1>13. ASSUME NEW w \in Worker, WaitLock(w) PROVE PoolTypeOK'
  BY <1>z, <1>13 DEF WaitLock
<1>14. ASSUME NEW w \in Worker, WaitStop(w) PROVE PoolTypeOK'
  BY <1>14 DEF WaitStop
<1>15. ASSUME NEW w \in Worker, WaitLook(w) PROVE PoolTypeOK'
  <2>1. k[w] # NumWorkers - 1 => k[w] + 1 \in Worker
    BY NextWorker
  <2>2. ASSUME NEW label \in {"loop", "wait"}, sleep_guard' = Nobody,
               k' = [k EXCEPT ![w] = 0], Goto(w, label)
        PROVE  PoolTypeOK'
    BY <2>2, <1>z, <1>15 DEF WaitLook
  <2>3. CASE ~LastDeque(k[w]) /\ k' = [k EXCEPT ![w] = @ + 1] /\ UNCHANGED <<sleep_guard, pc>>
    BY <2>1, <2>3, <1>15 DEF WaitLook, LastDeque
  <2> QED BY <2>2, <2>3, <1>15 DEF WaitLook
<1>16. ASSUME NEW w \in Worker, SpuriousWake(w) PROVE PoolTypeOK'
  BY <1>16 DEF SpuriousWake
<1>17. ASSUME NEW w \in Worker, NEW t \in Task, SubmitPush(w, t) PROVE PoolTypeOK'
  <2>1. Append(q[w], t) \in Seq(Task)
    BY LastAdded
  <2> QED BY <2>1, <1>17 DEF SubmitPush
<1>18. ASSUME NEW w \in Worker, SubmitNotify(w) PROVE PoolTypeOK'
  BY <1>18 DEF SubmitNotify
<1>19. ASSUME NEW w \in Worker, HandlerReturn(w) PROVE PoolTypeOK'
  <2>1. task[w] \in Task
    BY <1>19 DEF HandlerReturn, Control, ControlOf, Handling
  <2> QED BY <2>1, <1>19 DEF HandlerReturn
<1>20. CASE Terminated \/ UNCHANGED pool_vars
  BY <1>20 DEF Terminated, pool_vars
<1> QED
  BY <1>1, <1>2, <1>3, <1>4, <1>5, <1>6, <1>7, <1>8, <1>9, <1>10, <1>11, <1>12, <1>13,
     <1>14, <1>15, <1>16, <1>17, <1>18, <1>19, <1>20
     DEF PoolNext, Start, Destroy, FindTask, Sleep, Handle

-----------------------------------------------------------------------------
(* Control *)

\* No step breaks the facts that tie a worker's locals to where it is.
LEMMA ControlStep == PoolTypeOK /\ Control /\ [PoolNext]_pool_vars => Control'
<1>s. PoolTypeOK /\ Control /\ [PoolNext]_pool_vars => (main = "start" => submitted = {})'
  <2> SUFFICES ASSUME Control, [PoolNext]_pool_vars, main' = "start" PROVE submitted' = {}
    OBVIOUS
  <2>1. ~Start /\ ~Destroy
    BY DEF Start, Destroy, StartPush, StartSpawn, DestroyStop, DestroyNotifyAll, DestroyJoin
  <2>2. ASSUME NEW w \in Worker, Handle(w) PROVE FALSE
    BY <2>2 DEF Handle, SubmitPush, SubmitNotify, HandlerReturn, Control, ControlOf
  <2>3. ASSUME NEW w \in Worker, FindTask(w) PROVE main = "start" /\ submitted' = submitted
    BY <2>3 DEF FindTask, PopBack, PopNothing, TrySteal, Probe, BatchSize, BatchSteal, BatchPush
  <2>4. ASSUME NEW w \in Worker, Sleep(w) PROVE main = "start" /\ submitted' = submitted
    BY <2>4 DEF Sleep, WaitLock, WaitStop, WaitLook, SpuriousWake
  <2>5. ASSUME Terminated \/ UNCHANGED pool_vars PROVE main = "start" /\ submitted' = submitted
    BY <2>5 DEF Terminated, pool_vars
  <2> QED BY <2>1, <2>2, <2>3, <2>4, <2>5 DEF PoolNext, Control
<1> SUFFICES ASSUME PoolTypeOK, Control, [PoolNext]_pool_vars, NEW u \in Worker
             PROVE  ControlOf(u)'
  BY <1>s DEF Control
<1>0. \A w \in Worker : ControlOf(w)
  BY DEF Control
<1>t. /\ q \in [Worker -> Seq(Task)] /\ task \in [Worker -> Task \cup {NoTask}]
      /\ loot \in [Worker -> Task \cup {NoTask}] /\ pc \in [Worker -> Label]
  BY DEF PoolTypeOK
<1>n. NoTask \notin Task
  BY TaskAssumption
<1> HIDE DEF PoolTypeOK
<1> USE DEF ControlOf, Goto, Handling, Drained, Stealing
<1>1. CASE StartPush
  BY <1>0, <1>t, <1>1 DEF StartPush
<1>2. ASSUME NEW w \in Worker, StartSpawn(w) PROVE ControlOf(u)'
  BY <1>0, <1>t, <1>2 DEF StartSpawn
<1>3. CASE DestroyStop
  BY <1>0, <1>t, <1>3 DEF DestroyStop
<1>4. CASE DestroyNotifyAll
  BY <1>0, <1>t, <1>4 DEF DestroyNotifyAll
<1>5. CASE DestroyJoin
  BY <1>0, <1>t, <1>5 DEF DestroyJoin
<1>6. ASSUME NEW w \in Worker, PopBack(w) PROVE ControlOf(u)'
  <2>1. q[w][Len(q[w])] \in Task
    BY <1>t, <1>6, LastTaken DEF PopBack, Popped, Shorter
  <2> QED BY <1>0, <1>t, <1>n, <2>1, <1>6 DEF PopBack
<1>7. ASSUME NEW w \in Worker, PopNothing(w) PROVE ControlOf(u)'
  BY <1>0, <1>t, <1>7 DEF PopNothing
<1>8. ASSUME NEW w \in Worker, TrySteal(w) PROVE ControlOf(u)'
  BY <1>0, <1>t, <1>8 DEF TrySteal
<1>9. ASSUME NEW w \in Worker, Probe(w) PROVE ControlOf(u)'
  <2>1. Victim(w) \in Worker \ {w}
    BY StealFromOther, <1>9 DEF NoSelfSteal, Probe
  <2>2. q[Victim(w)] # <<>> => Head(q[Victim(w)]) \in Task
    BY <2>1, <1>t, HeadTaken
  <2> QED BY <1>0, <1>t, <1>n, <2>1, <2>2, <1>9 DEF Probe
<1>10. ASSUME NEW w \in Worker, BatchSize(w) PROVE ControlOf(u)'
  BY <1>0, <1>t, <1>10 DEF BatchSize
<1>11. ASSUME NEW w \in Worker, BatchSteal(w) PROVE ControlOf(u)'
  <2>1. Victim(w) \in Worker \ {w}
    BY StealFromOther, <1>11 DEF NoSelfSteal, BatchSteal
  <2>2. q[Victim(w)] # <<>> => Head(q[Victim(w)]) \in Task
    BY <2>1, <1>t, HeadTaken
  <2> QED BY <1>0, <1>t, <1>n, <2>1, <2>2, <1>11 DEF BatchSteal
<1>12. ASSUME NEW w \in Worker, BatchPush(w) PROVE ControlOf(u)'
  BY <1>0, <1>t, <1>12 DEF BatchPush
<1>13. ASSUME NEW w \in Worker, WaitLock(w) PROVE ControlOf(u)'
  BY <1>0, <1>t, <1>13 DEF WaitLock
<1>14. ASSUME NEW w \in Worker, WaitStop(w) PROVE ControlOf(u)'
  BY <1>0, <1>t, <1>14 DEF WaitStop
<1>15. ASSUME NEW w \in Worker, WaitLook(w) PROVE ControlOf(u)'
  BY <1>0, <1>t, <1>15 DEF WaitLook
<1>16. ASSUME NEW w \in Worker, SpuriousWake(w) PROVE ControlOf(u)'
  BY <1>0, <1>t, <1>16 DEF SpuriousWake
<1>17. ASSUME NEW w \in Worker, NEW t \in Task, SubmitPush(w, t) PROVE ControlOf(u)'
  BY <1>0, <1>t, <1>17 DEF SubmitPush
<1>18. ASSUME NEW w \in Worker, SubmitNotify(w) PROVE ControlOf(u)'
  BY <1>0, <1>t, <1>18 DEF SubmitNotify
<1>19. ASSUME NEW w \in Worker, HandlerReturn(w) PROVE ControlOf(u)'
  BY <1>0, <1>t, <1>19 DEF HandlerReturn
<1>20. CASE Terminated \/ UNCHANGED pool_vars
  BY <1>0, <1>20 DEF Terminated, pool_vars
<1> QED
  BY <1>1, <1>2, <1>3, <1>4, <1>5, <1>6, <1>7, <1>8, <1>9, <1>10, <1>11, <1>12, <1>13,
     <1>14, <1>15, <1>16, <1>17, <1>18, <1>19, <1>20
     DEF PoolNext, Start, Destroy, FindTask, Sleep, Handle

-----------------------------------------------------------------------------
(* Every task in exactly one place *)

\* What holds of one worker alone.
Inside(w) == /\ IsInjective(q[w])
             /\ ToSet(q[w]) \cap Held(w) = {}
             /\ task[w] = loot[w] => task[w] = NoTask

\* What holds between the workers.
Covered == \A x : x \in submitted <=> x \in finished \/ \E w \in Worker : x \in Tasks(w)
Disjoint == /\ \A w \in Worker : finished \cap Tasks(w) = {}
            /\ \A v, w \in Worker : v # w => Tasks(v) \cap Tasks(w) = {}
Apart == Covered /\ Disjoint

Places == Apart /\ \A w \in Worker : Inside(w)

\* The invariant about places is the two properties about tasks, and more.
LEMMA PlacesImply == Places => NoTaskLost /\ NoTaskTwice
BY DEF Places, Apart, Covered, Disjoint, Inside, NoTaskLost, NoTaskTwice

\* A worker's tasks depend on its deque and its two hands.
LEMMA SameInside ==
    ASSUME NEW u \in Worker, Inside(u),
           q'[u] = q[u], task'[u] = task[u], loot'[u] = loot[u]
    PROVE  Inside(u)' /\ Tasks(u)' = Tasks(u)
BY DEF Inside, Tasks, Held

\* Nothing moves between the workers.
LEMMA ApartKept ==
    ASSUME Apart, \A u \in Worker : Tasks(u)' = Tasks(u), UNCHANGED <<submitted, finished>>
    PROVE  Apart'
BY DEF Apart, Covered, Disjoint

\* One task moves from v to w.
LEMMA ApartMoved ==
    ASSUME Apart, NEW v \in Worker, NEW w \in Worker \ {v}, NEW x \in Tasks(v),
           Tasks(v)' = Tasks(v) \ {x}, Tasks(w)' = Tasks(w) \cup {x},
           \A u \in Worker \ {v, w} : Tasks(u)' = Tasks(u),
           UNCHANGED <<submitted, finished>>
    PROVE  Apart'
<1>1. Covered'
  BY DEF Apart, Covered
<1>2. Disjoint'
  BY DEF Apart, Disjoint
<1> QED BY <1>1, <1>2 DEF Apart

\* A task nobody has seen is given to w.
LEMMA ApartAdded ==
    ASSUME Apart, NEW w \in Worker, NEW x, x \notin submitted,
           Tasks(w)' = Tasks(w) \cup {x},
           \A u \in Worker \ {w} : Tasks(u)' = Tasks(u),
           submitted' = submitted \cup {x}, UNCHANGED finished
    PROVE  Apart'
<1>1. x \notin finished /\ \A u \in Worker : x \notin Tasks(u)
  BY DEF Apart, Covered
<1>2. Covered'
  BY DEF Apart, Covered
<1>3. Disjoint'
  BY <1>1 DEF Apart, Disjoint
<1> QED BY <1>2, <1>3 DEF Apart

\* w has handled a task.
LEMMA ApartFinished ==
    ASSUME Apart, NEW w \in Worker, NEW x \in Tasks(w),
           Tasks(w)' = Tasks(w) \ {x},
           \A u \in Worker \ {w} : Tasks(u)' = Tasks(u),
           finished' = finished \cup {x}, UNCHANGED submitted
    PROVE  Apart'
<1>1. Covered'
  BY DEF Apart, Covered
<1>2. Disjoint'
  BY DEF Apart, Disjoint
<1> QED BY <1>1, <1>2 DEF Apart

\* No step loses a task or copies one.
LEMMA PlacesStep ==
    PoolTypeOK /\ Control /\ Places /\ [PoolNext]_pool_vars => Places'
<1> SUFFICES ASSUME PoolTypeOK, Control, Apart, \A u \in Worker : Inside(u),
                    [PoolNext]_pool_vars
             PROVE  Apart' /\ \A u \in Worker : Inside(u)'
  BY DEF Places
<1> DEFINE Goal == Apart' /\ \A u \in Worker : Inside(u)'
<1>0. \A w \in Worker : ControlOf(w)
  BY DEF Control
<1>t. /\ q \in [Worker -> Seq(Task)] /\ task \in [Worker -> Task \cup {NoTask}]
      /\ loot \in [Worker -> Task \cup {NoTask}] /\ pc \in [Worker -> Label]
  BY DEF PoolTypeOK
<1>n. NoTask \notin Task /\ Root \in Task /\ 0 \in Worker
  BY TaskAssumption, WorkersAssumption DEF Worker
<1>i. \A w \in Worker : NoTask \notin ToSet(q[w])
  <2>1. \A w \in Worker : q[w] \in Seq(Task)
    BY <1>t
  <2> QED BY <2>1, <1>n, LenProperties, ElementOfSeq DEF ToSet
<1>k. ASSUME UNCHANGED <<q, task, loot, submitted, finished>> PROVE Goal
  <2>1. \A u \in Worker : Inside(u)' /\ Tasks(u)' = Tasks(u)
    BY <1>k, SameInside
  <2> QED BY <2>1, <1>k, ApartKept
<1>added.
  ASSUME NEW w \in Worker, NEW t \in Task, t \notin submitted,
         q' = [q EXCEPT ![w] = Append(q[w], t)], submitted' = submitted \cup {t},
         UNCHANGED <<task, loot, finished>>
  PROVE  Goal
  <2>1. t \notin Tasks(w)
    BY <1>added DEF Apart, Covered
  <2>2. /\ ToSet(Append(q[w], t)) = ToSet(q[w]) \cup {t}
        /\ IsInjective(Append(q[w], t))
    BY <1>t, <2>1, LastAdded DEF Inside, Tasks
  <2>3. q'[w] = Append(q[w], t) /\ \A u \in Worker \ {w} : q'[u] = q[u]
    BY <1>t, <1>added
  <2>4. Inside(w)' /\ Tasks(w)' = Tasks(w) \cup {t}
    BY <2>1, <2>2, <2>3, <1>added DEF Inside, Tasks, Held
  <2>5. \A u \in Worker \ {w} : Inside(u)' /\ Tasks(u)' = Tasks(u)
    BY <2>3, <1>added, SameInside
  <2>6. Apart'
    BY <2>4, <2>5, <1>added, ApartAdded
  <2> QED BY <2>4, <2>5, <2>6
<1>moved.
  ASSUME NEW w \in Worker, NEW v \in Worker \ {w}, q[v] # <<>>,
         q' = [q EXCEPT ![v] = Tail(q[v])], UNCHANGED <<submitted, finished>>,
         \/ /\ task[w] = NoTask /\ loot[w] = NoTask
            /\ task' = [task EXCEPT ![w] = Head(q[v])] /\ UNCHANGED loot
         \/ /\ loot[w] = NoTask
            /\ loot' = [loot EXCEPT ![w] = Head(q[v])] /\ UNCHANGED task
  PROVE  Goal
  <2> DEFINE x == Head(q[v])
  <2>1. /\ x \in Task /\ x \in ToSet(q[v]) /\ ToSet(q[v]) = ToSet(Tail(q[v])) \cup {x}
        /\ IsInjective(Tail(q[v])) /\ x \notin ToSet(Tail(q[v]))
    BY <1>t, <1>moved, HeadTaken DEF Inside
  <2> HIDE DEF x
  <2>2. x \in Tasks(v) /\ x \notin Tasks(w) /\ x \notin Held(v)
    BY <2>1 DEF Tasks, Apart, Disjoint, Inside
  <2>3. q'[v] = Tail(q[v]) /\ (\A u \in Worker \ {v} : q'[u] = q[u])
    BY <1>t, <1>moved
  <2>4. \A u \in Worker \ {w} : task'[u] = task[u] /\ loot'[u] = loot[u]
    BY <1>t, <1>moved
  <2>5. \/ task[w] = NoTask /\ loot[w] = NoTask /\ task'[w] = x /\ loot'[w] = NoTask
        \/ loot[w] = NoTask /\ loot'[w] = x /\ task'[w] = task[w]
    BY <1>t, <1>moved DEF x
  <2>6. Held(w)' = Held(w) \cup {x} /\ q'[w] = q[w] /\ Held(v)' = Held(v)
    BY <2>1, <2>3, <2>4, <2>5, <1>n DEF Held
  <2>7. Tasks(v)' = Tasks(v) \ {x} /\ Inside(v)'
    BY <2>1, <2>2, <2>3, <2>4, <2>6 DEF Tasks, Inside
  <2>8. Tasks(w)' = Tasks(w) \cup {x} /\ Inside(w)'
    BY <2>1, <2>2, <2>5, <2>6, <1>n DEF Tasks, Inside, Held
  <2>9. \A u \in Worker \ {v, w} : Inside(u)' /\ Tasks(u)' = Tasks(u)
    BY <2>3, <2>4, SameInside
  <2>10. Apart'
    BY <2>2, <2>7, <2>8, <2>9, <1>moved, ApartMoved
  <2> QED BY <2>7, <2>8, <2>9, <2>10
<1> HIDE DEF Goal
<1> USE DEF ControlOf, Handling, Goto
<1>1. CASE StartPush
  <2>1. /\ q' = [q EXCEPT ![0] = Append(q[0], Root)] /\ UNCHANGED <<task, loot, finished>>
        /\ submitted' = submitted \cup {Root}
    BY <1>1 DEF StartPush
  <2>2. Root \notin submitted
    BY <1>1 DEF StartPush, Control
  <2> QED BY <2>1, <2>2, <1>added, <1>n DEF Goal
<1>2. ASSUME NEW w \in Worker, PopBack(w) PROVE Goal
  <2> DEFINE x == q[w][Len(q[w])]
  <2>1. q[w] \in Seq(Task) /\ q[w] # <<>> /\ task[w] = NoTask /\ loot[w] = NoTask
    BY <1>0, <1>t, <1>2 DEF PopBack
  <2>2. /\ x \in Task /\ Popped(q[w]) \in Seq(Task)
        /\ ToSet(q[w]) = ToSet(Popped(q[w])) \cup {x}
        /\ IsInjective(Popped(q[w])) /\ x \notin ToSet(Popped(q[w]))
    BY <2>1, LastTaken DEF Inside, Popped, Shorter
  <2> HIDE DEF x
  <2>3. q'[w] = Popped(q[w]) /\ task'[w] = x /\ loot'[w] = NoTask
    BY <1>t, <1>2, <2>1 DEF PopBack, x
  <2>4. Inside(w)' /\ Tasks(w)' = Tasks(w)
    BY <2>1, <2>2, <2>3, <1>n DEF Inside, Tasks, Held
  <2>5. \A u \in Worker \ {w} : q'[u] = q[u] /\ task'[u] = task[u] /\ loot'[u] = loot[u]
    BY <1>t, <1>2 DEF PopBack
  <2>6. \A u \in Worker : Inside(u)' /\ Tasks(u)' = Tasks(u)
    BY <2>4, <2>5, SameInside
  <2>7. UNCHANGED <<submitted, finished>>
    BY <1>2 DEF PopBack
  <2> QED BY <2>6, <2>7, ApartKept DEF Goal
<1>3. ASSUME NEW w \in Worker, Probe(w) PROVE Goal
  <2>1. Victim(w) \in Worker \ {w}
    BY StealFromOther, <1>3 DEF NoSelfSteal, Probe, Stealing
  <2>2. task[w] = NoTask /\ loot[w] = NoTask
    BY <1>0, <1>3 DEF Probe
  <2>3. CASE UNCHANGED <<q, task>>
    BY <2>3, <1>3, <1>k DEF Probe
  <2>4. CASE q[Victim(w)] # <<>> /\ task' = [task EXCEPT ![w] = Head(q[Victim(w)])]
             /\ q' = [q EXCEPT ![Victim(w)] = Tail(@)]
    <3>1. UNCHANGED <<loot, submitted, finished>>
      BY <1>3 DEF Probe
    <3> QED BY <2>1, <2>2, <2>4, <3>1, <1>moved
  <2> QED BY <2>3, <2>4, <1>3 DEF Probe
<1>4. ASSUME NEW w \in Worker, BatchSteal(w) PROVE Goal
  <2>1. Victim(w) \in Worker \ {w}
    BY StealFromOther, <1>4 DEF NoSelfSteal, BatchSteal, Stealing
  <2>2. loot[w] = NoTask
    BY <1>0, <1>4 DEF BatchSteal
  <2>3. CASE UNCHANGED <<q, loot>>
    BY <2>3, <1>4, <1>k DEF BatchSteal
  <2>4. CASE q[Victim(w)] # <<>> /\ loot' = [loot EXCEPT ![w] = Head(q[Victim(w)])]
             /\ q' = [q EXCEPT ![Victim(w)] = Tail(@)]
    <3>1. UNCHANGED <<task, submitted, finished>>
      BY <1>4 DEF BatchSteal
    <3> QED BY <2>1, <2>2, <2>4, <3>1, <1>moved
  <2> QED BY <2>3, <2>4, <1>4 DEF BatchSteal
<1>5. ASSUME NEW w \in Worker, BatchPush(w) PROVE Goal
  <2> DEFINE x == loot[w]
  <2>1. x \in Task /\ q[w] \in Seq(Task)
    BY <1>0, <1>t, <1>5 DEF BatchPush
  <2>2. x \notin ToSet(q[w]) /\ x # task[w]
    BY <2>1, <1>n DEF Inside, Held
  <2>3. ToSet(Append(q[w], x)) = ToSet(q[w]) \cup {x} /\ IsInjective(Append(q[w], x))
    BY <2>1, <2>2, LastAdded DEF Inside
  <2>4. /\ q'[w] = Append(q[w], x) /\ task'[w] = task[w] /\ loot'[w] = NoTask
        /\ \A u \in Worker \ {w} : q'[u] = q[u] /\ task'[u] = task[u] /\ loot'[u] = loot[u]
    BY <1>t, <1>5 DEF BatchPush, BatchTask
  <2>5. Inside(w)' /\ Tasks(w)' = Tasks(w)
    BY <2>1, <2>2, <2>3, <2>4, <1>n DEF Inside, Tasks, Held
  <2>6. \A u \in Worker : Inside(u)' /\ Tasks(u)' = Tasks(u)
    BY <2>4, <2>5, SameInside
  <2>7. UNCHANGED <<submitted, finished>>
    BY <1>5 DEF BatchPush
  <2> QED BY <2>6, <2>7, ApartKept DEF Goal
<1>6. ASSUME NEW w \in Worker, NEW t \in Task, SubmitPush(w, t) PROVE Goal
  BY <1>6, <1>added DEF SubmitPush
<1>7. ASSUME NEW w \in Worker, HandlerReturn(w) PROVE Goal
  <2> DEFINE x == task[w]
  <2>1. x \in Task /\ loot[w] = NoTask /\ x \in Tasks(w)
    BY <1>0, <1>t, <1>7 DEF HandlerReturn, Tasks, Held
  <2>2. /\ q' = q /\ task'[w] = NoTask /\ loot' = loot
        /\ \A u \in Worker \ {w} : task'[u] = task[u]
    BY <1>t, <1>7 DEF HandlerReturn
  <2>3. Inside(w)' /\ Tasks(w)' = Tasks(w) \ {x}
    BY <2>1, <2>2, <1>n DEF Inside, Tasks, Held
  <2>4. \A u \in Worker \ {w} : Inside(u)' /\ Tasks(u)' = Tasks(u)
    BY <2>2, SameInside
  <2>5. finished' = finished \cup {x} /\ UNCHANGED submitted
    BY <1>7 DEF HandlerReturn
  <2>6. Apart'
    BY <2>1, <2>3, <2>4, <2>5, ApartFinished
  <2> QED BY <2>3, <2>4, <2>6 DEF Goal
<1>8. ASSUME NEW w \in Worker,
             StartSpawn(w) \/ PopNothing(w) \/ TrySteal(w) \/ BatchSize(w) \/ Sleep(w)
                \/ SubmitNotify(w)
      PROVE  Goal
  BY <1>8, <1>k DEF StartSpawn, PopNothing, TrySteal, BatchSize, Sleep, WaitLock, WaitStop,
     WaitLook, SpuriousWake, SubmitNotify
<1>9. CASE Destroy \/ Terminated \/ UNCHANGED pool_vars
  <2>1. Destroy => UNCHANGED <<q, task, loot, submitted, finished>>
    BY DEF Destroy, DestroyStop, DestroyNotifyAll, DestroyJoin
  <2>2. Terminated \/ UNCHANGED pool_vars => UNCHANGED <<q, task, loot, submitted, finished>>
    BY DEF Terminated, pool_vars
  <2> QED BY <2>1, <2>2, <1>9, <1>k DEF Goal
<1> QED
  BY <1>1, <1>2, <1>3, <1>4, <1>5, <1>6, <1>7, <1>8, <1>9
     DEF PoolNext, Start, FindTask, Handle, Goal

-----------------------------------------------------------------------------
(* The theorems *)

\* The inductive invariant.
IInv == PoolTypeOK /\ Control /\ Places

\* The pool that is built (lines 136-143) satisfies the inductive invariant.
LEMMA InitIInv == PoolInit => IInv
<1> SUFFICES ASSUME PoolInit PROVE IInv
  OBVIOUS
<1> USE DEF PoolInit
<1>1. 0 \in Worker /\ 0 \in Nat
  BY WorkersAssumption DEF Worker
<1>2. PoolTypeOK
  BY <1>1, EmptySeq DEF PoolTypeOK, Label
<1>3. Control
  BY DEF Control, ControlOf, Stealing, Handling, Drained
<1>4. \A w \in Worker : Inside(w) /\ Tasks(w) = {}
  <2>1. ToSet(<<>>) = {} /\ IsInjective(<<>>)
    BY EmptySeq, LenProperties DEF ToSet, IsInjective
  <2> QED BY <2>1 DEF Inside, Tasks, Held
<1>5. Apart
  BY <1>4 DEF Apart, Covered, Disjoint
<1> QED BY <1>2, <1>3, <1>4, <1>5 DEF IInv, Places

\* Every step of the pool keeps it.
LEMMA NextIInv == IInv /\ [PoolNext]_pool_vars => IInv'
BY TypeStep, ControlStep, PlacesStep DEF IInv

\* So it always holds.
LEMMA PoolIInv == PoolSpec => []IInv
BY InitIInv, NextIInv, PTL DEF PoolSpec

\* Every variable of the pool has its type in every reachable state.
THEOREM PoolTypeCorrect == PoolSpec => []PoolTypeOK
BY PoolIInv, PTL DEF IInv

\* The pool loses no task: each one submitted has been handled, is in a deque, or
\* is in a worker's hand.
THEOREM PoolLosesNoTask == PoolSpec => []NoTaskLost
<1>1. IInv => NoTaskLost
  BY PlacesImply DEF IInv
<1> QED BY <1>1, PoolIInv, PTL

\* And it copies none: no directory is scanned twice.
THEOREM PoolCopiesNoTask == PoolSpec => []NoTaskTwice
<1>1. IInv => NoTaskTwice
  BY PlacesImply DEF IInv
<1> QED BY <1>1, PoolIInv, PTL

\* A worker asleep, or gone, has no work: pushing stolen tasks without a
\* notification is harmless.
THEOREM PoolSleepersOweNothing == PoolSpec => []SleepersOweNothing
<1>1. IInv => SleepersOweNothing
  BY DEF IInv, Control, ControlOf, SleepersOweNothing, Asleep, Handling, Drained, Held
<1> QED BY <1>1, PoolIInv, PTL

\* A thief is never the owner of the deque it steals from.
THEOREM PoolNoSelfSteal == PoolSpec => []NoSelfSteal
<1>1. IInv => NoSelfSteal
  BY StealFromOther DEF IInv
<1> QED BY <1>1, PoolIInv, PTL

\* The probes of a round go to every other worker and to no one else, for any number
\* of workers and wherever the rotation of try_steal starts.
THEOREM PoolRoundReachesAll == PoolSpec => []RoundReachesAll
<1>1. ASSUME IInv, NEW w \in Worker, pc[w] \in Stealing
      PROVE  {VictimOf(w, start[w], i) : i \in 0 .. NumWorkers - 2} = Worker \ {w}
  <2>1. start[w] \in Nat /\ NumWorkers > 1
    BY <1>1 DEF IInv, PoolTypeOK, Control, ControlOf
  <2>2. \A i \in 0 .. NumWorkers - 2 : VictimOf(w, start[w], i) \in Worker \ {w}
    <3>1. \A i \in 0 .. NumWorkers - 2 : i \in Nat
      OBVIOUS
    <3> QED BY <2>1, <3>1, VictimIsOther
  <2>3. \A v \in Worker \ {w} : \E i \in 0 .. NumWorkers - 2 : VictimOf(w, start[w], i) = v
    BY <2>1, EveryOtherIsVictim
  <2> QED BY <2>2, <2>3
<1>2. IInv => RoundReachesAll
  BY <1>1 DEF RoundReachesAll
<1> QED BY <1>2, PoolIInv, PTL

\* When the destructor has joined every thread, every submitted task is handled.
THEOREM PoolDrained == PoolSpec => []JoinedIsDrained
<1>1. IInv => JoinedIsDrained
  <2> SUFFICES ASSUME IInv, main = "joined" PROVE finished = submitted
    BY DEF JoinedIsDrained
  <2>1. \A w \in Worker : q[w] = <<>> /\ task[w] = NoTask /\ loot[w] = NoTask
    BY DEF IInv, Control, ControlOf, Handling, Drained
  <2>2. ToSet(<<>>) = {}
    BY EmptySeq, LenProperties DEF ToSet
  <2>3. \A w \in Worker : Tasks(w) = {}
    BY <2>1, <2>2 DEF Tasks, Held
  <2> QED BY <2>3 DEF IInv, Places, Apart, Covered
<1> QED BY <1>1, PoolIInv, PTL
=============================================================================
