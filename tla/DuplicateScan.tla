----------------------------- MODULE DuplicateScan -----------------------------
(***************************************************************************)
(* compute_duplicate_groups of src/src/analyzer/duplicates.cpp: workers    *)
(* take size groups off one shared deque, filled before they start, and    *)
(* hand the duplicates they confirm to a generator that sleeps on a        *)
(* condition variable between two of them.                                 *)
(*                                                                         *)
(* How a worker finds the duplicates in a size group is GroupScan's.       *)
(***************************************************************************)
EXTENDS SizeGroups

CONSTANTS NumThreads,   \* n_threads
          Trees         \* the files of the trees to scan: a set of functions

ASSUME ThreadsAssumption == NumThreads \in Nat \ {0}

\* size is the length of what the file holds: it has not changed since the tree
\* was built.
ASSUME TreesAssumption ==
    \A f \in Trees :
        /\ IsFiniteSet(DOMAIN f)
        /\ \A id \in DOMAIN f : f[id].size \in Nat /\ (f[id].size = 0 <=> f[id].content = <<>>)
        /\ \A i, j \in DOMAIN f : f[i].content = f[j].content => f[i].size = f[j].size

Thread == 0 .. NumThreads - 1

VARIABLES
    files,        \* tree.files
    size_groups,
    front,     \* tasks: how many size groups have been stolen
    pc,        \* [Thread -> where the worker is]
    ok,        \* [Thread -> BOOLEAN]: the ring was set up
    seen,      \* [Thread -> the front that steal_front read]
    out,       \* [Thread -> Seq(groups of duplicates)]: confirmed, not yet pushed
    finished,  \* how many workers have left the loop
    ready,     \* Seq(groups of duplicates): pushed, not yet yielded
    gen,       \* where the generator's body is; it holds mtx in HoldsMtx
    yielded    \* history: what the caller was given

tree_vars   == <<files, size_groups>>
worker_vars == <<front, pc, ok, seen, out, finished>>
vars == <<tree_vars, worker_vars, ready, gen, yielded>>

Total    == Len(size_groups)
HoldsMtx == {"test", "block", "drain", "leave"}
MtxFree  == gen \notin HoldsMtx

Init ==
    /\ files \in Trees
    /\ size_groups = group_files_by_size(files)
    /\ front = 0
    /\ pc = [t \in Thread |-> "unborn"]
    /\ ok = [t \in Thread |-> FALSE]
    /\ seen = [t \in Thread |-> 0]
    /\ out = [t \in Thread |-> <<>>]
    /\ finished = 0
    /\ ready = <<>>
    /\ gen = IF size_groups = <<>> THEN "end" ELSE "spawn"
    /\ yielded = <<>>

-----------------------------------------------------------------------------
(* A worker *)

Goto(t, label) == pc' = [pc EXCEPT ![t] = label] /\ UNCHANGED <<tree_vars, yielded>>

\* Ring::init, which may fail.
InitRing(t) ==
    /\ pc[t] = "init"
    /\ \E b \in BOOLEAN : ok' = [ok EXCEPT ![t] = b]
    /\ Goto(t, "loop")
    /\ UNCHANGED <<front, seen, out, finished, ready, gen>>

\* while (ok && !tasks.empty())
LoopTest(t) ==
    /\ pc[t] = "loop"
    /\ Goto(t, IF ok[t] /\ front < Total THEN "steal" ELSE "count")
    /\ UNCHANGED <<front, ok, seen, out, finished, ready, gen>>

\* Mutant: the test lets one front too many through.
NotPastEnd == front <= Total
NotEmpty   == front < Total

\* steal_front reads the front, and gives up if the deque is empty by now.
StealRead(t) ==
    /\ pc[t] = "steal"
    /\ IF NotEmpty
       THEN seen' = [seen EXCEPT ![t] = front] /\ Goto(t, "cas")
       ELSE Goto(t, "loop") /\ UNCHANGED seen
    /\ UNCHANGED <<front, ok, out, finished, ready, gen>>

\* Mutant: the front is stored without a compare.
WinsAnyway(t) == TRUE
Wins(t)       == front = seen[t]

\* The compare-exchange.  Its winner scans the size group it took; the buckets
\* of a hash map come in any order.
StealCas(t) ==
    /\ pc[t] = "cas"
    /\ IF Wins(t)
       THEN /\ front' = seen[t] + 1
            /\ \E found \in SetToSeqs(Identical(files, size_groups[seen[t] + 1])) :
                  out' = [out EXCEPT ![t] = found]
            /\ Goto(t, "push")
       ELSE Goto(t, "loop") /\ UNCHANGED <<front, out>>
    /\ UNCHANGED <<ok, seen, finished, ready, gen>>

\* Mutant: groups are pushed without mtx.
MtxIgnored == TRUE
CanLock    == MtxFree

\* A confirmed group goes to ready in a critical section of its own, ...
Push(t) ==
    /\ pc[t] = "push" /\ out[t] # <<>>
    /\ CanLock
    /\ ready' = Append(ready, Head(out[t]))
    /\ out' = [out EXCEPT ![t] = Tail(@)]
    /\ Goto(t, "notify")
    /\ UNCHANGED <<front, ok, seen, finished, gen>>

\* ... then the generator, the only thread that waits, is notified.
Notify == gen' = IF gen = "wait" THEN "lock" ELSE gen

NotifyOne(t) ==
    /\ pc[t] = "notify"
    /\ Notify
    /\ Goto(t, "push")
    /\ UNCHANGED <<front, ok, seen, out, finished, ready>>

Pushed(t) ==
    /\ pc[t] = "push" /\ out[t] = <<>>
    /\ Goto(t, "loop")
    /\ UNCHANGED <<front, ok, seen, out, finished, ready, gen>>

\* ++finished == n_threads
Count(t) ==
    /\ pc[t] = "count"
    /\ finished' = finished + 1
    /\ Goto(t, IF finished + 1 = NumThreads THEN "notify_all" ELSE "exited")
    /\ UNCHANGED <<front, ok, seen, out, ready, gen>>

\* The last worker wakes the generator: it does not take mtx for it.
NotifyAll(t) ==
    /\ pc[t] = "notify_all"
    /\ Notify
    /\ Goto(t, "exited")
    /\ UNCHANGED <<front, ok, seen, out, finished, ready>>

-----------------------------------------------------------------------------
(* The generator's body, run by the caller *)

\* threads.emplace_back, in the order of the ids.
Spawn(t) ==
    /\ gen = "spawn"
    /\ pc[t] = "unborn"
    /\ \A u \in Thread : u < t => pc[u] # "unborn"
    /\ Goto(t, "init")
    /\ gen' = IF t = NumThreads - 1 THEN "lock" ELSE "spawn"
    /\ UNCHANGED <<front, ok, seen, out, finished, ready>>

\* From one place of the body to the next, with no effect on the others.
GenMoves(from, to) ==
    /\ gen = from /\ gen' = to
    /\ UNCHANGED <<tree_vars, worker_vars, ready, yielded>>

Lock == GenMoves("lock", "test")

\* The predicate of cv.wait, under mtx; finished may change right after.
WaitTest ==
    GenMoves("test", IF ready # <<>> \/ finished = NumThreads THEN "drain" ELSE "block")

\* It releases mtx and falls asleep in one step.
WaitBlock == GenMoves("block", "wait")

SpuriousWake == GenMoves("wait", "lock")

\* One pass of the inner loop up to co_yield, which runs without mtx.
DrainYield ==
    /\ gen = "drain" /\ ready # <<>>
    /\ yielded' = Append(yielded, Head(ready))
    /\ ready' = Tail(ready)
    /\ gen' = "yield"
    /\ UNCHANGED <<tree_vars, worker_vars>>

\* The caller resumes the generator, which locks mtx again.
Resume == GenMoves("yield", "drain")

DrainEmpty == ready = <<>> /\ GenMoves("drain", "leave")

\* Mutant: the loop ends with the last size group, not the last worker.
NothingToSteal == front = Total
AllFinished    == finished = NumThreads

\* if (finished == n_threads) break; otherwise unlock, and lock again.
Leave == GenMoves("leave", IF AllFinished THEN "join" ELSE "lock")

\* ~jthread joins every worker.
Join == (\A t \in Thread : pc[t] = "exited") /\ GenMoves("join", "end")

\* The generator has ended.
Done == gen = "end" /\ UNCHANGED vars

-----------------------------------------------------------------------------

ThreadNext(t) ==
    \/ InitRing(t) \/ LoopTest(t) \/ StealRead(t) \/ StealCas(t)
    \/ Push(t) \/ NotifyOne(t) \/ Pushed(t) \/ Count(t) \/ NotifyAll(t)

GenNext ==
    \/ \E t \in Thread : Spawn(t)
    \/ Lock \/ WaitTest \/ WaitBlock \/ DrainYield \/ Resume \/ DrainEmpty \/ Leave \/ Join

Next == GenNext \/ SpuriousWake \/ (\E t \in Thread : ThreadNext(t)) \/ Done

Spec == Init /\ [][Next]_vars

\* Every thread that can take a step takes one in the end, and a thread that
\* asks for mtx again and again gets it; no spurious wake-up is counted on.
FairSpec ==
    /\ Spec
    /\ WF_vars(GenNext)
    /\ \A t \in Thread : WF_vars(ThreadNext(t)) /\ SF_vars(Push(t))

-----------------------------------------------------------------------------
(* Properties *)

GenPlaces == {"spawn", "lock", "test", "block", "wait", "drain", "yield", "leave",
              "join", "end"}
ThreadPlaces == {"unborn", "init", "loop", "steal", "cas", "push", "notify", "count",
                 "notify_all", "exited"}

\* Every variable keeps its type: the deque is never driven past its end, no
\* worker tries to take what is not there, and finished never exceeds the number of workers.
DupTypeOK ==
    /\ front \in 0 .. Total
    /\ pc \in [Thread -> ThreadPlaces]
    /\ ok \in [Thread -> BOOLEAN]
    /\ \A t \in Thread : pc[t] = "cas" => seen[t] \in 0 .. Total - 1
    /\ finished \in 0 .. NumThreads
    /\ gen \in GenPlaces

\* A group of duplicates is reported at most once: never twice to the caller,
\* and never both to the caller and in a queue that will still be drained.
ReportedOnce ==
    /\ IsInjective(yielded \o ready)
    /\ \A t \in Thread : ToSet(out[t]) \cap ToSet(yielded \o ready) = {}
    /\ \A t, u \in Thread : t # u => ToSet(out[t]) \cap ToSet(out[u]) = {}

\* The files duplicates are looked for in: a link has no content of its own, and
\* empty files are no waste.
Regular == {id \in DOMAIN files : files[id].readable /\ ~files[id].is_symlink
                                    /\ files[id].content # <<>>}

\* When the generator ends, it has yielded every group of two or more identical
\* files of the tree, of whatever size, unless no worker had a ring: then it has
\* yielded nothing.  The break tests finished after the queue was found empty,
\* while workers still push.
EndReportsAll ==
    gen = "end" =>
        ToSet(yielded) = IF \E t \in Thread : ok[t] THEN Identical(files, Regular) ELSE {}

\* Every group of duplicates there may be to report.
Duplicates ==
    UNION {UNION {Identical(f, ids) : ids \in ToSet(group_files_by_size(f))} : f \in Trees}

\* A group pushed to ready reaches the caller, whenever the notification comes
\* between the generator's test of the queue and its sleep.
PushedIsYielded ==
    \A d \in Duplicates : (d \in ToSet(ready)) ~> (d \in ToSet(yielded))

\* "last thread out signals the generator body to stop waiting": the
\* generator ends.
GeneratorEnds == <>(gen = "end")
=============================================================================
