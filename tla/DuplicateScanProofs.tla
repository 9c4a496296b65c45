-------------------------- MODULE DuplicateScanProofs --------------------------
(***************************************************************************)
(* Proofs about DuplicateScan, for any trees and any number of workers.    *)
(***************************************************************************)
EXTENDS DuplicateScan, SequenceFacts

-----------------------------------------------------------------------------
(* The size groups *)

\* The files of one size that are scanned.
Sized(f, n) == {id \in DOMAIN f : Eligible(f[id]) /\ f[id].size = n}

\* The size groups are those of two files or more, one of each size
\* (lines 380-406).
LEMMA GroupsBySize ==
    ASSUME NEW f \in Trees
    PROVE  LET G == group_files_by_size(f)
           IN  /\ G \in Seq(SUBSET DOMAIN f)
               /\ \A i \in 1 .. Len(G) : \E n \in Nat : G[i] = Sized(f, n)
               /\ \A i, j \in 1 .. Len(G) : i # j => G[i] \cap G[j] = {}
               /\ \A n \in Nat : Cardinality(Sized(f, n)) >= 2 =>
                     \E i \in 1 .. Len(G) : G[i] = Sized(f, n)
<1> DEFINE G == group_files_by_size(f)
           sizes == {n \in {f[id].size : id \in DOMAIN f} : Cardinality(Sized(f, n)) >= 2}
           order == Ascending(sizes)
<1>1. /\ IsFiniteSet(DOMAIN f) /\ \A id \in DOMAIN f : f[id].size \in Nat
  BY TreesAssumption
<1>2. sizes \in SUBSET Nat /\ IsFiniteSet(sizes)
  <2>1. {f[id].size : id \in DOMAIN f} \in SUBSET Nat
    BY <1>1
  <2>2. IsFiniteSet({f[id].size : id \in DOMAIN f})
    <3> DEFINE g == [id \in DOMAIN f |-> f[id].size]
               T == {f[id].size : id \in DOMAIN f}
    <3>1. g \in Surjection(DOMAIN f, T)
      BY DEF Surjection
    <3> QED BY <1>1, <3>1, FS_Surjection
  <2> QED BY <2>1, <2>2, FS_Subset
<1>4. /\ order \in Seq(sizes) /\ DOMAIN order = 1 .. Cardinality(sizes)
      /\ Cardinality(sizes) \in Nat /\ ToSet(order) = sizes /\ IsInjective(order)
  <2> HIDE DEF sizes
  <2> QED BY <1>2, OrderFacts
<1> HIDE DEF order
<1>5. G = [i \in DOMAIN order |-> Sized(f, order[i])]
  BY DEF group_files_by_size, Sized, order
<1> HIDE DEF G, sizes
<1>6. \A i \in DOMAIN order : order[i] \in sizes
  BY <1>4 DEF ToSet
<1>7. G \in Seq(SUBSET DOMAIN f) /\ Len(G) = Cardinality(sizes)
  <2>1. \A i \in 1 .. Cardinality(sizes) : Sized(f, order[i]) \in SUBSET DOMAIN f
    BY DEF Sized
  <2> QED BY <1>4, <1>5, <2>1
<1>8. \A i \in 1 .. Len(G) : order[i] \in Nat /\ G[i] = Sized(f, order[i])
  BY <1>2, <1>4, <1>5, <1>6, <1>7
<1>9. \A i, j \in 1 .. Len(G) : i # j => G[i] \cap G[j] = {}
  BY <1>4, <1>7, <1>8 DEF IsInjective, Sized
<1>10. ASSUME NEW n \in Nat, Cardinality(Sized(f, n)) >= 2
       PROVE  \E i \in 1 .. Len(G) : G[i] = Sized(f, n)
  <2>1. Sized(f, n) # {}
    BY <1>10, FS_EmptySet
  <2>2. n \in sizes
    BY <1>10, <2>1 DEF sizes, Sized
  <2> QED BY <2>2, <1>4, <1>7, <1>8 DEF ToSet
<1> QED BY <1>7, <1>8, <1>9, <1>10 DEF G

\* Groups of identical files among ids: finitely many, none of them empty.
LEMMA IdenticalFacts ==
    ASSUME NEW f \in Trees, NEW ids \in SUBSET DOMAIN f
    PROVE  /\ IsFiniteSet(Identical(f, ids))
           /\ \A g \in Identical(f, ids) : g \subseteq ids /\ g # {}
<1>1. IsFiniteSet(DOMAIN f)
  BY TreesAssumption
<1>2. IsFiniteSet(ids) /\ IsFiniteSet(SUBSET ids)
  BY <1>1, FS_Subset, FS_SUBSET
<1>3. \A g \in Identical(f, ids) : g \subseteq ids /\ g # {}
  BY FS_EmptySet DEF Identical
<1>4. Identical(f, ids) \in SUBSET SUBSET ids
  BY <1>3
<1> QED BY <1>2, <1>3, <1>4, FS_Subset

\* Nothing is lost by looking within the size groups only: what is identical is of
\* one size.
LEMMA IdenticalBySize ==
    ASSUME NEW f \in Trees
    PROVE  LET G == group_files_by_size(f)
           IN  Identical(f, {id \in DOMAIN f : f[id].readable /\ ~f[id].is_symlink
                                                  /\ f[id].content # <<>>})
                  = UNION {Identical(f, G[i]) : i \in 1 .. Len(G)}
<1> DEFINE G == group_files_by_size(f)
           R == {id \in DOMAIN f : f[id].readable /\ ~f[id].is_symlink /\ f[id].content # <<>>}
           Same(ids, i) == {j \in ids : f[j].content = f[i].content}
<1>1. /\ IsFiniteSet(DOMAIN f)
      /\ \A id \in DOMAIN f : f[id].size \in Nat /\ (f[id].size = 0 <=> f[id].content = <<>>)
      /\ \A i, j \in DOMAIN f : f[i].content = f[j].content => f[i].size = f[j].size
  BY TreesAssumption
<1>2. R = {id \in DOMAIN f : Eligible(f[id])}
  BY <1>1 DEF Eligible
<1>3. \A i \in R : i \in Sized(f, f[i].size) /\ Same(R, i) = Same(Sized(f, f[i].size), i)
  BY <1>1, <1>2 DEF Sized
<1>4. \A n : \A i \in Sized(f, n) : i \in R /\ f[i].size = n
  BY <1>2 DEF Sized
<1>g. /\ \A i \in 1 .. Len(G) : \E n \in Nat : G[i] = Sized(f, n)
      /\ \A n \in Nat : Cardinality(Sized(f, n)) >= 2 =>
            \E i \in 1 .. Len(G) : G[i] = Sized(f, n)
  BY GroupsBySize
<1> HIDE DEF G, R
<1>5. ASSUME NEW g \in Identical(f, R)
      PROVE  \E k \in 1 .. Len(G) : g \in Identical(f, G[k])
  <2>1. PICK i \in R : g = Same(R, i) /\ Cardinality(g) >= 2
    BY DEF Identical
  <2> DEFINE A == Sized(f, f[i].size)
  <2>2. i \in A /\ g = Same(A, i)
    BY <2>1, <1>3
  <2>3. IsFiniteSet(A) /\ g \in SUBSET A
    BY <2>2, <1>1, FS_Subset DEF Sized
  <2>4. Cardinality(A) >= 2
    BY <2>1, <2>3, FS_Subset, FS_CardinalityType
  <2>5. i \in DOMAIN f
    BY <2>2 DEF Sized
  <2>6. PICK k \in 1 .. Len(G) : G[k] = A
    BY <2>4, <2>5, <1>1, <1>g
  <2>7. g \in Identical(f, G[k])
    BY <2>1, <2>2, <2>6 DEF Identical
  <2> QED BY <2>7
<1>6. ASSUME NEW k \in 1 .. Len(G), NEW g \in Identical(f, G[k])
      PROVE  g \in Identical(f, R)
  <2>1. PICK n \in Nat : G[k] = Sized(f, n)
    BY <1>g
  <2>2. PICK i \in G[k] : g = Same(G[k], i) /\ Cardinality(g) >= 2
    BY DEF Identical
  <2>3. i \in R /\ g = Same(R, i)
    BY <2>1, <2>2, <1>3, <1>4
  <2> QED BY <2>2, <2>3 DEF Identical
<1>7. Identical(f, R) = UNION {Identical(f, G[i]) : i \in 1 .. Len(G)}
  BY <1>5, <1>6
<1> QED BY <1>7 DEF G, R

-----------------------------------------------------------------------------
(* The inductive invariant *)

Confirmed == SUBSET DOMAIN files

TypeInv ==
    /\ files \in Trees
    /\ size_groups = group_files_by_size(files)
    /\ DupTypeOK
    /\ seen \in [Thread -> Nat]
    /\ out \in [Thread -> Seq(Confirmed)]
    /\ ready \in Seq(Confirmed)
    /\ yielded \in Seq(Confirmed)

\* The workers that have counted themselves out.
Gone == {t \in Thread : pc[t] \in {"notify_all", "exited"}}

\* What a worker's place says: it steals with a ring only, leaves with nothing in
\* hand, and, with a ring, not before the deque is empty.
WorkerInv ==
    /\ \A t \in Thread :
          /\ pc[t] \in {"unborn", "init"} => ~ok[t]
          /\ pc[t] \in {"steal", "cas", "push", "notify"} => ok[t]
          /\ pc[t] \in {"count", "notify_all", "exited"} /\ ok[t] => front = Total
          /\ pc[t] \notin {"push", "notify"} => out[t] = <<>>
    /\ finished = Cardinality(Gone)
    /\ front > 0 => \E t \in Thread : ok[t]

\* What the generator's place says: from the test that ends its loop on, no
\* worker is left to push anything.
GenInv ==
    /\ gen \in {"leave", "join", "end"} => ready = <<>>
    /\ gen = "join" => finished = NumThreads
    /\ gen = "end" => finished = NumThreads \/ \A t \in Thread : pc[t] = "unborn"

\* Every group of duplicates of the size groups stolen so far is in one place:
\* with the caller, in ready, or with one worker.
PlacesInv ==
    /\ ReportedOnce
    /\ \A t \in Thread : IsInjective(out[t])
    /\ ToSet(yielded \o ready) \cup UNION {ToSet(out[t]) : t \in Thread}
          = UNION {Identical(files, size_groups[i]) : i \in 1 .. front}

DupInv == TypeInv /\ WorkerInv /\ GenInv /\ PlacesInv

\* What the types of the tree's variables give.
LEMMA GroupTypes ==
    ASSUME TypeInv
    PROVE  /\ Total \in Nat /\ front \in Nat /\ front <= Total
           /\ \A i \in 1 .. Total : size_groups[i] \in SUBSET DOMAIN files
           /\ \A i, j \in 1 .. Total : i # j => size_groups[i] \cap size_groups[j] = {}
<1>1. files \in Trees /\ size_groups = group_files_by_size(files)
  BY DEF TypeInv
<1>2. size_groups \in Seq(SUBSET DOMAIN files)
  BY <1>1, GroupsBySize
<1>3. Total \in Nat /\ \A i \in 1 .. Total : size_groups[i] \in SUBSET DOMAIN files
  BY <1>2, LenProperties, ElementOfSeq DEF Total
<1>4. \A i, j \in 1 .. Total : i # j => size_groups[i] \cap size_groups[j] = {}
  BY <1>1, GroupsBySize DEF Total
<1>5. front \in 0 .. Total
  BY DEF TypeInv, DupTypeOK
<1> QED BY <1>3, <1>4, <1>5

\* The groups of duplicates a worker may confirm in the size group it stole.
LEMMA FoundType ==
    ASSUME TypeInv, NEW i \in 1 .. Total,
           NEW found \in SetToSeqs(Identical(files, size_groups[i]))
    PROVE  /\ found \in Seq(Confirmed) /\ IsInjective(found)
           /\ ToSet(found) = Identical(files, size_groups[i])
<1>1. files \in Trees /\ size_groups[i] \in SUBSET DOMAIN files
  BY GroupTypes DEF TypeInv
<1>2. /\ IsFiniteSet(Identical(files, size_groups[i]))
      /\ Identical(files, size_groups[i]) \subseteq Confirmed
  BY <1>1, IdenticalFacts DEF Confirmed
<1>3. /\ found \in Seq(Identical(files, size_groups[i])) /\ IsInjective(found)
      /\ ToSet(found) = Identical(files, size_groups[i])
  BY <1>2, Enumerated
<1>4. found \in Seq(Confirmed)
  BY <1>2, <1>3
<1> QED BY <1>3, <1>4

\* No worker has counted itself out before the start, and the counter follows
\* the places.
LEMMA GoneFacts ==
    /\ IsFiniteSet(Thread) /\ Cardinality(Thread) = NumThreads
    /\ IsFiniteSet(Gone) /\ Gone \subseteq Thread
    /\ Cardinality(Gone) \in 0 .. NumThreads
    /\ Cardinality(Gone) = NumThreads <=> Gone = Thread
<1>1. IsFiniteSet(Thread) /\ Cardinality(Thread) = NumThreads
  BY ThreadsAssumption, FS_Interval DEF Thread
<1>2. Gone \subseteq Thread
  BY DEF Gone
<1>3. IsFiniteSet(Gone) /\ Cardinality(Gone) <= NumThreads
      /\ (Cardinality(Gone) = NumThreads => Gone = Thread)
  BY <1>1, <1>2, FS_Subset
<1>4. Cardinality(Gone) \in Nat
  BY <1>3, FS_CardinalityType
<1> QED BY <1>1, <1>2, <1>3, <1>4, ThreadsAssumption

LEMMA InitDupInv == Init => DupInv
<1> SUFFICES ASSUME Init PROVE DupInv
  OBVIOUS
<1> USE DEF Init
<1>1. size_groups \in Seq(SUBSET DOMAIN files)
  BY GroupsBySize
<1>2. Total \in Nat
  BY <1>1, LenProperties DEF Total
<1>3. TypeInv
  <2>1. <<>> \in Seq(Confirmed)
    BY EmptySeq
  <2>2. DupTypeOK
    BY <1>2, ThreadsAssumption DEF DupTypeOK, ThreadPlaces, GenPlaces
  <2> QED BY <2>1, <2>2 DEF TypeInv
<1>4. WorkerInv
  <2>1. Gone = {}
    BY DEF Gone
  <2> QED BY <2>1, FS_EmptySet DEF WorkerInv
<1>5. GenInv
  BY DEF GenInv
<1>6. PlacesInv
  <2>1. <<>> \o <<>> = <<>> /\ ToSet(<<>>) = {} /\ IsInjective(<<>>)
    BY DEF ToSet, IsInjective
  <2>2. \A t \in Thread : out[t] = <<>>
    OBVIOUS
  <2>3. ReportedOnce
    BY <2>1, <2>2 DEF ReportedOnce
  <2>4. UNION {ToSet(out[t]) : t \in Thread} = {}
    BY <2>1, <2>2
  <2>5. UNION {Identical(files, size_groups[i]) : i \in 1 .. front} = {}
    OBVIOUS
  <2> QED BY <2>1, <2>2, <2>3, <2>4, <2>5 DEF PlacesInv
<1> QED BY <1>3, <1>4, <1>5, <1>6 DEF DupInv

\* Every step leaves the tree alone.
LEMMA TreeKept == [Next]_vars => UNCHANGED tree_vars
BY DEF Next, ThreadNext, GenNext, InitRing, LoopTest, StealRead, StealCas, Push, NotifyOne,
       Pushed, Count, NotifyAll, Spawn, Lock, WaitTest, WaitBlock, SpuriousWake, DrainYield,
       Resume, DrainEmpty, Leave, Join, Done, Goto, GenMoves, vars, tree_vars

\* The types are kept.  finished stays below the number of workers because the
\* worker that counts itself is none of those that have.
LEMMA TypeStep == DupInv /\ [Next]_vars => TypeInv'
<1> SUFFICES ASSUME DupInv, [Next]_vars PROVE TypeInv'
  OBVIOUS
<1>1. /\ TypeInv /\ WorkerInv
      /\ files' = files /\ size_groups' = size_groups /\ Total' = Total /\ Confirmed' = Confirmed
  BY TreeKept DEF DupInv, tree_vars, Total, Confirmed
<1>2. Total \in Nat /\ front \in 0 .. Total /\ 0 .. Total \subseteq Nat
  BY <1>1, GroupTypes DEF TypeInv, DupTypeOK
<1> DEFINE Rest == /\ front \in 0 .. Total
                   /\ pc \in [Thread -> ThreadPlaces]
                   /\ ok \in [Thread -> BOOLEAN]
                   /\ \A t \in Thread : pc[t] = "cas" => seen[t] \in 0 .. Total - 1
                   /\ finished \in 0 .. NumThreads
                   /\ gen \in GenPlaces
                   /\ seen \in [Thread -> Nat]
                   /\ out \in [Thread -> Seq(Confirmed)]
                   /\ ready \in Seq(Confirmed)
                   /\ yielded \in Seq(Confirmed)
<1>3. Rest
  BY <1>1 DEF TypeInv, DupTypeOK
<1>4. SUFFICES Rest'
  BY <1>1 DEF TypeInv, DupTypeOK
<1> USE DEF Goto, ThreadPlaces, GenPlaces
<1>5. ASSUME NEW t \in Thread, InitRing(t) PROVE Rest'
  BY <1>1, <1>3, <1>5 DEF InitRing
<1>6. ASSUME NEW t \in Thread, LoopTest(t) PROVE Rest'
  BY <1>1, <1>3, <1>6 DEF LoopTest
<1>7. ASSUME NEW t \in Thread, StealRead(t) PROVE Rest'
  <2>1. CASE NotEmpty
    <3>1. front \in 0 .. Total - 1 /\ front \in Nat
      BY <1>2, <2>1 DEF NotEmpty
    <3> QED BY <1>1, <1>3, <1>7, <2>1, <3>1 DEF StealRead
  <2>2. CASE ~NotEmpty
    BY <1>1, <1>3, <1>7, <2>2 DEF StealRead
  <2> QED BY <2>1, <2>2
<1>8. ASSUME NEW t \in Thread, StealCas(t) PROVE Rest'
  <2>1. CASE Wins(t)
    <3>1. seen[t] \in 0 .. Total - 1 /\ seen[t] + 1 \in 1 .. Total
      BY <1>2, <1>3, <1>8 DEF StealCas
    <3>2. PICK found \in SetToSeqs(Identical(files, size_groups[seen[t] + 1])) :
             out' = [out EXCEPT ![t] = found]
      BY <1>8, <2>1 DEF StealCas
    <3>3. found \in Seq(Confirmed)
      BY <1>1, <3>1, FoundType
    <3>4. /\ front' = seen[t] + 1 /\ pc' = [pc EXCEPT ![t] = "push"]
          /\ UNCHANGED <<ok, seen, finished, ready, gen, yielded>>
      BY <1>8, <2>1 DEF StealCas
    <3>5. front' \in 0 .. Total
      BY <1>2, <3>1, <3>4
    <3> QED BY <1>1, <1>3, <3>2, <3>3, <3>4, <3>5
  <2>2. CASE ~Wins(t)
    BY <1>1, <1>3, <1>8, <2>2 DEF StealCas
  <2> QED BY <2>1, <2>2
<1>9. ASSUME NEW t \in Thread, Push(t) PROVE Rest'
  <2>1. /\ Head(out[t]) \in Confirmed /\ Tail(out[t]) \in Seq(Confirmed)
    BY <1>3, <1>9, HeadTaken DEF Push
  <2>2. ready' \in Seq(Confirmed)
    BY <1>1, <1>3, <1>9, <2>1, LastAdded DEF Push
  <2> QED BY <1>1, <1>3, <1>9, <2>1, <2>2 DEF Push
<1>10. ASSUME NEW t \in Thread, NotifyOne(t) PROVE Rest'
  BY <1>1, <1>3, <1>10 DEF NotifyOne, Notify
<1>11. ASSUME NEW t \in Thread, Pushed(t) PROVE Rest'
  BY <1>1, <1>3, <1>11 DEF Pushed
<1>12. ASSUME NEW t \in Thread, Count(t) PROVE Rest'
  <2>1. Gone # Thread /\ finished = Cardinality(Gone)
    BY <1>1, <1>12 DEF Count, Gone, WorkerInv
  <2>2. finished + 1 \in 0 .. NumThreads
    BY <2>1, GoneFacts, ThreadsAssumption
  <2> QED BY <1>1, <1>3, <1>12, <2>2 DEF Count
<1>13. ASSUME NEW t \in Thread, NotifyAll(t) PROVE Rest'
  BY <1>1, <1>3, <1>13 DEF NotifyAll, Notify
<1>14. ASSUME NEW t \in Thread, Spawn(t) PROVE Rest'
  BY <1>1, <1>3, <1>14 DEF Spawn
<1>15. CASE Lock \/ WaitTest \/ WaitBlock \/ SpuriousWake \/ Resume \/ DrainEmpty \/ Leave \/ Join
  BY <1>1, <1>3, <1>15 DEF Lock, WaitTest, WaitBlock, SpuriousWake, Resume, DrainEmpty, Leave,
        Join, GenMoves, worker_vars
<1>16. CASE DrainYield
  <2>1. Head(ready) \in Confirmed /\ Tail(ready) \in Seq(Confirmed)
    BY <1>3, <1>16, HeadTaken DEF DrainYield
  <2>2. yielded' \in Seq(Confirmed)
    BY <1>1, <1>3, <1>16, <2>1, LastAdded DEF DrainYield
  <2> QED BY <1>1, <1>3, <1>16, <2>1, <2>2 DEF DrainYield, worker_vars
<1>17. CASE UNCHANGED vars
  BY <1>1, <1>3, <1>17 DEF vars, worker_vars
<1> QED BY <1>5, <1>6, <1>7, <1>8, <1>9, <1>10, <1>11, <1>12, <1>13, <1>14, <1>15, <1>16, <1>17
        DEF Next, ThreadNext, GenNext, Done

\* What the places of the workers say stays true.
LEMMA WorkerStep == DupInv /\ [Next]_vars => WorkerInv'
<1> SUFFICES ASSUME DupInv, [Next]_vars PROVE WorkerInv'
  OBVIOUS
<1>1. /\ TypeInv /\ WorkerInv /\ TypeInv' /\ Total' = Total
      /\ Total \in Nat /\ front \in 0 .. Total
      /\ pc \in [Thread -> ThreadPlaces] /\ ok \in [Thread -> BOOLEAN]
      /\ out \in [Thread -> Seq(Confirmed)] /\ finished \in Nat
      /\ finished = Cardinality(Gone)
  BY TreeKept, TypeStep, GroupTypes, ThreadsAssumption, SMTT(30)
     DEF DupInv, tree_vars, Total, TypeInv, DupTypeOK, WorkerInv
<1> DEFINE At(t) == /\ pc[t] \in {"unborn", "init"} => ~ok[t]
                    /\ pc[t] \in {"steal", "cas", "push", "notify"} => ok[t]
                    /\ pc[t] \in {"count", "notify_all", "exited"} /\ ok[t] => front = Total
                    /\ pc[t] \notin {"push", "notify"} => out[t] = <<>>
<1>2. /\ \A t \in Thread : At(t)
      /\ front > 0 => \E t \in Thread : ok[t]
  BY <1>1 DEF WorkerInv
<1>3. SUFFICES /\ \A t \in Thread : At(t)'
               /\ finished' = Cardinality(Gone')
               /\ front' > 0 => \E t \in Thread : ok'[t]
  BY <1>1 DEF WorkerInv
<1> DEFINE Goal == /\ \A t \in Thread : At(t)'
                   /\ finished' = Cardinality(Gone')
                   /\ front' > 0 => \E t \in Thread : ok'[t]
<1> USE DEF Goto, ThreadPlaces
<1>4. ASSUME NEW t \in Thread, InitRing(t) PROVE Goal
  <2>1. Gone' = Gone
    BY <1>1, <1>4 DEF InitRing, Gone
  <2>2. \A u \in Thread : u # t => ok'[u] = ok[u]
    BY <1>1, <1>4 DEF InitRing
  <2>3. ~ok[t] /\ front' = front
    BY <1>2, <1>4 DEF InitRing
  <2> QED BY <1>1, <1>2, <1>4, <2>1, <2>2, <2>3 DEF InitRing
<1>5. ASSUME NEW t \in Thread, LoopTest(t) \/ StealRead(t) \/ Push(t) \/ NotifyOne(t)
                                  \/ Pushed(t) \/ Spawn(t)
      PROVE  Goal
  <2>1. Gone' = Gone
    BY <1>1, <1>5 DEF LoopTest, StealRead, Push, NotifyOne, Pushed, Spawn, Gone
  <2>2. UNCHANGED <<front, ok, finished>>
    BY <1>5 DEF LoopTest, StealRead, Push, NotifyOne, Pushed, Spawn
  <2>3. \A u \in Thread : At(u)'
    BY <1>1, <1>2, <1>5 DEF LoopTest, StealRead, Push, NotifyOne, Pushed, Spawn
  <2> QED BY <1>1, <1>2, <2>1, <2>2, <2>3
<1>6. ASSUME NEW t \in Thread, StealCas(t) PROVE Goal
  <2>1. Gone' = Gone /\ UNCHANGED <<ok, finished>> /\ ok[t]
    BY <1>1, <1>2, <1>6 DEF StealCas, Gone
  <2>2. CASE Wins(t)
    <3>1. front < Total /\ front' = front + 1
      BY <1>1, <1>6, <2>2 DEF StealCas, Wins, TypeInv, DupTypeOK
    <3>2. /\ pc' = [pc EXCEPT ![t] = "push"]
          /\ \A u \in Thread : u # t => out'[u] = out[u]
      BY <1>1, <1>6, <2>2 DEF StealCas
    <3>3. \A u \in Thread : At(u)'
      BY <1>1, <1>2, <2>1, <3>1, <3>2
    <3> QED BY <1>1, <2>1, <3>3
  <2>3. CASE ~Wins(t)
    BY <1>1, <1>2, <1>6, <2>1, <2>3 DEF StealCas
  <2> QED BY <2>2, <2>3
<1>7. ASSUME NEW t \in Thread, Count(t) PROVE Goal
  <2>1. Gone' = Gone \cup {t} /\ t \notin Gone
    BY <1>1, <1>7 DEF Count, Gone
  <2>2. Cardinality(Gone') = Cardinality(Gone) + 1
    BY <2>1, GoneFacts, FS_AddElement
  <2>3. UNCHANGED <<front, ok, out>> /\ finished' = finished + 1
    BY <1>7 DEF Count
  <2>4. \A u \in Thread : At(u)'
    BY <1>1, <1>2, <1>7 DEF Count
  <2> QED BY <1>1, <1>2, <2>2, <2>3, <2>4
<1>8. ASSUME NEW t \in Thread, NotifyAll(t) PROVE Goal
  <2>1. Gone' = Gone
    BY <1>1, <1>8 DEF NotifyAll, Gone
  <2>2. \A u \in Thread : At(u)'
    BY <1>1, <1>2, <1>8 DEF NotifyAll
  <2> QED BY <1>1, <1>2, <1>8, <2>1, <2>2 DEF NotifyAll
<1>9. CASE UNCHANGED worker_vars
  BY <1>1, <1>2, <1>9 DEF worker_vars, Gone
<1> QED BY <1>4, <1>5, <1>6, <1>7, <1>8, <1>9
        DEF Next, ThreadNext, GenNext, Done, Lock, WaitTest, WaitBlock, SpuriousWake, DrainYield,
            Resume, DrainEmpty, Leave, Join, GenMoves, vars

\* What the place of the generator says stays true: nobody pushes while it holds
\* mtx, and nobody is left to push when it has seen every worker gone.
LEMMA GenStep == DupInv /\ [Next]_vars => GenInv'
<1> SUFFICES ASSUME DupInv, [Next]_vars PROVE GenInv'
  OBVIOUS
<1>1. /\ TypeInv /\ WorkerInv /\ GenInv
      /\ pc \in [Thread -> ThreadPlaces] /\ finished = Cardinality(Gone)
      /\ finished \in 0 .. NumThreads /\ NumThreads \in Nat
      /\ ready \in Seq(Confirmed)
  BY ThreadsAssumption DEF DupInv, TypeInv, DupTypeOK, WorkerInv
<1>2. finished = NumThreads <=> \A t \in Thread : pc[t] \in {"notify_all", "exited"}
  BY <1>1, GoneFacts DEF Gone
<1>3. gen \in {"join", "end"} => \A t \in Thread : pc[t] \in {"unborn", "notify_all", "exited"}
  BY <1>1, <1>2 DEF GenInv
<1> USE DEF Goto, GenInv, Notify
<1>4. ASSUME NEW t \in Thread, InitRing(t) \/ LoopTest(t) \/ StealRead(t) \/ StealCas(t)
                                  \/ NotifyOne(t) \/ Pushed(t)
      PROVE  GenInv'
  <2>1. pc[t] \notin {"unborn", "notify_all", "exited"}
    BY <1>4 DEF InitRing, LoopTest, StealRead, StealCas, NotifyOne, Pushed
  <2>2. gen \notin {"join", "end"}
    BY <1>3, <2>1
  <2> QED BY <1>1, <1>4, <2>2 DEF InitRing, LoopTest, StealRead, StealCas, NotifyOne, Pushed
<1>5. ASSUME NEW t \in Thread, Push(t) PROVE GenInv'
  BY <1>1, <1>3, <1>5 DEF Push, CanLock, MtxFree, HoldsMtx
<1>6. ASSUME NEW t \in Thread, Count(t) PROVE GenInv'
  BY <1>1, <1>3, <1>6 DEF Count
<1>7. ASSUME NEW t \in Thread, NotifyAll(t) PROVE GenInv'
  BY <1>1, <1>7 DEF NotifyAll
<1>8. ASSUME NEW t \in Thread, Spawn(t) PROVE GenInv'
  BY <1>1, <1>8 DEF Spawn
<1>9. CASE Lock \/ WaitTest \/ WaitBlock \/ SpuriousWake \/ Resume \/ DrainYield \/ DrainEmpty
  BY <1>1, <1>9 DEF Lock, WaitTest, WaitBlock, SpuriousWake, Resume, DrainYield, DrainEmpty,
        GenMoves, worker_vars
<1>10. CASE Leave \/ Join
  BY <1>1, <1>10 DEF Leave, Join, AllFinished, GenMoves, worker_vars
<1>11. CASE UNCHANGED vars
  BY <1>1, <1>11 DEF vars, worker_vars
<1> QED BY <1>4, <1>5, <1>6, <1>7, <1>8, <1>9, <1>10, <1>11 DEF Next, ThreadNext, GenNext, Done

\* A group the worker has just confirmed is in no place yet: its files are in a size
\* group that nobody has stolen before.
LEMMA NewlyFound ==
    ASSUME TypeInv, PlacesInv, front < Total
    PROVE  Identical(files, size_groups[front + 1])
              \cap (ToSet(yielded \o ready) \cup UNION {ToSet(out[t]) : t \in Thread}) = {}
<1>1. /\ Total \in Nat /\ front \in Nat /\ files \in Trees
      /\ \A i \in 1 .. Total : size_groups[i] \in SUBSET DOMAIN files
      /\ \A i, j \in 1 .. Total : i # j => size_groups[i] \cap size_groups[j] = {}
  BY GroupTypes DEF TypeInv
<1>2. \A i \in 1 .. Total : \A d \in Identical(files, size_groups[i]) :
         d \subseteq size_groups[i] /\ d # {}
  BY <1>1, IdenticalFacts
<1>3. ASSUME NEW i \in 1 .. front
      PROVE  Identical(files, size_groups[front + 1]) \cap Identical(files, size_groups[i]) = {}
  <2>1. i \in 1 .. Total /\ front + 1 \in 1 .. Total /\ i # front + 1
    BY <1>1
  <2>2. size_groups[front + 1] \cap size_groups[i] = {}
    BY <1>1, <2>1
  <2> QED BY <1>2, <2>1, <2>2
<1> QED BY <1>3 DEF PlacesInv

\* No group is lost, and none is in two places.
LEMMA PlacesStep == DupInv /\ [Next]_vars => PlacesInv'
<1> SUFFICES ASSUME DupInv, [Next]_vars PROVE PlacesInv'
  OBVIOUS
<1>1. /\ TypeInv /\ PlacesInv
      /\ files' = files /\ size_groups' = size_groups /\ Total' = Total
      /\ out \in [Thread -> Seq(Confirmed)]
      /\ ready \in Seq(Confirmed) /\ yielded \in Seq(Confirmed)
  BY TreeKept DEF DupInv, tree_vars, Total, TypeInv
<1> DEFINE Given == yielded \o ready
           InHand == UNION {ToSet(out[t]) : t \in Thread}
           Stolen == UNION {Identical(files, size_groups[i]) : i \in 1 .. front}
<1>2. /\ Given \in Seq(Confirmed)
      /\ IsInjective(Given)
      /\ \A t \in Thread : ToSet(out[t]) \cap ToSet(Given) = {} /\ IsInjective(out[t])
      /\ \A t, u \in Thread : t # u => ToSet(out[t]) \cap ToSet(out[u]) = {}
      /\ ToSet(Given) \cup InHand = Stolen
  BY <1>1, Joined DEF PlacesInv, ReportedOnce
<1>3. SUFFICES /\ IsInjective(Given')
               /\ \A t \in Thread : ToSet(out'[t]) \cap ToSet(Given') = {} /\ IsInjective(out'[t])
               /\ \A t, u \in Thread : t # u => ToSet(out'[t]) \cap ToSet(out'[u]) = {}
               /\ ToSet(Given') \cup InHand' = Stolen'
  BY DEF PlacesInv, ReportedOnce
<1> DEFINE Goal == /\ IsInjective(Given')
                   /\ \A t \in Thread : ToSet(out'[t]) \cap ToSet(Given') = {}
                                           /\ IsInjective(out'[t])
                   /\ \A t, u \in Thread : t # u => ToSet(out'[t]) \cap ToSet(out'[u]) = {}
                   /\ ToSet(Given') \cup InHand' = Stolen'
<1>4. ASSUME UNCHANGED <<front, out, ready, yielded>> PROVE Goal
  BY <1>1, <1>2, <1>4, SMTT(30)
<1>5. ASSUME NEW t \in Thread, StealCas(t), Wins(t) PROVE Goal
  <2>1. /\ front \in Nat /\ front < Total /\ front' = front + 1 /\ seen[t] = front
        /\ front + 1 \in 1 .. Total
    BY <1>1, <1>5, GroupTypes DEF StealCas, Wins, TypeInv, DupTypeOK
  <2> DEFINE New == Identical(files, size_groups[front + 1])
  <2>2. PICK found \in SetToSeqs(New) : out' = [out EXCEPT ![t] = found]
    BY <1>5, <2>1 DEF StealCas
  <2>3. IsInjective(found) /\ ToSet(found) = New
    BY <1>1, <2>1, FoundType
  <2>4. New \cap (ToSet(Given) \cup InHand) = {}
    BY <1>1, <2>1, NewlyFound
  <2>5. /\ Given' = Given
        /\ out'[t] = found /\ \A u \in Thread : u # t => out'[u] = out[u]
    BY <1>1, <1>5, <2>2 DEF StealCas, Goto
  <2>6. Stolen' = Stolen \cup New
    <3>1. 1 .. front + 1 = (1 .. front) \cup {front + 1}
      BY <2>1
    <3> QED BY <1>1, <2>1, <3>1
  <2>7. out[t] = <<>>
    BY <1>5 DEF StealCas, DupInv, WorkerInv
  <2>8. InHand' = InHand \cup New
    <3>1. ToSet(out[t]) = {}
      BY <2>7 DEF ToSet
    <3>2. InHand' \subseteq InHand \cup New
      BY <2>3, <2>5
    <3>3. InHand \cup New \subseteq InHand'
      BY <2>3, <2>5, <3>1
    <3> QED BY <3>2, <3>3
  <2>9. \A u \in Thread : ToSet(out[u]) \subseteq InHand
    OBVIOUS
  <2> HIDE DEF Given, Stolen, InHand, New
  <2>10. \A u \in Thread : ToSet(out'[u]) \cap ToSet(Given') = {} /\ IsInjective(out'[u])
    BY <1>2, <2>3, <2>4, <2>5
  <2>11. \A u, v \in Thread : u # v => ToSet(out'[u]) \cap ToSet(out'[v]) = {}
    BY <1>2, <2>3, <2>4, <2>5, <2>9
  <2>12. ToSet(Given') \cup InHand' = Stolen'
    BY <1>2, <2>5, <2>6, <2>8
  <2> QED BY <1>2, <2>5, <2>10, <2>11, <2>12
<1>6. ASSUME NEW t \in Thread, Push(t) PROVE Goal
  <2> DEFINE d == Head(out[t])
  <2>1. /\ out[t] # <<>> /\ ready' = Append(ready, d) /\ yielded' = yielded /\ front' = front
        /\ out' = [out EXCEPT ![t] = Tail(out[t])]
    BY <1>6 DEF Push, Goto
  <2>2. /\ d \in Confirmed /\ ToSet(out[t]) = ToSet(Tail(out[t])) \cup {d}
        /\ IsInjective(Tail(out[t])) /\ d \notin ToSet(Tail(out[t]))
    BY <1>1, <1>2, <2>1, HeadTaken
  <2>3. /\ out'[t] = Tail(out[t]) /\ \A u \in Thread : u # t => out'[u] = out[u]
    BY <1>1, <2>1
  <2>4. Given' = Append(Given, d)
    BY <1>1, <2>1, <2>2, MovedOn
  <2> HIDE DEF d, Given
  <2>5. d \notin ToSet(Given)
    BY <1>2, <2>2
  <2>6. ToSet(Given') = ToSet(Given) \cup {d} /\ IsInjective(Given')
    BY <1>2, <2>2, <2>4, <2>5, LastAdded
  <2>7. \A u \in Thread : u # t => d \notin ToSet(out[u])
    BY <1>2, <2>2
  <2>8. \A u \in Thread : ToSet(out'[u]) \cap ToSet(Given') = {} /\ IsInjective(out'[u])
    BY <1>2, <2>2, <2>3, <2>6, <2>7
  <2>9. \A u, v \in Thread : u # v => ToSet(out'[u]) \cap ToSet(out'[v]) = {}
    BY <1>2, <2>2, <2>3
  <2>10. ToSet(Given') \cup InHand' = ToSet(Given) \cup InHand
    <3>1. InHand' \subseteq InHand
      BY <2>2, <2>3
    <3>2. InHand \subseteq InHand' \cup {d}
      BY <2>2, <2>3
    <3>3. d \in InHand
      BY <2>2
    <3> QED BY <2>6, <3>1, <3>2, <3>3
  <2>11. Stolen' = Stolen
    BY <1>1, <2>1
  <2> HIDE DEF InHand, Stolen
  <2>12. ToSet(Given') \cup InHand' = Stolen'
    BY <1>2, <2>10, <2>11
  <2> QED BY <2>6, <2>8, <2>9, <2>12
<1>7. CASE DrainYield
  <2>1. Given' = Given
    BY <1>1, <1>7, MovedOn DEF DrainYield
  <2>2. UNCHANGED <<front, out>>
    BY <1>7 DEF DrainYield, worker_vars
  <2> HIDE DEF Given
  <2> QED BY <1>1, <1>2, <2>1, <2>2, ZenonT(40)
<1>8. ASSUME NEW t \in Thread, StealCas(t), ~Wins(t) PROVE Goal
  BY <1>4, <1>8 DEF StealCas, Goto
<1>9. ASSUME NEW t \in Thread, InitRing(t) \/ LoopTest(t) \/ StealRead(t) \/ NotifyOne(t)
                                  \/ Pushed(t) \/ Count(t) \/ NotifyAll(t) \/ Spawn(t)
      PROVE  Goal
  <2>1. UNCHANGED <<front, out, ready, yielded>>
    BY <1>9 DEF InitRing, LoopTest, StealRead, NotifyOne, Pushed, Count, NotifyAll, Spawn, Goto
  <2> QED BY <1>4, <2>1
<1>10. CASE Lock \/ WaitTest \/ WaitBlock \/ SpuriousWake \/ Resume \/ DrainEmpty \/ Leave \/ Join
  <2>1. UNCHANGED <<front, out, ready, yielded>>
    BY <1>10 DEF Lock, WaitTest, WaitBlock, SpuriousWake, Resume, DrainEmpty, Leave, Join,
          GenMoves, worker_vars
  <2> QED BY <1>4, <2>1
<1>11. CASE UNCHANGED vars
  BY <1>4, <1>11 DEF vars, worker_vars
<1> HIDE DEF Goal
<1> QED BY <1>5, <1>6, <1>7, <1>8, <1>9, <1>10, <1>11 DEF Next, ThreadNext, GenNext, Done, Goal

THEOREM DupInvInvariant == Spec => []DupInv
<1>1. DupInv /\ [Next]_vars => DupInv'
  BY TypeStep, WorkerStep, GenStep, PlacesStep DEF DupInv
<1> QED BY InitDupInv, <1>1, PTL DEF Spec

-----------------------------------------------------------------------------
(* What follows *)

\* DupTypeOK: every variable keeps its type, so no worker reads past the end of the
\* deque of size groups (lines 443-449), with any number of workers.
THEOREM DupTypeCorrect == Spec => []DupTypeOK
<1>1. DupInv => DupTypeOK
  BY DEF DupInv, TypeInv
<1> QED BY <1>1, DupInvInvariant, PTL

\* ReportedOnce: no group of duplicates is given to the caller twice, however many
\* workers steal and push at the same time (lines 443-524).
THEOREM NoGroupTwice == Spec => []ReportedOnce
<1>1. DupInv => ReportedOnce
  BY DEF DupInv, PlacesInv
<1> QED BY <1>1, DupInvInvariant, PTL

\* EndReportsAll: a generator that has ended has given the caller every group of
\* identical files of the tree, if any worker had a ring, and none if no worker had
\* one (lines 506-524).
THEOREM NoGroupLost == Spec => []EndReportsAll
<1>1. ASSUME DupInv, gen = "end"
      PROVE  ToSet(yielded) = IF \E t \in Thread : ok[t] THEN Identical(files, Regular) ELSE {}
  <2>1. /\ TypeInv /\ WorkerInv /\ GenInv /\ PlacesInv
        /\ ready = <<>> /\ yielded \in Seq(Confirmed) /\ front \in Nat /\ Total \in Nat
        /\ front <= Total
    BY <1>1, GroupTypes DEF DupInv, GenInv, TypeInv
  <2>2. \A t \in Thread : pc[t] \in {"unborn", "notify_all", "exited"}
    BY <1>1, <2>1, GoneFacts DEF GenInv, WorkerInv, Gone
  <2>3. \A t \in Thread : ToSet(out[t]) = {}
    BY <2>1, <2>2 DEF WorkerInv, ToSet
  <2>4. yielded \o ready = yielded
    BY <2>1, ConcatEmptySeq
  <2>5. ToSet(yielded) = UNION {Identical(files, size_groups[i]) : i \in 1 .. front}
    <3>1. UNION {ToSet(out[t]) : t \in Thread} = {}
      BY <2>3
    <3>2. ToSet(yielded) \cup {} = UNION {Identical(files, size_groups[i]) : i \in 1 .. front}
      BY <2>1, <2>4, <3>1 DEF PlacesInv
    <3> QED BY <3>2
  <2>6. CASE \E t \in Thread : ok[t]
    <3>1. front = Total
      BY <2>1, <2>2, <2>6 DEF WorkerInv
    <3>2. Identical(files, Regular)
             = UNION {Identical(files, size_groups[i]) : i \in 1 .. Total}
      BY <2>1, IdenticalBySize DEF TypeInv, Total, Regular
    <3> QED BY <2>5, <2>6, <3>1, <3>2
  <2>7. CASE ~ \E t \in Thread : ok[t]
    <3>1. front = 0
      BY <2>1, <2>7 DEF WorkerInv
    <3>2. ToSet(yielded) = {}
      BY <2>5, <3>1
    <3> QED BY <2>7, <3>2
  <2> QED BY <2>6, <2>7
<1>2. DupInv => EndReportsAll
  BY <1>1 DEF EndReportsAll
<1> QED BY <1>2, DupInvInvariant, PTL
=============================================================================
