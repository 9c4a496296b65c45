----------------------------- MODULE ScannerProofs -----------------------------
(***************************************************************************)
(* Proofs about Scanner, for any file system, any number of workers and    *)
(* any number of steal attempts.                                           *)
(***************************************************************************)
EXTENDS Scanner, ThreadPoolProofs

-----------------------------------------------------------------------------
(* The inductive invariant *)

Busy == {"exec", "notify"}
ScanLabel == {"list", "count", "add_dirs", "submit", "arena", "add_files", "link", "finished",
              "notify_main", "return"}

\* How far a scan has come: its subdirectories are nodes, its files and errors are
\* records, its files are linked, it has been counted down.
AfterDirs  == {"submit", "arena", "add_files"} \cup {"link", "finished", "notify_main", "return"}
AfterAdd   == {"link", "finished", "notify_main", "return"}
AfterLink  == {"finished", "notify_main", "return"}
AfterCount == {"notify_main", "return"}

\* The directories whose scan is at one of these places, or over.
DoneUpTo(labels) == finished \cup {task[w] : w \in {v \in Worker : hpc[v] \in labels}}

Ids == 0 .. Len(directories) - 1
Path == Dir \cup Name
Node == [id : Nat, parent : Nat \cup {Nobody}, path : Dir, subdirs : Seq(Nat), files : Seq(Nat)]
FileRecord == [id : Nat, parent : Nat, name : Path, offset : Nat]
ErrorRecord == [path : Path, kind : {"Unknown", "FileError", "NotFound", "IOError"}]
Locals == [dirs : Seq(Dir), names : Seq(Path), errors : Seq(ErrorRecord), base : Nat,
           ids : Seq(Nat)]

ScanTypes ==
    /\ directories \in Seq(Node) /\ files \in Seq(FileRecord)
    /\ errors \in Seq(ErrorRecord) /\ file_names \in Seq(Path)
    /\ local \in [Worker -> Locals]
    /\ ScanTypeOK

\* A worker is in scan_directory while it holds a task; what has been submitted
\* exists; once the loop of build has read zero, nothing is counted any more.
ScanControl ==
    /\ \A w \in Worker :
          /\ hpc[w] # "list" => pc[w] \in Busy
          /\ hpc[w] \in {"count", "add_dirs"} => local[w].dirs # <<>>
          /\ hpc[w] = "submit" => local[w].ids # <<>> /\ ToSet(local[w].ids) \subseteq Ids
          /\ hpc[w] = "link" => ToSet(local[w].ids) \subseteq 0 .. Len(files) - 1
    /\ submitted \subseteq Ids
    /\ build_pc = "validate" => directories = <<>> /\ errors = <<>>
    /\ build_pc \notin {"validate", "returned"} => directories # <<>>
    /\ build_pc = "returned" /\ directories = <<>> => Len(errors) = 1
    /\ build_pc \in {"finish", "moved", "returned"} => active_tasks = 0

ShapeInv ==
    /\ TreeShaped
    /\ \A i \in DOMAIN directories : /\ i = 1 => directories[i].parent = Nobody
                                    /\ ToSet(directories[i].files) \subseteq 0 .. Len(files) - 1

\* path is a subdirectory of d.
Lists(d, path) ==
    \E i \in DOMAIN Listing[d] : Listing[d][i].type = "directory" /\ Listing[d][i].path = path

PathsInv ==
    /\ directories # <<>> => directories[1].path = RootDir
    /\ \A i \in DOMAIN directories :
          i > 1 => Lists(directories[directories[i].parent + 1].path, directories[i].path)
    /\ IsInjective(Paths(directories))
    /\ \A w \in Worker : hpc[w] \in {"count", "add_dirs"} =>
          /\ IsInjective(local[w].dirs)
          /\ \A i \in DOMAIN local[w].dirs : Lists(directories[This(w)].path, local[w].dirs[i])

DirsListed(node) ==
    [j \in DOMAIN node.subdirs |-> directories[node.subdirs[j] + 1].path]
       = Subdirs(Entries(node.path))
FilesListed(ids, d) == [j \in DOMAIN ids |-> files[ids[j] + 1].name] = FileNames(Entries(d))
ErrorsListed(node) == ToSet(ErrorRecords(Entries(node.path))) \subseteq ToSet(errors)

\* What a node holds at each stage of its scan.
NodeHolds(t) ==
    LET node == directories[t + 1] IN
    /\ t \notin DoneUpTo(AfterDirs) => node.subdirs = <<>>
    /\ t \notin DoneUpTo(AfterLink) => node.files = <<>>
    /\ t \in DoneUpTo(AfterDirs) => DirsListed(node)
    /\ t \in DoneUpTo(AfterAdd) => ErrorsListed(node)
    /\ t \in DoneUpTo(AfterLink) => FilesListed(node.files, node.path)
NodesInv == \A t \in Ids : NodeHolds(t)

\* What a scan has in hand.
HandHolds(w) ==
    LET d == directories[This(w)].path IN
    /\ hpc[w] \in {"count", "add_dirs"} => local[w].dirs = Subdirs(Entries(d))
    /\ hpc[w] \in {"count", "add_dirs", "submit", "arena", "add_files"} =>
          /\ local[w].names = FileNames(Entries(d))
          /\ local[w].errors = ErrorRecords(Entries(d))
    /\ hpc[w] = "link" => FilesListed(local[w].ids, d)
LocalsInv == \A w \in Worker : HandHolds(w)

\* While the arena fits the offsets, a name is where its record, or the worker
\* that is about to write its record, says.
NamesInv ==
    Len(file_names) <= OffsetRange =>
        /\ \A i \in DOMAIN files : /\ files[i].offset + 1 \in DOMAIN file_names
                                   /\ file_names[files[i].offset + 1] = files[i].name
        /\ \A w \in Worker : hpc[w] = "add_files" =>
              \A j \in DOMAIN local[w].names :
                  /\ local[w].base + j \in DOMAIN file_names
                  /\ file_names[local[w].base + j] = local[w].names[j]

ScanInv == /\ IInv /\ ScanTypes /\ ScanControl /\ ActiveTasksExact
           /\ ShapeInv /\ PathsInv /\ NodesInv /\ LocalsInv

-----------------------------------------------------------------------------
(* The scan runs the thread pool *)

\* Every step of the scan is a step of the pool, or leaves the pool alone.
LEMMA ScanStepsPool == [Next]_vars => [PoolNext]_pool_vars
<1> SUFFICES ASSUME [Next]_vars PROVE [PoolNext]_pool_vars
  OBVIOUS
<1>1. CASE Build
  BY <1>1 DEF Build, RejectRoot, CreateRoot, StartPool, LoadActive, WaitActive, Finish, DestroyPool,
        PoolNext
<1>2. ASSUME NEW w \in Worker, ScanStep(w) PROVE [PoolNext]_pool_vars
  <2>1. CASE Return(w)
    BY <2>1 DEF Return, PoolNext, Handle
  <2>2. CASE ~Return(w)
    BY <1>2, <2>2 DEF ScanStep, List, CountDirs, AddDirs, AddNames, AddFiles, LinkFiles,
          CountDown, NotifyMain
  <2> QED BY <2>1, <2>2
<1>3. ASSUME NEW w \in Worker, Submit(w) PROVE [PoolNext]_pool_vars
  <2>1. SubmitPush(w, Head(local[w].ids))
    BY <1>3 DEF Submit
  <2>2. Head(local[w].ids) \in Task
    BY <2>1 DEF SubmitPush
  <2> QED BY <2>1, <2>2 DEF PoolNext, Handle
<1>4. ASSUME NEW w \in Worker, InPool(PoolStep(w) \/ WaitLock(w) \/ SpuriousWake(w))
      PROVE  [PoolNext]_pool_vars
  BY <1>4 DEF InPool, PoolStep, PoolNext, Sleep, Handle
<1>5. CASE UNCHANGED vars
  BY <1>5 DEF vars
<1> QED BY <1>1, <1>2, <1>3, <1>4, <1>5 DEF Next

\* The scan implements the thread pool's specification: what is proved of the pool
\* with any handler is true of the pool that builds the tree.
THEOREM ScanImplementsPool == Spec => PoolSpec
<1>1. Init => PoolInit
  BY DEF Init
<1> QED BY <1>1, ScanStepsPool, PTL DEF Spec, PoolSpec

\* No task of the scan is lost, copied, or left to a worker that sleeps.
COROLLARY ScanPool ==
    Spec => [](NoTaskLost /\ NoTaskTwice /\ SleepersOweNothing /\ NoSelfSteal
               /\ RoundReachesAll /\ JoinedIsDrained)
BY ScanImplementsPool, PoolLosesNoTask, PoolCopiesNoTask, PoolSleepersOweNothing,
   PoolNoSelfSteal, PoolRoundReachesAll, PoolDrained, PTL

\* What the rest of the pool does while workers are in scan_directory.
LEMMA PoolFrame ==
    ASSUME NEW w \in Worker, InPool(PoolStep(w) \/ WaitLock(w) \/ SpuriousWake(w)),
           IInv
    PROVE  /\ UNCHANGED scan_vars /\ UNCHANGED <<submitted, finished>>
           /\ \A u \in Worker : pc[u] \in Busy => pc'[u] \in Busy /\ task'[u] = task[u]
<1>t. pc \in [Worker -> Label] /\ task \in [Worker -> Task \cup {NoTask}]
  BY DEF IInv, PoolTypeOK
<1>1. SUFFICES ASSUME NEW u \in Worker, pc[u] \in Busy
               PROVE  UNCHANGED <<submitted, finished>> /\ pc'[u] \in Busy /\ task'[u] = task[u]
  <2>1. 0 \in Worker /\ UNCHANGED scan_vars
    BY WorkersAssumption DEF Worker, InPool
  <2>2. UNCHANGED <<submitted, finished>>
    <3>1. CASE FindTask(w)
      BY <3>1 DEF FindTask, PopBack, PopNothing, TrySteal, Probe, BatchSize, BatchSteal, BatchPush
    <3>2. CASE SubmitNotify(w) \/ WaitStop(w) \/ WaitLook(w) \/ WaitLock(w) \/ SpuriousWake(w)
      BY <3>2 DEF SubmitNotify, WaitStop, WaitLook, WaitLock, SpuriousWake
    <3> QED BY <3>1, <3>2 DEF InPool, PoolStep
  <2> QED BY <1>1, <2>1, <2>2
<1> DEFINE Goal == UNCHANGED <<submitted, finished>> /\ pc'[u] \in Busy /\ task'[u] = task[u]
<1> USE DEF Busy, Goto, round_vars
<1>2. CASE PopBack(w)
  BY <1>t, <1>1, <1>2 DEF PopBack
<1>3. CASE PopNothing(w) \/ TrySteal(w)
  BY <1>t, <1>1, <1>3 DEF PopNothing, TrySteal
<1>4. CASE Probe(w)
  BY <1>t, <1>1, <1>4 DEF Probe
<1>5. CASE BatchSize(w) \/ BatchPush(w)
  BY <1>t, <1>1, <1>5 DEF BatchSize, BatchPush
<1>6. CASE BatchSteal(w)
  BY <1>t, <1>1, <1>6 DEF BatchSteal
<1>7. CASE SubmitNotify(w)
  <2>1. CASE Goto(w, "exec")
    BY <1>t, <1>1, <1>7, <2>1 DEF SubmitNotify
  <2>2. ASSUME NEW v \in Worker, pc[v] = "wait", pc' = [pc EXCEPT ![w] = "exec", ![v] = "lock"]
        PROVE  Goal
    BY <1>t, <1>1, <1>7, <2>2 DEF SubmitNotify
  <2> QED BY <1>7, <2>1, <2>2 DEF SubmitNotify
<1>8. CASE WaitStop(w) \/ WaitLock(w) \/ SpuriousWake(w)
  BY <1>t, <1>1, <1>8 DEF WaitStop, WaitLock, SpuriousWake
<1>9. CASE WaitLook(w)
  <2>1. UNCHANGED <<task, submitted, finished>> /\ pc[w] = "predicate"
        /\ (pc' = pc \/ \E label : pc' = [pc EXCEPT ![w] = label])
    BY <1>9 DEF WaitLook
  <2> QED BY <1>t, <1>1, <2>1
<1> QED BY <1>2, <1>3, <1>4, <1>5, <1>6, <1>7, <1>8, <1>9 DEF InPool, PoolStep, FindTask

\* A busy worker has a task of its own, whose directory is in the tree and not yet
\* scanned.
LEMMA BusyFacts ==
    ASSUME IInv, ScanTypes, ScanControl, NEW w \in Worker, pc[w] \in Busy
    PROVE  /\ task[w] \in Task /\ task[w] \in Ids /\ task[w] \notin finished
           /\ \A v \in Worker \ {w} : task[v] # task[w]
           /\ This(w) \in DOMAIN directories /\ directories[This(w)] \in Node
           /\ directories[This(w)].path \in Dir /\ task[w] \in Nat
<1>1. task[w] # NoTask /\ task[w] \in Task
  BY DEF IInv, Control, ControlOf, Handling, Busy, PoolTypeOK
<1>2. task[w] \in Tasks(w)
  BY <1>1 DEF Tasks, Held
<1>3. task[w] \in submitted /\ task[w] \notin finished
  BY <1>2 DEF IInv, Places, Apart, Covered, Disjoint
<1>4. \A v \in Worker \ {w} : task[v] # task[w]
  <2>1. SUFFICES ASSUME NEW v \in Worker \ {w}, task[v] = task[w] PROVE FALSE
    OBVIOUS
  <2>2. task[v] \in Tasks(v)
    BY <1>1, <2>1 DEF Tasks, Held
  <2> QED BY <1>2, <2>1, <2>2 DEF IInv, Places, Apart, Disjoint
<1>5. task[w] \in Ids
  BY <1>3 DEF ScanControl
<1>6. Len(directories) \in Nat /\ DOMAIN directories = 1 .. Len(directories)
      /\ \A i \in 1 .. Len(directories) : directories[i] \in Node
  BY LenProperties, ElementOfSeq DEF ScanTypes
<1>7. This(w) \in DOMAIN directories /\ task[w] \in Nat
  BY <1>5, <1>6 DEF This, Ids
<1> QED BY <1>1, <1>3, <1>4, <1>5, <1>6, <1>7 DEF Node

-----------------------------------------------------------------------------
(* How far the scans have come *)

\* A busy worker's directory is at the place the worker is at.
LEMMA StageOf ==
    ASSUME IInv, ScanTypes, ScanControl, NEW w \in Worker, pc[w] \in Busy, NEW labels
    PROVE  task[w] \in DoneUpTo(labels) <=> hpc[w] \in labels
BY BusyFacts DEF DoneUpTo

\* A worker that moves on takes its directory along.
LEMMA StageMoved ==
    ASSUME ScanTypes, NEW w \in Worker, NEW label, hpc' = [hpc EXCEPT ![w] = label],
           UNCHANGED <<task, finished>>,
           NEW labels, hpc[w] \in labels => label \in labels
    PROVE  DoneUpTo(labels)' = IF label \in labels THEN DoneUpTo(labels) \cup {task[w]}
                                                   ELSE DoneUpTo(labels)
<1>1. hpc \in [Worker -> ScanLabel]
  BY DEF ScanTypes, ScanTypeOK, ScanLabel
<1>2. hpc'[w] = label /\ \A v \in Worker \ {w} : hpc'[v] = hpc[v]
  BY <1>1
<1>3. CASE label \in labels
  BY <1>2, <1>3 DEF DoneUpTo
<1>4. CASE label \notin labels
  BY <1>2, <1>4 DEF DoneUpTo
<1> QED BY <1>3, <1>4

\* Nothing else changes how far a scan has come.
LEMMA StageKept ==
    ASSUME IInv, ScanTypes, ScanControl, UNCHANGED <<hpc, finished>>,
           \A u \in Worker : pc[u] \in Busy => task'[u] = task[u],
           NEW labels, "list" \notin labels
    PROVE  DoneUpTo(labels)' = DoneUpTo(labels)
<1>1. \A v \in Worker : hpc[v] \in labels => task'[v] = task[v]
  BY DEF ScanControl
<1> QED BY <1>1 DEF DoneUpTo

\* A handler that returns leaves a scan that is over.
LEMMA StageReturned ==
    ASSUME IInv, ScanTypes, ScanControl, NEW w \in Worker, Return(w),
           NEW labels, "list" \notin labels, "return" \in labels
    PROVE  DoneUpTo(labels)' = DoneUpTo(labels)
<1>1. hpc \in [Worker -> ScanLabel] /\ task \in [Worker -> Task \cup {NoTask}]
  BY DEF ScanTypes, ScanTypeOK, ScanLabel, IInv, PoolTypeOK
<1>2. /\ finished' = finished \cup {task[w]} /\ hpc[w] = "return" /\ hpc'[w] = "list"
      /\ \A v \in Worker \ {w} : hpc'[v] = hpc[v] /\ task'[v] = task[v]
  BY <1>1 DEF Return, HandlerReturn, At, To
<1> QED BY <1>2 DEF DoneUpTo

-----------------------------------------------------------------------------
(* What a listing yields *)

Entry == [type : EntryType, path : Path]

\* The entries of the given types are entries of the listing, each of them once.
LEMMA TypedFacts ==
    ASSUME NEW entries \in Seq(Entry), NEW types
    PROVE  LET s == Typed(entries, types)
           IN  /\ s \in Seq(Entry) /\ DOMAIN Paths(s) = DOMAIN s /\ Paths(s) \in Seq(Path)
               /\ \E at \in [DOMAIN s -> DOMAIN entries] :
                     /\ IsInjective(at)
                     /\ \A i \in DOMAIN s : s[i] = entries[at[i]] /\ s[i].type \in types
<1> DEFINE P == {i \in DOMAIN entries : entries[i].type \in types}
           at == Ascending(P)
           s == Typed(entries, types)
<1>1. Len(entries) \in Nat /\ DOMAIN entries = 1 .. Len(entries)
      /\ \A i \in DOMAIN entries : entries[i] \in Entry
  BY LenProperties, ElementOfSeq
<1>2. P \in SUBSET Nat /\ IsFiniteSet(P)
  <2>1. IsFiniteSet(DOMAIN entries)
    BY <1>1, FS_Interval
  <2> QED BY <1>1, <2>1, FS_Subset
<1>3. /\ DOMAIN at = 1 .. Cardinality(P) /\ Cardinality(P) \in Nat
      /\ ToSet(at) = P /\ IsInjective(at)
  <2> HIDE DEF P
  <2> QED BY <1>2, OrderFacts
<1>4. s = [i \in DOMAIN at |-> entries[at[i]]]
  BY DEF Typed
<1>5. \A i \in DOMAIN at : at[i] \in P
  BY <1>3 DEF ToSet
<1>6. at \in [DOMAIN at -> P]
  <2>1. at \in Seq(P)
    <3> HIDE DEF P
    <3> QED BY <1>2, OrderFacts
  <2> HIDE DEF P, at
  <2> QED BY <2>1, <1>3
<1> HIDE DEF at, s
<1>7. DOMAIN s = DOMAIN at /\ \A i \in DOMAIN s : s[i] = entries[at[i]] /\ s[i] \in Entry
                                                  /\ s[i].type \in types
  BY <1>1, <1>4, <1>5
<1>8. s \in Seq(Entry)
  <2>1. s \in [1 .. Cardinality(P) -> Entry]
    BY <1>3, <1>4, <1>7
  <2> HIDE DEF P
  <2> QED BY <2>1, <1>3
<1>9. at \in [DOMAIN s -> DOMAIN entries]
  BY <1>6, <1>7
<1>10. Paths(s) \in Seq(Path) /\ DOMAIN Paths(s) = DOMAIN s
  <2>1. \A i \in DOMAIN s : s[i].path \in Path
    BY <1>7 DEF Entry
  <2>2. Paths(s) \in [1 .. Cardinality(P) -> Path] /\ DOMAIN Paths(s) = DOMAIN s
    BY <2>1, <1>3, <1>7 DEF Paths
  <2> HIDE DEF P
  <2> QED BY <2>2, <1>3
<1> QED BY <1>3, <1>7, <1>8, <1>9, <1>10 DEF s

\* What reading a directory yields is a prefix of what it lists.
LEMMA Prefix ==
    ASSUME NEW d \in Dir, read \in Reads
    PROVE  /\ Entries(d) \in Seq(Entry)
           /\ \A i \in DOMAIN Entries(d) : i \in DOMAIN Listing[d]
                                          /\ Entries(d)[i] = Listing[d][i]
<1> PICK n, L : n = read[d] /\ L = Listing[d]
  OBVIOUS
<1>1. L \in Seq(Entry) /\ n \in Nat /\ n <= Len(L)
  BY ScanAssumption DEF Entry, Path
<1>2. Len(L) \in Nat /\ DOMAIN L = 1 .. Len(L) /\ \A i \in 1 .. Len(L) : L[i] \in Entry
  BY <1>1, LenProperties, ElementOfSeq
<1>3. \A i \in 1 .. n : i \in 1 .. Len(L) /\ L[i] \in Entry
  BY <1>1, <1>2
<1>4. /\ SubSeq(L, 1, n) \in Seq(Entry) /\ Len(SubSeq(L, 1, n)) = n
      /\ \A i \in 1 .. n : SubSeq(L, 1, n)[i] = L[i]
  BY <1>1, <1>2, <1>3, SubSeqProperties
<1>5. DOMAIN SubSeq(L, 1, n) = 1 .. n
  BY <1>4, LenProperties
<1> QED BY <1>2, <1>3, <1>4, <1>5 DEF Entries

\* What scan_directory collects: of the subdirectories, each is listed there, and
\* none of them twice.
LEMMA Collected ==
    ASSUME NEW d \in Dir, read \in Reads
    PROVE  LET entries == Entries(d)
           IN  /\ Subdirs(entries) \in Seq(Dir) /\ IsInjective(Subdirs(entries))
               /\ \A i \in DOMAIN Subdirs(entries) : Lists(d, Subdirs(entries)[i])
               /\ FileNames(entries) \in Seq(Path)
               /\ ErrorRecords(entries) \in Seq(ErrorRecord)
<1> DEFINE entries == Entries(d)
           s == Typed(entries, {"directory"})
           bad == Typed(entries, {"status_error", "unknown"})
<1>1. /\ entries \in Seq(Entry)
      /\ \A i \in DOMAIN entries : i \in DOMAIN Listing[d] /\ entries[i] = Listing[d][i]
  BY Prefix
<1> HIDE DEF entries
<1>2. s \in Seq(Entry) /\ Paths(s) \in Seq(Path) /\ DOMAIN Paths(s) = DOMAIN s
  BY <1>1, TypedFacts
<1>3. PICK at \in [DOMAIN s -> DOMAIN entries] :
         /\ IsInjective(at)
         /\ \A i \in DOMAIN s : s[i] = entries[at[i]] /\ s[i].type \in {"directory"}
  BY <1>1, TypedFacts
<1>4. \A i \in DOMAIN s : /\ at[i] \in DOMAIN Listing[d] /\ s[i] = Listing[d][at[i]]
                          /\ Listing[d][at[i]].type = "directory"
                          /\ Paths(s)[i] = Listing[d][at[i]].path
  BY <1>1, <1>3 DEF Paths
<1> HIDE DEF s
<1>5. \A i \in DOMAIN s : Lists(d, Paths(s)[i]) /\ Paths(s)[i] \in Dir
  BY <1>4, TreeAssumption DEF Lists
<1>6. Paths(s) \in Seq(Dir)
  BY <1>2, <1>5, LenProperties
<1>7. \A i \in DOMAIN Listing[d] : Listing[d][i] \in Entry
  <2>1. Listing[d] \in Seq(Entry)
    BY ScanAssumption DEF Entry, Path
  <2> QED BY <2>1, LenProperties, ElementOfSeq
<1>8. IsInjective(Paths(s))
  <2>1. SUFFICES ASSUME NEW i \in DOMAIN s, NEW j \in DOMAIN s, Paths(s)[i] = Paths(s)[j]
                 PROVE  i = j
    BY <1>2 DEF IsInjective
  <2>2. Listing[d][at[i]] = Listing[d][at[j]]
    BY <2>1, <1>4, <1>7 DEF Entry
  <2>3. at[i] = at[j]
    BY <2>2, <1>4, TreeAssumption
  <2> QED BY <2>3, <1>3 DEF IsInjective
<1>9. FileNames(entries) \in Seq(Path)
  BY <1>1, TypedFacts DEF FileNames
<1>10. ErrorRecords(entries) \in Seq(ErrorRecord)
  <2>1. bad \in Seq(Entry)
    BY <1>1, TypedFacts
  <2> HIDE DEF bad
  <2>2. Len(bad) \in Nat /\ DOMAIN bad = 1 .. Len(bad) /\ \A i \in DOMAIN bad : bad[i].path \in Path
    <3>1. Len(bad) \in Nat /\ DOMAIN bad = 1 .. Len(bad)
      BY <2>1, LenProperties
    <3>2. \A i \in 1 .. Len(bad) : bad[i] \in Entry
      BY <2>1, ElementOfSeq
    <3> QED BY <3>1, <3>2 DEF Entry
  <2> DEFINE r(i) == [path |-> bad[i].path,
                      kind |-> IF bad[i].type = "unknown" THEN "Unknown" ELSE "FileError"]
  <2>3. \A i \in DOMAIN bad : r(i) \in ErrorRecord
    BY <2>2 DEF ErrorRecord
  <2>4. ErrorRecords(entries) = [i \in DOMAIN bad |-> r(i)]
    BY DEF ErrorRecords, bad
  <2> HIDE DEF r
  <2> QED BY <2>2, <2>3, <2>4
<1> QED BY <1>2, <1>5, <1>6, <1>8, <1>9, <1>10 DEF entries, s, Subdirs

\* A path is a subdirectory of one directory only, and the root of none.
LEMMA OnePlace ==
    ASSUME NEW d \in Dir, NEW e \in Dir, NEW path, Lists(d, path)
    PROVE  path # RootDir /\ (Lists(e, path) => e = d)
<1>1. \A c \in Dir : \A i \in DOMAIN Listing[c] : Listing[c][i] \in Entry
  <2>1. \A c \in Dir : Listing[c] \in Seq(Entry)
    BY ScanAssumption DEF Entry, Path
  <2> QED BY <2>1, LenProperties, ElementOfSeq
<1>2. PICK i \in DOMAIN Listing[d] : Listing[d][i].type = "directory" /\ Listing[d][i].path = path
  BY DEF Lists
<1>3. path # RootDir
  BY <1>2, TreeAssumption
<1>4. ASSUME Lists(e, path) PROVE e = d
  <2>1. PICK j \in DOMAIN Listing[e] :
           Listing[e][j].type = "directory" /\ Listing[e][j].path = path
    BY <1>4 DEF Lists
  <2>2. Listing[e][j] = Listing[d][i]
    BY <1>1, <1>2, <2>1 DEF Entry
  <2> QED BY <1>2, <2>2, TreeAssumption
<1> QED BY <1>3, <1>4

-----------------------------------------------------------------------------
(* What the steps that write the tree do *)

\* The ids a counter hands out.
LEMMA NewIdsFacts ==
    ASSUME NEW next \in Nat, NEW n \in Nat
    PROVE  /\ NewIds(next, n) \in Seq(Nat) /\ DOMAIN NewIds(next, n) = 1 .. n
           /\ Len(NewIds(next, n)) = n
           /\ \A i \in 1 .. n : NewIds(next, n)[i] = next + i - 1
           /\ IsInjective(NewIds(next, n)) /\ ToSet(NewIds(next, n)) = next .. next + n - 1
<1>1. /\ NewIds(next, n) \in [1 .. n -> Nat]
      /\ \A i \in 1 .. n : NewIds(next, n)[i] = next + i - 1
  BY DEF NewIds
<1>2. NewIds(next, n) \in Seq(Nat) /\ Len(NewIds(next, n)) = n
  BY <1>1
<1>3. IsInjective(NewIds(next, n))
  BY <1>1 DEF IsInjective
<1>4. ToSet(NewIds(next, n)) \subseteq next .. next + n - 1
  BY <1>1 DEF ToSet
<1>5. ASSUME NEW x \in next .. next + n - 1 PROVE x \in ToSet(NewIds(next, n))
  <2>1. x - next + 1 \in 1 .. n /\ next + (x - next + 1) - 1 = x
    OBVIOUS
  <2> QED BY <1>1, <2>1 DEF ToSet
<1> QED BY <1>1, <1>2, <1>3, <1>4, <1>5

\* directories and what is in it.
LEMMA NodeTypes ==
    ASSUME ScanTypes
    PROVE  /\ Len(directories) \in Nat /\ DOMAIN directories = 1 .. Len(directories)
           /\ \A i \in 1 .. Len(directories) : directories[i] \in Node
           /\ next_dir_id = Len(directories) /\ next_file_id = Len(files) /\ Len(files) \in Nat
           /\ DOMAIN files = 1 .. Len(files)
           /\ \A i \in 1 .. Len(files) : files[i] \in FileRecord
           /\ \A i \in DOMAIN directories : i - 1 \in Ids
           /\ \A t \in Ids : t + 1 \in DOMAIN directories /\ t \in Nat
BY LenProperties, ElementOfSeq DEF ScanTypes, ScanTypeOK, Ids

\* The subdirectories of w's directory become nodes, at the end of the list.
LEMMA DirsAdded ==
    ASSUME IInv, ScanTypes, ScanControl, NEW w \in Worker, AddDirs(w)
    PROVE  LET dirs == local[w].dirs
               m    == Len(directories)
           IN  /\ directories' \in Seq(Node) /\ Len(directories') = m + Len(dirs)
               /\ Len(dirs) \in Nat \ {0} /\ next_dir_id' = m + Len(dirs)
               /\ directories'[This(w)] = [directories[This(w)] EXCEPT
                                             !.subdirs = @ \o NewIds(m, Len(dirs))]
               /\ \A i \in 1 .. m : i # This(w) => directories'[i] = directories[i]
               /\ \A i \in 1 .. Len(dirs) : directories'[m + i] =
                     [id |-> m + i - 1, parent |-> task[w], path |-> dirs[i],
                      subdirs |-> <<>>, files |-> <<>>]
               /\ local' = [local EXCEPT ![w].dirs = <<>>, ![w].ids = NewIds(m, Len(dirs))]
<1> DEFINE dirs == local[w].dirs
           n == Len(dirs)
           m == Len(directories)
           ids == NewIds(next_dir_id, n)
           new == [i \in 1 .. n |-> [id |-> ids[i], parent |-> task[w], path |-> dirs[i],
                                     subdirs |-> <<>>, files |-> <<>>]]
           old == [directories EXCEPT ![This(w)].subdirs = @ \o ids]
<1>1. pc[w] \in Busy /\ hpc[w] = "add_dirs"
  BY DEF AddDirs, At, Busy
<1>2. /\ m \in Nat /\ DOMAIN directories = 1 .. m /\ directories \in Seq(Node)
      /\ next_dir_id = m /\ \A i \in 1 .. m : directories[i] \in Node
  BY NodeTypes DEF ScanTypes
<1>3. This(w) \in 1 .. m /\ task[w] \in Nat
  BY <1>1, <1>2, BusyFacts
<1>4. /\ dirs \in Seq(Dir) /\ n \in Nat \ {0} /\ \A i \in 1 .. n : dirs[i] \in Dir
  <2>1. dirs \in Seq(Dir) /\ dirs # <<>>
    BY <1>1 DEF ScanTypes, ScanControl, Locals
  <2> QED BY <2>1, EmptySeq, LenProperties, ElementOfSeq
<1> HIDE DEF dirs, n, m
<1>5. /\ ids \in Seq(Nat) /\ DOMAIN ids = 1 .. n /\ \A i \in 1 .. n : ids[i] = m + i - 1
  BY <1>2, <1>4, NewIdsFacts
<1>6. /\ directories' = old \o new /\ next_dir_id' = next_dir_id + n
      /\ local' = [local EXCEPT ![w].dirs = <<>>, ![w].ids = ids]
  BY DEF AddDirs, dirs, n
<1> HIDE DEF ids
<1>7. new \in Seq(Node) /\ Len(new) = n
  <2>1. \A i \in 1 .. n : new[i] \in Node
    <3>1. \A i \in 1 .. n : ids[i] \in Nat
      BY <1>2, <1>4, <1>5
    <3> QED BY <1>3, <1>4, <3>1, EmptySeq DEF Node
  <2>2. new \in [1 .. n -> Node]
    BY <2>1
  <2> HIDE DEF new
  <2> QED BY <2>2, <1>4
<1>8. old \in Seq(Node) /\ Len(old) = m
  <2>1. directories[This(w)] \in Node /\ directories[This(w)].subdirs \in Seq(Nat)
    BY <1>2, <1>3 DEF Node
  <2>2. directories[This(w)].subdirs \o ids \in Seq(Nat)
    BY <2>1, <1>5, ConcatProperties
  <2>3. [directories[This(w)] EXCEPT !.subdirs = @ \o ids] \in Node
    BY <2>1, <2>2 DEF Node
  <2>4. old \in [1 .. m -> Node]
    BY <2>3, <1>2, <1>3
  <2> HIDE DEF old
  <2> QED BY <2>4, <1>2
<1>9. /\ old[This(w)] = [directories[This(w)] EXCEPT !.subdirs = @ \o ids]
      /\ \A i \in 1 .. m : i # This(w) => old[i] = directories[i]
  BY <1>2, <1>3
<1>10. \A i \in 1 .. n : new[i] = [id |-> m + i - 1, parent |-> task[w], path |-> dirs[i],
                                   subdirs |-> <<>>, files |-> <<>>]
  BY <1>5
<1> HIDE DEF new, old
<1> DEFINE all == old \o new
<1> HIDE DEF all
<1>11. /\ all \in Seq(Node) /\ Len(all) = m + n
       /\ \A i \in 1 .. m + n : all[i] = IF i <= m THEN old[i] ELSE new[i - m]
  BY <1>7, <1>8, ConcatProperties DEF all
<1>12. \A i \in 1 .. m : all[i] = old[i]
  BY <1>2, <1>4, <1>11
<1>13. \A i \in 1 .. n : all[m + i] = new[i]
  <2> SUFFICES ASSUME NEW i \in 1 .. n PROVE all[m + i] = new[i]
    OBVIOUS
  <2> DEFINE p == m + i
  <2>1. p \in 1 .. m + n /\ ~(p <= m) /\ p - m = i
    BY <1>2, <1>4
  <2> HIDE DEF p
  <2>2. \A j \in 1 .. m + n : ~(j <= m) => all[j] = new[j - m]
    BY <1>11
  <2>3. all[p] = new[p - m]
    BY <2>1, <2>2
  <2> QED BY <2>1, <2>3 DEF p
<1> QED BY <1>2, <1>3, <1>4, <1>6, <1>9, <1>10, <1>11, <1>12, <1>13 DEF dirs, n, m, ids, all

\* The files of w's directory become records, at the end of the list.
LEMMA FilesAdded ==
    ASSUME IInv, ScanTypes, ScanControl, NEW w \in Worker, AddFiles(w)
    PROVE  LET names == local[w].names
               m     == Len(files)
           IN  /\ files' \in Seq(FileRecord) /\ Len(files') = m + Len(names) /\ Len(names) \in Nat
               /\ next_file_id' = m + Len(names)
               /\ \A i \in 1 .. m : files'[i] = files[i]
               /\ \A i \in 1 .. Len(names) : files'[m + i] =
                     [id |-> m + i - 1, parent |-> task[w], name |-> names[i],
                      offset |-> (i - 1 + Base(w)) % OffsetRange]
               /\ errors' = errors \o local[w].errors
               /\ local' = [local EXCEPT ![w] = [NoLocals EXCEPT !.ids = NewIds(m, Len(names))]]
<1> DEFINE names == local[w].names
           n == Len(names)
           m == Len(files)
           ids == NewIds(next_file_id, n)
           new == [i \in 1 .. n |-> [id |-> ids[i], parent |-> task[w], name |-> names[i],
                                     offset |-> (i - 1 + Base(w)) % OffsetRange]]
<1>1. pc[w] \in Busy
  BY DEF AddFiles, At, Busy
<1>2. m \in Nat /\ DOMAIN files = 1 .. m /\ files \in Seq(FileRecord) /\ next_file_id = m
  BY NodeTypes DEF ScanTypes
<1>3. task[w] \in Nat
  BY <1>1, BusyFacts
<1>4. names \in Seq(Path) /\ n \in Nat /\ \A i \in 1 .. n : names[i] \in Path
  <2>1. names \in Seq(Path)
    BY DEF ScanTypes, Locals
  <2> QED BY <2>1, LenProperties, ElementOfSeq
<1> HIDE DEF names, n, m
<1>5. DOMAIN ids = 1 .. n /\ \A i \in 1 .. n : ids[i] = m + i - 1 /\ ids[i] \in Nat
  <2>1. DOMAIN ids = 1 .. n /\ \A i \in 1 .. n : ids[i] = m + i - 1
    BY <1>2, <1>4, NewIdsFacts
  <2>2. \A i \in 1 .. n : m + i - 1 \in Nat
    BY <1>2, <1>4
  <2> QED BY <2>1, <2>2
<1>6. /\ files' = files \o new /\ errors' = errors \o local[w].errors
      /\ next_file_id' = next_file_id + n
      /\ local' = [local EXCEPT ![w] = [NoLocals EXCEPT !.ids = ids]]
  BY DEF AddFiles, names, n
<1> HIDE DEF ids
<1>7. new \in Seq(FileRecord) /\ Len(new) = n
  <2>1. Base(w) \in Nat /\ OffsetRange \in Nat \ {0}
    BY ScanAssumption DEF Base, ScanTypes, Locals
  <2>2. \A i \in 1 .. n : (i - 1 + Base(w)) % OffsetRange \in Nat
    <3>1. \A i \in 1 .. n : i - 1 + Base(w) \in Nat
      BY <2>1, <1>4
    <3> QED BY <2>1, <3>1
  <2>3. new \in [1 .. n -> FileRecord]
    BY <2>2, <1>3, <1>4, <1>5 DEF FileRecord
  <2> HIDE DEF new
  <2> QED BY <2>3, <1>4
<1>8. \A i \in 1 .. n : new[i] = [id |-> m + i - 1, parent |-> task[w], name |-> names[i],
                                  offset |-> (i - 1 + Base(w)) % OffsetRange]
  BY <1>5
<1> HIDE DEF new
<1> DEFINE all == files \o new
<1> HIDE DEF all
<1>9. /\ all \in Seq(FileRecord) /\ Len(all) = m + n
      /\ \A i \in 1 .. m + n : all[i] = IF i <= m THEN files[i] ELSE new[i - m]
  BY <1>2, <1>7, ConcatProperties DEF m, all
<1>10. \A i \in 1 .. m : all[i] = files[i]
  BY <1>2, <1>4, <1>9
<1>11. \A i \in 1 .. n : all[m + i] = new[i]
  <2> SUFFICES ASSUME NEW i \in 1 .. n PROVE all[m + i] = new[i]
    OBVIOUS
  <2> DEFINE p == m + i
  <2>1. p \in 1 .. m + n /\ ~(p <= m) /\ p - m = i
    BY <1>2, <1>4
  <2> HIDE DEF p
  <2>2. \A j \in 1 .. m + n : ~(j <= m) => all[j] = new[j - m]
    BY <1>9
  <2>3. all[p] = new[p - m]
    BY <2>1, <2>2
  <2> QED BY <2>1, <2>3 DEF p
<1> QED BY <1>2, <1>4, <1>6, <1>8, <1>9, <1>10, <1>11 DEF names, n, m, ids, all

\* w's directory gets its list of files, and nothing else changes in the list of
\* directories.
LEMMA FilesLinked ==
    ASSUME IInv, ScanTypes, ScanControl, NEW w \in Worker, LinkFiles(w)
    PROVE  /\ directories' \in Seq(Node) /\ Len(directories') = Len(directories)
           /\ directories'[This(w)] = [directories[This(w)] EXCEPT !.files = @ \o local[w].ids]
           /\ \A i \in DOMAIN directories : i # This(w) => directories'[i] = directories[i]
<1>1. pc[w] \in Busy
  BY DEF LinkFiles, At, Busy
<1>2. This(w) \in DOMAIN directories /\ directories[This(w)] \in Node
  BY <1>1, BusyFacts
<1>3. directories \in Seq(Node) /\ Len(directories) \in Nat
      /\ DOMAIN directories = 1 .. Len(directories)
  BY NodeTypes DEF ScanTypes
<1>4. local[w].ids \in Seq(Nat) /\ directories[This(w)].files \in Seq(Nat)
  BY <1>2 DEF ScanTypes, Locals, Node
<1>5. directories[This(w)].files \o local[w].ids \in Seq(Nat)
  BY <1>4, ConcatProperties
<1> DEFINE node == [directories[This(w)] EXCEPT !.files = @ \o local[w].ids]
<1>6. node \in Node
  BY <1>2, <1>5 DEF Node
<1>7. directories' = [directories EXCEPT ![This(w)] = node]
  BY DEF LinkFiles
<1> HIDE DEF node
<1>8. directories' \in Seq(Node) /\ Len(directories') = Len(directories)
  BY <1>2, <1>3, <1>6, <1>7
<1> QED BY <1>2, <1>7, <1>8 DEF node

-----------------------------------------------------------------------------
(* What active_tasks counts *)

\* The scans that are announced and not yet nodes.
Arriving == {p \in Announced : p[2] < Len(local[p[1]].dirs)}

\* The two sets whose sizes active_tasks is the sum of.
LEMMA CountFacts ==
    ASSUME ScanTypes, TreeShaped
    PROVE  /\ Pending = Ids \ DoneUpTo(AfterCount)
           /\ IsFiniteSet(Pending) /\ IsFiniteSet(Arriving)
           /\ Cardinality(Pending) \in Nat /\ Cardinality(Arriving) \in Nat
           /\ ActiveTasksExact => active_tasks = Cardinality(Pending) + Cardinality(Arriving)
<1>1. /\ Len(directories) \in Nat /\ DOMAIN directories = 1 .. Len(directories)
      /\ \A i \in DOMAIN directories : directories[i].id = i - 1 /\ i - 1 \in Ids
      /\ \A t \in Ids : t + 1 \in DOMAIN directories /\ t \in Nat /\ t + 1 - 1 = t
  BY NodeTypes DEF TreeShaped
<1>2. {d.id : d \in ToSet(directories)} = Ids
  <2>1. \A d \in ToSet(directories) : d.id \in Ids
    BY <1>1 DEF ToSet
  <2>2. \A t \in Ids : directories[t + 1] \in ToSet(directories) /\ directories[t + 1].id = t
    BY <1>1 DEF ToSet
  <2> QED BY <2>1, <2>2
<1>3. Pending = Ids \ DoneUpTo(AfterCount)
  BY <1>2 DEF Pending, Scanned, DoneUpTo, AfterCount
<1>4. IsFiniteSet(Ids)
  BY <1>1, FS_Interval DEF Ids
<1>5. IsFiniteSet(Pending)
  BY <1>3, <1>4, FS_Subset
<1>6. IsFiniteSet(Worker \X Task)
  <2>1. IsFiniteSet(Worker) /\ IsFiniteSet(Task)
    BY WorkersAssumption, TaskAssumption, FS_Interval DEF Worker
  <2> QED BY <2>1, FS_Product
<1>7. Arriving \subseteq Worker \X Task
  BY DEF Arriving, Announced
<1>8. IsFiniteSet(Arriving)
  BY <1>6, <1>7, FS_Subset
<1> QED BY <1>3, <1>5, <1>8, FS_CardinalityType DEF ActiveTasksExact, Arriving

\* While a scan is under way, active_tasks is not zero.
LEMMA BusyCounted ==
    ASSUME IInv, ScanTypes, ScanControl, TreeShaped, ActiveTasksExact,
           NEW w \in Worker, pc[w] \in Busy, hpc[w] \notin AfterCount
    PROVE  active_tasks > 0
<1>1. task[w] \in Ids /\ task[w] \notin DoneUpTo(AfterCount)
  BY BusyFacts, StageOf
<1>2. Pending # {} /\ IsFiniteSet(Pending)
  BY <1>1, CountFacts
<1>3. Cardinality(Pending) # 0
  BY <1>2, FS_EmptySet
<1> QED BY <1>3, CountFacts

-----------------------------------------------------------------------------
(* The steps keep the invariant: types and control *)

\* The steps of build that touch neither the tree nor a counter.
Quiet == StartPool \/ LoadActive \/ WaitActive \/ Finish \/ DestroyPool

\* What a worker does outside scan_directory.
Elsewhere(w) == InPool(PoolStep(w) \/ WaitLock(w) \/ SpuriousWake(w))

LEMMA NextCases ==
    [Next]_vars =>
        \/ RejectRoot \/ CreateRoot \/ Quiet \/ UNCHANGED vars
        \/ \E w \in Worker :
              \/ List(w) \/ CountDirs(w) \/ AddDirs(w) \/ Submit(w) \/ AddNames(w) \/ AddFiles(w)
              \/ LinkFiles(w) \/ CountDown(w) \/ NotifyMain(w) \/ Return(w) \/ Elsewhere(w)
BY DEF Next, Build, Quiet, ScanStep, Elsewhere

LEMMA TypesStep == ScanInv /\ [Next]_vars => ScanTypes'
<1> SUFFICES ASSUME ScanInv, [Next]_vars PROVE ScanTypes'
  OBVIOUS
<1>1. IInv /\ ScanTypes /\ ScanControl /\ TreeShaped /\ ActiveTasksExact /\ IInv'
  BY ScanStepsPool, NextIInv DEF ScanInv, ShapeInv
<1> DEFINE Built == /\ directories \in Seq(Node) /\ next_dir_id = Len(directories)
           Filed == /\ files \in Seq(FileRecord) /\ next_file_id = Len(files)
           Rest == /\ errors \in Seq(ErrorRecord) /\ file_names \in Seq(Path)
                   /\ active_tasks \in Nat /\ expected \in Nat
                   /\ build_pc \in {"validate", "start", "load", "wait", "blocked", "finish",
                                    "moved", "returned"}
                   /\ read \in Reads
           Work == /\ local \in [Worker -> Locals]
                   /\ hpc \in [Worker -> ScanLabel]
                   /\ \A w \in Worker : pc[w] \notin {"exec", "notify"} => hpc[w] = "list"
<1>2. Built /\ Filed /\ Rest /\ Work
  BY <1>1 DEF ScanTypes, ScanTypeOK, ScanLabel
<1>3. SUFFICES Built' /\ Filed' /\ Rest' /\ Work'
  BY DEF ScanTypes, ScanTypeOK, ScanLabel
<1> DEFINE Goal == Built' /\ Filed' /\ Rest' /\ Work'
<1>p. pc \in [Worker -> Label]
  BY <1>1 DEF IInv, PoolTypeOK
<1>l. \A w \in Worker : local[w] \in Locals
  BY <1>2
<1>n. <<>> \in Seq(Dir) /\ <<>> \in Seq(Path) /\ <<>> \in Seq(ErrorRecord) /\ <<>> \in Seq(Nat)
      /\ NoLocals \in Locals
  BY EmptySeq DEF NoLocals, Locals
<1> USE DEF tree, counters, At, To, ScanLabel
<1>4. CASE RejectRoot
  <2>1. PICK status \in RootStatus \ {"directory"} :
           errors' = Append(errors, [path |-> RootDir, kind |-> IF status = "not_a_directory"
                                                               THEN "IOError" ELSE "NotFound"])
    BY <1>4 DEF RejectRoot
  <2> DEFINE e == [path |-> RootDir, kind |-> IF status = "not_a_directory"
                                             THEN "IOError" ELSE "NotFound"]
  <2>2. e \in ErrorRecord
    BY ScanAssumption DEF ErrorRecord, Path
  <2> HIDE DEF e
  <2>3. errors' \in Seq(ErrorRecord)
    BY <1>2, <2>1, <2>2, LastAdded DEF e
  <2> QED BY <1>2, <1>4, <2>3 DEF RejectRoot, pool_vars
<1>5. CASE CreateRoot
  <2> DEFINE root == [id |-> next_dir_id, parent |-> Nobody, path |-> RootDir,
                      subdirs |-> <<>>, files |-> <<>>]
  <2>1. root \in Node
    BY <1>2, <1>n, ScanAssumption, LenProperties DEF Node
  <2>2. directories' = Append(directories, root)
    BY <1>5 DEF CreateRoot
  <2> HIDE DEF root
  <2>3. directories' \in Seq(Node) /\ Len(directories') = Len(directories) + 1
    BY <1>2, <2>1, <2>2, AppendProperties
  <2> QED BY <1>2, <1>5, <2>3 DEF CreateRoot, pool_vars
<1>6. CASE Quiet
  <2>1. Built' /\ Filed'
    BY <1>2, <1>6 DEF Quiet, StartPool, LoadActive, WaitActive, Finish, DestroyPool
  <2>2. Rest'
    BY <1>2, <1>6 DEF Quiet, StartPool, LoadActive, WaitActive, Finish, DestroyPool
  <2>3. UNCHANGED <<local, hpc>>
    BY <1>6 DEF Quiet, StartPool, LoadActive, WaitActive, Finish, DestroyPool
  <2>4. \A w \in Worker : pc'[w] \notin {"exec", "notify"} => pc[w] \notin {"exec", "notify"}
    <3>1. CASE UNCHANGED pool_vars
      BY <3>1 DEF pool_vars
    <3>2. CASE StartPush \/ DestroyStop \/ DestroyJoin \/ DestroyNotifyAll
      BY <1>p, <3>2 DEF StartPush, DestroyStop, DestroyJoin, DestroyNotifyAll
    <3>3. ASSUME NEW v \in Worker, StartSpawn(v)
          PROVE  \A w \in Worker : pc'[w] \notin {"exec", "notify"} => pc[w] \notin {"exec", "notify"}
      BY <1>p, <3>3 DEF StartSpawn, Goto
    <3> QED BY <1>6, <3>1, <3>2, <3>3 DEF Quiet, StartPool, LoadActive, WaitActive, Finish,
               DestroyPool, Start, Destroy
  <2> QED BY <1>2, <2>1, <2>2, <2>3, <2>4
<1>7. CASE UNCHANGED vars
  BY <1>2, <1>7 DEF vars, pool_vars, scan_vars
<1>8. ASSUME NEW w \in Worker, List(w) PROVE Goal
  <2> DEFINE d == directories[This(w)].path
  <2>1. d \in Dir
    BY <1>1, <1>8, BusyFacts DEF List, Busy
  <2> DEFINE entries == Entries(d)
  <2>2. /\ local' = [local EXCEPT ![w] = [NoLocals EXCEPT
                            !.dirs = Subdirs(entries), !.names = FileNames(entries),
                            !.errors = ErrorRecords(entries)]]
        /\ To(w, IF Subdirs(entries) = <<>> THEN "arena" ELSE "count")
    BY <1>8 DEF List
  <2> DEFINE loc == [NoLocals EXCEPT !.dirs = Subdirs(entries), !.names = FileNames(entries),
                                     !.errors = ErrorRecords(entries)]
  <2>3. /\ Subdirs(entries) \in Seq(Dir) /\ FileNames(entries) \in Seq(Path)
        /\ ErrorRecords(entries) \in Seq(ErrorRecord)
    BY <1>2, <2>1, Collected
  <2>4. local' = [local EXCEPT ![w] = loc]
    BY <2>2
  <2>5. read' = read
    BY <1>8 DEF List
  <2>6. PICK label \in ScanLabel : hpc' = [hpc EXCEPT ![w] = label]
    BY <2>2
  <2> HIDE DEF entries, d
  <2>7. loc \in Locals
    BY <1>n, <2>3 DEF Locals, NoLocals
  <2> HIDE DEF loc
  <2>8. Work'
    BY <1>2, <1>8, <2>4, <2>6, <2>7 DEF List, pool_vars
  <2> QED BY <1>2, <1>8, <2>5, <2>8 DEF List
<1>9. ASSUME NEW w \in Worker, CountDirs(w) PROVE Goal
  <2>1. Len(local[w].dirs) \in Nat
    BY <1>l, LenProperties DEF Locals
  <2> QED BY <1>2, <1>9, <2>1 DEF CountDirs, pool_vars
<1>10. ASSUME NEW w \in Worker, AddDirs(w) PROVE Goal
  <2>1. /\ directories' \in Seq(Node)
        /\ Len(directories') = Len(directories) + Len(local[w].dirs)
        /\ next_dir_id' = Len(directories) + Len(local[w].dirs)
        /\ Len(local[w].dirs) \in Nat
        /\ local' = [local EXCEPT ![w].dirs = <<>>,
                                  ![w].ids = NewIds(Len(directories), Len(local[w].dirs))]
    BY <1>1, <1>10, DirsAdded
  <2>2. NewIds(Len(directories), Len(local[w].dirs)) \in Seq(Nat)
    BY <1>1, <2>1, NewIdsFacts, NodeTypes
  <2>3. \A ids \in Seq(Nat) : [local[w] EXCEPT !.dirs = <<>>, !.ids = ids] \in Locals
    BY <1>l, <1>n DEF Locals
  <2>4. Work'
    BY <1>2, <1>10, <2>1, <2>2, <2>3, ZenonT(40) DEF AddDirs, pool_vars
  <2> QED BY <1>2, <1>10, <2>1, <2>4 DEF AddDirs
<1>11. ASSUME NEW w \in Worker, Submit(w) PROVE Goal
  <2>1. local[w].ids \in Seq(Nat) /\ local[w].ids # <<>>
    BY <1>1, <1>l, <1>11 DEF Submit, Locals, ScanControl
  <2>2. [local[w] EXCEPT !.ids = Tail(@)] \in Locals
    <3>1. Tail(local[w].ids) \in Seq(Nat) /\ local[w] \in Locals
      BY <1>l, <2>1, HeadTaken
    <3> QED BY <3>1 DEF Locals
  <2>3. /\ local' = [local EXCEPT ![w] = [local[w] EXCEPT !.ids = Tail(@)]]
        /\ pc' = [pc EXCEPT ![w] = "notify"] /\ hpc[w] = "submit"
        /\ \E label \in ScanLabel : hpc' = [hpc EXCEPT ![w] = label]
    BY <1>11 DEF Submit, SubmitPush, Goto
  <2>4. Work'
    BY <1>2, <1>p, <2>2, <2>3
  <2> QED BY <1>2, <1>11, <2>4 DEF Submit
<1>12. ASSUME NEW w \in Worker, AddNames(w) PROVE Goal
  <2>1. file_names' \in Seq(Path) /\ Len(file_names) \in Nat
    BY <1>2, <1>l, <1>12, ConcatProperties, LenProperties DEF AddNames, Locals
  <2>2. \A b \in Nat : [local[w] EXCEPT !.base = b] \in Locals
    BY <1>l DEF Locals
  <2>3. PICK b \in Nat : local' = [local EXCEPT ![w] = [local[w] EXCEPT !.base = b]]
    BY <1>12, <2>1 DEF AddNames
  <2>4. Work'
    BY <1>2, <1>12, <2>2, <2>3 DEF AddNames, pool_vars
  <2> QED BY <1>2, <1>12, <2>1, <2>4 DEF AddNames
<1>13. ASSUME NEW w \in Worker, AddFiles(w) PROVE Goal
  <2>1. /\ Filed' /\ Len(local[w].names) \in Nat
        /\ local' = [local EXCEPT ![w] = [NoLocals EXCEPT
                                            !.ids = NewIds(Len(files), Len(local[w].names))]]
    BY <1>1, <1>13, FilesAdded
  <2>2. NewIds(Len(files), Len(local[w].names)) \in Seq(Nat)
    BY <1>1, <2>1, NewIdsFacts, NodeTypes
  <2>3. \A ids \in Seq(Nat) : [NoLocals EXCEPT !.ids = ids] \in Locals
    BY <1>n DEF Locals, NoLocals
  <2>4. errors' \in Seq(ErrorRecord)
    BY <1>2, <1>l, <1>13, ConcatProperties DEF AddFiles, Locals
  <2>5. Work'
    BY <1>2, <1>13, <2>1, <2>2, <2>3 DEF AddFiles, pool_vars
  <2> QED BY <1>2, <1>13, <2>1, <2>4, <2>5 DEF AddFiles
<1>14. ASSUME NEW w \in Worker, LinkFiles(w) PROVE Goal
  <2>1. Built'
    BY <1>1, <1>2, <1>14, FilesLinked DEF LinkFiles
  <2>2. Work'
    BY <1>2, <1>n, <1>14 DEF LinkFiles, pool_vars
  <2> QED BY <1>2, <1>14, <2>1, <2>2 DEF LinkFiles
<1>15. ASSUME NEW w \in Worker, CountDown(w) PROVE Goal
  <2>1. active_tasks > 0
    BY <1>1, <1>15, BusyCounted DEF CountDown, Busy, AfterCount
  <2>2. active_tasks - 1 \in Nat
    BY <1>2, <2>1
  <2> QED BY <1>2, <1>15, <2>2 DEF CountDown, pool_vars
<1>16. ASSUME NEW w \in Worker, NotifyMain(w) PROVE Goal
  BY <1>2, <1>16 DEF NotifyMain, pool_vars
<1>17. ASSUME NEW w \in Worker, Return(w) PROVE Goal
  BY <1>2, <1>p, <1>17 DEF Return, HandlerReturn, Goto
<1>18. ASSUME NEW w \in Worker, Elsewhere(w) PROVE Goal
  BY <1>1, <1>2, <1>18, PoolFrame DEF Elsewhere, scan_vars, Busy
<1> HIDE DEF Goal
<1> QED BY <1>4, <1>5, <1>6, <1>7, <1>8, <1>9, <1>10, <1>11, <1>12, <1>13, <1>14, <1>15, <1>16,
           <1>17, <1>18, NextCases DEF Goal

LEMMA ScanControlStep == ScanInv /\ [Next]_vars => ScanControl'
<1> SUFFICES ASSUME ScanInv, [Next]_vars PROVE ScanControl'
  OBVIOUS
<1>1. /\ IInv /\ ScanTypes /\ ScanControl /\ TreeShaped /\ ActiveTasksExact /\ ScanTypes'
  BY TypesStep DEF ScanInv, ShapeInv
<1> DEFINE Worked(w) ==
               /\ hpc[w] # "list" => pc[w] \in Busy
               /\ hpc[w] \in {"count", "add_dirs"} => local[w].dirs # <<>>
               /\ hpc[w] = "submit" => local[w].ids # <<>> /\ ToSet(local[w].ids) \subseteq Ids
               /\ hpc[w] = "link" => ToSet(local[w].ids) \subseteq 0 .. Len(files) - 1
           Main ==
               /\ build_pc = "validate" => directories = <<>> /\ errors = <<>>
               /\ build_pc \notin {"validate", "returned"} => directories # <<>>
               /\ build_pc = "returned" /\ directories = <<>> => Len(errors) = 1
               /\ build_pc \in {"finish", "moved", "returned"} => active_tasks = 0
           Goal == (\A u \in Worker : Worked(u)') /\ submitted' \subseteq Ids' /\ Main'
<1>2. (\A u \in Worker : Worked(u)) /\ submitted \subseteq Ids /\ Main
  BY <1>1 DEF ScanControl
<1>3. SUFFICES Goal
  BY DEF ScanControl
<1>t. /\ pc \in [Worker -> Label] /\ task \in [Worker -> Task \cup {NoTask}]
      /\ hpc \in [Worker -> ScanLabel] /\ local \in [Worker -> Locals]
      /\ Len(directories) \in Nat /\ Len(files) \in Nat
      /\ directories \in Seq(Node) /\ active_tasks \in Nat
  BY <1>1, NodeTypes DEF IInv, PoolTypeOK, ScanTypes, ScanTypeOK, ScanLabel
\* The tree only grows.
<1>g. ASSUME Len(directories') >= Len(directories), Len(files') >= Len(files),
             Len(directories') \in Nat, Len(files') \in Nat
      PROVE  Ids \subseteq Ids' /\ 0 .. Len(files) - 1 \subseteq 0 .. Len(files') - 1
  BY <1>t, <1>g DEF Ids
\* Only a worker that scans takes the tree's steps: there is a directory, and
\* build has not read zero.
<1>b. ASSUME NEW w \in Worker, pc[w] \in Busy
      PROVE  /\ directories # <<>> /\ build_pc # "validate"
             /\ hpc[w] \notin AfterCount => build_pc \notin {"finish", "moved", "returned"}
  <2>1. task[w] \in Ids
    BY <1>1, <1>b, BusyFacts
  <2>2. Len(directories) # 0
    BY <2>1, <1>t DEF Ids
  <2>3. directories # <<>>
    BY <2>2, <1>t, EmptySeq
  <2>4. hpc[w] \notin AfterCount => active_tasks > 0
    BY <1>1, <1>b, BusyCounted
  <2> QED BY <2>3, <2>4, <1>2, <1>t
\* A list that gets longer is not empty.
<1>e. ASSUME directories # <<>>, Len(directories') >= Len(directories), ScanTypes'
      PROVE  directories' # <<>> /\ directories # <<>>
  BY <1>e, <1>t, EmptySeq, NodeTypes DEF ScanTypes
<1> USE DEF tree, counters, At, To
<1>4. CASE RejectRoot
  <2>1. directories = <<>> /\ errors = <<>>
    BY <1>2, <1>4 DEF RejectRoot
  <2>2. Ids = {}
    BY <2>1, <1>t, EmptySeq DEF Ids
  <2>3. Arriving = {}
    <3>1. SUFFICES ASSUME NEW p \in Announced PROVE FALSE
      BY DEF Arriving
    <3>2. p[1] \in Worker /\ hpc[p[1]] = "add_dirs"
      BY <3>1 DEF Announced
    <3> QED BY <2>1, <3>2, <1>2, <1>b
  <2>4. active_tasks = 0
    BY <1>1, <2>2, <2>3, CountFacts, FS_EmptySet
  <2>5. Len(errors') = 1
    <3>1. PICK e : errors' = Append(<<>>, e)
      BY <2>1, <1>4 DEF RejectRoot
    <3> QED BY <3>1
  <2>6. \A u \in Worker : Worked(u)'
    BY <1>2, <1>4 DEF RejectRoot, pool_vars, Ids
  <2> QED BY <1>2, <1>4, <2>1, <2>4, <2>5, <2>6 DEF RejectRoot, pool_vars, Ids
<1>5. CASE CreateRoot
  <2>1. directories = <<>> /\ directories' # <<>> /\ Len(directories) = 0
        /\ Len(directories') \in Nat /\ files' = files
    <3>1. directories = <<>> /\ files' = files
      BY <1>2, <1>5 DEF CreateRoot
    <3>2. Len(directories') \in Nat
      BY <1>1, NodeTypes
    <3>3. PICK x : directories' = Append(<<>>, x)
      BY <3>1, <1>5 DEF CreateRoot
    <3> QED BY <3>1, <3>2, <3>3
  <2>2. Ids \subseteq Ids'
    BY <2>1 DEF Ids
  <2>3. \A u \in Worker : Worked(u)'
    BY <1>2, <1>5, <2>1, <2>2 DEF CreateRoot, pool_vars
  <2>4. Main'
    BY <2>1, <1>5 DEF CreateRoot
  <2> QED BY <1>2, <1>5, <2>2, <2>3, <2>4 DEF CreateRoot, pool_vars
<1>6. CASE Quiet
  <2>1. UNCHANGED <<directories, files, errors, active_tasks, local, hpc>>
    BY <1>6 DEF Quiet, StartPool, LoadActive, WaitActive, Finish, DestroyPool
  <2>2. \A w \in Worker : pc[w] \in Busy => pc'[w] \in Busy
    <3>1. CASE UNCHANGED pool_vars
      BY <3>1 DEF pool_vars
    <3>2. CASE StartPush \/ DestroyStop \/ DestroyJoin \/ DestroyNotifyAll
      BY <1>t, <3>2 DEF StartPush, DestroyStop, DestroyJoin, DestroyNotifyAll, Busy
    <3>3. ASSUME NEW v \in Worker, StartSpawn(v)
          PROVE  \A w \in Worker : pc[w] \in Busy => pc'[w] \in Busy
      BY <1>t, <3>3 DEF StartSpawn, Goto, Busy
    <3> QED BY <1>6, <3>1, <3>2, <3>3 DEF Quiet, StartPool, LoadActive, WaitActive, Finish,
               DestroyPool, Start, Destroy
  <2>3. \A u \in Worker : Worked(u)'
    BY <1>2, <2>1, <2>2 DEF Ids
  <2>4. submitted' \subseteq Ids
    <3>1. CASE StartPush
      <4>1. directories # <<>> /\ submitted' = submitted \cup {Root}
        BY <1>2, <1>6, <3>1 DEF Quiet, StartPool, LoadActive, WaitActive, Finish, DestroyPool,
              StartPush, Destroy, DestroyStop, DestroyNotifyAll, DestroyJoin, pool_vars
      <4>2. Root \in Ids
        BY <4>1, <1>t, ScanAssumption, EmptySeq DEF Ids
      <4> QED BY <1>2, <4>1, <4>2
    <3>2. CASE ~StartPush
      BY <1>2, <1>6, <3>2 DEF Quiet, StartPool, LoadActive, WaitActive, Finish, DestroyPool,
            Start, StartSpawn, Destroy, DestroyStop, DestroyNotifyAll, DestroyJoin, pool_vars
    <3> QED BY <3>1, <3>2
  <2>5. Main'
    BY <1>2, <1>6, <2>1 DEF Quiet, StartPool, LoadActive, WaitActive, Finish, DestroyPool
  <2> QED BY <2>1, <2>3, <2>4, <2>5 DEF Ids
<1>7. CASE UNCHANGED vars
  BY <1>2, <1>7 DEF vars, pool_vars, scan_vars, Ids
<1>8. ASSUME NEW w \in Worker, List(w) PROVE Goal
  <2>1. PICK entries :
           /\ local' = [local EXCEPT ![w] = [NoLocals EXCEPT
                            !.dirs = Subdirs(entries), !.names = FileNames(entries),
                            !.errors = ErrorRecords(entries)]]
           /\ To(w, IF Subdirs(entries) = <<>> THEN "arena" ELSE "count")
    BY <1>8 DEF List
  <2>2. /\ UNCHANGED <<pc, submitted, directories, files, errors, active_tasks, build_pc>>
        /\ pc[w] \in Busy
    BY <1>8 DEF List, pool_vars, Busy
  <2>3. local'[w].dirs = Subdirs(entries)
    BY <1>t, <2>1 DEF NoLocals
  <2>4. Worked(w)'
    BY <1>t, <2>1, <2>2, <2>3
  <2>5. \A u \in Worker : Worked(u)'
    BY <1>2, <1>t, <2>1, <2>2, <2>4 DEF Ids
  <2> QED BY <1>2, <2>2, <2>5 DEF Ids
<1>9. ASSUME NEW w \in Worker, CountDirs(w) PROVE Goal
  <2>1. /\ UNCHANGED <<pc, submitted, directories, files, errors, local, build_pc>>
        /\ pc[w] \in Busy /\ hpc[w] = "count" /\ hpc' = [hpc EXCEPT ![w] = "add_dirs"]
    BY <1>9 DEF CountDirs, pool_vars, Busy
  <2>2. Main'
    BY <1>2, <1>b, <2>1 DEF AfterCount
  <2>3. \A u \in Worker : Worked(u)'
    BY <1>2, <1>t, <2>1 DEF Ids
  <2> QED BY <1>2, <2>1, <2>2, <2>3 DEF Ids
<1>10. ASSUME NEW w \in Worker, AddDirs(w) PROVE Goal
  <2> DEFINE n == Len(local[w].dirs)
  <2>1. /\ Len(directories') = Len(directories) + n /\ n \in Nat \ {0}
        /\ local' = [local EXCEPT ![w].dirs = <<>>, ![w].ids = NewIds(Len(directories), n)]
    BY <1>1, <1>10, DirsAdded
  <2>2. /\ UNCHANGED <<pc, submitted, files, errors, active_tasks, build_pc>>
        /\ pc[w] \in Busy /\ hpc[w] = "add_dirs" /\ hpc' = [hpc EXCEPT ![w] = "submit"]
    BY <1>10 DEF AddDirs, pool_vars, Busy
  <2> HIDE DEF n
  <2>3. /\ NewIds(Len(directories), n) # <<>> /\ ToSet(NewIds(Len(directories), n)) \subseteq Ids'
    <3>1. /\ ToSet(NewIds(Len(directories), n)) = Len(directories) .. Len(directories) + n - 1
          /\ Len(NewIds(Len(directories), n)) = n /\ NewIds(Len(directories), n) \in Seq(Nat)
      BY <1>t, <2>1, NewIdsFacts
    <3>2. NewIds(Len(directories), n) # <<>>
      BY <3>1, <2>1, EmptySeq
    <3> QED BY <1>t, <2>1, <3>1, <3>2 DEF Ids
  <2>4. Ids \subseteq Ids'
    BY <1>t, <2>1 DEF Ids
  <2>5. local'[w].ids = NewIds(Len(directories), n)
    BY <1>t, <2>1 DEF Locals
  <2>6. Worked(w)'
    BY <1>t, <2>2, <2>3, <2>5
  <2>7. \A u \in Worker : u # w => local'[u] = local[u] /\ hpc'[u] = hpc[u]
    BY <1>t, <2>1, <2>2
  <2>8. \A u \in Worker : Worked(u)'
    BY <1>2, <2>2, <2>4, <2>6, <2>7
  <2>9. Main'
    BY <1>1, <1>2, <1>b, <1>e, <1>t, <2>1, <2>2 DEF AfterCount
  <2> QED BY <1>2, <2>2, <2>4, <2>8, <2>9
<1>11. ASSUME NEW w \in Worker, Submit(w) PROVE Goal
  <2> DEFINE ids == local[w].ids
  <2>1. /\ UNCHANGED <<directories, files, errors, active_tasks, build_pc>>
        /\ pc[w] \in Busy /\ pc' = [pc EXCEPT ![w] = "notify"] /\ hpc[w] = "submit"
        /\ hpc' = [hpc EXCEPT ![w] = IF Len(ids) = 1 THEN "arena" ELSE "submit"]
        /\ local' = [local EXCEPT ![w] = [local[w] EXCEPT !.ids = Tail(ids)]]
        /\ submitted' = submitted \cup {Head(ids)}
    BY <1>11 DEF Submit, SubmitPush, Goto, Busy
  <2>2. ids # <<>> /\ ids \in Seq(Nat) /\ ToSet(ids) \subseteq Ids
    BY <1>2, <1>t, <2>1 DEF Locals
  <2>3. local'[w].ids = Tail(ids)
    BY <1>t, <2>1 DEF Locals
  <2> HIDE DEF ids
  <2>4. Head(ids) \in Ids /\ ToSet(Tail(ids)) \subseteq Ids
    BY <2>2, HeadTaken
  <2>5. Len(ids) # 1 => Tail(ids) # <<>>
    <3>1. Len(ids) \in Nat \ {0} /\ Len(Tail(ids)) = Len(ids) - 1
      BY <2>2, EmptySeq, HeadTailProperties, LenProperties
    <3>2. Len(<<>>) = 0
      BY EmptySeq
    <3>3. SUFFICES ASSUME Len(ids) # 1, Tail(ids) = <<>> PROVE FALSE
      OBVIOUS
    <3>4. Len(Tail(ids)) = 0
      BY <3>2, <3>3
    <3> QED BY <3>1, <3>3, <3>4
  <2>6. Worked(w)'
    BY <1>t, <2>1, <2>3, <2>4, <2>5 DEF Busy, Ids
  <2>7. \A u \in Worker : u # w => local'[u] = local[u] /\ hpc'[u] = hpc[u] /\ pc'[u] = pc[u]
    BY <1>t, <2>1
  <2>8. \A u \in Worker : Worked(u)'
    BY <1>2, <2>1, <2>6, <2>7 DEF Ids
  <2> QED BY <1>2, <2>1, <2>4, <2>8 DEF Ids
<1>12. ASSUME NEW w \in Worker, AddNames(w) PROVE Goal
  <2>1. /\ UNCHANGED <<pc, submitted, directories, files, errors, active_tasks, build_pc>>
        /\ pc[w] \in Busy /\ hpc' = [hpc EXCEPT ![w] = "add_files"]
        /\ \A u \in Worker : u # w => local'[u] = local[u]
    BY <1>t, <1>12 DEF AddNames, pool_vars, Busy
  <2>2. \A u \in Worker : Worked(u)'
    BY <1>2, <1>t, <2>1 DEF Ids
  <2> QED BY <1>2, <2>1, <2>2 DEF Ids
<1>13. ASSUME NEW w \in Worker, AddFiles(w) PROVE Goal
  <2> DEFINE n == Len(local[w].names)
  <2>1. /\ Len(files') = Len(files) + n /\ n \in Nat
        /\ local' = [local EXCEPT ![w] = [NoLocals EXCEPT !.ids = NewIds(Len(files), n)]]
    BY <1>1, <1>13, FilesAdded
  <2>2. /\ UNCHANGED <<pc, submitted, directories, active_tasks, build_pc>>
        /\ pc[w] \in Busy /\ hpc[w] = "add_files"
        /\ \E label \in {"finished", "link"} : hpc' = [hpc EXCEPT ![w] = label]
    BY <1>13 DEF AddFiles, pool_vars, Busy
  <2> HIDE DEF n
  <2>3. ToSet(NewIds(Len(files), n)) \subseteq 0 .. Len(files') - 1
    <3>1. ToSet(NewIds(Len(files), n)) = Len(files) .. Len(files) + n - 1
      BY <1>t, <2>1, NewIdsFacts
    <3> QED BY <1>t, <2>1, <3>1
  <2>4. 0 .. Len(files) - 1 \subseteq 0 .. Len(files') - 1
    BY <1>t, <2>1
  <2>5. local'[w].ids = NewIds(Len(files), n)
    BY <1>t, <2>1 DEF NoLocals
  <2>6. Worked(w)'
    BY <1>t, <2>2, <2>3, <2>5
  <2>7. \A u \in Worker : u # w => local'[u] = local[u] /\ hpc'[u] = hpc[u]
    BY <1>t, <2>1, <2>2
  <2>8. \A u \in Worker : Worked(u)'
    BY <1>2, <2>2, <2>4, <2>6, <2>7 DEF Ids
  <2>9. Main'
    BY <1>2, <1>b, <2>2 DEF AfterCount
  <2> QED BY <1>2, <2>2, <2>8, <2>9 DEF Ids
<1>14. ASSUME NEW w \in Worker, LinkFiles(w) PROVE Goal
  <2>1. Len(directories') = Len(directories)
    BY <1>1, <1>14, FilesLinked
  <2>2. /\ UNCHANGED <<pc, submitted, files, errors, active_tasks, build_pc>>
        /\ pc[w] \in Busy /\ hpc[w] = "link" /\ hpc' = [hpc EXCEPT ![w] = "finished"]
        /\ \A u \in Worker : u # w => local'[u] = local[u]
    BY <1>t, <1>14 DEF LinkFiles, pool_vars, Busy
  <2>3. Ids' = Ids
    BY <2>1 DEF Ids
  <2>4. \A u \in Worker : Worked(u)'
    BY <1>2, <1>t, <2>2, <2>3
  <2>5. Main'
    BY <1>1, <1>2, <1>b, <1>e, <1>t, <2>1, <2>2 DEF AfterCount
  <2> QED BY <1>2, <2>2, <2>3, <2>4, <2>5
<1>15. ASSUME NEW w \in Worker, CountDown(w) \/ NotifyMain(w) PROVE Goal
  <2>1. /\ UNCHANGED <<pc, submitted, directories, files, errors, local>>
        /\ pc[w] \in Busy
        /\ \E label \in AfterCount : hpc' = [hpc EXCEPT ![w] = label]
    BY <1>15 DEF CountDown, NotifyMain, pool_vars, Busy, AfterCount
  <2>2. Main'
    <3>1. CASE CountDown(w)
      BY <1>2, <1>b, <2>1, <3>1 DEF CountDown, AfterCount
    <3>2. CASE NotifyMain(w)
      BY <1>2, <2>1, <3>2 DEF NotifyMain
    <3> QED BY <1>15, <3>1, <3>2
  <2>3. \A u \in Worker : Worked(u)'
    BY <1>2, <1>t, <2>1 DEF Ids, AfterCount
  <2> QED BY <1>2, <2>1, <2>2, <2>3 DEF Ids
<1>16. ASSUME NEW w \in Worker, Return(w) PROVE Goal
  <2>1. /\ UNCHANGED <<submitted, directories, files, errors, active_tasks, local, build_pc>>
        /\ hpc' = [hpc EXCEPT ![w] = "list"] /\ pc' = [pc EXCEPT ![w] = "loop"]
    BY <1>16 DEF Return, HandlerReturn, Goto
  <2>2. \A u \in Worker : Worked(u)'
    BY <1>2, <1>t, <2>1 DEF Ids
  <2> QED BY <1>2, <2>1, <2>2 DEF Ids
<1>17. ASSUME NEW w \in Worker, Elsewhere(w) PROVE Goal
  BY <1>1, <1>2, <1>17, PoolFrame DEF Elsewhere, scan_vars, Ids
<1> HIDE DEF Goal
<1> QED BY <1>4, <1>5, <1>6, <1>7, <1>8, <1>9, <1>10, <1>11, <1>12, <1>13, <1>14, <1>15, <1>16,
           <1>17, NextCases DEF Goal

-----------------------------------------------------------------------------
(* The steps keep the invariant: the shape of the tree *)

\* The steps that write to the lists of nodes and of files.
LEMMA TreeWriters ==
    ASSUME IInv, [Next]_vars
    PROVE  \/ UNCHANGED <<directories, files>> \/ CreateRoot
           \/ \E w \in Worker : AddDirs(w) \/ AddFiles(w) \/ LinkFiles(w)
<1>1. CASE RejectRoot \/ Quiet \/ UNCHANGED vars
  BY <1>1 DEF RejectRoot, Quiet, StartPool, LoadActive, WaitActive, Finish, DestroyPool, tree,
        vars, scan_vars
<1>2. ASSUME NEW w \in Worker,
             List(w) \/ CountDirs(w) \/ Submit(w) \/ AddNames(w) \/ CountDown(w) \/ NotifyMain(w)
                \/ Return(w)
      PROVE  UNCHANGED <<directories, files>>
  BY <1>2 DEF List, CountDirs, Submit, AddNames, CountDown, NotifyMain, Return, tree
<1>3. ASSUME NEW w \in Worker, Elsewhere(w) PROVE UNCHANGED <<directories, files>>
  BY <1>3, PoolFrame DEF Elsewhere, scan_vars, tree
<1> QED BY <1>1, <1>2, <1>3, NextCases

\* The ids of p's nodes, by their place in the list.
ChildIds(p) == {i \in Ids : directories[i + 1].parent = p}

LEMMA ChildFacts ==
    ASSUME ScanTypes, \A i \in DOMAIN directories : directories[i].id = i - 1, NEW p
    PROVE  {c.id : c \in {d \in ToSet(directories) : d.parent = p}} = ChildIds(p)
<1> DEFINE C == {d \in ToSet(directories) : d.parent = p}
<1>1. ASSUME NEW c \in C PROVE c.id \in ChildIds(p)
  <2>1. PICK i \in DOMAIN directories : directories[i] = c
    BY DEF ToSet
  <2>2. i - 1 \in Ids /\ i - 1 + 1 = i
    BY NodeTypes
  <2> QED BY <2>1, <2>2 DEF ChildIds
<1>2. ASSUME NEW t \in ChildIds(p) PROVE \E c \in C : c.id = t
  <2>1. t + 1 \in DOMAIN directories /\ t \in Nat /\ directories[t + 1].parent = p
    BY NodeTypes DEF ChildIds
  <2>2. directories[t + 1] \in C
    BY <2>1 DEF ToSet
  <2>3. directories[t + 1].id = t
    BY <2>1
  <2> HIDE DEF C
  <2> QED BY <2>2, <2>3
<1> QED BY <1>1, <1>2

\* A node and its children.
Shaped(i) == /\ directories[i].id = i - 1
             /\ i > 1 => directories[i].parent \in 0 .. i - 2
             /\ IsInjective(directories[i].subdirs)
             /\ ToSet(directories[i].subdirs) = ChildIds(i - 1)

LEMMA ShapeFacts ==
    ASSUME ScanTypes
    PROVE  TreeShaped <=> /\ \A i \in DOMAIN directories : Shaped(i)
                          /\ \A i \in DOMAIN files : files[i].id = i - 1
BY ChildFacts DEF TreeShaped, Shaped

LEMMA ShapeStep == ScanInv /\ [Next]_vars => ShapeInv'
<1> SUFFICES ASSUME ScanInv, [Next]_vars PROVE ShapeInv'
  OBVIOUS
<1>1. /\ IInv /\ ScanTypes /\ ScanControl /\ ScanTypes' /\ TreeShaped
      /\ \A i \in DOMAIN directories : /\ i = 1 => directories[i].parent = Nobody
                                      /\ ToSet(directories[i].files) \subseteq 0 .. Len(files) - 1
  BY TypesStep DEF ScanInv, ShapeInv
<1> DEFINE Filed == \A i \in DOMAIN files : files[i].id = i - 1
           Known == \A i \in DOMAIN directories :
                       /\ i = 1 => directories[i].parent = Nobody
                       /\ ToSet(directories[i].files) \subseteq 0 .. Len(files) - 1
           Formed == \A i \in DOMAIN directories : Shaped(i)
<1>2. Formed /\ Filed /\ Known
  BY <1>1, ShapeFacts
<1>3. SUFFICES Formed' /\ Filed' /\ Known'
  <2>1. TreeShaped' <=> (Formed /\ Filed)'
    BY <1>1, ShapeFacts, PTL
  <2> QED BY <2>1 DEF ShapeInv
<1>4. CASE UNCHANGED <<directories, files>>
  BY <1>2, <1>4 DEF Shaped, ChildIds, Ids
<1>5. CASE CreateRoot
  <2> DEFINE root == [id |-> next_dir_id, parent |-> Nobody, path |-> RootDir,
                      subdirs |-> <<>>, files |-> <<>>]
  <2>1. directories = <<>> /\ directories' = Append(directories, root) /\ UNCHANGED files
    BY <1>1, <1>5 DEF CreateRoot, ScanControl, tree
  <2>2. next_dir_id = 0
    BY <1>1, <2>1, EmptySeq DEF ScanTypes, ScanTypeOK
  <2>3. directories' = <<root>>
    BY <2>1
  <2> HIDE DEF root
  <2>4. Len(directories') = 1 /\ DOMAIN directories' = {1} /\ directories'[1] = root
    BY <2>3
  <2>5. Ids' = {0}
    BY <2>4 DEF Ids
  <2>6. /\ root.id = 0 /\ root.parent = -1 /\ DOMAIN root.subdirs = {} /\ DOMAIN root.files = {}
    BY <2>2, EmptySeq DEF root, Nobody
  <2>7. /\ IsInjective(root.subdirs) /\ ToSet(root.subdirs) = {}
        /\ ToSet(root.files) = {} /\ root.parent = Nobody
    BY <2>6 DEF Nobody, IsInjective, ToSet
  <2>8. ChildIds(0)' = {}
    BY <2>4, <2>5, <2>6 DEF ChildIds
  <2>9. Shaped(1)'
    BY <2>4, <2>6, <2>7, <2>8 DEF Shaped
  <2> QED BY <1>2, <2>1, <2>4, <2>7, <2>9
<1>6. ASSUME NEW w \in Worker, AddDirs(w) PROVE Formed' /\ Filed' /\ Known'
  <2> DEFINE m == Len(directories)
             n == Len(local[w].dirs)
             ids == NewIds(m, n)
  <2>t. PICK t : t = task[w]
    OBVIOUS
  <2>1. /\ Len(directories') = m + n /\ n \in Nat \ {0}
        /\ directories'[t + 1] = [directories[t + 1] EXCEPT !.subdirs = @ \o ids]
        /\ \A i \in 1 .. m : i # t + 1 => directories'[i] = directories[i]
        /\ \A i \in 1 .. n : directories'[m + i] =
              [id |-> m + i - 1, parent |-> t, path |-> local[w].dirs[i],
               subdirs |-> <<>>, files |-> <<>>]
    BY <1>1, <1>6, <2>t, DirsAdded DEF This
  <2>2. /\ m \in Nat /\ DOMAIN directories = 1 .. m /\ DOMAIN directories' = 1 .. m + n
        /\ \A i \in 1 .. m : directories[i] \in Node
    BY <1>1, <2>1, NodeTypes DEF ScanTypes
  <2>3. t \in 0 .. m - 1 /\ UNCHANGED files
    BY <1>1, <1>6, <2>2, <2>t, BusyFacts DEF AddDirs, Busy, At, Ids
  <2> HIDE DEF m, n
  <2>4. /\ ids \in Seq(Nat) /\ IsInjective(ids) /\ ToSet(ids) = m .. m + n - 1
    BY <2>1, <2>2, NewIdsFacts
  <2> HIDE DEF ids
  <2>5. \A i \in 1 .. m : /\ directories'[i].id = directories[i].id
                          /\ directories'[i].parent = directories[i].parent
                          /\ directories'[i].files = directories[i].files
    BY <2>1, <2>2, ZenonT(40) DEF Node
  <2>6. \A i \in m + 1 .. m + n : /\ directories'[i].id = i - 1 /\ directories'[i].parent = t
                                  /\ directories'[i].subdirs = <<>> /\ directories'[i].files = <<>>
    <3> SUFFICES ASSUME NEW i \in m + 1 .. m + n
                 PROVE  /\ directories'[i].id = i - 1 /\ directories'[i].parent = t
                        /\ directories'[i].subdirs = <<>> /\ directories'[i].files = <<>>
      OBVIOUS
    <3> DEFINE j == i - m
    <3>1. j \in 1 .. n /\ m + j = i
      BY <2>1, <2>2
    <3> HIDE DEF j
    <3>2. directories'[m + j] = [id |-> m + j - 1, parent |-> t, path |-> local[w].dirs[j],
                                 subdirs |-> <<>>, files |-> <<>>]
      BY <2>1, <3>1
    <3> QED BY <2>2, <3>1, <3>2
  <2>7. Ids = 0 .. m - 1 /\ Ids' = 0 .. m + n - 1
    BY <2>1 DEF Ids, m
  <2>8. \A p : ChildIds(p)' = IF p = t THEN ChildIds(p) \cup (m .. m + n - 1) ELSE ChildIds(p)
    <3> SUFFICES ASSUME NEW p
                 PROVE  ChildIds(p)' = IF p = t THEN ChildIds(p) \cup (m .. m + n - 1)
                                                ELSE ChildIds(p)
      OBVIOUS
    <3>1. \A i \in 0 .. m - 1 : i + 1 \in 1 .. m
      BY <2>2
    <3>2. \A i \in 0 .. m - 1 : i \in ChildIds(p)' <=> i \in ChildIds(p)
      BY <2>1, <2>2, <2>5, <2>7, <3>1 DEF ChildIds
    <3>3. \A i \in m .. m + n - 1 : i + 1 \in m + 1 .. m + n
      BY <2>1, <2>2
    <3>4. \A i \in m .. m + n - 1 : i \in Ids' /\ (i \in ChildIds(p)' <=> p = t)
      BY <2>1, <2>2, <2>6, <2>7, <3>3 DEF ChildIds
    <3>5. ChildIds(p) \subseteq 0 .. m - 1 /\ ChildIds(p)' \subseteq (0 .. m - 1) \cup (m .. m + n - 1)
      BY <2>1, <2>2, <2>7 DEF ChildIds
    <3> QED BY <3>2, <3>4, <3>5
  <2>9. \A i \in 1 .. m : i # t + 1 => Shaped(i)'
    BY <1>2, <2>1, <2>2, <2>3, <2>5, <2>8 DEF Shaped
  <2>10. Shaped(t + 1)'
    <3> PICK x : x = t + 1
      OBVIOUS
    <3>1. x \in 1 .. m /\ x - 1 = t /\ t \in Nat
      BY <2>2, <2>3
    <3>2. /\ directories[x] \in Node /\ directories[x].id = x - 1
          /\ x > 1 => directories[x].parent \in 0 .. x - 2
          /\ IsInjective(directories[x].subdirs) /\ ToSet(directories[x].subdirs) = ChildIds(t)
      BY <1>2, <2>2, <3>1 DEF Shaped
    <3> PICK old : old = directories[x].subdirs
      OBVIOUS
    <3>3. directories'[x].subdirs = old \o ids /\ old \in Seq(Nat)
      BY <2>1, <3>2 DEF Node
    <3>4. IsInjective(old) /\ ToSet(old) = ChildIds(t)
      BY <3>2
    <3>5. ToSet(old) \cap ToSet(ids) = {}
      <4>1. ToSet(old) \subseteq 0 .. m - 1
        BY <2>7, <3>4 DEF ChildIds
      <4> QED BY <2>1, <2>2, <2>4, <4>1
    <3>6. IsInjective(old \o ids) /\ ToSet(old \o ids) = ToSet(old) \cup ToSet(ids)
      <4> ids \in Seq(Nat) /\ IsInjective(ids)
        BY <2>4
      <4>1. ToSet(old \o ids) = ToSet(old) \cup ToSet(ids)
        BY <3>3, Joined
      <4>2. IsInjective(old \o ids)
        BY <3>3, <3>4, <3>5, Joined
      <4> QED BY <4>1, <4>2
    <3>7. IsInjective(directories'[x].subdirs) /\ ToSet(directories'[x].subdirs) = ChildIds(t)'
      BY <2>4, <2>8, <3>3, <3>4, <3>6
    <3>8. directories'[x].id = x - 1 /\ (x > 1 => directories'[x].parent \in 0 .. x - 2)
      BY <2>5, <3>1, <3>2
    <3>9. Shaped(x)'
      BY <3>1, <3>7, <3>8 DEF Shaped
    <3> QED BY <3>9
  <2>11. \A i \in m + 1 .. m + n : Shaped(i)'
    <3> SUFFICES ASSUME NEW i \in m + 1 .. m + n PROVE Shaped(i)'
      OBVIOUS
    <3>1. DOMAIN <<>> = {}
      BY EmptySeq
    <3>2. IsInjective(<<>>) /\ ToSet(<<>>) = {}
      BY <3>1 DEF IsInjective, ToSet
    <3>3. i - 1 # t /\ t \in 0 .. i - 2
      BY <2>2, <2>3
    <3>4. ChildIds(i - 1) = {}
      <4>1. SUFFICES ASSUME NEW c \in Ids, directories[c + 1].parent = i - 1 PROVE FALSE
        BY DEF ChildIds
      <4>2. c \in 0 .. m - 1 /\ c + 1 \in 1 .. m /\ Shaped(c + 1)
        BY <1>2, <2>2, <2>7
      <4>3. c + 1 > 1 => directories[c + 1].parent \in 0 .. c + 1 - 2
        BY <4>2 DEF Shaped
      <4>4. c + 1 = 1 => directories[c + 1].parent = -1
        BY <1>2, <2>2, <4>2 DEF Nobody
      <4> QED BY <2>2, <4>1, <4>2, <4>3, <4>4
    <3> QED BY <2>6, <2>8, <3>2, <3>3, <3>4 DEF Shaped
  <2>12. Formed'
    <3>1. \A i \in 1 .. m + n : i \in 1 .. m \/ i \in m + 1 .. m + n
      BY <2>1, <2>2
    <3> QED BY <2>2, <2>9, <2>10, <2>11, <3>1
  <2>13. Known'
    <3>1. \A i \in 1 .. m + n : i \in 1 .. m \/ i \in m + 1 .. m + n
      BY <2>1, <2>2
    <3>2. ToSet(<<>>) = {}
      BY EmptySeq DEF ToSet
    <3>3. \A i \in m + 1 .. m + n : i # 1
      BY <2>2, <2>3
    <3> QED BY <1>2, <2>2, <2>3, <2>5, <2>6, <3>1, <3>2, <3>3
  <2> QED BY <1>2, <2>3, <2>12, <2>13
<1>7. ASSUME NEW w \in Worker, AddFiles(w) PROVE Formed' /\ Filed' /\ Known'
  <2> DEFINE m == Len(files)
             n == Len(local[w].names)
  <2>1. /\ Len(files') = m + n /\ n \in Nat
        /\ \A i \in 1 .. m : files'[i] = files[i]
        /\ \A i \in 1 .. n : files'[m + i] =
              [id |-> m + i - 1, parent |-> task[w], name |-> local[w].names[i],
               offset |-> (i - 1 + Base(w)) % OffsetRange]
    BY <1>1, <1>7, FilesAdded
  <2>2. m \in Nat /\ DOMAIN files = 1 .. m /\ DOMAIN files' = 1 .. m + n /\ UNCHANGED directories
    BY <1>1, <1>7, <2>1, NodeTypes DEF ScanTypes, AddFiles
  <2> HIDE DEF m, n
  <2>3. \A i \in 1 .. m : files'[i].id = i - 1
    BY <1>2, <2>1, <2>2
  <2>4. \A i \in m + 1 .. m + n : files'[i].id = i - 1
    <3> SUFFICES ASSUME NEW i \in m + 1 .. m + n PROVE files'[i].id = i - 1
      OBVIOUS
    <3> DEFINE j == i - m
    <3>1. j \in 1 .. n /\ m + j = i
      BY <2>1, <2>2
    <3> HIDE DEF j
    <3>2. files'[m + j] = [id |-> m + j - 1, parent |-> task[w], name |-> local[w].names[j],
                           offset |-> (j - 1 + Base(w)) % OffsetRange]
      BY <2>1, <3>1
    <3> QED BY <2>2, <3>1, <3>2
  <2>5. Filed'
    <3>1. \A i \in 1 .. m + n : i \in 1 .. m \/ i \in m + 1 .. m + n
      BY <2>1, <2>2
    <3> QED BY <2>2, <2>3, <2>4, <3>1
  <2>6. Known'
    <3>1. 0 .. Len(files) - 1 \subseteq 0 .. Len(files') - 1
      BY <2>1, <2>2 DEF m
    <3> QED BY <1>2, <2>2, <3>1
  <2> QED BY <1>2, <2>2, <2>5, <2>6 DEF Shaped, ChildIds, Ids
<1>8. ASSUME NEW w \in Worker, LinkFiles(w) PROVE Formed' /\ Filed' /\ Known'
  <2> DEFINE T == This(w)
             more == local[w].ids
  <2>1. /\ Len(directories') = Len(directories) /\ UNCHANGED files
        /\ directories'[T] = [directories[T] EXCEPT !.files = @ \o more]
        /\ \A i \in DOMAIN directories : i # T => directories'[i] = directories[i]
    BY <1>1, <1>8, FilesLinked DEF LinkFiles
  <2>2. T \in DOMAIN directories /\ directories[T] \in Node
    BY <1>1, <1>8, BusyFacts DEF LinkFiles, At, Busy
  <2>3. DOMAIN directories' = DOMAIN directories /\ Ids' = Ids
    BY <1>1, <2>1, NodeTypes DEF ScanTypes, Ids
  <2>4. ToSet(more) \subseteq 0 .. Len(files) - 1 /\ more \in Seq(Nat)
    BY <1>1, <1>8 DEF ScanControl, LinkFiles, At, ScanTypes, Locals
  <2> HIDE DEF T, more
  <2>5. \A i \in DOMAIN directories : /\ directories'[i].id = directories[i].id
                                      /\ directories'[i].parent = directories[i].parent
                                      /\ directories'[i].subdirs = directories[i].subdirs
                                      /\ i # T => directories'[i].files = directories[i].files
    BY <2>1, <2>2 DEF Node
  <2>6. \A p : ChildIds(p)' = ChildIds(p)
    BY <1>1, <2>3, <2>5, NodeTypes DEF ChildIds
  <2>7. Formed'
    BY <1>2, <2>3, <2>5, <2>6 DEF Shaped
  <2>8. ToSet(directories'[T].files) \subseteq 0 .. Len(files) - 1
    <3>1. directories[T].files \in Seq(Nat)
      BY <2>2 DEF Node
    <3>2. ToSet(directories[T].files \o more) = ToSet(directories[T].files) \cup ToSet(more)
      BY <2>4, <3>1, Joined
    <3>3. directories'[T].files = directories[T].files \o more
      BY <2>1, <2>2 DEF Node
    <3> QED BY <1>2, <2>2, <2>4, <3>2, <3>3
  <2>9. Known'
    BY <1>2, <2>1, <2>3, <2>5, <2>8
  <2> QED BY <1>2, <2>1, <2>7, <2>9
<1> HIDE DEF Formed, Filed, Known
<1> QED BY <1>1, <1>4, <1>5, <1>6, <1>7, <1>8, TreeWriters

-----------------------------------------------------------------------------
(* The steps keep the invariant: what active_tasks counts *)

\* A directory that has come some way is in the tree.
LEMMA DoneInTree ==
    ASSUME IInv, ScanTypes, ScanControl, NEW labels, "list" \notin labels
    PROVE  DoneUpTo(labels) \subseteq Ids
<1>1. finished \subseteq Ids
  BY DEF IInv, Places, Apart, Covered, ScanControl
<1>2. \A w \in Worker : hpc[w] \in labels => task[w] \in Ids
  BY BusyFacts DEF ScanControl
<1> QED BY <1>1, <1>2 DEF DoneUpTo

\* An injective list is no longer than the set it is over.
LEMMA NoLonger ==
    ASSUME NEW S, IsFiniteSet(S), NEW s \in Seq(S), IsInjective(s)
    PROVE  Len(s) \in Nat /\ Len(s) <= Cardinality(S)
<1>1. Len(s) \in Nat /\ DOMAIN s = 1 .. Len(s) /\ s \in [1 .. Len(s) -> S]
  BY LenProperties, ElementOfSeq
<1>2. s \in Injection(1 .. Len(s), S)
  BY <1>1 DEF IsInjective, Injection
<1>3. Cardinality(1 .. Len(s)) <= Cardinality(S)
  BY <1>2, FS_Injection
<1>4. Cardinality(1 .. Len(s)) = Len(s)
  BY <1>1, FS_Interval
<1> QED BY <1>1, <1>3, <1>4

\* Sizes of a disjoint union and of an interval.
LEMMA DisjointSize ==
    ASSUME NEW S, IsFiniteSet(S), NEW T, IsFiniteSet(T), S \cap T = {}
    PROVE  Cardinality(S \cup T) = Cardinality(S) + Cardinality(T)
<1>1. Cardinality(S \cup T) = Cardinality(S) + Cardinality(T) - Cardinality(S \cap T)
  BY FS_Union
<1>2. Cardinality(S \cap T) = 0 /\ Cardinality(S) \in Nat /\ Cardinality(T) \in Nat
  BY FS_EmptySet, FS_CardinalityType
<1> QED BY <1>1, <1>2

LEMMA IntervalSize ==
    ASSUME NEW a \in Nat, NEW n \in Nat
    PROVE  IsFiniteSet(a .. a + n - 1) /\ Cardinality(a .. a + n - 1) = n
<1> PICK b \in Int : b = a + n - 1
  OBVIOUS
<1>1. IsFiniteSet(a .. b) /\ Cardinality(a .. b) = IF a > b THEN 0 ELSE b - a + 1
  BY FS_Interval
<1> QED BY <1>1

\* Nothing is announced or arrives: the scans that are announced stay.
LEMMA ArrivingKept ==
    ASSUME \A w \in Worker : /\ hpc'[w] = "add_dirs" <=> hpc[w] = "add_dirs"
                             /\ hpc[w] = "add_dirs" => local'[w] = local[w]
    PROVE  Arriving' = Arriving
<1>1. Announced' = Announced
  BY DEF Announced
<1>2. \A p \in Announced : local'[p[1]] = local[p[1]]
  BY DEF Announced
<1> QED BY <1>1, <1>2 DEF Arriving

\* The scans that w announces, and that are counted.
Coming(w) == {w} \X (0 .. Len(local[w].dirs) - 1)

LEMMA ComingFacts ==
    ASSUME IInv, ScanTypes, ScanControl, PathsInv, NEW w \in Worker,
           hpc[w] \in {"count", "add_dirs"}
    PROVE  LET n == Len(local[w].dirs) IN
           /\ n \in Nat /\ IsFiniteSet(Coming(w)) /\ Cardinality(Coming(w)) = n
           /\ Coming(w) = {p \in {w} \X Task : p[2] < n}
<1> DEFINE n == Len(local[w].dirs)
<1>1. local[w].dirs \in Seq(Dir) /\ IsInjective(local[w].dirs) /\ IsFiniteSet(Dir)
  BY ScanAssumption DEF ScanTypes, Locals, PathsInv
<1>2. n \in Nat /\ n <= Cardinality(Dir) /\ Cardinality(Dir) \in Nat
  BY <1>1, NoLonger, FS_CardinalityType
<1> HIDE DEF n
<1>3. IsFiniteSet(0 .. n - 1) /\ Cardinality(0 .. n - 1) = n
  <2>1. IsFiniteSet(0 .. 0 + n - 1) /\ Cardinality(0 .. 0 + n - 1) = n
    BY <1>2, IntervalSize
  <2>2. 0 + n - 1 = n - 1
    BY <1>2
  <2> QED BY <2>1, <2>2
<1>4. IsFiniteSet({w}) /\ Cardinality({w}) = 1
  BY FS_Singleton
<1>5. IsFiniteSet({w} \X (0 .. n - 1)) /\ Cardinality({w} \X (0 .. n - 1)) = 1 * n
  BY <1>3, <1>4, FS_Product, ZenonT(40)
<1>6. Coming(w) = {w} \X (0 .. n - 1)
  BY DEF Coming, n
<1>7. Task = 0 .. Cardinality(Dir) - 1
  BY ScanAssumption
<1>8. {w} \X (0 .. n - 1) = {p \in {w} \X Task : p[2] < n}
  BY <1>2, <1>7
<1> QED BY <1>2, <1>5, <1>6, <1>8 DEF n

LEMMA CountStep == ScanInv /\ [Next]_vars => ActiveTasksExact'
<1> SUFFICES ASSUME ScanInv, [Next]_vars PROVE ActiveTasksExact'
  OBVIOUS
<1> DEFINE D == DoneUpTo(AfterCount)
           Goal == active_tasks' = Cardinality(Pending') + Cardinality(Arriving')
<1>1. /\ IInv /\ ScanTypes /\ ScanControl /\ TreeShaped /\ PathsInv
      /\ ScanTypes' /\ ScanControl' /\ TreeShaped' /\ ActiveTasksExact
  BY TypesStep, ShapeStep, ScanControlStep DEF ScanInv, ShapeInv
<1>2. /\ Pending = Ids \ D /\ IsFiniteSet(Pending) /\ IsFiniteSet(Arriving)
      /\ Cardinality(Pending) \in Nat /\ Cardinality(Arriving) \in Nat
      /\ active_tasks = Cardinality(Pending) + Cardinality(Arriving)
  BY <1>1, CountFacts
<1>3. Pending' = Ids' \ D'
  <2>1. (ScanTypes /\ TreeShaped => Pending = Ids \ D)'
    BY CountFacts, PTL
  <2> QED BY <1>1, <2>1
<1>4. SUFFICES Goal
  BY DEF ActiveTasksExact, Arriving
<1>t. /\ hpc \in [Worker -> ScanLabel] /\ local \in [Worker -> Locals]
      /\ Len(directories) \in Nat /\ D \subseteq Ids /\ "list" \notin AfterCount
  BY <1>1, NodeTypes, DoneInTree DEF ScanTypes, ScanTypeOK, ScanLabel, AfterCount
\* Most steps change nothing of this.
<1>k. ASSUME UNCHANGED active_tasks, Ids' = Ids, D' = D, Arriving' = Arriving PROVE Goal
  BY <1>2, <1>3, <1>k
\* A worker moves on, to a label after the countdown only from one.
<1>m. ASSUME NEW w \in Worker, NEW label, hpc' = [hpc EXCEPT ![w] = label], pc[w] \in Busy,
             UNCHANGED <<task, finished>>, hpc[w] \in AfterCount <=> label \in AfterCount
      PROVE  D' = D
  <2>1. D' = IF label \in AfterCount THEN D \cup {task[w]} ELSE D
    BY <1>1, <1>m, StageMoved
  <2>2. label \in AfterCount => task[w] \in D
    BY <1>1, <1>m, StageOf
  <2> QED BY <2>1, <2>2
<1> USE DEF tree, counters, At, To
<1>5. CASE RejectRoot \/ Quiet \/ UNCHANGED vars
  <2>1. UNCHANGED <<directories, active_tasks, hpc, local, finished>>
    BY <1>5 DEF RejectRoot, Quiet, StartPool, LoadActive, WaitActive, Finish, DestroyPool, Start,
          StartPush, StartSpawn, Destroy, DestroyStop, DestroyNotifyAll, DestroyJoin, pool_vars,
          vars, scan_vars
  <2>2. UNCHANGED task
    BY <1>5 DEF RejectRoot, Quiet, StartPool, LoadActive, WaitActive, Finish, DestroyPool, Start,
          StartPush, StartSpawn, Destroy, DestroyStop, DestroyNotifyAll, DestroyJoin, pool_vars,
          vars
  <2>3. D' = D
    BY <2>1, <2>2 DEF DoneUpTo
  <2>4. Arriving' = Arriving /\ Ids' = Ids
    BY <2>1, ArrivingKept DEF Ids
  <2> QED BY <1>k, <2>1, <2>3, <2>4
<1>6. CASE CreateRoot
  <2>1. /\ directories = <<>> /\ active_tasks' = active_tasks + 1
        /\ UNCHANGED <<hpc, local, task, finished>>
    BY <1>1, <1>6 DEF CreateRoot, ScanControl, pool_vars
  <2>2. Len(directories') = 1
    <3>1. PICK x : directories' = Append(<<>>, x)
      BY <2>1, <1>6 DEF CreateRoot
    <3> QED BY <3>1
  <2>3. Ids = {} /\ Ids' = {0}
    BY <2>1, <2>2, EmptySeq DEF Ids
  <2>4. D' = D
    BY <2>1 DEF DoneUpTo
  <2>5. Arriving' = Arriving
    BY <2>1, ArrivingKept
  <2>6. Pending = {} /\ Pending' = {0}
    BY <1>2, <1>3, <1>t, <2>3, <2>4
  <2>7. Cardinality(Pending) = 0 /\ Cardinality(Pending') = 1
    BY <2>6, FS_EmptySet, FS_Singleton
  <2> QED BY <1>2, <2>1, <2>5, <2>7
<1>7. ASSUME NEW w \in Worker, List(w) PROVE Goal
  <2>1. /\ UNCHANGED <<directories, active_tasks, task, finished>>
        /\ pc[w] \in Busy /\ hpc[w] = "list"
        /\ \A u \in Worker \ {w} : local'[u] = local[u]
    BY <1>7, <1>t DEF List, pool_vars, Busy
  <2>2. PICK label \in {"arena", "count"} : hpc' = [hpc EXCEPT ![w] = label]
    BY <1>7 DEF List
  <2>3. D' = D /\ Ids' = Ids
    BY <1>m, <2>1, <2>2 DEF AfterCount, Ids
  <2>4. Arriving' = Arriving
    BY <1>t, <2>1, <2>2, ArrivingKept
  <2> QED BY <1>k, <2>1, <2>3, <2>4
<1>8. ASSUME NEW w \in Worker, CountDirs(w) PROVE Goal
  <2> DEFINE n == Len(local[w].dirs)
  <2>1. /\ UNCHANGED <<directories, local, task, finished>> /\ active_tasks' = active_tasks + n
        /\ pc[w] \in Busy /\ hpc[w] = "count" /\ hpc' = [hpc EXCEPT ![w] = "add_dirs"]
    BY <1>8 DEF CountDirs, pool_vars, Busy
  <2>2. /\ n \in Nat /\ IsFiniteSet(Coming(w)) /\ Cardinality(Coming(w)) = n
        /\ Coming(w) = {p \in {w} \X Task : p[2] < n}
    BY <1>1, <2>1, ComingFacts
  <2>3. Pending' = Pending
    <3>1. D' = D /\ Ids' = Ids
      BY <1>m, <2>1 DEF AfterCount, Ids
    <3> QED BY <1>2, <1>3, <3>1
  <2>4. Arriving' = Arriving \cup Coming(w) /\ Arriving \cap Coming(w) = {}
    <3>1. Announced' = Announced \cup ({w} \X Task) /\ Announced \cap ({w} \X Task) = {}
      BY <1>t, <2>1 DEF Announced
    <3> QED BY <2>1, <2>2, <3>1 DEF Arriving
  <2> HIDE DEF n
  <2>5. Cardinality(Arriving') = Cardinality(Arriving) + n
    BY <1>2, <2>2, <2>4, DisjointSize
  <2> QED BY <1>2, <2>1, <2>2, <2>3, <2>5
<1>9. ASSUME NEW w \in Worker, AddDirs(w) PROVE Goal
  <2> DEFINE m == Len(directories)
             n == Len(local[w].dirs)
  <2>1. /\ UNCHANGED <<active_tasks, task, finished>>
        /\ pc[w] \in Busy /\ hpc[w] = "add_dirs" /\ hpc' = [hpc EXCEPT ![w] = "submit"]
    BY <1>9 DEF AddDirs, pool_vars, Busy
  <2>2. Len(directories') = m + n /\ \A u \in Worker \ {w} : local'[u] = local[u]
    <3>1. /\ Len(directories') = m + n
          /\ local' = [local EXCEPT ![w].dirs = <<>>, ![w].ids = NewIds(m, n)]
      BY <1>1, <1>9, DirsAdded
    <3> QED BY <1>t, <3>1
  <2>3. /\ n \in Nat /\ IsFiniteSet(Coming(w)) /\ Cardinality(Coming(w)) = n
        /\ Coming(w) = {p \in {w} \X Task : p[2] < n}
    BY <1>1, <2>1, ComingFacts
  <2>4. Arriving = Arriving' \cup Coming(w) /\ Arriving' \cap Coming(w) = {}
    <3>1. Announced = Announced' \cup ({w} \X Task) /\ Announced' \cap ({w} \X Task) = {}
      BY <1>t, <2>1 DEF Announced
    <3>2. \A p \in Announced' : p[1] \in Worker \ {w}
      BY <1>t, <2>1 DEF Announced
    <3> QED BY <2>2, <2>3, <3>1, <3>2 DEF Arriving
  <2>5. IsFiniteSet(Arriving')
    BY <1>2, <2>4, FS_Subset
  <2>6. m \in Nat /\ Ids = 0 .. m - 1
    BY <1>t DEF Ids
  <2>7. Ids' = 0 .. m + n - 1
    BY <2>2 DEF Ids
  <2>8. D' = D
    BY <1>m, <2>1 DEF AfterCount
  <2> HIDE DEF m, n
  <2>9. Cardinality(Arriving) = Cardinality(Arriving') + n /\ Cardinality(Arriving') \in Nat
    BY <2>3, <2>4, <2>5, DisjointSize, FS_CardinalityType
  <2>10. Pending' = Pending \cup (m .. m + n - 1) /\ Pending \cap (m .. m + n - 1) = {}
    BY <1>2, <1>3, <1>t, <2>3, <2>6, <2>7, <2>8
  <2>11. IsFiniteSet(m .. m + n - 1) /\ Cardinality(m .. m + n - 1) = n
    BY <2>3, <2>6, IntervalSize
  <2>12. Cardinality(Pending') = Cardinality(Pending) + n
    BY <1>2, <2>10, <2>11, DisjointSize
  <2> QED BY <1>2, <2>1, <2>3, <2>9, <2>12
<1>10. ASSUME NEW w \in Worker, Submit(w) \/ AddNames(w) PROVE Goal
  <2>1. /\ UNCHANGED <<directories, active_tasks, task, finished>>
        /\ pc[w] \in Busy /\ hpc[w] \in {"submit", "arena"}
        /\ \A u \in Worker \ {w} : local'[u] = local[u]
    BY <1>10, <1>t DEF Submit, SubmitPush, AddNames, pool_vars, Busy
  <2>2. PICK label \in {"arena", "submit", "add_files"} : hpc' = [hpc EXCEPT ![w] = label]
    BY <1>10 DEF Submit, AddNames
  <2>3. D' = D /\ Ids' = Ids
    BY <1>m, <2>1, <2>2 DEF AfterCount, Ids
  <2>4. Arriving' = Arriving
    BY <1>t, <2>1, <2>2, ArrivingKept
  <2> QED BY <1>k, <2>1, <2>3, <2>4
<1>11. ASSUME NEW w \in Worker, AddFiles(w) \/ LinkFiles(w) PROVE Goal
  <2>1. /\ UNCHANGED <<active_tasks, task, finished>> /\ Len(directories') = Len(directories)
        /\ pc[w] \in Busy /\ hpc[w] \in {"add_files", "link"}
        /\ \A u \in Worker \ {w} : local'[u] = local[u]
    BY <1>1, <1>11, <1>t, FilesLinked DEF AddFiles, LinkFiles, pool_vars, Busy
  <2>2. PICK label \in {"link", "finished"} : hpc' = [hpc EXCEPT ![w] = label]
    BY <1>11 DEF AddFiles, LinkFiles
  <2>3. D' = D /\ Ids' = Ids
    BY <1>m, <2>1, <2>2 DEF AfterCount, Ids
  <2>4. Arriving' = Arriving
    BY <1>t, <2>1, <2>2, ArrivingKept
  <2> QED BY <1>k, <2>1, <2>3, <2>4
<1>12. ASSUME NEW w \in Worker, CountDown(w) PROVE Goal
  <2>1. /\ UNCHANGED <<directories, local, task, finished>> /\ active_tasks' = active_tasks - 1
        /\ pc[w] \in Busy /\ hpc[w] = "finished" /\ hpc' = [hpc EXCEPT ![w] = "notify_main"]
    BY <1>12 DEF CountDown, pool_vars, Busy
  <2>2. D' = D \cup {task[w]} /\ Ids' = Ids
    BY <1>1, <2>1, StageMoved, ZenonT(40) DEF AfterCount, Ids
  <2>3. task[w] \in Ids /\ task[w] \notin D
    BY <1>1, <2>1, BusyFacts, StageOf DEF AfterCount
  <2>4. Pending' = Pending \ {task[w]} /\ task[w] \in Pending
    BY <1>2, <1>3, <2>2, <2>3
  <2>5. Cardinality(Pending') = Cardinality(Pending) - 1
    BY <1>2, <2>4, FS_RemoveElement
  <2>6. Arriving' = Arriving
    BY <1>t, <2>1, ArrivingKept
  <2> QED BY <1>2, <2>1, <2>5, <2>6
<1>13. ASSUME NEW w \in Worker, NotifyMain(w) PROVE Goal
  <2>1. /\ UNCHANGED <<directories, active_tasks, local, task, finished>>
        /\ pc[w] \in Busy /\ hpc[w] = "notify_main" /\ hpc' = [hpc EXCEPT ![w] = "return"]
    BY <1>13 DEF NotifyMain, pool_vars, Busy
  <2>2. D' = D /\ Ids' = Ids
    BY <1>m, <2>1 DEF AfterCount, Ids
  <2>3. Arriving' = Arriving
    BY <1>t, <2>1, ArrivingKept
  <2> QED BY <1>k, <2>1, <2>2, <2>3
<1>14. ASSUME NEW w \in Worker, Return(w) PROVE Goal
  <2>1. /\ UNCHANGED <<directories, active_tasks, local>>
        /\ hpc[w] = "return" /\ hpc' = [hpc EXCEPT ![w] = "list"]
    BY <1>14 DEF Return
  <2>2. D' = D /\ Ids' = Ids
    BY <1>1, <1>14, <2>1, StageReturned DEF AfterCount, Ids
  <2>3. Arriving' = Arriving
    BY <1>t, <2>1, ArrivingKept
  <2> QED BY <1>k, <2>1, <2>2, <2>3
<1>15. ASSUME NEW w \in Worker, Elsewhere(w) PROVE Goal
  <2>1. /\ UNCHANGED scan_vars /\ UNCHANGED finished
        /\ \A u \in Worker : pc[u] \in Busy => task'[u] = task[u]
    BY <1>1, <1>15, PoolFrame DEF Elsewhere
  <2>2. UNCHANGED <<directories, active_tasks, hpc, local>>
    BY <2>1 DEF scan_vars
  <2>3. D' = D /\ Ids' = Ids
    BY <1>1, <1>t, <2>1, <2>2, StageKept DEF Ids
  <2>4. Arriving' = Arriving
    BY <2>2, ArrivingKept
  <2> QED BY <1>k, <2>2, <2>3, <2>4
<1> HIDE DEF Goal
<1> QED BY <1>5, <1>6, <1>7, <1>8, <1>9, <1>10, <1>11, <1>12, <1>13, <1>14, <1>15, NextCases

-----------------------------------------------------------------------------
(* The steps keep the invariant: paths *)

\* Steps of the main thread leave the scans alone.
LEMMA MainFrame ==
    ASSUME RejectRoot \/ CreateRoot \/ Quiet \/ UNCHANGED vars
    PROVE  UNCHANGED <<hpc, local, task, finished>>
<1>1. UNCHANGED <<hpc, local>>
  BY DEF RejectRoot, CreateRoot, Quiet, StartPool, LoadActive, WaitActive, Finish, DestroyPool,
     vars, scan_vars
<1>2. CASE UNCHANGED pool_vars
  BY <1>1, <1>2 DEF pool_vars
<1>3. CASE Start \/ Destroy
  BY <1>1, <1>3 DEF Start, StartPush, StartSpawn, Destroy, DestroyStop, DestroyNotifyAll, DestroyJoin
<1> QED BY <1>2, <1>3 DEF RejectRoot, CreateRoot, Quiet, StartPool, LoadActive, WaitActive, Finish,
           DestroyPool, vars

\* A scan leaves the others alone.
Scans(w) == ScanStep(w) \/ Submit(w)

LEMMA ScanFrame ==
    ASSUME IInv, ScanTypes, NEW w \in Worker, Scans(w)
    PROVE  /\ pc[w] \in Busy /\ (Return(w) \/ UNCHANGED <<task, finished>>)
           /\ \A u \in Worker \ {w} : /\ hpc'[u] = hpc[u] /\ local'[u] = local[u]
                                      /\ task'[u] = task[u]
<1>1. hpc \in [Worker -> ScanLabel] /\ local \in [Worker -> Locals]
      /\ task \in [Worker -> Task \cup {NoTask}]
  BY DEF ScanTypes, ScanTypeOK, ScanLabel, IInv, PoolTypeOK
<1>2. CASE List(w) \/ CountDirs(w) \/ AddDirs(w)
  BY <1>1, <1>2 DEF List, CountDirs, AddDirs, pool_vars, Busy, At, To
<1>3. CASE AddNames(w) \/ AddFiles(w) \/ LinkFiles(w)
  BY <1>1, <1>3 DEF AddNames, AddFiles, LinkFiles, pool_vars, Busy, At, To
<1>4. CASE CountDown(w) \/ NotifyMain(w) \/ Return(w)
  BY <1>1, <1>4 DEF CountDown, NotifyMain, Return, HandlerReturn, pool_vars, Busy, At, To
<1>5. CASE Submit(w)
  BY <1>1, <1>5 DEF Submit, SubmitPush, Busy, At, To
<1> QED BY <1>2, <1>3, <1>4, <1>5 DEF Scans, ScanStep

\* The main thread, a scan, or the pool.
LEMMA StepCases ==
    ASSUME [Next]_vars
    PROVE  \/ RejectRoot \/ CreateRoot \/ Quiet \/ UNCHANGED vars
           \/ \E w \in Worker : Scans(w) \/ Elsewhere(w)
BY NextCases DEF Scans, ScanStep

\* Nodes and files are only added, and keep what they are.
LEMMA TreeGrows ==
    ASSUME ScanInv, [Next]_vars
    PROVE  /\ DOMAIN directories \subseteq DOMAIN directories' /\ Ids \subseteq Ids'
           /\ \A i \in DOMAIN directories : /\ directories'[i].path = directories[i].path
                                            /\ directories'[i].parent = directories[i].parent
           /\ DOMAIN files \subseteq DOMAIN files'
           /\ \A i \in DOMAIN files : files'[i] = files[i]
<1>1. IInv /\ ScanTypes /\ ScanControl /\ ScanTypes'
  BY TypesStep DEF ScanInv
<1>2. /\ Len(directories) \in Nat /\ DOMAIN directories = 1 .. Len(directories)
      /\ Len(files) \in Nat /\ DOMAIN files = 1 .. Len(files)
      /\ \A i \in 1 .. Len(directories) : directories[i] \in Node
      /\ Len(directories') \in Nat /\ DOMAIN directories' = 1 .. Len(directories')
      /\ Len(files') \in Nat /\ DOMAIN files' = 1 .. Len(files')
  BY <1>1, NodeTypes, LenProperties DEF ScanTypes
<1> DEFINE Longer == Len(directories') >= Len(directories) /\ Len(files') >= Len(files)
           SameNodes == \A i \in DOMAIN directories : /\ directories'[i].path = directories[i].path
                                                     /\ directories'[i].parent = directories[i].parent
           SameFiles == \A i \in DOMAIN files : files'[i] = files[i]
<1>0. SUFFICES Longer /\ SameNodes /\ SameFiles
  BY <1>2 DEF Ids
<1>3. CASE UNCHANGED <<directories, files>>
  BY <1>2, <1>3
<1>4. CASE CreateRoot
  <2>1. directories = <<>> /\ UNCHANGED files
    BY <1>1, <1>4 DEF CreateRoot, ScanControl
  <2>2. Len(directories) = 0
    BY <2>1, EmptySeq
  <2> QED BY <1>2, <2>1, <2>2
<1>5. ASSUME NEW w \in Worker, AddDirs(w) PROVE Longer /\ SameNodes /\ SameFiles
  <2> PICK more : more = NewIds(Len(directories), Len(local[w].dirs))
    OBVIOUS
  <2>1. UNCHANGED files
    BY <1>5 DEF AddDirs
  <2>2. /\ Len(directories') = Len(directories) + Len(local[w].dirs)
        /\ Len(local[w].dirs) \in Nat
        /\ directories'[This(w)] = [directories[This(w)] EXCEPT !.subdirs = @ \o more]
        /\ \A i \in 1 .. Len(directories) : i # This(w) => directories'[i] = directories[i]
    BY <1>1, <1>5, DirsAdded
  <2>3. ASSUME NEW i \in DOMAIN directories
        PROVE  /\ directories'[i].path = directories[i].path
               /\ directories'[i].parent = directories[i].parent
    BY <1>2, <2>2 DEF Node
  <2> QED BY <1>2, <2>1, <2>2, <2>3
<1>6. ASSUME NEW w \in Worker, AddFiles(w) PROVE Longer /\ SameNodes /\ SameFiles
  <2>1. UNCHANGED directories
    BY <1>6 DEF AddFiles
  <2>2. /\ Len(files') = Len(files) + Len(local[w].names) /\ Len(local[w].names) \in Nat
        /\ \A i \in 1 .. Len(files) : files'[i] = files[i]
    BY <1>1, <1>6, FilesAdded
  <2> QED BY <1>2, <2>1, <2>2
<1>7. ASSUME NEW w \in Worker, LinkFiles(w) PROVE Longer /\ SameNodes /\ SameFiles
  <2>1. UNCHANGED files
    BY <1>7 DEF LinkFiles
  <2>2. /\ Len(directories') = Len(directories)
        /\ directories'[This(w)] = [directories[This(w)] EXCEPT !.files = @ \o local[w].ids]
        /\ \A i \in DOMAIN directories : i # This(w) => directories'[i] = directories[i]
    BY <1>1, <1>7, FilesLinked
  <2> QED BY <1>2, <2>1, <2>2, SMTT(30) DEF Node
<1> HIDE DEF Longer, SameNodes, SameFiles
<1> QED BY <1>1, <1>3, <1>4, <1>5, <1>6, <1>7, TreeWriters

LEMMA PathsStep == ScanInv /\ [Next]_vars => PathsInv'
<1> SUFFICES ASSUME ScanInv, [Next]_vars PROVE PathsInv'
  OBVIOUS
<1>1. /\ IInv /\ ScanTypes /\ ScanControl /\ TreeShaped /\ NodesInv
      /\ ScanTypes' /\ ScanControl'
  BY TypesStep, ScanControlStep DEF ScanInv, ShapeInv
<1> DEFINE Top == directories # <<>> => directories[1].path = RootDir
           Under == \A i \in DOMAIN directories :
                       i > 1 => Lists(directories[directories[i].parent + 1].path,
                                      directories[i].path)
           Once == \A i, j \in DOMAIN directories :
                      directories[i].path = directories[j].path => i = j
           InHand(w) == /\ IsInjective(local[w].dirs)
                        /\ \A i \in DOMAIN local[w].dirs :
                              Lists(directories[This(w)].path, local[w].dirs[i])
           Hands == \A w \in Worker : hpc[w] \in {"count", "add_dirs"} => InHand(w)
<1>2. PathsInv <=> Top /\ Under /\ Once /\ Hands
  <2>1. DOMAIN Paths(directories) = DOMAIN directories
        /\ \A i \in DOMAIN directories : Paths(directories)[i] = directories[i].path
    BY DEF Paths
  <2>2. IsInjective(Paths(directories)) <=> Once
    BY <2>1 DEF IsInjective
  <2> QED BY <2>2 DEF PathsInv
<1>3. Top /\ Under /\ Once /\ Hands
  BY <1>2 DEF ScanInv
<1>4. SUFFICES Top' /\ Under' /\ Once' /\ Hands'
  <2>1. PathsInv' <=> Top' /\ Under' /\ Once' /\ Hands'
    <3>1. DOMAIN Paths(directories)' = DOMAIN directories'
          /\ \A i \in DOMAIN directories' : Paths(directories)'[i] = directories'[i].path
      BY DEF Paths
    <3>2. IsInjective(Paths(directories)') <=> Once'
      BY <3>1 DEF IsInjective
    <3> QED BY <3>2 DEF PathsInv
  <2> QED BY <1>4, <2>1
<1>g. /\ DOMAIN directories \subseteq DOMAIN directories'
      /\ \A i \in DOMAIN directories : /\ directories'[i].path = directories[i].path
                                       /\ directories'[i].parent = directories[i].parent
  BY TreeGrows
<1>t. /\ Len(directories) \in Nat /\ DOMAIN directories = 1 .. Len(directories)
      /\ \A i \in 1 .. Len(directories) : directories[i] \in Node /\ directories[i].path \in Dir
      /\ hpc \in [Worker -> ScanLabel] /\ local \in [Worker -> Locals]
  BY <1>1, NodeTypes DEF Node, ScanTypes, ScanTypeOK, ScanLabel
\* What a worker has in hand.
<1>5. Hands'
  <2>1. ASSUME NEW u \in Worker, hpc[u] \in {"count", "add_dirs"},
               local'[u] = local[u], task'[u] = task[u]
        PROVE  InHand(u)'
    <3>1. This(u) \in DOMAIN directories
      BY <1>1, <2>1, BusyFacts DEF ScanControl
    <3>2. This(u)' = This(u) /\ InHand(u)
      BY <1>3, <2>1 DEF This
    <3> QED BY <1>g, <2>1, <3>1, <3>2
  <2>2. CASE RejectRoot \/ CreateRoot \/ Quiet \/ UNCHANGED vars
    BY <2>1, <2>2, MainFrame
  <2>3. ASSUME NEW w \in Worker, Elsewhere(w) PROVE Hands'
    <3>1. /\ UNCHANGED <<hpc, local>>
          /\ \A u \in Worker : pc[u] \in Busy => task'[u] = task[u]
      BY <1>1, <2>3, PoolFrame DEF Elsewhere, scan_vars
    <3>2. \A u \in Worker : hpc[u] \in {"count", "add_dirs"} => pc[u] \in Busy
      BY <1>1 DEF ScanControl
    <3> HIDE DEF InHand
    <3> QED BY <2>1, <3>1, <3>2
  <2>4. ASSUME NEW w \in Worker, Scans(w) PROVE Hands'
    <3>1. /\ pc[w] \in Busy /\ (Return(w) \/ UNCHANGED <<task, finished>>)
          /\ \A u \in Worker \ {w} : /\ hpc'[u] = hpc[u] /\ local'[u] = local[u]
                                       /\ task'[u] = task[u]
      BY <1>1, <2>4, ScanFrame
    <3>2. hpc'[w] \in {"count", "add_dirs"} => InHand(w)'
      <4>1. CASE List(w)
        <5> PICK d : d = directories[This(w)].path
          OBVIOUS
        <5>1. d \in Dir
          BY <1>1, <3>1, BusyFacts
        <5>2. local' = [local EXCEPT ![w] = [NoLocals EXCEPT
                              !.dirs = Subdirs(Entries(d)), !.names = FileNames(Entries(d)),
                              !.errors = ErrorRecords(Entries(d))]]
          BY <4>1 DEF List
        <5>3. local'[w].dirs = Subdirs(Entries(d))
          BY <1>t, <5>2 DEF NoLocals
        <5>4. UNCHANGED <<directories, task>>
          BY <4>1 DEF List, tree, pool_vars
        <5>5. /\ IsInjective(local'[w].dirs)
              /\ \A i \in DOMAIN local'[w].dirs : Lists(d, local'[w].dirs[i])
          BY <1>1, <5>1, <5>3, Collected DEF ScanTypes, ScanTypeOK
        <5> QED BY <5>4, <5>5 DEF This
      <4>2. CASE CountDirs(w)
        <5>1. hpc[w] \in {"count", "add_dirs"} /\ local'[w] = local[w] /\ task'[w] = task[w]
          BY <4>2 DEF CountDirs, pool_vars, At
        <5> QED BY <2>1, <5>1
      <4>3. CASE ~List(w) /\ ~CountDirs(w)
        <5>1. \E label \in ScanLabel \ {"count", "add_dirs"} : hpc' = [hpc EXCEPT ![w] = label]
          BY <2>4, <4>3 DEF Scans, ScanStep, AddDirs, AddNames, AddFiles, LinkFiles, CountDown,
                NotifyMain, Return, Submit, To, ScanLabel
        <5> QED BY <1>t, <5>1
      <4> QED BY <4>1, <4>2, <4>3
    <3> HIDE DEF InHand
    <3> QED BY <2>1, <3>1, <3>2
  <2> HIDE DEF Hands
  <2> QED BY <2>2, <2>3, <2>4, StepCases
\* The nodes there were.
<1>6. \A i \in DOMAIN directories :
         i > 1 => Lists(directories'[directories'[i].parent + 1].path, directories'[i].path)
  <2> SUFFICES ASSUME NEW i \in DOMAIN directories, i > 1
               PROVE  Lists(directories'[directories'[i].parent + 1].path, directories'[i].path)
    OBVIOUS
  <2>1. directories[i].parent \in 0 .. i - 2
    BY <1>1 DEF TreeShaped
  <2>2. directories[i].parent + 1 \in DOMAIN directories
    BY <1>t, <2>1
  <2> QED BY <1>3, <1>g, <2>2
<1>7. ASSUME directories # <<>>, DOMAIN directories' = DOMAIN directories
      PROVE  Top' /\ Under' /\ Once'
  <2>1. 1 \in DOMAIN directories
    BY <1>7, <1>t, EmptySeq, NodeTypes, <1>1 DEF ScanTypes
  <2> QED BY <1>3, <1>6, <1>7, <1>g, <2>1
<1>8. CASE UNCHANGED <<directories, files>>
  <2>1. Top' /\ Under' /\ Once'
    BY <1>3, <1>8 DEF Lists
  <2> HIDE DEF Hands
  <2> QED BY <1>5, <2>1
<1>9. CASE CreateRoot
  <2> PICK root : directories' = Append(<<>>, root) /\ root.path = RootDir
    BY <1>1, <1>9 DEF CreateRoot, ScanControl
  <2>1. directories' = <<root>>
    OBVIOUS
  <2>2. DOMAIN directories' = {1} /\ directories'[1] = root
    BY <2>1
  <2>3. Top' /\ Under' /\ Once'
    BY <2>2
  <2> HIDE DEF Hands
  <2> QED BY <1>5, <2>3
<1>10. ASSUME NEW w \in Worker, AddFiles(w) PROVE Top' /\ Under' /\ Once'
  BY <1>3, <1>10 DEF AddFiles, Lists
<1>11. ASSUME NEW w \in Worker, LinkFiles(w) PROVE Top' /\ Under' /\ Once'
  <2>1. Len(directories') = Len(directories) /\ This(w) \in DOMAIN directories
    BY <1>1, <1>11, FilesLinked, BusyFacts DEF LinkFiles, At, Busy
  <2>2. DOMAIN directories' = DOMAIN directories
    BY <1>1, <1>t, <2>1, LenProperties DEF ScanTypes
  <2>3. directories # <<>>
    BY <1>t, <2>1, EmptySeq
  <2> QED BY <1>7, <2>2, <2>3
<1>12. ASSUME NEW w \in Worker, AddDirs(w) PROVE Top' /\ Under' /\ Once'
  <2> PICK m, dirs, t : m = Len(directories) /\ dirs = local[w].dirs /\ t = task[w]
    OBVIOUS
  <2> PICK n : n = Len(dirs)
    OBVIOUS
  <2> PICK d : d = directories[t + 1].path
    OBVIOUS
  <2>1. /\ Len(directories') = m + n /\ n \in Nat \ {0} /\ directories' \in Seq(Node)
        /\ \A i \in 1 .. n : directories'[m + i] =
              [id |-> m + i - 1, parent |-> t, path |-> dirs[i], subdirs |-> <<>>, files |-> <<>>]
    BY <1>1, <1>12, DirsAdded
  <2>2. m \in Nat /\ DOMAIN directories = 1 .. m /\ DOMAIN directories' = 1 .. m + n
    BY <1>t, <2>1, LenProperties
  <2>3. t \in 0 .. m - 1 /\ t + 1 \in 1 .. m /\ d \in Dir /\ t \in Ids
    BY <1>1, <1>12, <1>t, <2>2, BusyFacts DEF AddDirs, Busy, At, Ids
  <2>4. /\ IsInjective(dirs) /\ dirs \in Seq(Dir) /\ DOMAIN dirs = 1 .. n
        /\ \A i \in 1 .. n : dirs[i] \in Dir /\ Lists(d, dirs[i])
    <3>1. dirs \in Seq(Dir)
      BY <1>t DEF Locals
    <3>2. DOMAIN dirs = 1 .. n /\ \A i \in 1 .. n : dirs[i] \in Dir
      BY <3>1, <2>1, LenProperties, ElementOfSeq
    <3>3. IsInjective(dirs) /\ \A i \in DOMAIN dirs : Lists(d, dirs[i])
      BY <1>3, <1>12 DEF AddDirs, At, This
    <3> QED BY <3>1, <3>2, <3>3
  <2>5. \A i \in 1 .. n : dirs[i] # RootDir /\ \A e \in Dir : Lists(e, dirs[i]) => e = d
    BY <2>3, <2>4, OnePlace
  \* What w lists has no node yet: w has not added any, and it is listed nowhere else.
  <2>6. \A j \in 1 .. m : \A i \in 1 .. n : directories[j].path # dirs[i]
    <3> SUFFICES ASSUME NEW j \in 1 .. m, NEW i \in 1 .. n, directories[j].path = dirs[i]
                 PROVE  FALSE
      OBVIOUS
    <3>1. directories # <<>>
      BY <1>t, <2>2, EmptySeq
    <3>2. j > 1
      BY <1>3, <2>2, <2>5, <3>1
    <3> PICK p : p = directories[j].parent
      OBVIOUS
    <3>3. p \in 0 .. j - 2 /\ p + 1 \in 1 .. m
      <4>1. p \in 0 .. j - 2
        BY <1>1, <2>2, <3>2 DEF TreeShaped
      <4> QED BY <4>1, <2>2
    <3>4. Lists(directories[p + 1].path, dirs[i]) /\ directories[p + 1].path \in Dir
      BY <1>3, <1>t, <2>2, <3>2, <3>3
    <3>5. directories[p + 1].path = directories[t + 1].path
      BY <2>5, <3>4
    <3>6. p = t
      <4>1. p + 1 = t + 1
        BY <1>3, <2>2, <2>3, <3>3, <3>5
      <4> QED BY <2>3, <3>3, <4>1
    <3>7. directories[t + 1].subdirs = <<>>
      <4>1. t \notin DoneUpTo(AfterDirs)
        <5>1. pc[w] \in Busy /\ hpc[w] \notin AfterDirs
          BY <1>12 DEF AddDirs, At, Busy, AfterDirs
        <5> QED BY <1>1, <5>1, StageOf
      <4> QED BY <1>1, <2>3, <4>1 DEF NodesInv, NodeHolds
    <3>8. ToSet(directories[t + 1].subdirs) = ChildIds(t)
      <4>1. Shaped(t + 1)
        BY <1>1, <2>2, <2>3, ShapeFacts
      <4> PICK x : x = t + 1
        OBVIOUS
      <4>2. x - 1 = t /\ Shaped(x)
        BY <2>3, <4>1
      <4>3. ToSet(directories[x].subdirs) = ChildIds(t)
        BY <4>2 DEF Shaped
      <4> QED BY <4>3
    <3>9. j - 1 \in ChildIds(t)
      <4> PICK c : c = j - 1
        OBVIOUS
      <4>1. c + 1 = j
        BY <2>2
      <4>2. c \in Ids
        BY <1>1, <2>2, NodeTypes
      <4> QED BY <3>6, <4>1, <4>2 DEF ChildIds
    <3>10. ToSet(<<>>) = {}
      BY EmptySeq DEF ToSet
    <3> QED BY <3>7, <3>8, <3>9, <3>10
  <2>7. \A i \in m + 1 .. m + n : /\ i - m \in 1 .. n /\ directories'[i].parent = t
                                  /\ directories'[i].path = dirs[i - m]
    <3> SUFFICES ASSUME NEW i \in m + 1 .. m + n
                 PROVE  /\ i - m \in 1 .. n /\ directories'[i].parent = t
                        /\ directories'[i].path = dirs[i - m]
      OBVIOUS
    <3> PICK j : j = i - m
      OBVIOUS
    <3>1. j \in 1 .. n /\ m + j = i
      BY <2>1, <2>2
    <3>2. directories'[m + j] = [id |-> m + j - 1, parent |-> t, path |-> dirs[j],
                                 subdirs |-> <<>>, files |-> <<>>]
      BY <2>1, <3>1
    <3> QED BY <2>2, <3>1, <3>2
  <2>8. \A i \in 1 .. m + n : i \in 1 .. m \/ i \in m + 1 .. m + n
    BY <2>1, <2>2
  <2>9. Top'
    BY <1>3, <1>g, <1>t, <2>2, <2>3, EmptySeq
  <2>10. Under'
    <3>1. \A i \in m + 1 .. m + n : Lists(directories'[directories'[i].parent + 1].path,
                                          directories'[i].path)
      <4> SUFFICES ASSUME NEW i \in m + 1 .. m + n
                   PROVE  Lists(directories'[directories'[i].parent + 1].path, directories'[i].path)
        OBVIOUS
      <4>1. directories'[i].parent = t /\ directories'[t + 1].path = d
        BY <1>g, <2>2, <2>3, <2>7
      <4>2. Lists(d, directories'[i].path)
        BY <2>4, <2>7
      <4> QED BY <4>1, <4>2
    <3> QED BY <1>6, <2>2, <2>8, <3>1
  <2>11. Once'
    <3> SUFFICES ASSUME NEW i \in 1 .. m + n, NEW j \in 1 .. m + n,
                        directories'[i].path = directories'[j].path
                 PROVE  i = j
      BY <2>2
    <3>1. CASE i \in 1 .. m /\ j \in 1 .. m
      BY <1>3, <1>g, <2>2, <3>1
    <3>2. CASE i \in 1 .. m /\ j \in m + 1 .. m + n
      BY <1>g, <2>2, <2>6, <2>7, <3>2, SMTT(30)
    <3>3. CASE i \in m + 1 .. m + n /\ j \in 1 .. m
      BY <1>g, <2>2, <2>6, <2>7, <3>3, SMTT(30)
    <3>4. CASE i \in m + 1 .. m + n /\ j \in m + 1 .. m + n
      <4>1. dirs[i - m] = dirs[j - m] /\ i - m \in 1 .. n /\ j - m \in 1 .. n
        BY <2>7, <3>4
      <4>2. i - m = j - m
        BY <2>4, <4>1 DEF IsInjective
      <4> QED BY <2>1, <2>2, <3>4, <4>2
    <3> QED BY <2>8, <3>1, <3>2, <3>3, <3>4
  <2> QED BY <2>9, <2>10, <2>11
<1> HIDE DEF Top, Under, Once, Hands
<1> QED BY <1>1, <1>5, <1>8, <1>9, <1>10, <1>11, <1>12, TreeWriters

-----------------------------------------------------------------------------
(* The steps keep the invariant: what the nodes and the workers hold *)

\* Errors are only added, and what a directory yields does not change.
LEMMA HistoryGrows ==
    ASSUME ScanInv, [Next]_vars
    PROVE  ToSet(errors) \subseteq ToSet(errors') /\ read' = read
<1>1. errors \in Seq(ErrorRecord) /\ \A w \in Worker : local[w].errors \in Seq(ErrorRecord)
  BY DEF ScanInv, ScanTypes, Locals
<1>2. CASE RejectRoot
  <2>1. PICK e \in ErrorRecord : errors' = Append(errors, e)
    BY <1>2, ScanAssumption DEF RejectRoot, ErrorRecord, Path
  <2>2. ToSet(errors') = ToSet(errors) \cup {e}
    BY <1>1, <2>1, LastAdded
  <2> QED BY <1>2, <2>2 DEF RejectRoot
<1>3. CASE CreateRoot \/ Quiet \/ UNCHANGED vars
  BY <1>3 DEF CreateRoot, Quiet, StartPool, LoadActive, WaitActive, Finish, DestroyPool, tree,
        vars, scan_vars
<1>4. ASSUME NEW w \in Worker, AddFiles(w)
      PROVE  ToSet(errors) \subseteq ToSet(errors') /\ read' = read
  <2>1. errors' = errors \o local[w].errors /\ UNCHANGED read
    BY <1>4 DEF AddFiles
  <2>2. ToSet(errors') = ToSet(errors) \cup ToSet(local[w].errors)
    BY <1>1, <2>1, Joined
  <2> QED BY <2>1, <2>2
<1>5. ASSUME NEW w \in Worker, List(w)
      PROVE  ToSet(errors) \subseteq ToSet(errors') /\ read' = read
  BY <1>5 DEF List, tree
<1>6. ASSUME NEW w \in Worker, Scans(w), ~AddFiles(w), ~List(w)
      PROVE  ToSet(errors) \subseteq ToSet(errors') /\ read' = read
  BY <1>6 DEF Scans, ScanStep, CountDirs, AddDirs, AddNames, LinkFiles, CountDown, NotifyMain,
        Return, Submit, tree
<1>7. ASSUME NEW w \in Worker, Elsewhere(w)
      PROVE  ToSet(errors) \subseteq ToSet(errors') /\ read' = read
  BY <1>7, PoolFrame DEF ScanInv, Elsewhere, scan_vars, tree
<1> QED BY <1>2, <1>3, <1>4, <1>5, <1>6, <1>7, StepCases

\* What is listed stays listed: nodes and files keep their names.
LEMMA DirsStayListed ==
    ASSUME ScanInv, [Next]_vars, NEW node, ToSet(node.subdirs) \subseteq Ids, DirsListed(node)
    PROVE  DirsListed(node)'
<1>1. \A j \in DOMAIN node.subdirs : node.subdirs[j] \in Ids
  BY DEF ToSet
<1>2. \A t \in Ids : directories'[t + 1].path = directories[t + 1].path
  BY TreeGrows, NodeTypes DEF ScanInv
<1> QED BY <1>1, <1>2, HistoryGrows DEF DirsListed, Entries

LEMMA FilesStayListed ==
    ASSUME ScanInv, [Next]_vars, NEW ids, NEW d, ToSet(ids) \subseteq 0 .. Len(files) - 1,
           FilesListed(ids, d)
    PROVE  FilesListed(ids, d)'
<1>1. \A j \in DOMAIN ids : ids[j] \in 0 .. Len(files) - 1
  BY DEF ToSet
<1>2. \A t \in 0 .. Len(files) - 1 : files'[t + 1] = files[t + 1]
  <2>1. \A t \in 0 .. Len(files) - 1 : t + 1 \in DOMAIN files
    BY NodeTypes DEF ScanInv
  <2> QED BY <2>1, TreeGrows
<1> QED BY <1>1, <1>2, HistoryGrows DEF FilesListed, Entries

\* A node that is not written to, and whose scan stays at its stage.
LEMMA NodeKept ==
    ASSUME ScanInv, [Next]_vars, NEW t \in Ids, directories'[t + 1] = directories[t + 1],
           t \in DoneUpTo(AfterDirs)' <=> t \in DoneUpTo(AfterDirs),
           t \in DoneUpTo(AfterAdd)' <=> t \in DoneUpTo(AfterAdd),
           t \in DoneUpTo(AfterLink)' <=> t \in DoneUpTo(AfterLink)
    PROVE  NodeHolds(t)'
<1> PICK node : node = directories[t + 1]
  OBVIOUS
<1>1. NodeHolds(t) /\ ScanTypes
  BY DEF ScanInv, NodesInv
<1>2. ToSet(node.subdirs) \subseteq Ids /\ ToSet(node.files) \subseteq 0 .. Len(files) - 1
  <2> PICK i : i = t + 1
    OBVIOUS
  <2>1. i \in DOMAIN directories
    BY <1>1, NodeTypes
  <2>2. Shaped(i) /\ ToSet(directories[i].files) \subseteq 0 .. Len(files) - 1
    BY <1>1, <2>1, ShapeFacts DEF ScanInv, ShapeInv
  <2>3. ToSet(node.subdirs) \subseteq Ids
    BY <2>2 DEF Shaped, ChildIds
  <2> QED BY <2>2, <2>3
<1>3. DirsListed(node) => DirsListed(node)'
  BY <1>2, DirsStayListed
<1>4. FilesListed(node.files, node.path) => FilesListed(node.files, node.path)'
  BY <1>2, FilesStayListed
<1>5. ErrorsListed(node) => ErrorsListed(node)'
  BY HistoryGrows DEF ErrorsListed, Entries
<1>6. /\ t \notin DoneUpTo(AfterDirs) => node.subdirs = <<>>
      /\ t \notin DoneUpTo(AfterLink) => node.files = <<>>
      /\ t \in DoneUpTo(AfterDirs) => DirsListed(node)
      /\ t \in DoneUpTo(AfterAdd) => ErrorsListed(node)
      /\ t \in DoneUpTo(AfterLink) => FilesListed(node.files, node.path)
  BY <1>1 DEF NodeHolds
<1> QED BY <1>3, <1>4, <1>5, <1>6 DEF NodeHolds

LEMMA NodesStep == ScanInv /\ [Next]_vars => NodesInv'
<1> SUFFICES ASSUME ScanInv, [Next]_vars PROVE NodesInv'
  OBVIOUS
<1>1. /\ IInv /\ ScanTypes /\ ScanControl /\ TreeShaped /\ NodesInv /\ LocalsInv
      /\ ScanTypes' /\ ScanControl'
  BY TypesStep, ScanControlStep DEF ScanInv, ShapeInv
<1>t. /\ hpc \in [Worker -> ScanLabel] /\ local \in [Worker -> Locals]
      /\ "list" \notin AfterDirs /\ "list" \notin AfterAdd /\ "list" \notin AfterLink
      /\ "return" \in AfterDirs /\ "return" \in AfterAdd /\ "return" \in AfterLink
  BY <1>1 DEF ScanTypes, ScanTypeOK, ScanLabel, AfterDirs, AfterAdd, AfterLink
<1>n. /\ Len(directories) \in Nat /\ DOMAIN directories = 1 .. Len(directories)
      /\ \A t \in Ids : t + 1 \in DOMAIN directories /\ t \in Nat
      /\ \A labels : "list" \notin labels => DoneUpTo(labels) \subseteq Ids
  BY <1>1, NodeTypes, DoneInTree
\* Steps that write no node and move no scan to another stage.
<1>2. ASSUME UNCHANGED directories,
             DoneUpTo(AfterDirs)' = DoneUpTo(AfterDirs), DoneUpTo(AfterAdd)' = DoneUpTo(AfterAdd),
             DoneUpTo(AfterLink)' = DoneUpTo(AfterLink)
      PROVE  NodesInv'
  <2>1. Ids' = Ids
    BY <1>2 DEF Ids
  <2>2. \A t \in Ids : NodeHolds(t)'
    BY <1>2, NodeKept
  <2> QED BY <2>1, <2>2 DEF NodesInv
\* The scan of w moves on: the other nodes stay as they are.
<1>3. ASSUME NEW w \in Worker, NEW label, hpc' = [hpc EXCEPT ![w] = label], pc[w] \in Busy,
             UNCHANGED <<task, finished>>, NEW labels,
             hpc[w] \in labels => label \in labels
      PROVE  /\ \A t \in Ids \ {task[w]} : t \in DoneUpTo(labels)' <=> t \in DoneUpTo(labels)
             /\ task[w] \in DoneUpTo(labels)' <=> label \in labels
             /\ task[w] \in DoneUpTo(labels) <=> hpc[w] \in labels
  <2>1. DoneUpTo(labels)' = IF label \in labels THEN DoneUpTo(labels) \cup {task[w]}
                                                 ELSE DoneUpTo(labels)
    BY <1>1, <1>3, StageMoved
  <2>2. task[w] \in DoneUpTo(labels) <=> hpc[w] \in labels
    BY <1>1, <1>3, StageOf
  <2> QED BY <1>3, <2>1, <2>2
<1>4. CASE RejectRoot \/ Quiet \/ UNCHANGED vars
  <2>1. UNCHANGED <<hpc, task, finished>>
    BY <1>4, MainFrame
  <2>2. UNCHANGED directories
    BY <1>4 DEF RejectRoot, Quiet, StartPool, LoadActive, WaitActive, Finish, DestroyPool, tree,
          vars, scan_vars
  <2> QED BY <1>2, <2>1, <2>2 DEF DoneUpTo
<1>5. CASE CreateRoot
  <2> PICK root : directories' = Append(<<>>, root) /\ directories = <<>>
                  /\ root.subdirs = <<>> /\ root.files = <<>>
    BY <1>1, <1>5 DEF CreateRoot, ScanControl
  <2>1. directories' = <<root>> /\ UNCHANGED <<hpc, task, finished>>
    BY <1>5, MainFrame
  <2>2. Len(directories') = 1 /\ directories'[1] = root /\ Len(directories) = 0
    BY <2>1, EmptySeq
  <2>3. Ids' = {0} /\ Ids = {}
    BY <2>2 DEF Ids
  <2>4. 0 \notin DoneUpTo(AfterDirs) /\ 0 \notin DoneUpTo(AfterAdd) /\ 0 \notin DoneUpTo(AfterLink)
    BY <1>n, <1>t, <2>3
  <2>5. 0 \notin DoneUpTo(AfterDirs)' /\ 0 \notin DoneUpTo(AfterAdd)'
        /\ 0 \notin DoneUpTo(AfterLink)'
    BY <2>1, <2>4 DEF DoneUpTo
  <2>6. NodeHolds(0)'
    BY <2>2, <2>5 DEF NodeHolds
  <2> QED BY <2>3, <2>6 DEF NodesInv
<1>6. ASSUME NEW w \in Worker, Elsewhere(w) PROVE NodesInv'
  <2>1. /\ UNCHANGED <<directories, hpc>> /\ UNCHANGED finished
        /\ \A u \in Worker : pc[u] \in Busy => task'[u] = task[u]
    BY <1>1, <1>6, PoolFrame DEF Elsewhere, scan_vars, tree
  <2> QED BY <1>1, <1>2, <1>t, <2>1, StageKept
<1>7. ASSUME NEW w \in Worker, Return(w) PROVE NodesInv'
  <2>1. UNCHANGED directories
    BY <1>7 DEF Return, tree
  <2> QED BY <1>1, <1>2, <1>7, <1>t, <2>1, StageReturned
<1>s. ASSUME NEW w \in Worker, NEW label, hpc' = [hpc EXCEPT ![w] = label], pc[w] \in Busy,
             UNCHANGED <<task, finished>>, hpc[w] \in AfterDirs => label \in AfterDirs,
             hpc[w] \in AfterAdd => label \in AfterAdd, hpc[w] \in AfterLink => label \in AfterLink
      PROVE  /\ task[w] \in DoneUpTo(AfterDirs)' <=> label \in AfterDirs
             /\ task[w] \in DoneUpTo(AfterAdd)' <=> label \in AfterAdd
             /\ task[w] \in DoneUpTo(AfterLink)' <=> label \in AfterLink
             /\ task[w] \in DoneUpTo(AfterDirs) <=> hpc[w] \in AfterDirs
             /\ task[w] \in DoneUpTo(AfterAdd) <=> hpc[w] \in AfterAdd
             /\ task[w] \in DoneUpTo(AfterLink) <=> hpc[w] \in AfterLink
  BY <1>3, <1>s
<1>8. ASSUME NEW w \in Worker, NEW label, hpc' = [hpc EXCEPT ![w] = label], pc[w] \in Busy,
             UNCHANGED <<task, finished>>, hpc[w] \in AfterDirs => label \in AfterDirs,
             hpc[w] \in AfterAdd => label \in AfterAdd, hpc[w] \in AfterLink => label \in AfterLink,
             \A t \in Ids \ {task[w]} : directories'[t + 1] = directories[t + 1]
      PROVE  \A t \in Ids \ {task[w]} : NodeHolds(t)'
  <2> SUFFICES ASSUME NEW t \in Ids \ {task[w]} PROVE NodeHolds(t)'
    OBVIOUS
  <2>1. /\ t \in DoneUpTo(AfterDirs)' <=> t \in DoneUpTo(AfterDirs)
        /\ t \in DoneUpTo(AfterAdd)' <=> t \in DoneUpTo(AfterAdd)
        /\ t \in DoneUpTo(AfterLink)' <=> t \in DoneUpTo(AfterLink)
    BY <1>3, <1>8
  <2> QED BY <1>8, <2>1, NodeKept
\* w stays at its stage.
<1>9. ASSUME NEW w \in Worker,
             CountDirs(w) \/ Submit(w) \/ AddNames(w) \/ CountDown(w) \/ NotifyMain(w)
      PROVE  NodesInv'
  <2>1. UNCHANGED <<directories, task, finished>> /\ pc[w] \in Busy
    BY <1>9 DEF CountDirs, Submit, SubmitPush, AddNames, CountDown, NotifyMain, tree, pool_vars,
          Busy, At
  <2>2. PICK label : /\ hpc' = [hpc EXCEPT ![w] = label]
                     /\ hpc[w] \in AfterDirs <=> label \in AfterDirs
                     /\ hpc[w] \in AfterAdd <=> label \in AfterAdd
                     /\ hpc[w] \in AfterLink <=> label \in AfterLink
    BY <1>9 DEF CountDirs, Submit, AddNames, CountDown, NotifyMain, At, To, AfterDirs, AfterAdd,
          AfterLink
  <2>3. ASSUME NEW labels, hpc[w] \in labels <=> label \in labels
        PROVE  DoneUpTo(labels)' = DoneUpTo(labels)
    <3>1. DoneUpTo(labels)' = IF label \in labels THEN DoneUpTo(labels) \cup {task[w]}
                                                   ELSE DoneUpTo(labels)
      BY <1>1, <2>1, <2>2, <2>3, StageMoved
    <3>2. task[w] \in DoneUpTo(labels) <=> hpc[w] \in labels
      BY <1>1, <2>1, StageOf
    <3> QED BY <2>3, <3>1, <3>2
  <2> QED BY <1>2, <2>1, <2>2, <2>3
<1>10. ASSUME NEW w \in Worker, List(w) PROVE NodesInv'
  <2> PICK t, d : t = task[w] /\ d = directories[t + 1].path
    OBVIOUS
  <2>1. UNCHANGED <<directories, task, finished, read>> /\ pc[w] \in Busy /\ hpc[w] = "list"
    BY <1>10 DEF List, tree, pool_vars, Busy, At
  <2>2. t \in Ids /\ d \in Dir
    BY <1>1, <2>1, BusyFacts DEF This
  <2> PICK label : label = IF Subdirs(Entries(d)) = <<>> THEN "arena" ELSE "count"
    OBVIOUS
  <2>3. To(w, label)
    BY <1>10 DEF List, This
  <2>4. hpc' = [hpc EXCEPT ![w] = label] /\ label \in {"arena", "count"}
    BY <2>3 DEF To
  <2>5. Ids' = Ids /\ \A x \in Ids \ {t} : NodeHolds(x)'
    <3>1. \A x \in Ids \ {t} : NodeHolds(x)'
      BY <1>8, <2>1, <2>4 DEF AfterDirs, AfterAdd, AfterLink
    <3> QED BY <2>1, <3>1 DEF Ids
  <2>6. /\ t \notin DoneUpTo(AfterDirs) /\ t \notin DoneUpTo(AfterLink)
        /\ t \notin DoneUpTo(AfterAdd)' /\ t \notin DoneUpTo(AfterLink)'
        /\ t \in DoneUpTo(AfterDirs)' <=> label = "arena"
    <3>1. /\ hpc[w] \notin AfterDirs /\ hpc[w] \notin AfterAdd /\ hpc[w] \notin AfterLink
          /\ label \in AfterDirs <=> label = "arena"
          /\ label \notin AfterAdd /\ label \notin AfterLink
      BY <2>1, <2>4 DEF AfterDirs, AfterAdd, AfterLink
    <3> QED BY <1>s, <2>1, <2>4, <3>1
  <2>7. directories[t + 1].subdirs = <<>> /\ directories[t + 1].files = <<>>
    BY <1>1, <2>2, <2>6 DEF NodesInv, NodeHolds
  <2>8. label = "arena" => Subdirs(Entries(d)) = <<>> /\ Entries(d)' = Entries(d)
    BY <2>1 DEF Entries
  <2>9. ASSUME label = "arena" PROVE DirsListed(directories[t + 1])'
    <3>1. DOMAIN <<>> = {} /\ <<>> = [j \in {} |-> directories'[<<>>[j] + 1].path]
      BY EmptySeq
    <3> QED BY <2>1, <2>7, <2>8, <2>9, <3>1 DEF DirsListed
  <2>10. NodeHolds(t)'
    BY <2>1, <2>6, <2>7, <2>9 DEF NodeHolds
  <2> QED BY <2>5, <2>10 DEF NodesInv
<1>11. ASSUME NEW w \in Worker, LinkFiles(w) PROVE NodesInv'
  <2> PICK t, ids, old : t = task[w] /\ ids = local[w].ids /\ old = directories[t + 1]
    OBVIOUS
  <2>1. /\ UNCHANGED <<task, finished, files, errors, read>> /\ pc[w] \in Busy
        /\ hpc[w] = "link" /\ hpc' = [hpc EXCEPT ![w] = "finished"]
    BY <1>11 DEF LinkFiles, pool_vars, Busy, At, To
  <2>2. /\ Len(directories') = Len(directories)
        /\ directories'[t + 1] = [old EXCEPT !.files = @ \o ids]
        /\ \A i \in DOMAIN directories : i # t + 1 => directories'[i] = directories[i]
    BY <1>1, <1>11, FilesLinked DEF This
  <2>3. t \in Ids /\ old \in Node /\ ids \in Seq(Nat)
    BY <1>1, <1>t, <2>1, BusyFacts DEF This, Locals
  <2>4. \A x \in Ids \ {t} : directories'[x + 1] = directories[x + 1]
    <3> SUFFICES ASSUME NEW x \in Ids \ {t} PROVE directories'[x + 1] = directories[x + 1]
      OBVIOUS
    <3>1. x + 1 \in DOMAIN directories /\ x + 1 # t + 1
      BY <1>n, <2>3
    <3> QED BY <2>2, <3>1
  <2>5. Ids' = Ids /\ \A x \in Ids \ {t} : NodeHolds(x)'
    <3>1. \A x \in Ids \ {t} : NodeHolds(x)'
      BY <1>8, <2>1, <2>4 DEF AfterDirs, AfterAdd, AfterLink
    <3> QED BY <2>2, <3>1 DEF Ids
  <2>6. /\ t \in DoneUpTo(AfterDirs) /\ t \in DoneUpTo(AfterAdd) /\ t \notin DoneUpTo(AfterLink)
        /\ t \in DoneUpTo(AfterDirs)' /\ t \in DoneUpTo(AfterLink)'
    <3>1. /\ hpc[w] \in AfterDirs /\ hpc[w] \in AfterAdd /\ hpc[w] \notin AfterLink
          /\ "finished" \in AfterDirs /\ "finished" \in AfterAdd /\ "finished" \in AfterLink
      BY <2>1 DEF AfterDirs, AfterAdd, AfterLink
    <3> QED BY <1>s, <2>1, <3>1
  <2>7. /\ old.files = <<>>
        /\ DirsListed(old) /\ ErrorsListed(old) /\ FilesListed(ids, old.path)
    <3>1. NodeHolds(t) /\ HandHolds(w)
      BY <1>1, <2>3 DEF NodesInv, LocalsInv
    <3>2. FilesListed(ids, old.path)
      BY <2>1, <3>1 DEF HandHolds, This
    <3> QED BY <2>6, <3>1, <3>2 DEF NodeHolds
  <2>8. /\ directories'[t + 1].files = ids /\ directories'[t + 1].path = old.path
        /\ directories'[t + 1].subdirs = old.subdirs
    <3>1. old.files \o ids = ids
      BY <2>3, <2>7, ConcatEmptySeq
    <3> QED BY <2>2, <2>3, <3>1 DEF Node
  <2>9. DirsListed(old)'
    <3>1. ToSet(old.subdirs) \subseteq Ids
      <4> PICK i : i = t + 1
        OBVIOUS
      <4>1. Shaped(i)
        BY <1>1, <1>n, <2>3, ShapeFacts
      <4> QED BY <4>1 DEF Shaped, ChildIds
    <3> QED BY <2>7, <3>1, DirsStayListed
  <2>10. NodeHolds(t)'
    <3> PICK node : node = directories'[t + 1]
      OBVIOUS
    <3>1. FilesListed(ids, old.path)'
      BY <2>1, <2>7 DEF FilesListed, Entries
    <3>2. DirsListed(old)' => DirsListed(node)'
      BY <2>8 DEF DirsListed, Entries
    <3>3. ErrorsListed(old) => ErrorsListed(node)'
      BY <2>1, <2>8 DEF ErrorsListed, Entries
    <3> QED BY <2>1, <2>6, <2>7, <2>8, <2>9, <3>1, <3>2, <3>3 DEF NodeHolds
  <2> QED BY <2>5, <2>10 DEF NodesInv
<1>12. ASSUME NEW w \in Worker, AddFiles(w) PROVE NodesInv'
  <2> PICK t, node, label : /\ t = task[w] /\ node = directories[t + 1]
                            /\ label = IF local[w].names = <<>> THEN "finished" ELSE "link"
    OBVIOUS
  <2>1. /\ UNCHANGED <<directories, task, finished, read>> /\ pc[w] \in Busy
        /\ errors' = errors \o local[w].errors
        /\ hpc[w] = "add_files" /\ hpc' = [hpc EXCEPT ![w] = label] /\ label \in {"finished", "link"}
    BY <1>12 DEF AddFiles, pool_vars, Busy, At, To
  <2>2. t \in Ids
    BY <1>1, <2>1, BusyFacts
  <2>3. Ids' = Ids /\ \A x \in Ids \ {t} : NodeHolds(x)'
    <3>1. \A x \in Ids \ {t} : NodeHolds(x)'
      BY <1>8, <2>1 DEF AfterDirs, AfterAdd, AfterLink
    <3> QED BY <2>1, <3>1 DEF Ids
  <2>4. /\ t \in DoneUpTo(AfterDirs) /\ t \notin DoneUpTo(AfterLink)
        /\ t \in DoneUpTo(AfterDirs)'
        /\ t \in DoneUpTo(AfterLink)' <=> label = "finished"
    <3>1. /\ hpc[w] \in AfterDirs /\ hpc[w] \notin AfterAdd /\ hpc[w] \notin AfterLink
          /\ label \in AfterDirs /\ label \in AfterAdd
          /\ label \in AfterLink <=> label = "finished"
      BY <2>1 DEF AfterDirs, AfterAdd, AfterLink
    <3> QED BY <1>s, <2>1, <3>1
  <2>5. /\ node.files = <<>>
        /\ DirsListed(node)
    <3>1. NodeHolds(t)
      BY <1>1, <2>2 DEF NodesInv
    <3> QED BY <2>4, <3>1 DEF NodeHolds
  <2>6. /\ local[w].names = FileNames(Entries(node.path))
        /\ local[w].errors = ErrorRecords(Entries(node.path))
        /\ Entries(node.path)' = Entries(node.path)
    <3>1. HandHolds(w)
      BY <1>1 DEF LocalsInv
    <3>2. Entries(node.path)' = Entries(node.path)
      BY <2>1 DEF Entries
    <3> QED BY <2>1, <3>1, <3>2 DEF HandHolds, This
  <2>7. DirsListed(node)'
    <3>1. ToSet(node.subdirs) \subseteq Ids
      <4> PICK i : i = t + 1
        OBVIOUS
      <4>1. Shaped(i)
        BY <1>1, <1>n, <2>2, ShapeFacts
      <4> QED BY <4>1 DEF Shaped, ChildIds
    <3> QED BY <2>5, <3>1, DirsStayListed
  <2>8. ErrorsListed(node)'
    <3>1. errors \in Seq(ErrorRecord) /\ local[w].errors \in Seq(ErrorRecord)
      BY <1>1, <1>t DEF ScanTypes, Locals
    <3>2. ToSet(errors') = ToSet(errors) \cup ToSet(local[w].errors)
      BY <2>1, <3>1, Joined
    <3> QED BY <2>6, <3>2 DEF ErrorsListed
  <2>9. label = "finished" => FilesListed(node.files, node.path)'
    <3> PICK ids : ids = node.files
      OBVIOUS
    <3>1. SUFFICES ASSUME FileNames(Entries(node.path)) = <<>> PROVE FilesListed(ids, node.path)'
      BY <2>1, <2>6
    <3>2. DOMAIN ids = {} /\ <<>> = [j \in {} |-> files'[ids[j] + 1].name]
      BY <2>5, EmptySeq
    <3> QED BY <2>6, <3>1, <3>2 DEF FilesListed
  <2>10. NodeHolds(t)'
    <3>1. directories'[t + 1] = node
      BY <2>1
    <3>2. t \in DoneUpTo(AfterLink)' => FilesListed(node.files, node.path)'
      BY <2>4, <2>9
    <3> QED BY <2>4, <2>5, <2>7, <2>8, <3>1, <3>2 DEF NodeHolds
  <2> QED BY <2>3, <2>10 DEF NodesInv
<1>13. ASSUME NEW w \in Worker, AddDirs(w) PROVE NodesInv'
  <2> PICK t, m, dirs, old : /\ t = task[w] /\ m = Len(directories) /\ dirs = local[w].dirs
                             /\ old = directories[t + 1]
    OBVIOUS
  <2> PICK n : n = Len(dirs)
    OBVIOUS
  <2> PICK ids : ids = NewIds(m, n)
    OBVIOUS
  <2>1. /\ UNCHANGED <<task, finished, files, errors, read>> /\ pc[w] \in Busy
        /\ hpc[w] = "add_dirs" /\ hpc' = [hpc EXCEPT ![w] = "submit"]
    BY <1>13 DEF AddDirs, pool_vars, Busy, At, To
  <2>2. /\ Len(directories') = m + n /\ n \in Nat \ {0}
        /\ directories'[t + 1] = [old EXCEPT !.subdirs = @ \o ids]
        /\ \A i \in 1 .. m : i # t + 1 => directories'[i] = directories[i]
        /\ \A i \in 1 .. n : directories'[m + i] =
              [id |-> m + i - 1, parent |-> t, path |-> dirs[i], subdirs |-> <<>>, files |-> <<>>]
    BY <1>1, <1>13, DirsAdded DEF This
  <2>3. t \in Ids /\ old \in Node /\ m \in Nat /\ Ids = 0 .. m - 1 /\ Ids' = 0 .. m + n - 1
    BY <1>1, <1>n, <2>1, <2>2, BusyFacts DEF This, Ids
  <2>4. ids \in Seq(Nat) /\ DOMAIN ids = 1 .. n /\ \A i \in 1 .. n : ids[i] = m + i - 1
    <3>1. n \in Nat /\ m \in Nat
      BY <2>2, <2>3
    <3> QED BY <3>1, NewIdsFacts
  <2>5. \A x \in Ids \ {t} : NodeHolds(x)'
    <3>1. \A x \in Ids \ {t} : x + 1 \in 1 .. m /\ x + 1 # t + 1
      BY <2>3
    <3>2. \A x \in Ids \ {t} : directories'[x + 1] = directories[x + 1]
      BY <2>2, <3>1
    <3> QED BY <1>8, <2>1, <3>2 DEF AfterDirs, AfterAdd, AfterLink
  <2>6. /\ t \notin DoneUpTo(AfterDirs) /\ t \notin DoneUpTo(AfterLink)
        /\ t \in DoneUpTo(AfterDirs)' /\ t \notin DoneUpTo(AfterAdd)' /\ t \notin DoneUpTo(AfterLink)'
    <3>1. /\ hpc[w] \notin AfterDirs /\ hpc[w] \notin AfterAdd /\ hpc[w] \notin AfterLink
          /\ "submit" \in AfterDirs /\ "submit" \notin AfterAdd /\ "submit" \notin AfterLink
      BY <2>1 DEF AfterDirs, AfterAdd, AfterLink
    <3> QED BY <1>s, <2>1, <3>1
  <2>7. old.files = <<>> /\ old.subdirs = <<>>
    BY <1>1, <2>3, <2>6 DEF NodesInv, NodeHolds
  <2>8. directories'[t + 1].subdirs = ids /\ directories'[t + 1].files = <<>>
        /\ directories'[t + 1].path = old.path
    <3>1. old.subdirs \o ids = ids
      BY <2>4, <2>7, ConcatEmptySeq
    <3> QED BY <2>2, <2>3, <2>7, <3>1 DEF Node
  <2>9. dirs \in Seq(Dir) /\ DOMAIN dirs = 1 .. n
    <3>1. dirs \in Seq(Dir)
      BY <1>t DEF Locals
    <3> QED BY <3>1, LenProperties
  <2>10. dirs = Subdirs(Entries(old.path))
    <3>1. HandHolds(w)
      BY <1>1 DEF LocalsInv
    <3> QED BY <2>1, <3>1 DEF HandHolds, This
  <2>11. [j \in DOMAIN ids |-> directories'[ids[j] + 1].path] = dirs
    <3>1. \A j \in 1 .. n : directories'[ids[j] + 1].path = dirs[j]
      <4> SUFFICES ASSUME NEW j \in 1 .. n PROVE directories'[ids[j] + 1].path = dirs[j]
        OBVIOUS
      <4>1. ids[j] + 1 = m + j
        BY <2>2, <2>3, <2>4, SMTT(30)
      <4>2. directories'[m + j] = [id |-> m + j - 1, parent |-> t, path |-> dirs[j],
                                   subdirs |-> <<>>, files |-> <<>>]
        BY <2>2
      <4> QED BY <4>1, <4>2
    <3>2. dirs = [j \in 1 .. n |-> dirs[j]]
      BY <2>9
    <3> QED BY <2>4, <3>1, <3>2
  <2>12. NodeHolds(t)'
    <3> PICK node : node = directories'[t + 1]
      OBVIOUS
    <3>1. DirsListed(node)'
      BY <2>1, <2>8, <2>10, <2>11 DEF DirsListed, Entries
    <3> QED BY <2>1, <2>6, <2>8, <3>1 DEF NodeHolds
  <2>13. ASSUME NEW x \in m .. m + n - 1 PROVE NodeHolds(x)'
    <3> PICK i : i = x - m + 1
      OBVIOUS
    <3>1. i \in 1 .. n /\ m + i = x + 1
      <4>1. n \in Nat /\ m \in Nat /\ x \in m .. m + n - 1
        BY <2>2, <2>3
      <4> QED BY <4>1
    <3>2. directories'[m + i] = [id |-> m + i - 1, parent |-> t, path |-> dirs[i],
                                 subdirs |-> <<>>, files |-> <<>>]
      BY <2>2, <3>1
    <3>3. x \notin Ids /\ x \in Int
      <4>1. n \in Nat /\ m \in Nat /\ Ids = 0 .. m - 1
        BY <2>2, <2>3
      <4> QED BY <4>1
    <3>4. ASSUME NEW labels, "list" \notin labels, hpc[w] \in labels => "submit" \in labels
          PROVE  x \notin DoneUpTo(labels)'
      <4>1. DoneUpTo(labels) \subseteq Ids
        BY <1>n, <3>4
      <4>2. DoneUpTo(labels)' \subseteq DoneUpTo(labels) \cup {t}
        BY <1>1, <2>1, <3>4, StageMoved
      <4> QED BY <2>3, <3>3, <4>1, <4>2
    <3>5. x \notin DoneUpTo(AfterDirs)' /\ x \notin DoneUpTo(AfterAdd)' /\ x \notin DoneUpTo(AfterLink)'
      <4>1. hpc[w] \notin AfterDirs /\ hpc[w] \notin AfterAdd /\ hpc[w] \notin AfterLink
        BY <2>1 DEF AfterDirs, AfterAdd, AfterLink
      <4> QED BY <1>t, <3>4, <4>1
    <3>6. directories'[x + 1].subdirs = <<>> /\ directories'[x + 1].files = <<>>
      BY <3>1, <3>2, SMTT(30)
    <3> QED BY <3>5, <3>6 DEF NodeHolds
  <2>14. \A x \in Ids' : x \in Ids \/ x \in m .. m + n - 1
    BY <2>2, <2>3
  <2> QED BY <2>5, <2>12, <2>13, <2>14 DEF NodesInv
<1> QED BY <1>4, <1>5, <1>6, <1>7, <1>9, <1>10, <1>11, <1>12, <1>13, NextCases

\* A scan that does not move keeps what it has in hand.
LEMMA HandKept ==
    ASSUME ScanInv, [Next]_vars, NEW u \in Worker, hpc'[u] = hpc[u], local'[u] = local[u],
           pc[u] \in Busy => task'[u] = task[u]
    PROVE  HandHolds(u)'
<1>1. CASE hpc[u] = "list"
  BY <1>1 DEF HandHolds
<1>2. CASE hpc[u] # "list"
  <2> PICK t, d, mine : t = task[u] /\ d = directories[t + 1].path /\ mine = local[u]
    OBVIOUS
  <2>1. HandHolds(u) /\ IInv /\ ScanTypes /\ ScanControl
    BY DEF ScanInv, LocalsInv
  <2>2. pc[u] \in Busy /\ task'[u] = t
    BY <1>2, <2>1 DEF ScanControl
  <2>3. t + 1 \in DOMAIN directories
    BY <2>1, <2>2, BusyFacts DEF This
  <2>4. directories'[t + 1].path = d /\ read' = read
    BY <2>3, TreeGrows, HistoryGrows
  <2>5. /\ hpc[u] \in {"count", "add_dirs"} => mine.dirs = Subdirs(Entries(d))
        /\ hpc[u] \in {"count", "add_dirs", "submit", "arena", "add_files"} =>
              /\ mine.names = FileNames(Entries(d))
              /\ mine.errors = ErrorRecords(Entries(d))
        /\ hpc[u] = "link" => FilesListed(mine.ids, d)
    BY <1>2, <2>1 DEF HandHolds, This
  <2>6. hpc[u] = "link" /\ FilesListed(mine.ids, d) => FilesListed(mine.ids, d)'
    <3>1. hpc[u] = "link" => ToSet(mine.ids) \subseteq 0 .. Len(files) - 1
      BY <2>1 DEF ScanControl
    <3> QED BY <3>1, FilesStayListed
  <2>7. task'[u] + 1 = t + 1 /\ local'[u] = mine
    BY <2>2
  <2> QED BY <2>4, <2>5, <2>6, <2>7 DEF HandHolds, This, Entries
<1> QED BY <1>1, <1>2

LEMMA LocalsStep == ScanInv /\ [Next]_vars => LocalsInv'
<1> SUFFICES ASSUME ScanInv, [Next]_vars PROVE LocalsInv'
  OBVIOUS
<1>1. IInv /\ ScanTypes /\ ScanControl /\ LocalsInv
  BY DEF ScanInv
<1>t. /\ hpc \in [Worker -> ScanLabel] /\ local \in [Worker -> Locals]
      /\ \A w \in Worker : local[w].names \in Seq(Path)
  BY <1>1 DEF ScanTypes, ScanTypeOK, ScanLabel, Locals
<1>2. CASE RejectRoot \/ CreateRoot \/ Quiet \/ UNCHANGED vars
  <2>1. UNCHANGED <<hpc, local, task>>
    BY <1>2, MainFrame
  <2>2. \A u \in Worker : HandHolds(u)'
    BY <2>1, HandKept
  <2> QED BY <2>2 DEF LocalsInv
<1>3. ASSUME NEW w \in Worker, Elsewhere(w) PROVE LocalsInv'
  <2>1. /\ UNCHANGED <<hpc, local>>
        /\ \A u \in Worker : pc[u] \in Busy => task'[u] = task[u]
    BY <1>1, <1>3, PoolFrame DEF Elsewhere, scan_vars
  <2>2. \A u \in Worker : HandHolds(u)'
    BY <2>1, HandKept
  <2> QED BY <2>2 DEF LocalsInv
\* The worker that moves.
<1>4. ASSUME NEW w \in Worker, Scans(w) PROVE HandHolds(w)'
  <2> PICK t, d, mine : t = task[w] /\ d = directories[t + 1].path /\ mine = local[w]
    OBVIOUS
  <2>1. /\ pc[w] \in Busy /\ t + 1 \in DOMAIN directories /\ d \in Dir
        /\ Return(w) \/ UNCHANGED <<task, finished>>
    BY <1>1, <1>4, ScanFrame, BusyFacts DEF This
  <2>2. directories'[t + 1].path = d /\ read' = read
    BY <2>1, TreeGrows, HistoryGrows
  <2>3. /\ hpc[w] \in {"count", "add_dirs"} => mine.dirs = Subdirs(Entries(d))
        /\ hpc[w] \in {"count", "add_dirs", "submit", "arena", "add_files"} =>
              /\ mine.names = FileNames(Entries(d))
              /\ mine.errors = ErrorRecords(Entries(d))
        /\ hpc[w] = "link" => FilesListed(mine.ids, d)
    BY <1>1 DEF LocalsInv, HandHolds, This
  <2>4. CASE Return(w)
    BY <1>t, <2>4 DEF Return, To, HandHolds
  <2>5. CASE LinkFiles(w) \/ CountDown(w) \/ NotifyMain(w)
    <3>1. hpc'[w] \in {"finished", "notify_main", "return"}
      BY <1>t, <2>5 DEF LinkFiles, CountDown, NotifyMain, To
    <3> QED BY <3>1 DEF HandHolds
  <2>6. CASE List(w)
    <3> PICK here : here = local'[w]
      OBVIOUS
    <3>1. /\ task' = task /\ hpc'[w] \in {"arena", "count"}
          /\ here.dirs = Subdirs(Entries(d))
          /\ here.names = FileNames(Entries(d)) /\ here.errors = ErrorRecords(Entries(d))
      <4>1. /\ local' = [local EXCEPT ![w] = [NoLocals EXCEPT
                           !.dirs = Subdirs(Entries(d)), !.names = FileNames(Entries(d)),
                           !.errors = ErrorRecords(Entries(d))]]
            /\ To(w, IF Subdirs(Entries(d)) = <<>> THEN "arena" ELSE "count")
        BY <2>6 DEF List, This
      <4>2. /\ here.dirs = Subdirs(Entries(d)) /\ here.names = FileNames(Entries(d))
            /\ here.errors = ErrorRecords(Entries(d))
        BY <1>t, <4>1 DEF NoLocals
      <4>3. task' = task
        BY <2>6 DEF List, pool_vars
      <4>4. hpc'[w] \in {"arena", "count"}
        BY <1>t, <4>1 DEF To
      <4> QED BY <4>2, <4>3, <4>4
    <3>2. hpc'[w] \notin {"submit", "add_dirs", "add_files", "link"}
      BY <3>1
    <3> QED BY <2>2, <3>1, <3>2 DEF HandHolds, This, Entries
  <2>7. CASE CountDirs(w)
    <3>1. /\ task' = task /\ local' = local /\ hpc[w] = "count"
          /\ hpc'[w] = "add_dirs"
      BY <1>t, <2>7 DEF CountDirs, pool_vars, At, To
    <3> QED BY <2>2, <2>3, <3>1 DEF HandHolds, This, Entries
  \* The names and errors stay in hand.
  <2>8. CASE AddDirs(w) \/ Submit(w) \/ AddNames(w)
    <3>1. /\ task' = task
          /\ hpc[w] \in {"add_dirs", "submit", "arena"}
          /\ hpc'[w] \in {"submit", "arena", "add_files"}
      BY <1>t, <2>8 DEF AddDirs, Submit, SubmitPush, AddNames, pool_vars, At, To
    <3>2. local'[w].names = mine.names /\ local'[w].errors = mine.errors
      BY <1>t, <2>8 DEF AddDirs, Submit, AddNames, Locals
    <3> QED BY <2>2, <2>3, <3>1, <3>2 DEF HandHolds, This, Entries
  <2>9. CASE AddFiles(w)
    <3> PICK m, n : m = Len(files) /\ n = Len(mine.names)
      OBVIOUS
    <3> PICK ids : ids = NewIds(m, n)
      OBVIOUS
    <3>1. /\ m \in Nat /\ n \in Nat
          /\ \A i \in 1 .. n : files'[m + i] =
                [id |-> m + i - 1, parent |-> task[w], name |-> mine.names[i],
                 offset |-> (i - 1 + Base(w)) % OffsetRange]
          /\ local' = [local EXCEPT ![w] = [NoLocals EXCEPT !.ids = ids]]
      BY <1>1, <2>9, FilesAdded, NodeTypes
    <3>2. DOMAIN ids = 1 .. n /\ \A i \in 1 .. n : ids[i] = m + i - 1
      BY <3>1, NewIdsFacts
    <3>3. [j \in DOMAIN ids |-> files'[ids[j] + 1].name] = mine.names
      <4>1. ASSUME NEW j \in 1 .. n PROVE files'[ids[j] + 1].name = mine.names[j]
        <5>1. ids[j] + 1 = m + j
          BY <3>1, <3>2
        <5>2. files'[m + j] =
                [id |-> m + j - 1, parent |-> task[w], name |-> mine.names[j],
                 offset |-> (j - 1 + Base(w)) % OffsetRange]
          BY <3>1
        <5> QED BY <5>1, <5>2
      <4>2. mine.names = [j \in 1 .. n |-> mine.names[j]]
        <5>1. mine.names \in Seq(Path)
          BY <1>t
        <5> QED BY <5>1, LenProperties
      <4> QED BY <3>2, <4>1, <4>2
    <3>4. /\ task' = task /\ hpc[w] = "add_files"
          /\ hpc'[w] \in {"finished", "link"}
      BY <1>t, <2>9 DEF AddFiles, pool_vars, At, To
    <3>5. local'[w].ids = ids
      BY <1>t, <3>1 DEF NoLocals
    <3>6. FilesListed(ids, d)'
      BY <2>2, <2>3, <3>3, <3>4 DEF FilesListed, Entries
    <3> QED BY <2>2, <3>4, <3>5, <3>6 DEF HandHolds, This
  <2> QED BY <1>4, <2>4, <2>5, <2>6, <2>7, <2>8, <2>9 DEF Scans, ScanStep
<1>5. ASSUME NEW w \in Worker, Scans(w) PROVE LocalsInv'
  <2>1. \A u \in Worker \ {w} : hpc'[u] = hpc[u] /\ local'[u] = local[u] /\ task'[u] = task[u]
    BY <1>1, <1>5, ScanFrame
  <2>2. \A u \in Worker \ {w} : HandHolds(u)'
    BY <2>1, HandKept
  <2>3. HandHolds(w)'
    BY <1>4, <1>5
  <2> QED BY <2>2, <2>3 DEF LocalsInv
<1> QED BY <1>2, <1>3, <1>5, StepCases

\* The names of the files that exist, and of those that w is about to add.
RecordsNamed == \A i \in DOMAIN files : /\ files[i].offset + 1 \in DOMAIN file_names
                                        /\ file_names[files[i].offset + 1] = files[i].name
HandNamed(w) == hpc[w] = "add_files" =>
    \A j \in DOMAIN local[w].names : /\ local[w].base + j \in DOMAIN file_names
                                     /\ file_names[local[w].base + j] = local[w].names[j]

\* The offset that is stored is the one that was meant, if it is in range.
LEMMA OffsetHolds ==
    ASSUME NEW base \in Nat, NEW j \in Nat \ {0}, NEW range \in Nat, base + j <= range
    PROVE  ((j - 1 + base) % range) + 1 = base + j
<1> PICK x : x = j - 1 + base
  OBVIOUS
<1>1. x \in Nat /\ x < range /\ x + 1 = base + j
  OBVIOUS
<1>2. x % range = x
  BY <1>1
<1> QED BY <1>1, <1>2

\* While the arena fits the offsets, a record's offset leads to its name.
LEMMA NamesStep == ScanInv /\ NamesInv /\ [Next]_vars => NamesInv'
<1> SUFFICES ASSUME ScanInv, NamesInv, [Next]_vars, Len(file_names') <= OffsetRange
             PROVE  RecordsNamed' /\ \A w \in Worker : HandNamed(w)'
  BY DEF NamesInv, RecordsNamed, HandNamed
<1>1. IInv /\ ScanTypes /\ ScanControl /\ ScanTypes'
  BY TypesStep DEF ScanInv
<1>t. /\ hpc \in [Worker -> ScanLabel] /\ local \in [Worker -> Locals] /\ OffsetRange \in Nat \ {0}
      /\ \A w \in Worker : local[w].names \in Seq(Path) /\ local[w].base \in Nat
      /\ file_names \in Seq(Path) /\ Len(file_names) \in Nat
      /\ DOMAIN file_names = 1 .. Len(file_names)
      /\ Len(files) \in Nat /\ DOMAIN files = 1 .. Len(files)
  BY <1>1, ScanAssumption, NodeTypes, LenProperties DEF ScanTypes, ScanTypeOK, ScanLabel, Locals
<1>2. Len(file_names) <= OffsetRange => RecordsNamed /\ \A w \in Worker : HandNamed(w)
  BY DEF NamesInv, RecordsNamed, HandNamed
\* Steps that add neither a name nor a file.
<1>3. ASSUME UNCHANGED <<files, file_names>>,
             \A u \in Worker : hpc'[u] = "add_files" => hpc[u] = "add_files" /\ local'[u] = local[u]
      PROVE  RecordsNamed' /\ \A w \in Worker : HandNamed(w)'
  <2>1. RecordsNamed /\ \A w \in Worker : HandNamed(w)
    BY <1>2, <1>3
  <2>2. ASSUME NEW u \in Worker PROVE HandNamed(u)'
    BY <1>3, <2>1 DEF HandNamed
  <2> QED BY <1>3, <2>1, <2>2 DEF RecordsNamed
<1>4. CASE RejectRoot \/ CreateRoot \/ Quiet \/ UNCHANGED vars
  <2>1. UNCHANGED <<hpc, local>>
    BY <1>4, MainFrame
  <2>2. UNCHANGED <<files, file_names>>
    BY <1>4 DEF RejectRoot, CreateRoot, Quiet, StartPool, LoadActive, WaitActive, Finish,
          DestroyPool, tree, vars, scan_vars
  <2> QED BY <1>3, <2>1, <2>2
<1>5. ASSUME NEW w \in Worker, Elsewhere(w) PROVE RecordsNamed' /\ \A v \in Worker : HandNamed(v)'
  <2>1. UNCHANGED <<hpc, local, files, file_names>>
    BY <1>1, <1>5, PoolFrame DEF Elsewhere, scan_vars, tree
  <2> QED BY <1>3, <2>1
<1>6. ASSUME NEW w \in Worker, Scans(w), ~AddNames(w), ~AddFiles(w)
      PROVE  RecordsNamed' /\ \A v \in Worker : HandNamed(v)'
  <2>1. UNCHANGED <<files, file_names>>
    BY <1>6 DEF Scans, ScanStep, List, CountDirs, AddDirs, LinkFiles, CountDown, NotifyMain,
          Return, Submit, tree
  <2>2. hpc'[w] # "add_files"
    <3>1. CASE List(w)
      BY <1>t, <3>1 DEF List, To
    <3>2. CASE Submit(w)
      BY <1>t, <3>2 DEF Submit, To
    <3> QED BY <1>6, <1>t, <3>1, <3>2 DEF Scans, ScanStep, CountDirs, AddDirs, LinkFiles,
                  CountDown, NotifyMain, Return, To
  <2>3. \A u \in Worker \ {w} : hpc'[u] = hpc[u] /\ local'[u] = local[u]
    BY <1>1, <1>6, ScanFrame
  <2>4. \A u \in Worker : hpc'[u] = "add_files" => hpc[u] = "add_files" /\ local'[u] = local[u]
    BY <2>2, <2>3
  <2> QED BY <1>3, <2>1, <2>4
<1>7. ASSUME NEW w \in Worker, AddNames(w) PROVE RecordsNamed' /\ \A v \in Worker : HandNamed(v)'
  <2> PICK m, more : m = Len(file_names) /\ more = local[w].names
    OBVIOUS
  <2> PICK n : n = Len(more)
    OBVIOUS
  <2>1. /\ UNCHANGED files /\ file_names' = file_names \o more
        /\ local'[w].names = more
        /\ local'[w].base = IF more = <<>> THEN 0 ELSE m
    BY <1>t, <1>7 DEF AddNames, Locals
  <2>2. /\ m \in Nat /\ n \in Nat /\ DOMAIN more = 1 .. n /\ more \in Seq(Path)
    BY <1>t, LenProperties
  <2>3. /\ Len(file_names') = m + n /\ DOMAIN file_names' = 1 .. m + n
        /\ \A i \in 1 .. m : file_names'[i] = file_names[i]
        /\ \A i \in 1 .. n : file_names'[m + i] = more[i]
    <3>1. /\ Len(file_names') = m + n /\ file_names' \in Seq(Path)
          /\ \A i \in 1 .. m + n :
                file_names'[i] = IF i <= m THEN file_names[i] ELSE more[i - m]
      BY <1>t, <2>1, <2>2, ConcatProperties
    <3>2. DOMAIN file_names' = 1 .. m + n
      BY <3>1, LenProperties
    <3>3. ASSUME NEW i \in 1 .. m PROVE file_names'[i] = file_names[i]
      BY <2>2, <3>1
    <3>4. ASSUME NEW i \in 1 .. n PROVE file_names'[m + i] = more[i]
      <4>1. m + i \in 1 .. m + n /\ ~(m + i <= m) /\ m + i - m = i
        BY <2>2
      <4>2. file_names'[m + i] = IF m + i <= m THEN file_names[m + i] ELSE more[m + i - m]
        BY <3>1, <4>1
      <4> QED BY <4>1, <4>2
    <3> QED BY <3>1, <3>2, <3>3, <3>4
  <2>4. RecordsNamed /\ \A u \in Worker : HandNamed(u)
    BY <1>2, <1>t, <2>2, <2>3
  <2>5. DOMAIN file_names = 1 .. m /\ 1 .. m \subseteq 1 .. m + n
    BY <1>t, <2>2
  <2>6. RecordsNamed'
    BY <2>1, <2>3, <2>4, <2>5 DEF RecordsNamed
  <2>7. ASSUME NEW u \in Worker \ {w} PROVE HandNamed(u)'
    <3> PICK mine : mine = local[u]
      OBVIOUS
    <3>1. hpc'[u] = hpc[u] /\ local'[u] = mine
      BY <1>1, <1>7, ScanFrame DEF Scans, ScanStep
    <3>2. hpc[u] = "add_files" => \A j \in DOMAIN mine.names :
             mine.base + j \in 1 .. m /\ file_names[mine.base + j] = mine.names[j]
      BY <2>4, <2>5 DEF HandNamed
    <3>3. hpc[u] = "add_files" => \A j \in DOMAIN mine.names :
             mine.base + j \in 1 .. m + n /\ file_names'[mine.base + j] = mine.names[j]
      BY <2>3, <2>5, <3>2
    <3> QED BY <2>3, <3>1, <3>3 DEF HandNamed
  <2>8. HandNamed(w)'
    <3>1. ASSUME NEW j \in 1 .. n PROVE local'[w].base = m /\ m + j \in 1 .. m + n
      <4>1. more # <<>>
        BY <2>2, EmptySeq
      <4> QED BY <2>1, <2>2, <4>1
    <3>2. \A j \in DOMAIN more : /\ local'[w].base + j \in DOMAIN file_names'
                                 /\ file_names'[local'[w].base + j] = more[j]
      BY <2>2, <2>3, <3>1
    <3> QED BY <2>1, <3>2 DEF HandNamed
  <2> QED BY <2>6, <2>7, <2>8
<1>8. ASSUME NEW w \in Worker, AddFiles(w) PROVE RecordsNamed' /\ \A v \in Worker : HandNamed(v)'
  <2> PICK m, more, base : m = Len(files) /\ more = local[w].names /\ base = local[w].base
    OBVIOUS
  <2> PICK n : n = Len(more)
    OBVIOUS
  <2>1. /\ Len(files') = m + n /\ n \in Nat
        /\ \A i \in 1 .. m : files'[i] = files[i]
        /\ \A i \in 1 .. n : files'[m + i] =
              [id |-> m + i - 1, parent |-> task[w], name |-> more[i],
               offset |-> (i - 1 + base) % OffsetRange]
    BY <1>1, <1>8, FilesAdded DEF Base
  <2>2. m \in Nat /\ DOMAIN files = 1 .. m /\ DOMAIN files' = 1 .. m + n /\ UNCHANGED file_names
        /\ hpc[w] = "add_files" /\ hpc'[w] # "add_files" /\ DOMAIN more = 1 .. n /\ base \in Nat
    <3>1. DOMAIN files' = 1 .. m + n
      BY <1>1, <2>1, LenProperties DEF ScanTypes
    <3>2. DOMAIN more = 1 .. n
      BY <1>t, LenProperties
    <3> QED BY <1>8, <1>t, <3>1, <3>2 DEF AddFiles, At, To
  <2>3. RecordsNamed /\ \A u \in Worker : HandNamed(u)
    BY <1>2, <2>2
  <2>4. ASSUME NEW i \in DOMAIN files'
        PROVE  files'[i].offset + 1 \in DOMAIN file_names
               /\ file_names[files'[i].offset + 1] = files'[i].name
    <3>1. CASE i \in 1 .. m
      BY <2>1, <2>2, <2>3, <3>1 DEF RecordsNamed
    <3>2. CASE i \notin 1 .. m
      <4> PICK j : j = i - m
        OBVIOUS
      <4>1. j \in 1 .. n /\ m + j = i
        BY <2>1, <2>2, <3>2
      <4>2. files'[m + j] = [id |-> m + j - 1, parent |-> task[w], name |-> more[j],
                             offset |-> (j - 1 + base) % OffsetRange]
        BY <2>1, <4>1
      <4>3. base + j \in DOMAIN file_names /\ file_names[base + j] = more[j]
        BY <2>2, <2>3, <4>1 DEF HandNamed
      <4>4. ((j - 1 + base) % OffsetRange) + 1 = base + j
        <5>1. base \in Nat /\ j \in Nat \ {0} /\ OffsetRange \in Nat
          BY <1>t, <2>1, <2>2, <4>1, SMTT(30)
        <5>2. base + j <= OffsetRange
          BY <1>t, <2>2, <4>3
        <5> QED BY <5>1, <5>2, OffsetHolds
      <4> QED BY <4>1, <4>2, <4>3, <4>4, SMTT(30)
    <3> QED BY <3>1, <3>2
  <2>5. RecordsNamed'
    BY <2>2, <2>4 DEF RecordsNamed
  <2>6. ASSUME NEW u \in Worker \ {w} PROVE HandNamed(u)'
    <3>1. hpc'[u] = hpc[u] /\ local'[u] = local[u]
      BY <1>1, <1>8, ScanFrame DEF Scans, ScanStep
    <3> QED BY <2>2, <2>3, <3>1 DEF HandNamed
  <2>7. HandNamed(w)'
    BY <2>2 DEF HandNamed
  <2> QED BY <2>5, <2>6, <2>7
<1> QED BY <1>4, <1>5, <1>6, <1>7, <1>8, StepCases

-----------------------------------------------------------------------------
(* The theorems *)

LEMMA InitScanInv == Init => ScanInv /\ NamesInv
<1> SUFFICES ASSUME Init PROVE ScanInv /\ NamesInv
  OBVIOUS
<1> USE DEF Init, ScanInit
<1>1. IInv
  BY InitIInv
<1>2. /\ Len(directories) = 0 /\ Len(files) = 0 /\ DOMAIN directories = {} /\ DOMAIN files = {}
      /\ ToSet(directories) = {} /\ DOMAIN Paths(directories) = {}
  BY EmptySeq DEF ToSet, Paths
<1>3. /\ finished = {} /\ submitted = {} /\ \A w \in Worker : hpc[w] = "list"
  BY DEF PoolInit
<1>4. ScanTypes
  BY <1>2 DEF ScanTypes, ScanTypeOK, NoLocals, Locals
<1>5. ScanControl
  BY <1>3 DEF ScanControl
<1>6. ShapeInv
  BY <1>2 DEF ShapeInv, TreeShaped
<1>7. ActiveTasksExact
  <2>1. Pending = {} /\ Arriving = {}
    BY <1>2, <1>3 DEF Pending, Arriving, Announced
  <2>2. Cardinality(Pending) = 0 /\ Cardinality(Arriving) = 0
    BY <2>1, FS_EmptySet
  <2>3. active_tasks = 0
    OBVIOUS
  <2> QED BY <2>2, <2>3 DEF ActiveTasksExact, Arriving
<1>8. PathsInv
  BY <1>2, <1>3 DEF PathsInv, IsInjective
<1>9. NodesInv /\ LocalsInv
  BY <1>2, <1>3 DEF NodesInv, LocalsInv, HandHolds, Ids
<1>10. NamesInv
  BY <1>2, <1>3 DEF NamesInv
<1> QED BY <1>1, <1>4, <1>5, <1>6, <1>7, <1>8, <1>9, <1>10 DEF ScanInv

LEMMA NextScanInv == ScanInv /\ [Next]_vars => ScanInv'
<1> SUFFICES ASSUME ScanInv, [Next]_vars PROVE ScanInv'
  OBVIOUS
<1>1. IInv'
  BY ScanStepsPool, NextIInv DEF ScanInv
<1> QED BY <1>1, TypesStep, ScanControlStep, CountStep, ShapeStep, PathsStep, NodesStep,
           LocalsStep DEF ScanInv

LEMMA ScanInvariant == Spec => []ScanInv
BY InitScanInv, NextScanInv, PTL DEF Spec

\* The records, the counters and the labels of scan_directory have their types.
THEOREM ScanTypeCorrect == Spec => []ScanTypeOK
<1>1. ScanInv => ScanTypeOK
  BY DEF ScanInv, ScanTypes
<1> QED BY <1>1, ScanInvariant, PTL

\* active_tasks counts the scans that are still to come, for any number of
\* workers: while it is not zero a scan is left, and while a scan is left it is
\* not zero.
THEOREM ActiveTasksCounted == Spec => []ActiveTasksExact
<1>1. ScanInv => ActiveTasksExact
  BY DEF ScanInv
<1> QED BY <1>1, ScanInvariant, PTL

\* Whatever the order in which the directories are listed, ids are indexes, every
\* node is after its parent, and the parents list their children.
THEOREM TreeAlwaysShaped == Spec => []TreeShaped
<1>1. ScanInv => TreeShaped
  BY DEF ScanInv, ShapeInv
<1> QED BY <1>1, ScanInvariant, PTL

\* The names of all files are found where the files say, as long as no more names
\* were added than an offset can hold: the arena is read through NameRef::offset,
\* which has 32 bits.
THEOREM NamesAlwaysMatch == Spec => [](Len(file_names) <= OffsetRange => NamesMatch)
<1>1. NamesInv => (Len(file_names) <= OffsetRange => NamesMatch)
  BY DEF NamesInv, NamesMatch
<1>2. Spec => []NamesInv
  BY InitScanInv, NextScanInv, NamesStep, PTL DEF Spec
<1> QED BY <1>1, <1>2, PTL

\* Once the counter has been read as zero, every directory has come to the end of
\* its scan.
LEMMA AllDone ==
    ASSUME ScanInv, active_tasks = 0, NEW labels, AfterCount \subseteq labels
    PROVE  Ids \subseteq DoneUpTo(labels)
<1>1. ScanTypes /\ TreeShaped /\ ActiveTasksExact
  BY DEF ScanInv, ShapeInv
<1>2. /\ Cardinality(Pending) \in Nat /\ Cardinality(Arriving) \in Nat /\ IsFiniteSet(Pending)
      /\ Pending = Ids \ DoneUpTo(AfterCount)
      /\ 0 = Cardinality(Pending) + Cardinality(Arriving)
  BY <1>1, CountFacts
<1>3. Pending = {}
  <2>1. Cardinality(Pending) = 0
    BY <1>2
  <2> QED BY <1>2, <2>1, FS_EmptySet
<1>4. DoneUpTo(AfterCount) \subseteq DoneUpTo(labels)
  BY DEF DoneUpTo
<1> QED BY <1>2, <1>3, <1>4

\* The tree that build returns is complete: nothing of what could be listed is
\* missing, nothing is there twice, whatever the interleaving of the scans.
THEOREM TreeAlwaysComplete == Spec => []TreeComplete
<1>1. ASSUME ScanInv PROVE TreeComplete
  <2>1. /\ ScanTypes /\ ScanControl /\ NodesInv /\ PathsInv
    BY <1>1 DEF ScanInv
  <2>2. SUFFICES ASSUME build_pc \in {"moved", "returned"}, directories # <<>>
                 PROVE  \A node \in ToSet(directories) : NodeComplete(node)
    BY <2>1 DEF TreeComplete, PathsInv, ScanControl
  <2>3. active_tasks = 0
    BY <2>1, <2>2 DEF ScanControl
  <2>4. /\ Ids \subseteq DoneUpTo(AfterDirs) /\ Ids \subseteq DoneUpTo(AfterAdd)
        /\ Ids \subseteq DoneUpTo(AfterLink)
    <3>1. AfterCount \subseteq AfterDirs /\ AfterCount \subseteq AfterAdd
          /\ AfterCount \subseteq AfterLink
      BY DEF AfterCount, AfterDirs, AfterAdd, AfterLink
    <3> QED BY <1>1, <2>3, <3>1, AllDone
  <2>5. ASSUME NEW node \in ToSet(directories)
        PROVE  NodeComplete(node)
    <3>1. PICK i \in DOMAIN directories : directories[i] = node
      BY DEF ToSet
    <3> PICK t : t = i - 1
      OBVIOUS
    <3>2. t \in Ids /\ directories[t + 1] = node
      <4>1. i - 1 \in Ids /\ i - 1 + 1 = i
        BY <2>1, NodeTypes
      <4> QED BY <3>1, <4>1
    <3>3. DirsListed(node) /\ ErrorsListed(node) /\ FilesListed(node.files, node.path)
      BY <2>1, <2>4, <2>5, <3>2 DEF NodesInv, NodeHolds
    <3> QED BY <3>3 DEF NodeComplete, DirsListed, ErrorsListed, FilesListed
  <2> QED BY <2>5
<1> QED BY <1>1, ScanInvariant, PTL

\* No thread writes to the tree that was moved out of build, though the threads of
\* the pool are still running.
THEOREM TreeIsFrozen == Spec => TreeFrozen
<1>1. ASSUME ScanInv, [Next]_vars, build_pc \in {"moved", "returned"} PROVE UNCHANGED tree
  <2>1. /\ IInv /\ ScanTypes /\ ScanControl /\ TreeShaped /\ ActiveTasksExact /\ active_tasks = 0
    BY <1>1 DEF ScanInv, ShapeInv, ScanControl
  <2>2. CASE RejectRoot \/ CreateRoot \/ Quiet \/ UNCHANGED vars
    BY <1>1, <2>2 DEF RejectRoot, CreateRoot, Quiet, StartPool, LoadActive, WaitActive, Finish,
          DestroyPool, vars, scan_vars
  <2>3. ASSUME NEW w \in Worker, Elsewhere(w) PROVE UNCHANGED tree
    BY <2>1, <2>3, PoolFrame DEF Elsewhere, scan_vars
  <2>4. ASSUME NEW w \in Worker, Scans(w) PROVE UNCHANGED tree
    <3>1. pc[w] \in Busy
      BY <2>1, <2>4, ScanFrame
    <3>2. hpc[w] \in AfterCount
      BY <2>1, <3>1, BusyCounted
    <3>3. NotifyMain(w) \/ Return(w)
      BY <2>4, <3>2 DEF Scans, ScanStep, AfterCount, List, CountDirs, AddDirs, AddNames, AddFiles,
            LinkFiles, CountDown, Submit, At
    <3> QED BY <3>3 DEF NotifyMain, Return
  <2> QED BY <1>1, <2>2, <2>3, <2>4, StepCases
<1>2. ScanInv /\ [Next]_vars => [(build_pc \in {"moved", "returned"}) => UNCHANGED tree]_vars
  BY <1>1
<1> QED BY <1>2, ScanInvariant, PTL DEF Spec, TreeFrozen
=============================================================================
