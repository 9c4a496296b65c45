-------------------------------- MODULE Scanner --------------------------------
(***************************************************************************)
(* The parallel directory scan of src/src/builder/builder.cpp: one task    *)
(* of the ThreadPool per directory, the task being the directory's id.     *)
(* A handler lists its directory, then adds what it found to the shared    *)
(* tree in separate critical sections; the main thread sleeps on           *)
(* active_tasks, and returns the tree when it reads zero.                  *)
(*                                                                         *)
(* dir_mutex, arena_mutex and guard are each held for one action here:     *)
(* everything between a lock and its unlock touches only what that lock    *)
(* protects and the thread's own locals.  Sizes and times of files are     *)
(* left out; a file name takes one unit of the arena.                      *)
(***************************************************************************)
EXTENDS ThreadPool, Orders

CONSTANTS Dir,          \* the directories of the file system
          Name,         \* what else can be found in a directory
          Listing,      \* [Dir -> Seq([type, path])]: what each directory lists
          RootDir,      \* the argument of build
          RootStatus,   \* what build may find there
          Reads,        \* [Dir -> Nat]: how many of its entries each may yield
          OffsetRange   \* NameRef::offset holds a number below this (2^32)

EntryType == {"directory", "regular", "symlink", "unknown", "other", "status_error"}
FileType  == {"regular", "symlink"}

ASSUME ScanAssumption ==
    /\ IsFiniteSet(Dir) /\ RootDir \in Dir
    /\ Listing \in [Dir -> Seq([type : EntryType, path : Dir \cup Name])]
    /\ Reads \subseteq {r \in [Dir -> Nat] : \A d \in Dir : r[d] <= Len(Listing[d])}
    /\ RootStatus \subseteq {"canonical_error", "missing", "not_a_directory", "directory"}
    /\ Task = 0 .. Cardinality(Dir) - 1 /\ Root = 0
    /\ OffsetRange \in Nat \ {0}

\* A directory has one place in the file system: the root is in no directory,
\* any other in one, and once.
ASSUME TreeAssumption ==
    \A d \in Dir : \A i \in DOMAIN Listing[d] : Listing[d][i].type = "directory" =>
        /\ Listing[d][i].path \in Dir \ {RootDir}
        /\ \A e \in Dir : \A j \in DOMAIN Listing[e] :
              Listing[e][j] = Listing[d][i] => e = d /\ j = i

VARIABLES
    directories,   \* Seq([id, parent, path, subdirs, files])
    files,         \* Seq([id, parent, offset, name]); name: what offset should lead to
    errors,        \* Seq([path, kind])
    file_names,    \* Seq(Name): the arena
    next_dir_id, next_file_id,
    active_tasks,
    hpc,           \* [Worker -> where the worker is in scan_directory]
    local,         \* [Worker -> locals of scan_directory]
    build_pc,      \* where the main thread is in build
    expected,      \* the value of active_tasks it last read
    read           \* [Dir -> Nat]: how many entries a listing yields before it ends or fails

tree == <<directories, files, errors, file_names>>
counters == <<next_dir_id, next_file_id, active_tasks>>
scan_vars == <<tree, counters, hpc, local, build_pc, expected, read>>
vars == <<pool_vars, scan_vars>>

-----------------------------------------------------------------------------
(* What one listing yields *)

Typed(entries, types) ==
    LET at == Ascending({i \in DOMAIN entries : entries[i].type \in types})
    IN  [i \in DOMAIN at |-> entries[at[i]]]
Paths(entries)        == [i \in DOMAIN entries |-> entries[i].path]
Subdirs(entries)      == Paths(Typed(entries, {"directory"}))
FileNames(entries)    == Paths(Typed(entries, FileType))
ErrorRecords(entries) ==
    LET bad == Typed(entries, {"status_error", "unknown"}) IN
    [i \in DOMAIN bad |->
        [path |-> bad[i].path,
         kind |-> IF bad[i].type = "unknown" THEN "Unknown" ELSE "FileError"]]

NoLocals == [dirs |-> <<>>, names |-> <<>>, errors |-> <<>>, base |-> 0, ids |-> <<>>]

ScanInit ==
    /\ directories = <<>> /\ files = <<>> /\ errors = <<>> /\ file_names = <<>>
    /\ next_dir_id = 0 /\ next_file_id = 0 /\ active_tasks = 0
    /\ hpc = [w \in Worker |-> "list"]
    /\ local = [w \in Worker |-> NoLocals]
    /\ build_pc = "validate"
    /\ expected = 0
    /\ read \in Reads

-----------------------------------------------------------------------------
(* build: the main thread *)

\* The root is no directory that can be scanned: one record, and the tree.
RejectRoot ==
    /\ build_pc = "validate"
    /\ \E status \in RootStatus \ {"directory"} :
          errors' = Append(errors, [path |-> RootDir,
                                    kind |-> IF status = "not_a_directory"
                                             THEN "IOError" ELSE "NotFound"])
    /\ build_pc' = "returned"
    /\ UNCHANGED <<pool_vars, directories, files, file_names, counters, hpc, local,
                   expected, read>>

CreateRoot ==
    /\ build_pc = "validate" /\ "directory" \in RootStatus
    /\ directories' = Append(directories,
                             [id |-> next_dir_id, parent |-> Nobody, path |-> RootDir,
                              subdirs |-> <<>>, files |-> <<>>])
    /\ next_dir_id' = next_dir_id + 1
    /\ active_tasks' = active_tasks + 1
    /\ build_pc' = "start"
    /\ UNCHANGED <<pool_vars, files, errors, file_names, next_file_id, hpc, local,
                   expected, read>>

StartPool ==
    /\ build_pc = "start"
    /\ Start
    /\ build_pc' = IF main' = "running" THEN "load" ELSE "start"
    /\ UNCHANGED <<tree, counters, hpc, local, expected, read>>

\* The load of active_tasks in the condition of the loop.
LoadActive ==
    /\ build_pc = "load"
    /\ expected' = active_tasks
    /\ build_pc' = IF active_tasks = 0 THEN "finish" ELSE "wait"
    /\ UNCHANGED <<pool_vars, tree, counters, hpc, local, read>>

\* Mutant: an `if` where the code has a `while`.
WaitOnce ==
    /\ build_pc = "wait"
    /\ build_pc' = IF active_tasks # expected THEN "finish" ELSE "blocked"
    /\ UNCHANGED <<pool_vars, tree, counters, hpc, local, expected, read>>

\* active_tasks.wait(expected): compared and, if equal, asleep in one step.
WaitActive ==
    /\ build_pc = "wait"
    /\ build_pc' = IF active_tasks # expected THEN "load" ELSE "blocked"
    /\ UNCHANGED <<pool_vars, tree, counters, hpc, local, expected, read>>

\* The tree is moved into the return value; the pool is destroyed after it.
Finish ==
    /\ build_pc = "finish"
    /\ build_pc' = "moved"
    /\ UNCHANGED <<pool_vars, tree, counters, hpc, local, expected, read>>

DestroyPool ==
    /\ build_pc = "moved"
    /\ Destroy
    /\ build_pc' = IF main' = "joined" THEN "returned" ELSE "moved"
    /\ UNCHANGED <<tree, counters, hpc, local, expected, read>>

Build == RejectRoot \/ CreateRoot \/ StartPool \/ LoadActive \/ WaitActive \/ Finish
         \/ DestroyPool

-----------------------------------------------------------------------------
(* scan_directory(task[w]) *)

At(w, label) == pc[w] = "exec" /\ hpc[w] = label
To(w, label) == hpc' = [hpc EXCEPT ![w] = label]
This(w)      == task[w] + 1             \* the index of this directory in directories

\* The path is read under a shared lock and the directory is listed.  An error
\* makes the iterator the end iterator: the loop ends, and the branch that would
\* record the error is not reached.  Where that happens is decided beforehand, in
\* read: a directory is listed once.
Entries(d) == SubSeq(Listing[d], 1, read[d])
List(w) ==
    LET entries == Entries(directories[This(w)].path) IN
    /\ At(w, "list")
    /\ local' = [local EXCEPT ![w] = [NoLocals EXCEPT
                      !.dirs = Subdirs(entries), !.names = FileNames(entries),
                      !.errors = ErrorRecords(entries)]]
    /\ To(w, IF Subdirs(entries) = <<>> THEN "arena" ELSE "count")
    /\ UNCHANGED <<pool_vars, tree, counters, build_pc, expected, read>>

\* Mutant: the new scans are not counted.
CountNothing(w) ==
    /\ At(w, "count")
    /\ To(w, "add_dirs")
    /\ UNCHANGED <<pool_vars, tree, counters, local, build_pc, expected, read>>

\* The new scans are counted before they exist.
CountDirs(w) ==
    /\ At(w, "count")
    /\ active_tasks' = active_tasks + Len(local[w].dirs)
    /\ To(w, "add_dirs")
    /\ UNCHANGED <<pool_vars, tree, next_dir_id, next_file_id, local, build_pc, expected, read>>

\* New nodes, in a critical section of dir_mutex.
NewIdsFromOne(next, n) == [i \in 1 .. n |-> next + i]     \* mutant: off by one
NewIds(next, n) == [i \in 1 .. n |-> next + i - 1]
AddDirs(w) ==
    LET dirs == local[w].dirs
        ids  == NewIds(next_dir_id, Len(dirs))
        new  == [i \in 1 .. Len(dirs) |->
                   [id |-> ids[i], parent |-> task[w], path |-> dirs[i],
                    subdirs |-> <<>>, files |-> <<>>]]
    IN
    /\ At(w, "add_dirs")
    /\ directories' = [directories EXCEPT ![This(w)].subdirs = @ \o ids] \o new
    /\ next_dir_id' = next_dir_id + Len(dirs)
    /\ local' = [local EXCEPT ![w].dirs = <<>>, ![w].ids = ids]
    /\ To(w, "submit")
    /\ UNCHANGED <<pool_vars, files, errors, file_names, next_file_id, active_tasks,
                   build_pc, expected, read>>

Submit(w) ==
    /\ At(w, "submit")
    /\ SubmitPush(w, Head(local[w].ids))
    /\ local' = [local EXCEPT ![w].ids = Tail(@)]
    /\ To(w, IF Len(local[w].ids) = 1 THEN "arena" ELSE "submit")
    /\ UNCHANGED <<tree, counters, build_pc, expected, read>>

\* The names, in a critical section of arena_mutex; nothing to add, no lock.
AddNames(w) ==
    /\ At(w, "arena")
    /\ local' = [local EXCEPT ![w].base =
                    IF local[w].names = <<>> THEN 0 ELSE Len(file_names)]
    /\ file_names' = file_names \o local[w].names
    /\ To(w, "add_files")
    /\ UNCHANGED <<pool_vars, directories, files, errors, counters, build_pc, expected, read>>

\* Mutant: the base is what the arena holds when the files are added.
LateBase(w) == Len(file_names) - Len(local[w].names)
Base(w)     == local[w].base

\* The files and the errors, in a critical section of guard.
AddFiles(w) ==
    LET names == local[w].names
        ids   == NewIds(next_file_id, Len(names))
        new   == [i \in 1 .. Len(names) |->
                    [id |-> ids[i], parent |-> task[w], name |-> names[i],
                     offset |-> (i - 1 + Base(w)) % OffsetRange]]
    IN
    /\ At(w, "add_files")
    /\ files' = files \o new
    /\ errors' = errors \o local[w].errors
    /\ next_file_id' = next_file_id + Len(names)
    /\ local' = [local EXCEPT ![w] = [NoLocals EXCEPT !.ids = ids]]
    /\ To(w, IF names = <<>> THEN "finished" ELSE "link")
    /\ UNCHANGED <<pool_vars, directories, file_names, next_dir_id, active_tasks,
                   build_pc, expected, read>>

\* This directory's list of files, under a shared lock: one writer per directory.
LinkFiles(w) ==
    /\ At(w, "link")
    /\ directories' = [directories EXCEPT ![This(w)].files = @ \o local[w].ids]
    /\ local' = [local EXCEPT ![w] = NoLocals]
    /\ To(w, "finished")
    /\ UNCHANGED <<pool_vars, files, errors, file_names, counters, build_pc, expected, read>>

\* active_tasks.fetch_sub(1), after every write to the tree.
CountDown(w) ==
    /\ At(w, "finished")
    /\ active_tasks' = active_tasks - 1
    /\ To(w, "notify_main")
    /\ UNCHANGED <<pool_vars, tree, next_dir_id, next_file_id, local, build_pc, expected, read>>

\* Mutant: nobody wakes the main thread.
NotifyNobody(w) ==
    /\ At(w, "notify_main")
    /\ To(w, "return")
    /\ UNCHANGED <<pool_vars, tree, counters, local, build_pc, expected, read>>

\* active_tasks.notify_one(): the main thread, if it is asleep.
NotifyMain(w) ==
    /\ At(w, "notify_main")
    /\ build_pc' = IF build_pc = "blocked" THEN "wait" ELSE build_pc
    /\ To(w, "return")
    /\ UNCHANGED <<pool_vars, tree, counters, local, expected, read>>

Return(w) ==
    /\ At(w, "return")
    /\ HandlerReturn(w)
    /\ To(w, "list")
    /\ UNCHANGED <<tree, counters, local, build_pc, expected, read>>

-----------------------------------------------------------------------------
ScanStep(w) == \/ List(w) \/ CountDirs(w) \/ AddDirs(w) \/ AddNames(w) \/ AddFiles(w)
               \/ LinkFiles(w) \/ CountDown(w) \/ NotifyMain(w) \/ Return(w)

\* What the worker does in scheduler.cpp.
PoolStep(w) == FindTask(w) \/ SubmitNotify(w) \/ WaitStop(w) \/ WaitLook(w)

InPool(A) == A /\ UNCHANGED scan_vars

Next == \/ Build
        \/ \E w \in Worker : \/ ScanStep(w) \/ Submit(w)
                             \/ InPool(PoolStep(w) \/ WaitLock(w) \/ SpuriousWake(w))
        \/ build_pc = "returned" /\ UNCHANGED vars

Init == PoolInit /\ ScanInit
Spec == Init /\ [][Next]_vars

\* As in ThreadPool: threads run, and a thread blocked on a mutex is let in.
FairSpec ==
    /\ Spec
    /\ SF_vars(Build)
    /\ \A w \in Worker : /\ WF_vars(ScanStep(w) \/ InPool(PoolStep(w)))
                         /\ SF_vars(InPool(WaitLock(w)))
                         /\ SF_vars(Submit(w))

-----------------------------------------------------------------------------
(* Properties *)

ScanTypeOK ==
    /\ next_dir_id = Len(directories) /\ next_file_id = Len(files)
    /\ active_tasks \in Nat /\ expected \in Nat
    /\ hpc \in [Worker -> {"list", "count", "add_dirs", "submit", "arena", "add_files",
                           "link", "finished", "notify_main", "return"}]
    /\ \A w \in Worker : pc[w] \notin {"exec", "notify"} => hpc[w] = "list"
    /\ build_pc \in {"validate", "start", "load", "wait", "blocked", "finish",
                     "moved", "returned"}
    /\ read \in Reads

\* The scans of directories that exist and have not been counted down.
Scanned == finished \cup {task[w] : w \in {v \in Worker : hpc[v] \in {"notify_main", "return"}}}
Pending == {d.id : d \in ToSet(directories)} \ Scanned
Announced == {<<w, i>> : w \in {v \in Worker : hpc[v] = "add_dirs"}, i \in Task}

\* active_tasks is the number of scans still to come, those of directories that are
\* announced and not yet in the tree included (lines 133, 195): so it cannot be
\* zero, and the tree cannot be returned, while any scan is left.
ActiveTasksExact ==
    active_tasks = Cardinality(Pending)
        + Cardinality({p \in Announced : p[2] < Len(local[p[1]].dirs)})

\* A directory's id is its index, and its parent's is smaller; a parent lists its
\* children, once each, and nothing else.  The analyzer addresses nodes by id and
\* adds sizes up from the last directory to the first (analyzer.cpp:205-218).
TreeShaped ==
    /\ \A i \in DOMAIN directories :
          /\ directories[i].id = i - 1
          /\ i > 1 => directories[i].parent \in 0 .. i - 2
          /\ IsInjective(directories[i].subdirs)
          /\ ToSet(directories[i].subdirs) =
                {c.id : c \in {d \in ToSet(directories) : d.parent = i - 1}}
    /\ \A i \in DOMAIN files : files[i].id = i - 1

\* A file's offset leads to its own name, though the names and the files are added
\* in two critical sections that scans of other directories come between.
NamesMatch == \A i \in DOMAIN files : file_names[files[i].offset + 1] = files[i].name

\* The tree that build returns is complete: every directory reached has a node for
\* each subdirectory and each file that its listing yielded, up to the error if it
\* failed, and no more, and an error record for each entry that could not be read; a
\* root that cannot be scanned leaves one record and no node.
NodeComplete(node) ==
    LET entries == Entries(node.path) IN
    /\ [j \in DOMAIN node.subdirs |-> directories[node.subdirs[j] + 1].path] = Subdirs(entries)
    /\ [j \in DOMAIN node.files |-> files[node.files[j] + 1].name] = FileNames(entries)
    /\ ToSet(ErrorRecords(entries)) \subseteq ToSet(errors)

TreeComplete ==
    build_pc \in {"moved", "returned"} =>
        IF directories = <<>> THEN Len(errors) = 1
        ELSE /\ directories[1].path = RootDir
             /\ IsInjective(Paths(directories))
             /\ \A node \in ToSet(directories) : NodeComplete(node)

\* "The DirectoryTree is built once, then never mutated" (ARCHITECTURE.md:48):
\* it is moved out while the pool's threads still run (line 253), and none of
\* them is where it would still write to it.
TreeFrozen == [][(build_pc \in {"moved", "returned"}) => UNCHANGED tree]_vars

\* Under a fair scheduler build returns, every thread joined.
BuildReturns == <>(build_pc = "returned")
=============================================================================
