-------------------------------- MODULE Executor --------------------------------
(***************************************************************************)
(* Executor::run of src/src/view/executor.ixx: three results that several  *)
(* reports share are computed at once and put in caches, then every action *)
(* asked for gets a thread of its own, and the reports are printed in the  *)
(* order of the flags.                                                     *)
(*                                                                         *)
(* A report is the data that View lays out; the layout is left out.  What  *)
(* the duplicate scan reports is what DuplicateScan shows.                 *)
(***************************************************************************)
EXTENDS Parser, Analyzer, View

VARIABLES
    tree,
    future,    \* [Cache -> "none", "running" or "ready"]
    cache,     \* [Cache -> value, or None while it is empty]
    launched,  \* how many actions have a thread
    report,    \* [1 .. launched -> a report, or None until its thread is done]
    os         \* Seq(reports): what was printed

run_vars      == <<future, cache, launched, report, os>>
executor_vars == <<tree, run_vars>>

\* In the order run() collects them.
CacheOrder == <<"metrics", "empty_dirs", "file_stats">>
Cache      == ToSet(CacheOrder)

Computed(c) ==
    CASE c = "metrics"    -> compute_directory_metrics(tree)
      [] c = "empty_dirs" -> compute_empty_directories(tree)
      [] c = "file_stats" -> compute_file_stats(tree)

ExecutorInit ==
    /\ tree = None
    /\ future = [c \in Cache |-> "none"]
    /\ cache = [c \in Cache |-> None]
    /\ launched = 0 /\ report = <<>> /\ os = <<>>

-----------------------------------------------------------------------------
(* The shared results *)

LaunchShared ==
    /\ pc = "run"
    /\ future' = [c \in Cache |-> "running"]
    /\ pc' = "get"
    /\ UNCHANGED <<parser_vars, tree, cache, launched, report, os>>

ComputeShared(c) ==
    /\ future[c] = "running"
    /\ future' = [future EXCEPT ![c] = "ready"]
    /\ UNCHANGED <<parser_vars, pc, tree, cache, launched, report, os>>

\* Mutant: the last cache is left for the reports to fill.
FirstTwo == SubSeq(CacheOrder, 1, 2)
Awaited  == CacheOrder

\* metrics = f_metrics.get(), and so on.
GetShared ==
    /\ pc = "get"
    /\ \E k \in DOMAIN Awaited :
          /\ \A j \in 1 .. k - 1 : cache[Awaited[j]] # None
          /\ cache[Awaited[k]] = None
          /\ future[Awaited[k]] = "ready"
          /\ cache' = [cache EXCEPT ![Awaited[k]] = Computed(Awaited[k])]
          /\ pc' = IF k = Len(Awaited) THEN "launch" ELSE "get"
    /\ UNCHANGED <<parser_vars, tree, future, launched, report, os>>

-----------------------------------------------------------------------------
(* The reports *)

\* get_metrics(), get_empty_dir(), get_file_stats(): what the report of an
\* action asks for, and how its cache is left.
Needed(kind) == CASE kind = "Summary"   -> Cache
                  [] kind \in {"LargestDirs", "Stats", "Metrics"} -> {"metrics"}
                  [] kind = "EmptyDirs" -> {"empty_dirs"}
                  [] kind = "Symlinks"  -> {"file_stats"}
                  [] OTHER -> {}
Filled(c) == IF cache[c] = None THEN Computed(c) ELSE cache[c]

\* The groups the generator gives; none if no worker could set a ring up.
GroupsFound ==
    {{}, UNION {Identical(tree.files, ids) : ids \in ToSet(group_files_by_size(tree.files))}}

\* count, files and bytes of print_duplicate_footer.
Footer(groups) ==
    [groups |-> groups, total_files |-> Sum(groups, Cardinality),
     wasted |-> Sum(groups, LAMBDA g : tree.files[CHOOSE f \in g : TRUE].size
                                          * (Cardinality(g) - 1))]

\* operator()(action): the reports it may give, with the caches c.
Reports(action, c) ==
    LET n == action.amount
    IN  CASE action.kind = "Summary" ->
                 compute_summary(tree, c["metrics"], Len(c["empty_dirs"]), c["file_stats"])
          [] action.kind = "Extensions"   -> compute_extension_stats(tree)
          [] action.kind = "EmptyDirs"    -> {c["empty_dirs"]}
          [] action.kind = "Symlinks"     -> {c["file_stats"].symlink_ids}
          [] action.kind = "LargestFiles" -> compute_largest_N_Files(tree, n)
          [] action.kind = "LargestDirs"  -> compute_largest_N_Directories(tree, c["metrics"], n)
          [] action.kind = "Recent"       ->
                 {print_recent_files(ids, tree, Now) : ids \in compute_recent_files(tree, n)}
          [] action.kind = "Errors"       -> {tree.errors}
          [] action.kind = "Stats"        ->
                 print_directory_stats(compute_directory_stats(tree, c["metrics"]), tree)
          [] action.kind = "Metrics"      -> {c["metrics"]}
          [] action.kind = "Duplicate"    -> {Footer(groups) : groups \in GroupsFound}

LaunchReport ==
    /\ pc = "launch"
    /\ IF launched < Len(actions)
       THEN /\ launched' = launched + 1
            /\ report' = Append(report, None)
            /\ UNCHANGED pc
       ELSE pc' = "print" /\ UNCHANGED <<launched, report>>
    /\ UNCHANGED <<parser_vars, tree, future, cache, os>>

\* The thread of action a.  Without a defined report anything may happen.
Report(a) ==
    /\ pc \in {"launch", "print"}
    /\ a \in DOMAIN report /\ report[a] = None
    /\ cache' = [c \in Cache |-> IF c \in Needed(actions[a].kind) THEN Filled(c) ELSE cache[c]]
    /\ IF Reports(actions[a], cache') = {}
       THEN pc' = "undefined" /\ UNCHANGED report
       ELSE /\ \E r \in Reports(actions[a], cache') : report' = [report EXCEPT ![a] = r]
            /\ UNCHANGED pc
    /\ UNCHANGED <<parser_vars, tree, future, launched, os>>

\* os << f.get(), action after action.
PrintReport ==
    /\ pc = "print"
    /\ LET next == Len(os) + 1
       IN  IF next > launched THEN pc' = "end" /\ UNCHANGED os
           ELSE /\ report[next] # None
                /\ os' = Append(os, report[next])
                /\ UNCHANGED pc
    /\ UNCHANGED <<parser_vars, tree, future, cache, launched, report>>

RunStep    == LaunchShared \/ GetShared \/ LaunchReport \/ PrintReport
ThreadStep == (\E c \in Cache : ComputeShared(c)) \/ (\E a \in DOMAIN report : Report(a))
=============================================================================
