-------------------------------- MODULE Program --------------------------------
(***************************************************************************)
(* main of src/src/main.cpp: the command line is parsed, the tree is built *)
(* and the reports are made and printed.  Which trees build_tree may       *)
(* return for a path is a constant: Scanner says what they are like.       *)
(***************************************************************************)
EXTENDS Executor

CONSTANTS CommandLines,    \* the command lines to try
          Disk             \* [path -> set of trees]

\* What build_tree returns (Scanner: TreeShaped, TreeComplete): ids are positions,
\* a directory is listed after its parent, every file is in one directory; or, for
\* a root that cannot be scanned, there is nothing.
IsTree(t) ==
    LET Listed(f) == IsFiniteSet(DOMAIN f) /\ DOMAIN f = 0 .. Cardinality(DOMAIN f) - 1
        Dirs == DOMAIN t.directories
    IN  /\ Listed(t.directories) /\ Listed(t.files)
        /\ t.root = IF Dirs = {} THEN None ELSE 0
        /\ \A d \in Dirs : IF d = 0 THEN t.directories[d].parent = None
                          ELSE t.directories[d].parent \in 0 .. d - 1
        /\ \A d, e \in Dirs : d # e => t.directories[d].files \cap t.directories[e].files = {}
        /\ UNION {t.directories[d].files : d \in Dirs} = DOMAIN t.files
        /\ \A f \in DOMAIN t.files : t.files[f].size \in Nat /\ t.files[f].modified \in Int

ASSUME DiskAssumption ==
    /\ None \notin Nat
    /\ \A path \in DOMAIN Disk : \A t \in Disk[path] : IsTree(t)

\* argv is made of strings, and the first is the path of one of the trees.
ASSUME LinesAssumption ==
    \A line \in CommandLines : line \in Seq(STRING) /\ (line # <<>> => line[1] \in DOMAIN Disk)

\* An optional that was assigned a result is not empty.
ASSUME ResultsAssumption ==
    \A path \in DOMAIN Disk : \A t \in Disk[path] :
        None \notin {compute_directory_metrics(t), compute_empty_directories(t), compute_file_stats(t)}

vars == <<parser_vars, pc, executor_vars>>

Init ==
    /\ args \in CommandLines
    /\ pc = IF args = <<>> THEN "help" ELSE "parse"
    /\ ParserInit
    /\ ExecutorInit

\* After an error main reads the actions of a result that has none.
Warn ==
    /\ pc = "parsed" /\ errors # {}
    /\ pc' = "undefined"
    /\ UNCHANGED <<parser_vars, executor_vars>>

NoActions ==
    /\ pc = "parsed" /\ errors = {} /\ actions = <<>>
    /\ pc' = "help"
    /\ UNCHANGED <<parser_vars, executor_vars>>

BuildTree ==
    /\ pc = "parsed" /\ errors = {} /\ actions # <<>>
    /\ tree' \in Disk[args[1]]
    /\ pc' = "run"
    /\ UNCHANGED <<parser_vars, run_vars>>

PrintHelp ==
    /\ pc = "help"
    /\ pc' = "end"
    /\ UNCHANGED <<parser_vars, executor_vars>>

Ended == pc \in {"end", "undefined"} /\ UNCHANGED vars

MainStep ==
    \/ ParseStep /\ UNCHANGED executor_vars
    \/ Warn \/ NoActions \/ BuildTree \/ PrintHelp \/ RunStep

Next == MainStep \/ ThreadStep \/ Ended

Spec == Init /\ [][Next]_vars

\* Every thread that can take a step takes one in the end, save that nothing is
\* promised for the duplicate scan (DuplicateScan: it may sleep for ever).
FairSpec ==
    /\ Spec
    /\ WF_vars(MainStep)
    /\ WF_vars(\E c \in Cache : ComputeShared(c))
    /\ WF_vars(\E a \in DOMAIN report : actions[a].kind # "Duplicate" /\ Report(a))

-----------------------------------------------------------------------------
(* Properties *)

Asked == {actions[a].kind : a \in DOMAIN actions}

Dir  == DOMAIN tree.directories
File == DOMAIN tree.files
Size(f) == tree.files[f].size

\* The directories on the way from d to the root, d included.
PathUp[d \in Dir] ==
    LET parent == tree.directories[d].parent
    IN  {d} \cup (IF parent = None THEN {} ELSE PathUp[parent])
FilesIn(d) == UNION {tree.directories[e].files : e \in {e \in Dir : d \in PathUp[e]}}

\* The metrics are what the three words mean: the number of directories above a
\* directory, and the number and the sizes of the files anywhere below it, each
\* counted once.
MetricsRight ==
    pc = "end" /\ os # <<>> =>
        LET m == cache["metrics"]
        IN  \A d \in Dir :
                /\ m.depth[d] = Cardinality(PathUp[d]) - 1
                /\ m.recursive_file_count[d] = Cardinality(FilesIn(d))
                /\ m.recursive_size[d] = Sum(FilesIn(d), Size)

\* What was printed for the actions of a kind.
Printed(kind) == {os[a] : a \in {a \in DOMAIN os : actions[a].kind = kind}}

\* ids are n of all, or all of them, by falling key, and none left out has more.
Ranks(ids, n, all, Key(_)) ==
    /\ ToSet(ids) \subseteq all /\ IsInjective(ids)
    /\ Len(ids) = IF n < Cardinality(all) THEN n ELSE Cardinality(all)
    /\ \A j \in 2 .. Len(ids) : Key(ids[j - 1]) >= Key(ids[j])
    /\ \A x \in all \ ToSet(ids), y \in ToSet(ids) : Key(x) <= Key(y)

RankingsRight ==
    \A a \in DOMAIN os :
        LET n == actions[a].amount
            recent == {f \in File : tree.files[f].modified >= Now - n}
        IN  CASE actions[a].kind = "LargestFiles" -> Ranks(os[a], n, File, Size)
              [] actions[a].kind = "LargestDirs" ->
                     Ranks(os[a], n, Dir \ {0}, LAMBDA d : Sum(FilesIn(d), Size))
              [] actions[a].kind = "Recent" ->
                     /\ Ranks(os[a].files, Cardinality(recent), recent,
                              LAMBDA f : tree.files[f].modified)
                     /\ \A k \in DOMAIN os[a].ages :
                           LET age == Now - tree.files[os[a].files[k]].modified
                           IN  age >= 0 => Worth(os[a].ages[k]) = age
              [] OTHER -> TRUE

\* What the reports of one run say of the same thing, however each came by it.
ReportsAgree ==
    /\ \A s \in Printed("Summary") :
          /\ \A m \in Printed("Metrics") :
                /\ m.recursive_size[tree.root] = s.total_size
                /\ m.recursive_file_count[tree.root] = s.total_files
                /\ m.depth[s.max_depth_dir] = s.max_depth
          /\ \A x \in Printed("Extensions") :
                /\ Sum(ToSet(x), LAMBDA e : e.count) = s.total_files
                /\ Sum(ToSet(x), LAMBDA e : e.total_size) = s.total_size
          /\ \A l \in Printed("Symlinks")  : Len(l) = s.total_symlinks
          /\ \A e \in Printed("EmptyDirs") : Len(e) = s.total_empty_dir
          /\ \A e \in Printed("Errors")    : e = s.total_errors
          /\ \A l \in Printed("LargestFiles") : l # <<>> => Size(l[1]) = s.largest_file_size
          /\ \A t \in Printed("Stats") :
                t.max_depth = s.max_depth /\ t.max_depth_dir = s.max_depth_dir
          /\ \A d \in Printed("Duplicate") : d.wasted < s.total_size \/ d.groups = {}
    /\ \A t \in Printed("Stats"), l \in Printed("LargestDirs") :
          l # <<>> => t.max_files_size = Sum(FilesIn(l[1]), Size)

\* The rankings are right, the ages in words are those of the files (none of
\* which is from the future), and no two reports of one run contradict each other,
\* although they run at once on caches that three other threads computed and
\* are printed in the order of the flags, not of their ends.
ReportsRight == pc = "end" /\ os # <<>> => RankingsRight /\ ReportsAgree

\* No report writes to a cache: while one may run, all three are filled, so
\* that the get_ functions, which fill an empty cache without a lock, only read.
CachesSettled == [][launched > 0 => UNCHANGED cache]_vars

\* Behaviour is undefined in two cases only: after a parse error, and when a
\* tree without directories, which build_tree returns for a root it cannot
\* scan, is to be summed up.
UndefinedOnlyWithoutTree ==
    pc = "undefined" =>
        \/ errors # {}
        \/ tree.root = None /\ Asked \cap {"Summary", "Stats"} # {}

\* The program ends, whatever its command line, unless it scans for duplicates.
ProgramEnds == <>(pc \in {"end", "undefined"} \/ "Duplicate" \in Asked)
=============================================================================
