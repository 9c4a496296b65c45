------------------------------- MODULE Analyzer -------------------------------
(***************************************************************************)
(* The queries of src/src/analyzer/analyzer.cpp over a finished tree.      *)
(* Ids are positions, from 0.  What the code leaves to its library (which  *)
(* of two equal elements a sort puts first, a heap drops) makes a query    *)
(* have several results: such a query is the set of them.  A query the     *)
(* code has no defined result for is the empty set.                        *)
(***************************************************************************)
EXTENDS SizeGroups, FiniteSetsExt

CONSTANTS None,      \* std::nullopt
          Lower,     \* [extension -> extension]: tolower of every letter
          Now        \* the clock, in seconds

\* Whole seconds, as the times of files are.
ASSUME ClockAssumption == Now \in Int

\* A tree is a record with
\*   root         a directory or None
\*   directories  [0 .. n - 1 -> [parent, files, subdirs]]
\*   files        [0 .. m - 1 -> [size, modified, extension, readable,
\*                                is_symlink, content]]
\*   errors       how many error records there are

InOrder(f) == [k \in 1 .. Cardinality(DOMAIN f) |-> k - 1]
Sum(S, Of(_)) == MapThenSumSet(Of, S)

\* The orders a sort by falling key may give.
Descending(S, Key(_)) ==
    {s \in SetToSeqs(S) : \A k \in 1 .. Len(s) - 1 : Key(s[k]) >= Key(s[k + 1])}

-----------------------------------------------------------------------------
(* Directory metrics *)

Zero(tree) == [d \in DOMAIN tree.directories |-> 0]
Above(tree, id) == tree.directories[id].parent

\* First pass: a directory is one deeper than its parent; its own files count.
Down(tree, depth, id) ==
    IF Above(tree, id) = None THEN depth
    ELSE [depth EXCEPT ![id] = depth[Above(tree, id)] + 1]

OwnSize(tree)  == [d \in DOMAIN tree.directories |->
                      Sum(tree.directories[d].files, LAMBDA f : tree.files[f].size)]
OwnCount(tree) == [d \in DOMAIN tree.directories |-> Cardinality(tree.directories[d].files)]

\* Second pass: a directory's total is added to its parent's.
Up(tree, total, id) ==
    IF Above(tree, id) = None THEN total
    ELSE [total EXCEPT ![Above(tree, id)] = @ + total[id]]

\* Mutant: parents before children again.
ParentsFirst(ids) == ids
UpOrder(ids)      == Reverse(ids)

compute_directory_metrics(tree) ==
    LET ids == InOrder(tree.directories)
        Totals(own) == FoldLeft(LAMBDA total, id : Up(tree, total, id), own, UpOrder(ids))
    IN  IF tree.root = None
        THEN [depth |-> Zero(tree), recursive_size |-> Zero(tree),
              recursive_file_count |-> Zero(tree)]
        ELSE [depth |-> FoldLeft(LAMBDA depth, id : Down(tree, depth, id), Zero(tree), ids),
              recursive_size |-> Totals(OwnSize(tree)),
              recursive_file_count |-> Totals(OwnCount(tree))]

-----------------------------------------------------------------------------
(* Shared by several reports *)

compute_empty_directories(tree) ==
    SelectSeq(InOrder(tree.directories),
              LAMBDA d : tree.directories[d].files = {} /\ tree.directories[d].subdirs = {})

compute_file_stats(tree) ==
    LET Count(fs, id) ==
            LET f == tree.files[id]
                larger == f.size > fs.largest_file_size
            IN  [total_size |-> fs.total_size + f.size,
                 symlink_ids |-> IF f.is_symlink THEN Append(fs.symlink_ids, id) ELSE fs.symlink_ids,
                 largest_file_size |-> IF larger THEN f.size ELSE fs.largest_file_size,
                 largest_file_id |-> IF larger THEN id ELSE fs.largest_file_id]
    IN  FoldLeft(Count, [total_size |-> 0, symlink_ids |-> <<>>, largest_file_size |-> 0,
                         largest_file_id |-> None], InOrder(tree.files))

\* max_element: the first of the greatest, or the end.
FirstGreatest(f) ==
    {k \in DOMAIN f : \A j \in DOMAIN f : f[j] <= f[k] /\ (j < k => f[j] < f[k])}

\* Dereferences what max_element returns.
compute_summary(tree, m, empty_dir, fs) ==
    {[total_directories |-> Cardinality(DOMAIN tree.directories),
      total_files |-> Cardinality(DOMAIN tree.files), total_size |-> fs.total_size,
      total_symlinks |-> Len(fs.symlink_ids), total_empty_dir |-> empty_dir,
      total_errors |-> tree.errors, largest_file_size |-> fs.largest_file_size,
      max_depth |-> m.depth[d], max_depth_dir |-> d] : d \in FirstGreatest(m.depth)}

-----------------------------------------------------------------------------
(* Rankings *)

\* Mutant: the comparison of the heap is turned round.
Greatest(tree, heap) ==
    {f \in heap : \A g \in heap : tree.files[f].size >= tree.files[g].size}
\* The files pop() may take off the heap.
Top(tree, heap) == {f \in heap : \A g \in heap : tree.files[f].size <= tree.files[g].size}

compute_largest_N_Files(tree, n) ==
    LET Push(heaps, id) ==
            UNION {LET full == heap \cup {id}
                   IN  IF Cardinality(full) <= n THEN {full}
                       ELSE {full \ {f} : f \in Top(tree, full)} : heap \in heaps}
    IN  UNION {Descending(heap, LAMBDA f : tree.files[f].size)
                  : heap \in FoldLeft(Push, {{}}, InOrder(tree.files))}

\* Mutant: the early return is forgotten.
NeverAlone(tree) == FALSE
NoOthers(tree)   == Cardinality(DOMAIN tree.directories) <= 1

\* Without the early return a tree of no directory would ask for 2^64 - 1 ids.
compute_largest_N_Directories(tree, m, n) ==
    LET others == Cardinality(DOMAIN tree.directories) - 1
    IN  IF NoOthers(tree) THEN {<<>>}
        ELSE {SubSeq(s, 1, IF n < others THEN n ELSE others)
                 : s \in {s \in Descending(1 .. others, LAMBDA d : m.recursive_size[d]) : others >= 0}}

compute_recent_files(tree, duration) ==
    Descending({f \in DOMAIN tree.files : tree.files[f].modified >= Now - duration},
               LAMBDA f : tree.files[f].modified)

\* Extensions that differ in case only are one.
compute_extension_stats(tree) ==
    LET Ext(f) == Lower[tree.files[f].extension]
        With(x) == {f \in DOMAIN tree.files : Ext(f) = x}
    IN  Descending({[extension |-> x, count |-> Cardinality(With(x)),
                     total_size |-> Sum(With(x), LAMBDA f : tree.files[f].size)]
                        : x \in {Ext(f) : f \in DOMAIN tree.files}},
                   LAMBDA s : s.total_size)

\* The root is left out of the sums and of the two maxima, which are 0, at
\* directory 0, when nothing exceeds that.  The averages are kept as their sums.
compute_directory_stats(tree, m) ==
    LET others == DOMAIN tree.directories \ {tree.root}
        Most(f) == LET best == FirstGreatest([d \in {d \in others : f[d] > 0} |-> f[d]])
                   IN  IF best = {} THEN [dir |-> 0, value |-> 0]
                       ELSE LET d == CHOOSE d \in best : TRUE IN [dir |-> d, value |-> f[d]]
        deepest == FirstGreatest(m.depth)
    IN  IF deepest = {}
        THEN [max_depth |-> 0, max_depth_dir |-> 0, max_files_count |-> 0, max_files_count_dir |-> 0,
              max_files_size |-> 0, max_files_size_dir |-> 0, depth_sum |-> 0, file_sum |-> 0]
        ELSE [max_depth |-> m.depth[CHOOSE d \in deepest : TRUE],
              max_depth_dir |-> CHOOSE d \in deepest : TRUE,
              max_files_count |-> Most(m.recursive_file_count).value,
              max_files_count_dir |-> Most(m.recursive_file_count).dir,
              max_files_size |-> Most(m.recursive_size).value,
              max_files_size_dir |-> Most(m.recursive_size).dir,
              depth_sum |-> Sum(others, LAMBDA d : m.depth[d]),
              file_sum |-> Sum(others, LAMBDA d : m.recursive_file_count[d])]
=============================================================================
