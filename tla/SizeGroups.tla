------------------------------ MODULE SizeGroups ------------------------------
(***************************************************************************)
(* What src/src/analyzer/duplicates.cpp makes of the files of a tree: the  *)
(* size groups it scans, and the duplicates there are in each.             *)
(* files is a function from FileId to records with the fields of FileNode  *)
(* that count, and content for what the file holds.                        *)
(***************************************************************************)
EXTENDS Orders, FiniteSets

\* Mutant: symbolic links are followed.
Followed(f) == f.readable /\ f.size # 0
Eligible(f) == f.readable /\ ~f.is_symlink /\ f.size # 0

\* The sets of files of one size, by size; a size that only one file has is left out.
group_files_by_size(files) ==
    LET OfSize(n) == {id \in DOMAIN files : Eligible(files[id]) /\ files[id].size = n}
        sizes == {n \in {files[id].size : id \in DOMAIN files} : Cardinality(OfSize(n)) >= 2}
        order == Ascending(sizes)
    IN  [i \in DOMAIN order |-> OfSize(order[i])]

\* The groups of byte-for-byte identical files among ids (GroupScan shows how
\* they are found).
Identical(files, ids) ==
    {g \in {{j \in ids : files[j].content = files[i].content} : i \in ids} : Cardinality(g) >= 2}
=============================================================================
