---------------------------- MODULE MCDuplicateScan ----------------------------
(* Instances of DuplicateScan for TLC. *)
EXTENDS DuplicateScan

File(content) ==
    [size |-> Len(content), content |-> content, readable |-> TRUE, is_symlink |-> FALSE]
Link(content) == [File(content) EXCEPT !.is_symlink = TRUE]
Locked(content) == [File(content) EXCEPT !.readable = FALSE]

\* Two size groups with duplicates in each, one with a file that differs, and
\* besides them a link, an unreadable file, empty files and a file on its own.
TwoGroups ==
    <<File(<<1>>), File(<<1, 2>>), File(<<1>>), File(<<3, 4>>), File(<<1, 2>>),
      Link(<<1>>), Locked(<<1>>), File(<<>>), File(<<>>), File(<<1, 2, 3>>)>>
\* No two files of one size.
NoGroup == <<File(<<1>>), Link(<<2>>), File(<<1, 2>>)>>

BothTrees == {TwoGroups, NoGroup}
JustTwoGroups == {TwoGroups}
=============================================================================
