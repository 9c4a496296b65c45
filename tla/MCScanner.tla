------------------------------- MODULE MCScanner -------------------------------
(* Instances of Scanner for TLC: small file systems. *)
EXTENDS Scanner

Entry(t, p) == [type |-> t, path |-> p]

\* Four directories two levels deep, with every type of entry between them.
FourDirs  == {"root", "a", "b", "c"}
FourNames == {"f", "h", "s"}
FourListing ==
    [root |-> <<Entry("directory", "a"), Entry("regular", "f"), Entry("directory", "b")>>,
     a    |-> <<Entry("unknown", "h"), Entry("directory", "c")>>,
     b    |-> <<Entry("status_error", "h"), Entry("symlink", "s")>>,
     c    |-> <<>>]
FourIds == 0 .. 3

\* Directory b may fail to open, or fail after its first or its last entry; or
\* directory a fails after its first, which hides directory c.
FourReads == {[root |-> 3, a |-> 2, b |-> n, c |-> 0] : n \in 0 .. 2}
             \cup {[root |-> 3, a |-> 1, b |-> 2, c |-> 0]}

AnyRoot == {"canonical_error", "missing", "not_a_directory", "directory"}
=============================================================================
