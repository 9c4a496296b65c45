--------------------------------- MODULE View ---------------------------------
(***************************************************************************)
(* What src/src/view/view.cpp does with a report besides laying it out:    *)
(* directories are looked up by id, and times are put in words.            *)
(***************************************************************************)
EXTENDS Integers, Sequences, SequencesExt

\* Division as in C++, towards zero.
Quot(a, b) == IF a >= 0 THEN a \div b ELSE -((-a) \div b)
Rem(a, b)  == a - b * Quot(a, b)

\* Days, hours, minutes and seconds, each left out unless positive; if nothing
\* is left, the seconds.  An item is [n, unit].
format_duration(total) ==
    LET Item(n, unit)   == <<[n |-> n, unit |-> unit]>>
        IfAny(n, unit)  == IF n > 0 THEN Item(n, unit) ELSE <<>>
        longer  == IfAny(Quot(total, 86400), 86400)
                      \o IfAny(Quot(Rem(total, 86400), 3600), 3600)
                      \o IfAny(Quot(Rem(total, 3600), 60), 60)
        seconds == Rem(total, 60)
    IN  longer \o IF longer = <<>> THEN Item(seconds, 1) ELSE IfAny(seconds, 1)

\* How many seconds the words stand for.
Worth(items) == FoldLeft(LAMBDA sum, item : sum + item.n * item.unit, 0, items)

\* The three directories of the statistics are looked up; there is no report if
\* the tree has none.
print_directory_stats(stats, tree) ==
    {s \in {stats} : {s.max_depth_dir, s.max_files_count_dir, s.max_files_size_dir}
                         \subseteq DOMAIN tree.directories}

\* The files and how long ago they were modified.
print_recent_files(ids, tree, now) ==
    [files |-> ids,
     ages  |-> [k \in DOMAIN ids |-> format_duration(now - tree.files[ids[k]].modified)]]
=============================================================================
