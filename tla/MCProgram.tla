------------------------------ MODULE MCProgram ------------------------------
(* Instances of Program for TLC. *)
EXTENDS Program

MCNumbers ==
    LET ok(n, rest) == [ec |-> "ok", value |-> n, rest |-> rest]
    IN  "2" :> ok(2, <<>>) @@ "9" :> ok(9, <<>>) @@ "10" :> ok(10, <<>>) @@ "0" :> ok(0, <<>>)
     @@ "2x" :> ok(2, <<"x">>) @@ "5s" :> ok(5, <<"s">>) @@ "2D" :> ok(2, <<"D">>) @@ "0s" :> ok(0, <<"s">>)
     @@ "5sec" :> ok(5, <<"s", "e", "c">>) @@ "86400" :> ok(86400, <<>>)
     @@ "s" :> [ec |-> "invalid_argument", value |-> 0, rest |-> <<"s">>]
     @@ "99999999999999999999" :> [ec |-> "result_out_of_range", value |-> 0, rest |-> <<>>]

MCLower == "" :> "" @@ ".txt" :> ".txt" @@ ".TXT" :> ".txt"

\* The tree of the directories above and of files in the given places.
TreeOf(parent, place, file, errs) ==
    [root |-> 0, errors |-> errs, files |-> file,
     directories |-> [d \in DOMAIN parent |->
         [parent |-> parent[d], files |-> {f \in DOMAIN place : place[f] = d},
          subdirs |-> {c \in DOMAIN parent : parent[c] = d}]]]

NoTree == [root |-> None, directories |-> <<>>, files |-> <<>>, errors |-> 1]

File_(size, modified, ext, content) ==
    [size |-> size, modified |-> modified, extension |-> ext, content |-> content,
     readable |-> TRUE, is_symlink |-> FALSE]

\* Every tree of n directories and every place of three files in them.
Dirs(n) == 0 .. n - 1
Shapes(n) == {p \in [Dirs(n) -> Dirs(n) \cup {None}] :
                 \A d \in Dirs(n) : IF d = 0 THEN p[d] = None ELSE p[d] \in 0 .. d - 1}
ThreeFiles == 0 :> File_(1, 0, "", "a") @@ 1 :> File_(2, 0, "", "b") @@ 2 :> File_(4, 0, "", "c")
Every(n) == {TreeOf(p, place, ThreeFiles, 0) : p \in Shapes(n), place \in [0 .. 2 -> Dirs(n)]}

\* Two files of one size and content, a link, an empty file; ties in every ranking.
Chain == 0 :> None @@ 1 :> 0 @@ 2 :> 1 @@ 3 :> 0
Mixed == TreeOf(Chain, 0 :> 1 @@ 1 :> 2 @@ 2 :> 2 @@ 3 :> 0,
                0 :> File_(2, 99997, ".txt", "a") @@ 1 :> File_(2, 99997, ".TXT", "a")
             @@ 2 :> [File_(2, 99940, "", "z") EXCEPT !.is_symlink = TRUE]
             @@ 3 :> File_(0, 100001, "", ""), 1)
\* Four regular files, three of them equal, the largest first.
Falling == TreeOf(0 :> None @@ 1 :> 0, 0 :> 1 @@ 1 :> 1 @@ 2 :> 0 @@ 3 :> 1,
                  0 :> File_(3, 99998, ".txt", "a") @@ 1 :> File_(1, 9939, "", "b")
               @@ 2 :> File_(1, 96340, "", "b") @@ 3 :> File_(1, 99994, "", "b"), 0)
\* A directory with nothing in it.
Bare  == TreeOf(0 :> None, <<>>, <<>>, 0)

MCDisk == "all" :> Every(4) @@ "few" :> {Mixed, Falling, Bare} @@ "bad" :> {NoTree}

Singles == {<<"--summary">>, <<"--extensions">>, <<"--empty-dirs">>, <<"--symlinks">>,
            <<"--errors">>, <<"--metrics">>, <<"--stats">>, <<"--duplicates">>,
            <<"--largest-files", "2">>, <<"--largest-dirs", "2">>, <<"--recent", "5s">>, <<"--recent", "2D">>}
Pairs == {<<"--summary">> \o s : s \in Singles} \cup {<<"--stats", "--largest-dirs", "9">>}
Odd == {<<>>, <<"--bogus">>, <<"--bogus", "--stats">>, <<"--largest-files">>,
        <<"--largest-files", "--summary">>, <<"--recent", "86400">>, <<"--recent", "0s">>,
        <<"--recent", "s">>, <<"--recent", "5sec">>, <<"--recent", "2x">>, <<"--recent">>,
        <<"--recent", "2D", "--largest-files", "2x">>, <<"--largest-dirs", "0">>,
        <<"--largest-dirs", "99999999999999999999", "--errors">>, <<"2", "--errors">>,
        <<"--errors", "--largest-dirs", "--recent", "5s">>,
        <<"--bogus", "--bogus", "--errors">>, <<"--recent", "2", "--largest-dirs", "9", "9">>,
        <<"--summary", "--symlinks", "--empty-dirs", "--metrics">>}

MCCommandLines ==
    {<<>>} \cup {<<path>> \o s : path \in {"few", "bad"}, s \in Singles \cup Pairs \cup Odd}
           \cup {<<"all", "--metrics", "--largest-dirs", "2">>}

MCHelpLines == {<<"few">> \o e : e \in HelpExamples}
=============================================================================
