-------------------------------- MODULE Parser --------------------------------
(***************************************************************************)
(* parse of src/src/parser/parser.cpp, one pass of its loop after another: *)
(* a path, then flags, some of which take the next token for their value.  *)
(* What std::from_chars makes of a token is a constant; the seconds asked  *)
(* for are taken to fit in their 64 bits.                                  *)
(***************************************************************************)
EXTENDS Orders, FiniteSets

CONSTANT Numbers    \* [token -> [ec, value, rest]], rest a sequence of letters

\* The value is a size_t, and stays 0 when from_chars fails.
ASSUME NumbersAssumption ==
    \A t \in DOMAIN Numbers : Numbers[t].value \in Nat /\ (Numbers[t].ec # "ok" => Numbers[t].value = 0)

VARIABLES
    pc,         \* where the main thread is
    args,       \* the command line without the program's name
    i,          \* the token the loop has come to
    actions,    \* result.actions: Seq([kind, amount]), amount 0 where there is none
    errors      \* the places in args the error messages are about

parser_vars == <<args, i, actions, errors>>

\* FlagSpec: the type of action a flag stands for, and whether it takes a value.
Flag(name, kind, requires_value) == [name |-> name, kind |-> kind, requires_value |-> requires_value]
FlagSpecs ==
    {Flag("--summary", "Summary", FALSE),       Flag("--extensions", "Extensions", FALSE),
     Flag("--empty-dirs", "EmptyDirs", FALSE),  Flag("--symlinks", "Symlinks", FALSE),
     Flag("--errors", "Errors", FALSE),         Flag("--metrics", "Metrics", FALSE),
     Flag("--stats", "Stats", FALSE),           Flag("--duplicates", "Duplicate", FALSE),
     Flag("--largest-files", "LargestFiles", TRUE),
     Flag("--largest-dirs", "LargestDirs", TRUE), Flag("--recent", "Recent", TRUE)}
\* By name, as find() looks them up.
flag_table == [name \in {f.name : f \in FlagSpecs} |-> CHOOSE f \in FlagSpecs : f.name = name]

\* A token the table of numbers does not have is one with no digit in front.
FromChars(t) == IF t \in DOMAIN Numbers THEN Numbers[t]
                ELSE [ec |-> "invalid_argument", value |-> 0, rest |-> <<"-", "-">>]

\* Both return 0 for what the code rejects: 0 is never accepted as an amount.
\* What follows the digits of a count is ignored, ...
parse_positive_size(t) == FromChars(t).value

\* ... and of a duration, must be one of these letters.
Units == "s" :> 1 @@ "m" :> 60 @@ "h" :> 3600 @@ "d" :> 86400
      @@ "S" :> 1 @@ "M" :> 60 @@ "H" :> 3600 @@ "D" :> 86400

handle_recent(t) ==
    LET n == FromChars(t)
    IN  IF Len(n.rest) = 1 /\ n.rest[1] \in DOMAIN Units THEN n.value * Units[n.rest[1]] ELSE 0

Amount(kind, t) == IF kind = "Recent" THEN handle_recent(t) ELSE parse_positive_size(t)

\* What a handler makes of its flag and value: an action, or none.
Plain(kind)     == {[kind |-> kind, amount |-> 0]}
Valued(kind, t) == {[kind |-> kind, amount |-> n] : n \in {Amount(kind, t)} \ {0}}

ParserInit == i = 2 /\ actions = <<>> /\ errors = {}

-----------------------------------------------------------------------------
(* One pass of the loop *)

Parsing == pc = "parse" /\ i <= Len(args)
Known    == args[i] \in DOMAIN flag_table
FlagHere == flag_table[args[i]]

\* Mutant: the continue skips the increment.
StayAtUnknown == i
\* Mutant: the token after an unknown flag is skipped with it.
SkipItsValue  == i + 2
AfterUnknown  == i + 1

UnknownOption ==
    /\ Parsing /\ ~Known
    /\ errors' = errors \cup {i}
    /\ i' = AfterUnknown
    /\ UNCHANGED <<pc, args, actions>>

\* The last token is a flag that takes a value.
MissingValue ==
    /\ Parsing /\ Known
    /\ FlagHere.requires_value /\ i = Len(args)
    /\ errors' = errors \cup {i + 1}
    /\ i' = i + 1
    /\ UNCHANGED <<pc, args, actions>>

\* Mutant: the value is looked at and not consumed.
ValueStays(spec) == 1
Width(spec)      == IF spec.requires_value THEN 2 ELSE 1

HandleFlag ==
    /\ Parsing /\ Known
    /\ ~(FlagHere.requires_value /\ i = Len(args))
    /\ LET made == IF FlagHere.requires_value THEN Valued(FlagHere.kind, args[i + 1])
                                              ELSE Plain(FlagHere.kind)
       IN  /\ actions' = actions \o SetToSeq(made)
           /\ errors' = IF made = {} THEN errors \cup {i + 1} ELSE errors
    /\ i' = i + Width(FlagHere)
    /\ UNCHANGED <<pc, args>>

ParseReturn ==
    /\ pc = "parse" /\ i > Len(args)
    /\ pc' = "parsed"
    /\ UNCHANGED parser_vars

ParseStep == UnknownOption \/ MissingValue \/ HandleFlag \/ ParseReturn

-----------------------------------------------------------------------------
(* Properties *)

TakesValue(p) == args[p] \in DOMAIN flag_table /\ flag_table[args[p]].requires_value

\* Where flags are looked up: at every token but those the flag before takes.
FlagsAt(starts) ==
    \A p \in 2 .. Len(args) : p \in starts <=> ~(p - 1 \in starts /\ TakesValue(p - 1))

Good(p) ==
    /\ args[p] \in DOMAIN flag_table
    /\ TakesValue(p) => p < Len(args) /\ Amount(flag_table[args[p]].kind, args[p + 1]) # 0

Meaning(p) ==
    LET kind == flag_table[args[p]].kind
    IN  [kind |-> kind, amount |-> IF TakesValue(p) THEN Amount(kind, args[p + 1]) ELSE 0]

\* The value is at fault, or, if no flag is called that, the token itself.
Fault(p) == IF args[p] \in DOMAIN flag_table THEN p + 1 ELSE p

\* parse keeps in step with the tokens whatever is wrong with those before: each is
\* looked at once, as a flag or as the value of the flag before it.  Each mistake
\* is reported, at its own place; each flag that is none, even between two that are,
\* gives its action with the amount its handler reads, in the order of the line.
\* A flag that takes a value takes the next token, be it another flag, and which
\* values are good is for the handlers to say: --recent wants a unit.
ParseRight ==
    pc = "parsed" =>
        \E starts \in SUBSET (2 .. Len(args)) :
            /\ FlagsAt(starts)
            /\ errors = {Fault(p) : p \in {p \in starts : ~Good(p)}}
            /\ LET order == Ascending({p \in starts : Good(p)})
               IN  actions = [a \in DOMAIN order |-> Meaning(order[a])]

\* The examples print_help shows, without their path.
HelpExamples == {<<"--summary">>, <<"--largest-files", "10", "--extensions">>,
                 <<"--recent", "86400", "--symlinks">>}

\* What the help gives for an example is accepted (parser.cpp:229-232).
HelpExamplesAccepted == pc = "parsed" /\ Tail(args) \in HelpExamples => errors = {}
=============================================================================
