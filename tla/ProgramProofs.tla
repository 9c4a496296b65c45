---------------------------- MODULE ProgramProofs ----------------------------
(***************************************************************************)
(* Proofs about main (Program): what parse makes of a command line, that   *)
(* no report writes to the caches the others read, that the metrics of     *)
(* every tree are the depths and the sums of its directories, that only    *)
(* two reports, of a tree without directories, are undefined, and that     *)
(* every ranking is right and no two reports of a run contradict each      *)
(* other.                                                                  *)
(***************************************************************************)
EXTENDS Program, SequenceFacts

-----------------------------------------------------------------------------
(* The parser, one token after another *)

\* The actions a command line may ask for.
Tokens == UNION {ToSet(line) : line \in CommandLines}
Asking == UNION {Plain(flag_table[t].kind) \cup UNION {Valued(flag_table[t].kind, u) : u \in Tokens}
                    : t \in DOMAIN flag_table}

\* Where flags were looked up so far, and that the next token is looked up.
SplitSoFar(starts) ==
    /\ \A p \in 2 .. i - 1 : p \in starts <=> ~(p - 1 \in starts /\ TakesValue(p - 1))
    /\ i <= Len(args) => ~(i - 1 \in starts /\ TakesValue(i - 1))

ErrorsOf(starts) == errors = {Fault(p) : p \in {p \in starts : ~Good(p)}}

ActionsOf(starts) ==
    LET order == Ascending({p \in starts : Good(p)})
    IN  actions = [a \in DOMAIN order |-> Meaning(order[a])]

\* What ParseRight says of the whole line holds of the tokens before i.
Loop == \E starts \in SUBSET (2 .. i - 1) : SplitSoFar(starts) /\ ErrorsOf(starts) /\ ActionsOf(starts)

LineInv ==
    /\ args \in CommandLines
    /\ args = <<>> => pc \in {"help", "end"}

ParseInv ==
    pc \in {"parse", "parsed"} =>
        /\ i \in Nat /\ 2 <= i /\ i <= Len(args) + 1
        /\ pc = "parsed" => i = Len(args) + 1
        /\ actions \in Seq(Asking)
        /\ Loop

\* What there is to know of a command line.
LEMMA LineFacts ==
    ASSUME args \in CommandLines
    PROVE  /\ args \in Seq(STRING) /\ Len(args) \in Nat
           /\ DOMAIN args = 1 .. Len(args)
           /\ \A p \in 1 .. Len(args) : args[p] \in Tokens
           /\ args # <<>> => Len(args) >= 1 /\ args[1] \in DOMAIN Disk
<1>1. args \in Seq(STRING) /\ (args # <<>> => args[1] \in DOMAIN Disk)
  BY LinesAssumption
<1>2. Len(args) \in Nat /\ DOMAIN args = 1 .. Len(args)
  BY <1>1, LenProperties
<1>3. args # <<>> => Len(args) >= 1
  BY <1>1, <1>2, EmptySeq
<1>4. ASSUME NEW p \in 1 .. Len(args) PROVE args[p] \in Tokens
  <2>1. args[p] \in ToSet(args)
    BY <1>2 DEF ToSet
  <2> QED BY <2>1 DEF Tokens
<1> QED BY <1>1, <1>2, <1>3, <1>4

\* A handler makes one action, or none.
LEMMA OneMade ==
    ASSUME NEW x
    PROVE  SetToSeq({x}) = <<x>>
<1>1. Cardinality({x}) = 1
  BY FS_Singleton
<1>2. SetToSeq({x}) = CHOOSE f \in [1 .. 1 -> {x}] : IsInjective(f)
  BY <1>1 DEF SetToSeq
<1>3. <<x>> \in [1 .. 1 -> {x}] /\ IsInjective(<<x>>)
  BY DEF IsInjective
<1>4. SetToSeq({x}) \in [1 .. 1 -> {x}]
  BY <1>2, <1>3
<1>5. SetToSeq({x}) = [k \in 1 .. 1 |-> x] /\ <<x>> = [k \in 1 .. 1 |-> x]
  BY <1>4
<1> QED BY <1>5

LEMMA NoneMade == SetToSeq({}) = <<>>
<1>1. Cardinality({}) = 0
  BY FS_EmptySet
<1>2. SetToSeq({}) = CHOOSE f \in [1 .. 0 -> {}] : IsInjective(f)
  BY <1>1 DEF SetToSeq
<1>3. <<>> \in [1 .. 0 -> {}] /\ IsInjective(<<>>)
  BY DEF IsInjective
<1>4. SetToSeq({}) \in [1 .. 0 -> {}]
  BY <1>2, <1>3
<1> QED BY <1>4

\* What a token is does not change.
LEMMA TokensStay ==
    ASSUME args' = args, NEW p
    PROVE  /\ TakesValue(p)' <=> TakesValue(p)
           /\ Good(p)' <=> Good(p)
           /\ Meaning(p)' = Meaning(p) /\ Fault(p)' = Fault(p)
BY DEF TakesValue, Good, Meaning, Fault

\* One more flag that is good: one more action, the last.
LEMMA ActionAdded ==
    ASSUME NEW o \in Seq(Nat), NEW n \in Nat, NEW s \in Seq(Asking), NEW x \in Asking,
           x = Meaning(n), DOMAIN s = DOMAIN o, \A a \in DOMAIN o : s[a] = Meaning(o[a])
    PROVE  /\ DOMAIN Append(s, x) = DOMAIN Append(o, n)
           /\ \A a \in DOMAIN Append(o, n) : Append(s, x)[a] = Meaning(Append(o, n)[a])
<1>1. DOMAIN o = 1 .. Len(o) /\ Len(o) \in Nat
  BY LenProperties
<1>2. PICK w : w = Append(o, n)
  OBVIOUS
<1>3. /\ DOMAIN w = 1 .. Len(o) + 1 /\ w[Len(o) + 1] = n
      /\ \A a \in 1 .. Len(o) : w[a] = o[a]
  BY <1>2, AppendProperties, LenProperties
<1>4. Len(s) = Len(o)
  <2>1. DOMAIN s = 1 .. Len(s) /\ Len(s) \in Nat
    BY LenProperties
  <2> QED BY <1>1, <2>1
<1>5. PICK t : t = Append(s, x)
  OBVIOUS
<1>6. /\ DOMAIN t = 1 .. Len(o) + 1 /\ t[Len(o) + 1] = x
      /\ \A a \in 1 .. Len(o) : t[a] = s[a]
  BY <1>4, <1>5, AppendProperties, LenProperties
<1>7. ASSUME NEW a \in 1 .. Len(o) + 1 PROVE t[a] = Meaning(w[a])
  <2>1. CASE a = Len(o) + 1
    BY <1>3, <1>6, <2>1
  <2>2. CASE a # Len(o) + 1
    <3>1. a \in 1 .. Len(o)
      BY <1>1, <2>2
    <3> QED BY <1>1, <1>3, <1>6, <3>1
  <2> QED BY <2>1, <2>2
<1> QED BY <1>2, <1>3, <1>5, <1>6, <1>7

\* A pass that looks a flag up at i, with its value if it takes one, and makes an
\* action or an error of it.
LEMMA FlagPassed ==
    ASSUME LineInv, ParseInv, Parsing, UNCHANGED <<pc, args>>,
           NEW w \in {1, 2}, i' = i + w, i + w <= Len(args) + 1,
           w = 2 => TakesValue(i),
           w = 1 => ~TakesValue(i) \/ i = Len(args),
           actions' = IF Good(i) THEN Append(actions, Meaning(i)) ELSE actions,
           Good(i) => Meaning(i) \in Asking,
           errors' = IF Good(i) THEN errors ELSE errors \cup {Fault(i)}
    PROVE  ParseInv'
<1>1. /\ pc = "parse" /\ i \in Nat /\ 2 <= i /\ i <= Len(args)
      /\ actions \in Seq(Asking) /\ Loop
  BY DEF ParseInv, Parsing
<1>2. args \in Seq(STRING) /\ Len(args) \in Nat
  BY LineFacts DEF LineInv
<1>3. PICK k : k = i
  OBVIOUS
<1>4. PICK m : m = k + w
  OBVIOUS
<1>5. k \in Nat /\ m \in Nat /\ 2 <= k /\ k <= Len(args) /\ k < m /\ i' = m /\ m <= Len(args) + 1
      /\ m \in {k + 1, k + 2}
  BY <1>1, <1>3, <1>4
<1>6. PICK V \in SUBSET (2 .. k - 1) : SplitSoFar(V) /\ ErrorsOf(V) /\ ActionsOf(V)
  BY <1>1, <1>3 DEF Loop
<1>7. PICK W : W = V \cup {k}
  OBVIOUS
<1>8. W \in SUBSET (2 .. m - 1) /\ k \notin V /\ k + 1 \notin W /\ \A y \in V : y \in Nat /\ y < k
  <2>1. \A y \in 2 .. k - 1 : y \in 2 .. m - 1 /\ y \in Nat /\ y < k
    BY <1>5
  <2>2. k \in 2 .. m - 1 /\ k + 1 # k /\ ~(k + 1 < k)
    BY <1>5
  <2> QED BY <1>7, <2>1, <2>2
<1>9. SplitSoFar(W)'
  <2>1. /\ \A p \in 2 .. k - 1 : p \in V <=> ~(p - 1 \in V /\ TakesValue(p - 1))
        /\ ~(k - 1 \in V /\ TakesValue(k - 1))
    BY <1>3, <1>5, <1>6 DEF SplitSoFar
  <2>2. ASSUME NEW p \in 2 .. m - 1
        PROVE  p \in W <=> ~(p - 1 \in W /\ TakesValue(p - 1))
    <3>1. CASE p < k
      <4>1. p \in 2 .. k - 1 /\ p # k /\ p - 1 # k
        BY <1>5, <3>1
      <4> QED BY <1>7, <2>1, <4>1
    <3>2. CASE p = k
      <4>1. k - 1 # k
        BY <1>5
      <4> QED BY <1>7, <2>1, <3>2, <4>1
    <3>3. CASE k < p
      <4>1. p = k + 1 /\ m = k + 2 /\ w = 2 /\ p - 1 = k
        BY <1>4, <1>5, <3>3
      <4> QED BY <1>3, <1>7, <1>8, <4>1
    <3> QED BY <1>5, <3>1, <3>2, <3>3
  <2>3. ASSUME m <= Len(args) PROVE ~(m - 1 \in W /\ TakesValue(m - 1))
    <3>1. CASE w = 1
      <4>1. m - 1 = k /\ k # Len(args)
        BY <1>2, <1>4, <1>5, <2>3, <3>1
      <4> QED BY <1>3, <3>1, <4>1
    <3>2. CASE w = 2
      <4>1. m - 1 = k + 1
        BY <1>4, <1>5, <3>2
      <4> QED BY <1>8, <4>1
    <3> QED BY <3>1, <3>2
  <2>4. args' = args /\ \A p : TakesValue(p)' <=> TakesValue(p)
    BY TokensStay
  <2> QED BY <1>5, <2>2, <2>3, <2>4 DEF SplitSoFar
<1>10. ErrorsOf(W)'
  <2>1. \A p : (Good(p)' <=> Good(p)) /\ Fault(p)' = Fault(p)
    BY TokensStay
  <2>2. errors = {Fault(p) : p \in {p \in V : ~Good(p)}}
    BY <1>6 DEF ErrorsOf
  <2>3. errors' = {Fault(p) : p \in {p \in W : ~Good(p)}}
    <3>1. CASE Good(k)
      <4>1. {p \in W : ~Good(p)} = {p \in V : ~Good(p)}
        BY <1>7, <3>1
      <4> QED BY <1>3, <2>2, <3>1, <4>1
    <3>2. CASE ~Good(k)
      <4>1. {p \in W : ~Good(p)} = {p \in V : ~Good(p)} \cup {k}
        BY <1>7, <3>2
      <4>2. errors' = errors \cup {Fault(k)}
        BY <1>3, <3>2
      <4> QED BY <2>2, <4>1, <4>2
    <3> QED BY <3>1, <3>2
  <2> QED BY <2>1, <2>3 DEF ErrorsOf
<1>11. ActionsOf(W)'
  <2>1. \A p : (Good(p)' <=> Good(p)) /\ Meaning(p)' = Meaning(p)
    BY TokensStay
  <2>2. PICK U : U = {p \in V : Good(p)}
    OBVIOUS
  <2>3. U \in SUBSET Nat /\ IsFiniteSet(U) /\ \A y \in U : y < k
    <3>1. IsFiniteSet(2 .. k - 1)
      BY <1>5, FS_Interval
    <3>2. IsFiniteSet(U)
      BY <1>6, <2>2, <3>1, FS_Subset
    <3> QED BY <1>8, <2>2, <3>2
  <2>4. LET order == Ascending(U) IN actions = [a \in DOMAIN order |-> Meaning(order[a])]
    BY <1>6, <2>2 DEF ActionsOf
  <2>5. LET order == Ascending({p \in W : Good(p)})
        IN  actions' = [a \in DOMAIN order |-> Meaning(order[a])]
    <3>1. CASE Good(k)
      <4>1. {p \in W : Good(p)} = U \cup {k}
        BY <1>7, <2>2, <3>1
      <4>2. actions' = Append(actions, Meaning(k)) /\ Meaning(k) \in Asking
        BY <1>3, <3>1
      <4>3. PICK o : o = Ascending(U)
        OBVIOUS
      <4>4. PICK w2 : w2 = Ascending(U \cup {k})
        OBVIOUS
      <4>5. actions = [a \in DOMAIN o |-> Meaning(o[a])]
        BY <2>4, <4>3
      <4>6. Append(actions, Meaning(k)) = [a \in DOMAIN w2 |-> Meaning(w2[a])]
        <5>1. PICK s \in Seq(Asking) : s = actions
          BY <1>1
        <5>2. PICK x \in Asking : x = Meaning(k)
          BY <4>2
        <5>3. DOMAIN s = DOMAIN o /\ \A a \in DOMAIN o : s[a] = Meaning(o[a])
          BY <4>5, <5>1
        <5>4. w2 = Append(o, k)
          BY <1>5, <2>3, <4>3, <4>4, OrderGrows
        <5>5. o \in Seq(Nat)
          <6>1. o \in Seq(U) /\ Len(o) \in Nat
            BY <2>3, <4>3, OrderFacts
          <6>2. o \in [1 .. Len(o) -> U]
            BY <6>1, LenProperties
          <6>3. o \in [1 .. Len(o) -> Nat]
            BY <2>3, <6>2
          <6> QED BY <6>1, <6>3, SeqDef
        <5>6. /\ DOMAIN Append(s, x) = DOMAIN w2
              /\ \A a \in DOMAIN w2 : Append(s, x)[a] = Meaning(w2[a])
          BY <1>5, <5>2, <5>3, <5>4, <5>5, ActionAdded
        <5>7. Append(s, x) \in Seq(Asking)
          BY AppendProperties
        <5>8. Append(s, x) = [a \in DOMAIN w2 |-> Meaning(w2[a])]
          <6>1. \A f \in Seq(Asking) : f = [a \in DOMAIN f |-> f[a]]
            OBVIOUS
          <6>2. Append(s, x) = [a \in DOMAIN Append(s, x) |-> Append(s, x)[a]]
            BY <5>7, <6>1
          <6> QED BY <5>6, <6>2
        <5> QED BY <5>1, <5>2, <5>8
      <4> QED BY <4>1, <4>2, <4>4, <4>6
    <3>2. CASE ~Good(k)
      <4>1. {p \in W : Good(p)} = U
        BY <1>7, <2>2, <3>2
      <4> QED BY <1>3, <2>4, <3>2, <4>1
    <3> QED BY <3>1, <3>2
  <2> QED BY <2>1, <2>5 DEF ActionsOf
<1>12. Loop'
  BY <1>5, <1>8, <1>9, <1>10, <1>11 DEF Loop
<1>13. actions' \in Seq(Asking)
  BY <1>1, AppendProperties
<1> QED BY <1>1, <1>5, <1>12, <1>13 DEF ParseInv

\* The pass of the loop that finds a token no flag is called.
LEMMA UnknownKeeps ==
    ASSUME LineInv, ParseInv, UnknownOption
    PROVE  ParseInv'
<1>1. /\ Parsing /\ args[i] \notin DOMAIN flag_table
      /\ i' = i + 1 /\ errors' = errors \cup {i} /\ UNCHANGED <<pc, args, actions>>
  BY DEF UnknownOption, AfterUnknown, Known
<1>2. ~TakesValue(i) /\ ~Good(i) /\ Fault(i) = i
  BY <1>1 DEF TakesValue, Good, Fault
<1>3. i \in Nat /\ i <= Len(args) /\ Len(args) \in Nat
  BY <1>1, LineFacts DEF LineInv, ParseInv, Parsing
<1>4. i + 1 <= Len(args) + 1
  BY <1>3
<1> QED BY <1>1, <1>2, <1>4, FlagPassed

\* The pass that finds the value of the last flag missing.
LEMMA MissingKeeps ==
    ASSUME LineInv, ParseInv, MissingValue
    PROVE  ParseInv'
<1>1. /\ Parsing /\ args[i] \in DOMAIN flag_table /\ flag_table[args[i]].requires_value
      /\ i = Len(args)
      /\ i' = i + 1 /\ errors' = errors \cup {i + 1} /\ UNCHANGED <<pc, args, actions>>
  BY DEF MissingValue, Known, FlagHere
<1>2. i \in Nat
  BY <1>1, LineFacts DEF ParseInv, Parsing
<1>3. TakesValue(i) /\ ~Good(i) /\ Fault(i) = i + 1
  BY <1>1, <1>2 DEF TakesValue, Good, Fault
<1>4. i + 1 <= Len(args) + 1
  BY <1>1, <1>2
<1> QED BY <1>1, <1>3, <1>4, FlagPassed

\* The pass that finds a flag and, where it takes one, a value.
LEMMA HandleKeeps ==
    ASSUME LineInv, ParseInv, HandleFlag
    PROVE  ParseInv'
<1> DEFINE made == IF FlagHere.requires_value THEN Valued(FlagHere.kind, args[i + 1])
                                              ELSE Plain(FlagHere.kind)
<1>1. /\ Parsing /\ args[i] \in DOMAIN flag_table /\ ~(FlagHere.requires_value /\ i = Len(args))
      /\ actions' = actions \o SetToSeq(made)
      /\ errors' = IF made = {} THEN errors \cup {i + 1} ELSE errors
      /\ i' = i + Width(FlagHere) /\ UNCHANGED <<pc, args>>
  BY DEF HandleFlag, Known
<1>2. i \in Nat /\ 2 <= i /\ i <= Len(args) /\ actions \in Seq(Asking)
  BY <1>1 DEF ParseInv, Parsing
<1>3. Len(args) \in Nat /\ \A p \in 1 .. Len(args) : args[p] \in Tokens
  BY LineFacts DEF LineInv
<1>4. TakesValue(i) <=> FlagHere.requires_value
  BY <1>1 DEF TakesValue, FlagHere
<1>5. Fault(i) = i + 1
  BY <1>1 DEF Fault
<1>6. Good(i) => made = {Meaning(i)} /\ Meaning(i) \in Asking
  <2>1. CASE TakesValue(i)
    <3>1. PICK n : n = Amount(FlagHere.kind, args[i + 1])
      OBVIOUS
    <3>2. made = {[kind |-> FlagHere.kind, amount |-> y] : y \in {n} \ {0}}
      BY <1>4, <2>1, <3>1 DEF Valued
    <3>3. Meaning(i) = [kind |-> FlagHere.kind, amount |-> n]
      BY <2>1, <3>1 DEF Meaning, FlagHere
    <3>4. Good(i) => n # 0
      BY <2>1, <3>1 DEF Good, FlagHere
    <3>5. i + 1 \in 1 .. Len(args)
      BY <1>1, <1>2, <1>3, <1>4, <2>1
    <3>6. made \subseteq Asking
      BY <1>1, <1>3, <1>4, <2>1, <3>5 DEF Asking, FlagHere
    <3> QED BY <3>2, <3>3, <3>4, <3>6
  <2>2. CASE ~TakesValue(i)
    <3>1. made = {[kind |-> FlagHere.kind, amount |-> 0]}
      BY <1>4, <2>2 DEF Plain
    <3>2. Meaning(i) = [kind |-> FlagHere.kind, amount |-> 0]
      BY <2>2 DEF Meaning, FlagHere
    <3>3. made \subseteq Asking
      BY <1>1, <1>4, <2>2 DEF Asking, FlagHere
    <3> QED BY <3>1, <3>2, <3>3
  <2> QED BY <2>1, <2>2
<1>7. ~Good(i) => made = {}
  <2> SUFFICES ASSUME ~Good(i) PROVE made = {}
    OBVIOUS
  <2>1. TakesValue(i) /\ Amount(FlagHere.kind, args[i + 1]) = 0
    BY <1>1, <1>2, <1>3, <1>4 DEF Good, FlagHere
  <2> QED BY <1>4, <2>1 DEF Valued
<1> HIDE DEF made
<1>8. actions' = IF Good(i) THEN Append(actions, Meaning(i)) ELSE actions
  <2>1. CASE Good(i)
    <3>1. PICK x \in Asking : x = Meaning(i)
      BY <1>6, <2>1
    <3>2. actions' = actions \o <<x>>
      BY <1>1, <1>6, <2>1, <3>1, OneMade
    <3>3. actions \o <<x>> = Append(actions, x)
      BY <1>2, <3>1
    <3> QED BY <2>1, <3>1, <3>2, <3>3
  <2>2. CASE ~Good(i)
    BY <1>1, <1>2, <1>7, <2>2, NoneMade, ConcatEmptySeq
  <2> QED BY <2>1, <2>2
<1>9. errors' = IF Good(i) THEN errors ELSE errors \cup {Fault(i)}
  BY <1>1, <1>5, <1>6, <1>7
<1>10. PICK w \in {1, 2} : w = Width(FlagHere)
  BY DEF Width
<1>11. /\ w = 2 => TakesValue(i)
       /\ w = 1 => ~TakesValue(i)
       /\ i' = i + w /\ i + w <= Len(args) + 1
  BY <1>1, <1>2, <1>3, <1>4, <1>10 DEF Width
<1> QED BY <1>1, <1>6, <1>8, <1>9, <1>11, FlagPassed

\* What is left when the loop ends: it has come to the end of the line.
LEMMA LoopEnds ==
    ASSUME LineInv, ParseInv
    PROVE  ParseRight
<1> SUFFICES ASSUME pc = "parsed"
             PROVE  \E starts \in SUBSET (2 .. Len(args)) :
                        FlagsAt(starts) /\ ErrorsOf(starts) /\ ActionsOf(starts)
  BY DEF ParseRight, ErrorsOf, ActionsOf
<1>1. i = Len(args) + 1 /\ Loop /\ Len(args) \in Nat
  BY LineFacts DEF ParseInv, LineInv
<1>2. PICK V \in SUBSET (2 .. i - 1) : SplitSoFar(V) /\ ErrorsOf(V) /\ ActionsOf(V)
  BY <1>1 DEF Loop
<1>3. i - 1 = Len(args)
  BY <1>1
<1>4. FlagsAt(V)
  BY <1>2, <1>3 DEF FlagsAt, SplitSoFar
<1> QED BY <1>2, <1>3, <1>4

LEMMA LoopKept ==
    ASSUME UNCHANGED parser_vars
    PROVE  Loop => Loop'
<1>1. args' = args /\ i' = i /\ actions' = actions /\ errors' = errors
  BY DEF parser_vars
<1>2. ASSUME NEW p
      PROVE  /\ TakesValue(p)' <=> TakesValue(p)
             /\ Good(p)' <=> Good(p)
             /\ Meaning(p)' = Meaning(p) /\ Fault(p)' = Fault(p)
  BY <1>1, TokensStay
<1>3. ASSUME NEW S PROVE SplitSoFar(S)' <=> SplitSoFar(S)
  BY <1>1, <1>2 DEF SplitSoFar
<1>4. ASSUME NEW S PROVE ErrorsOf(S)' <=> ErrorsOf(S)
  BY <1>1, <1>2 DEF ErrorsOf
<1>5. ASSUME NEW S PROVE ActionsOf(S)' <=> ActionsOf(S)
  BY <1>1, <1>2 DEF ActionsOf
<1> QED BY <1>1, <1>3, <1>4, <1>5 DEF Loop

LEMMA ParseInit == Init => LineInv /\ ParseInv
<1> SUFFICES ASSUME Init PROVE LineInv /\ ParseInv
  OBVIOUS
<1>1. args \in CommandLines /\ i = 2 /\ actions = <<>> /\ errors = {}
      /\ pc = IF args = <<>> THEN "help" ELSE "parse"
  BY DEF Init, ParserInit
<1>2. LineInv
  BY <1>1 DEF LineInv
<1>3. ASSUME pc \in {"parse", "parsed"} PROVE Len(args) \in Nat /\ Len(args) >= 1
  BY <1>1, <1>3, LineFacts
<1>4. 2 .. i - 1 = {} /\ 1 .. 0 = {}
  BY <1>1
<1>5. actions \in Seq(Asking)
  BY <1>1
<1>6. SplitSoFar({}) /\ ErrorsOf({})
  BY <1>1, <1>4 DEF SplitSoFar, ErrorsOf
<1>7. ActionsOf({})
  <2>1. PICK order : order = Ascending({p \in {} : Good(p)})
    OBVIOUS
  <2>2. {p \in {} : Good(p)} = {}
    OBVIOUS
  <2>3. DOMAIN order = 1 .. 0
    <3>1. {} \in SUBSET Nat /\ IsFiniteSet({}) /\ Cardinality({}) = 0
      BY FS_EmptySet
    <3> QED BY <2>1, <2>2, <3>1, OrderFacts
  <2>4. actions = [a \in {} |-> Meaning(order[a])]
    BY <1>1
  <2> QED BY <1>4, <2>1, <2>3, <2>4 DEF ActionsOf
<1>8. Loop
  BY <1>4, <1>6, <1>7 DEF Loop
<1>9. ParseInv
  BY <1>1, <1>3, <1>5, <1>8 DEF ParseInv
<1> QED BY <1>2, <1>9

LEMMA ParseNext == LineInv /\ ParseInv /\ [Next]_vars => (LineInv /\ ParseInv)'
<1> SUFFICES ASSUME LineInv, ParseInv, [Next]_vars PROVE (LineInv /\ ParseInv)'
  OBVIOUS
<1>1. LineInv'
  <2>1. args' = args
    BY DEF Next, MainStep, ParseStep, UnknownOption, MissingValue, HandleFlag, ParseReturn, Warn,
           NoActions, BuildTree, PrintHelp, RunStep, LaunchShared, GetShared, LaunchReport,
           PrintReport, ThreadStep, ComputeShared, Report, Ended, vars, parser_vars
  <2>2. args = <<>> => pc' \in {"help", "end"}
    BY DEF LineInv, Next, MainStep, ParseStep, UnknownOption, MissingValue, HandleFlag, ParseReturn,
           Warn, NoActions, BuildTree, PrintHelp, RunStep, LaunchShared, GetShared, LaunchReport,
           PrintReport, ThreadStep, ComputeShared, Report, Ended, vars, Parsing
  <2> QED BY <2>1, <2>2 DEF LineInv
<1>2. CASE UnknownOption
  BY <1>1, <1>2, UnknownKeeps
<1>3. CASE MissingValue
  BY <1>1, <1>3, MissingKeeps
<1>4. CASE HandleFlag
  BY <1>1, <1>4, HandleKeeps
<1>5. ASSUME UNCHANGED parser_vars, pc' \in {"parse", "parsed"} => pc' = pc PROVE ParseInv'
  <2>1. Loop => Loop'
    BY <1>5, LoopKept
  <2> QED BY <1>5, <2>1 DEF ParseInv, parser_vars
<1>6. CASE ParseReturn
  <2>1. /\ pc = "parse" /\ i > Len(args) /\ pc' = "parsed" /\ UNCHANGED parser_vars
    BY <1>6 DEF ParseReturn
  <2>2. Len(args) \in Nat
    BY LineFacts DEF LineInv
  <2>3. Loop => Loop'
    BY <2>1, LoopKept
  <2>4. i \in Nat /\ 2 <= i /\ i = Len(args) + 1 /\ actions \in Seq(Asking) /\ Loop
    BY <2>1, <2>2 DEF ParseInv
  <2>5. i' = i /\ args' = args /\ actions' = actions
    BY <2>1 DEF parser_vars
  <2> QED BY <1>1, <2>1, <2>2, <2>3, <2>4, <2>5 DEF ParseInv
<1>7. CASE ~ParseStep
  <2>1. UNCHANGED parser_vars /\ (pc' \in {"parse", "parsed"} => pc' = pc)
    BY <1>7 DEF Next, MainStep, Warn, NoActions, BuildTree, PrintHelp, RunStep, LaunchShared,
           GetShared, LaunchReport, PrintReport, ThreadStep, ComputeShared, Report, Ended, vars
  <2> QED BY <1>1, <1>5, <2>1
<1> QED BY <1>2, <1>3, <1>4, <1>6, <1>7 DEF ParseStep

\* Of a command line of any length every token is looked at once, every mistake is
\* reported and every good flag gives its action, in order (parse).
THEOREM LinesParsed == Spec => []ParseRight
<1>1. LineInv /\ ParseInv => ParseRight
  BY LoopEnds
<1> QED BY <1>1, ParseInit, ParseNext, PTL DEF Spec

-----------------------------------------------------------------------------
(* The caches *)

\* The caches are filled before the first report is launched, from the one tree.
CacheInv ==
    /\ launched \in Nat
    /\ launched > 0 => pc \in {"launch", "print", "end", "undefined"}
    /\ pc \in {"run", "get"} => \E path \in DOMAIN Disk : tree \in Disk[path]
    /\ cache = [c \in Cache |-> cache[c]]
    /\ pc \in {"launch", "print"} => \A c \in Cache : cache[c] # None

LEMMA CacheFacts ==
    /\ Cache = {"metrics", "empty_dirs", "file_stats"}
    /\ CacheOrder = <<"metrics", "empty_dirs", "file_stats">>
    /\ DOMAIN CacheOrder = 1 .. 3 /\ Len(CacheOrder) = 3
<1>1. /\ CacheOrder = <<"metrics", "empty_dirs", "file_stats">>
      /\ DOMAIN CacheOrder = 1 .. 3 /\ Len(CacheOrder) = 3
  BY DEF CacheOrder
<1>2. CacheOrder[1] = "metrics" /\ CacheOrder[2] = "empty_dirs" /\ CacheOrder[3] = "file_stats"
  BY DEF CacheOrder
<1>3. 1 .. 3 = {1, 2, 3}
  OBVIOUS
<1>4. Cache = {CacheOrder[k] : k \in {1, 2, 3}}
  BY <1>1, <1>3 DEF Cache, ToSet
<1> QED BY <1>1, <1>2, <1>4

\* A cache is filled with a result of the tree, which is not the empty cache.
LEMMA NeverNone ==
    ASSUME NEW c \in Cache, \E path \in DOMAIN Disk : tree \in Disk[path]
    PROVE  Computed(c) # None
<1>1. None \notin {compute_directory_metrics(tree), compute_empty_directories(tree),
                   compute_file_stats(tree)}
  BY ResultsAssumption
<1>2. c \in {"metrics", "empty_dirs", "file_stats"}
  BY CacheFacts
<1> QED BY <1>1, <1>2 DEF Computed

LEMMA CacheInit == Init => CacheInv
BY DEF Init, ExecutorInit, CacheInv

\* A report finds the caches it needs filled and leaves them alone.
LEMMA ReportReads ==
    ASSUME CacheInv, NEW a, Report(a)
    PROVE  UNCHANGED <<cache, launched, tree>> /\ pc \in {"launch", "print"}
           /\ pc' \in {pc, "undefined"}
<1>1. /\ pc \in {"launch", "print"}
      /\ cache' = [c \in Cache |-> IF c \in Needed(actions[a].kind) THEN Filled(c) ELSE cache[c]]
      /\ UNCHANGED <<launched, tree>> /\ pc' \in {pc, "undefined"}
  BY DEF Report
<1>2. \A c \in Cache : Filled(c) = cache[c]
  BY <1>1 DEF CacheInv, Filled
<1>3. cache' = [c \in Cache |-> cache[c]]
  BY <1>1, <1>2
<1> QED BY <1>1, <1>3 DEF CacheInv

LEMMA CacheNext == LineInv /\ CacheInv /\ [Next]_vars => CacheInv'
<1> SUFFICES ASSUME LineInv, CacheInv, [Next]_vars PROVE CacheInv'
  OBVIOUS
<1>1. CASE ParseStep /\ UNCHANGED executor_vars
  <2>1. UNCHANGED <<launched, tree, cache>>
    BY <1>1 DEF executor_vars, run_vars
  <2>2. pc = "parse" /\ pc' \in {"parse", "parsed"}
    BY <1>1 DEF ParseStep, UnknownOption, MissingValue, HandleFlag, ParseReturn, Parsing
  <2> QED BY <2>1, <2>2 DEF CacheInv
<1>2. CASE Warn \/ NoActions \/ PrintHelp
  <2>1. UNCHANGED <<launched, tree, cache>> /\ pc \in {"parsed", "help"}
        /\ pc' \in {"undefined", "help", "end"}
    BY <1>2 DEF Warn, NoActions, PrintHelp, executor_vars, run_vars
  <2> QED BY <2>1 DEF CacheInv
<1>3. CASE BuildTree
  <2>1. UNCHANGED <<launched, cache>> /\ pc = "parsed" /\ pc' = "run" /\ tree' \in Disk[args[1]]
    BY <1>3 DEF BuildTree, run_vars
  <2>2. args[1] \in DOMAIN Disk
    BY <2>1, LineFacts DEF LineInv
  <2> QED BY <2>1, <2>2 DEF CacheInv
<1>4. CASE LaunchShared
  <2>1. UNCHANGED <<launched, cache, tree>> /\ pc = "run" /\ pc' = "get"
    BY <1>4 DEF LaunchShared
  <2> QED BY <2>1 DEF CacheInv
<1>5. CASE GetShared
  <2>1. PICK k \in 1 .. 3 :
            /\ \A j \in 1 .. k - 1 : cache[CacheOrder[j]] # None
            /\ cache' = [cache EXCEPT ![CacheOrder[k]] = Computed(CacheOrder[k])]
            /\ pc' = IF k = 3 THEN "launch" ELSE "get"
    BY <1>5, CacheFacts DEF GetShared, Awaited
  <2>2. pc = "get" /\ UNCHANGED <<tree, launched>>
    BY <1>5 DEF GetShared
  <2>3. PICK x : x = CacheOrder[k]
    OBVIOUS
  <2>4. x \in Cache
    BY <2>1, <2>3, CacheFacts DEF CacheOrder
  <2>5. PICK result : result = Computed(x)
    OBVIOUS
  <2>6. result # None
    BY <2>2, <2>4, <2>5, NeverNone DEF CacheInv
  <2>7. cache' = [c \in Cache |-> IF c = x THEN result ELSE cache[c]]
    BY <2>1, <2>3, <2>4, <2>5 DEF CacheInv
  <2>8. cache' = [c \in Cache |-> cache'[c]]
    BY <2>7
  <2>9. ASSUME k = 3, NEW c \in Cache PROVE cache'[c] # None
    <3>1. x = "file_stats" /\ cache["metrics"] # None /\ cache["empty_dirs"] # None
      BY <2>1, <2>3, <2>9 DEF CacheOrder
    <3> QED BY <2>6, <2>7, <3>1, CacheFacts
  <2>10. pc' \in {"launch", "print"} => k = 3
    BY <2>1
  <2>11. pc' \in {"launch", "get"}
    BY <2>1
  <2> QED BY <2>2, <2>8, <2>9, <2>10, <2>11 DEF CacheInv
<1>6. CASE LaunchReport
  <2>1. pc = "launch" /\ pc' \in {"launch", "print"} /\ UNCHANGED <<tree, cache>>
        /\ launched' \in {launched, launched + 1}
    BY <1>6 DEF LaunchReport
  <2> QED BY <2>1 DEF CacheInv
<1>7. CASE PrintReport
  <2>1. pc = "print" /\ pc' \in {"print", "end"} /\ UNCHANGED <<tree, cache, launched>>
    BY <1>7 DEF PrintReport
  <2> QED BY <2>1 DEF CacheInv
<1>8. CASE ThreadStep
  <2>1. UNCHANGED <<tree, cache, launched>> /\ pc' \in {pc, "undefined"}
        /\ (pc' # pc => pc \in {"launch", "print"})
    <3>1. CASE \E c \in Cache : ComputeShared(c)
      BY <3>1 DEF ComputeShared
    <3>2. CASE \E a \in DOMAIN report : Report(a)
      BY <3>2, ReportReads
    <3> QED BY <1>8, <3>1, <3>2 DEF ThreadStep
  <2> QED BY <2>1 DEF CacheInv
<1>9. CASE UNCHANGED vars
  BY <1>9 DEF vars, executor_vars, run_vars, CacheInv
<1> QED BY <1>1, <1>2, <1>3, <1>4, <1>5, <1>6, <1>7, <1>8, <1>9
        DEF Next, MainStep, RunStep, Ended

\* Once a report has a thread, no step writes to a cache (the std::optional
\* members of Executor, which the get_ functions fill without a lock).
THEOREM ReportsOnlyRead == Spec => CachesSettled
<1>1. CacheInv /\ [Next]_vars => [launched > 0 => UNCHANGED cache]_vars
  <2> SUFFICES ASSUME CacheInv, Next, launched > 0 PROVE UNCHANGED cache
    BY DEF vars, executor_vars, run_vars
  <2>1. pc \in {"launch", "print", "end", "undefined"}
    BY DEF CacheInv
  <2>2. CASE \E a \in DOMAIN report : Report(a)
    BY <2>2, ReportReads
  <2>3. CASE ~\E a \in DOMAIN report : Report(a)
    BY <2>1, <2>3 DEF Next, MainStep, ParseStep, UnknownOption, MissingValue, HandleFlag, ParseReturn,
           Warn, NoActions, BuildTree, PrintHelp, RunStep, LaunchShared, GetShared, LaunchReport,
           PrintReport, ThreadStep, ComputeShared, Ended, Parsing, vars, executor_vars, run_vars
  <2> QED BY <2>2, <2>3
<1> QED BY <1>1, ParseInit, ParseNext, CacheInit, CacheNext, PTL DEF Spec, CachesSettled

-----------------------------------------------------------------------------
(* Recursion and sums *)

\* What holds of the smallest holds of all: a set of finite sets has one.
LEMMA Smallest ==
    ASSUME NEW Bad, Bad # {}, \A S \in Bad : IsFiniteSet(S)
    PROVE  \E S \in Bad : \A R \in Bad : Cardinality(S) <= Cardinality(R)
<1>1. PICK T : T = {Cardinality(S) : S \in Bad}
  OBVIOUS
<1>2. T \in SUBSET Nat /\ T # {}
  BY <1>1, FS_CardinalityType
<1>3. PICK n \in T : \A m \in T : n <= m
  BY <1>2, LeastNumber
<1> QED BY <1>1, <1>3

\* A recursion from one place to another of lower rank, and what it computes.
Descends(X, top, rank, pred) ==
    /\ top \in Nat /\ rank \in [X -> 0 .. top] /\ pred \in [X -> X]
    /\ \A x \in X : rank[x] > 0 => rank[pred[x]] < rank[x]
Solves(f, X, rank, pred, base, G) ==
    \A x \in X : f[x] = IF rank[x] = 0 THEN base[x] ELSE G[x][f[pred[x]]]

\* It computes something.
LEMMA OneStepBack ==
    ASSUME NEW X, NEW top, NEW rank, NEW pred, Descends(X, top, rank, pred),
           NEW V, NEW base \in [X -> V], NEW G \in [X -> [V -> V]]
    PROVE  \E f \in [X -> V] : Solves(f, X, rank, pred, base, G)
<1> DEFINE Right(f, x) == f[x] = IF rank[x] = 0 THEN base[x] ELSE G[x][f[pred[x]]]
           Upto(k) == \E f \in [X -> V] : \A x \in X : rank[x] < k => Right(f, x)
           Bad == {k \in Nat : ~Upto(k)}
<1> /\ top \in Nat /\ rank \in [X -> 0 .. top] /\ pred \in [X -> X]
    /\ \A x \in X : rank[x] > 0 => rank[pred[x]] < rank[x]
  BY DEF Descends
<1>1. Bad = {}
  <2> SUFFICES ASSUME Bad # {} PROVE FALSE
    OBVIOUS
  <2>1. PICK k \in Bad : \A m \in Bad : k <= m
    BY LeastNumber
  <2>2. CASE k = 0
    <3>1. \A x \in X : ~(rank[x] < 0)
      OBVIOUS
    <3> QED BY <2>2, <3>1
  <2>3. CASE k > 0
    <3>1. k - 1 \in Nat /\ ~(k <= k - 1)
      BY <2>3
    <3>2. Upto(k - 1)
      BY <2>1, <3>1
    <3>3. PICK f \in [X -> V] : \A x \in X : rank[x] < k - 1 => Right(f, x)
      BY <3>2
    <3>4. PICK g : g = [x \in X |-> IF rank[x] = 0 THEN base[x] ELSE G[x][f[pred[x]]]]
      OBVIOUS
    <3>5. g \in [X -> V]
      <4>1. ASSUME NEW x \in X PROVE base[x] \in V /\ G[x][f[pred[x]]] \in V
        OBVIOUS
      <4> QED BY <3>4, <4>1
    <3>6. ASSUME NEW x \in X, rank[x] < k PROVE Right(g, x)
      <4>1. CASE rank[x] = 0
        BY <3>4, <4>1
      <4>2. CASE rank[x] # 0
        <5>1. PICK y \in X : y = pred[x]
          OBVIOUS
        <5>2. rank[x] \in 0 .. top /\ rank[y] \in 0 .. top
          OBVIOUS
        <5>3. rank[y] < rank[x]
          BY <4>2, <5>1, <5>2
        <5>4. rank[y] < k - 1
          BY <3>6, <5>2, <5>3
        <5>5. Right(f, y)
          BY <3>3, <5>4
        <5>6. g[y] = f[y]
          BY <3>4, <5>5
        <5>7. g[x] = G[x][f[y]]
          BY <3>4, <4>2, <5>1
        <5> QED BY <4>2, <5>1, <5>6, <5>7
      <4> QED BY <4>1, <4>2
    <3>7. Upto(k)
      BY <3>5, <3>6
    <3> QED BY <3>7
  <2> QED BY <2>2, <2>3
<1>2. Upto(top + 1)
  <2>1. top + 1 \in Nat
    OBVIOUS
  <2> HIDE DEF Upto
  <2> QED BY <1>1, <2>1
<1>3. \A x \in X : rank[x] < top + 1
  OBVIOUS
<1> QED BY <1>2, <1>3 DEF Solves

\* The same for the parts of a finite set, of which c draws one element at a time.
Drawing(D, c) == IsFiniteSet(D) /\ \A s \in SUBSET D : s # {} => c[s] \in s
Folds(f, D, c, z, H) ==
    \A s \in SUBSET D : f[s] = IF s = {} THEN z ELSE H[s][f[s \ {c[s]}]]

\* It goes down by size.
Shrinks(D, c, top, rank, pred) ==
    /\ Descends(SUBSET D, top, rank, pred)
    /\ \A s \in SUBSET D : (rank[s] = 0 <=> s = {}) /\ (s # {} => pred[s] = s \ {c[s]})

\* Drawing one element after another goes down to the empty set.
LEMMA DrawingFacts ==
    ASSUME NEW D, NEW c, Drawing(D, c)
    PROVE  \E top, rank, pred : Shrinks(D, c, top, rank, pred)
<1>1. PICK rank, pred, top : /\ rank = [s \in SUBSET D |-> Cardinality(s)]
                             /\ pred = [s \in SUBSET D |-> IF s = {} THEN {} ELSE s \ {c[s]}]
                             /\ top = Cardinality(D)
  OBVIOUS
<1>2. IsFiniteSet(D) /\ top \in Nat
  BY <1>1, FS_CardinalityType DEF Drawing
<1>3. ASSUME NEW s \in SUBSET D
      PROVE  /\ rank[s] \in 0 .. top
             /\ pred[s] \in SUBSET D
             /\ rank[s] = 0 <=> s = {}
             /\ s # {} => pred[s] = s \ {c[s]}
             /\ rank[s] > 0 => rank[pred[s]] < rank[s]
  <2>1. IsFiniteSet(s) /\ Cardinality(s) \in Nat /\ Cardinality(s) <= top
    BY <1>1, <1>2, FS_Subset, FS_CardinalityType
  <2>2. Cardinality(s) = 0 <=> s = {}
    BY <2>1, FS_EmptySet
  <2>3. ASSUME s # {} PROVE c[s] \in s /\ Cardinality(s \ {c[s]}) = Cardinality(s) - 1
    <3>1. c[s] \in s
      BY <2>3 DEF Drawing
    <3> QED BY <2>1, <3>1, FS_RemoveElement
  <2>4. pred[s] \in SUBSET D /\ (s # {} => pred[s] = s \ {c[s]})
    BY <1>1
  <2>5. rank[s] = Cardinality(s) /\ rank[pred[s]] = Cardinality(pred[s])
    BY <1>1, <2>4
  <2>6. rank[s] \in 0 .. top
    BY <1>2, <2>1, <2>5
  <2>7. ASSUME rank[s] > 0 PROVE rank[pred[s]] < rank[s]
    <3>1. s # {}
      BY <2>2, <2>5, <2>7
    <3>2. rank[pred[s]] = Cardinality(s \ {c[s]}) /\ Cardinality(s \ {c[s]}) = Cardinality(s) - 1
      BY <2>3, <2>4, <2>5, <3>1
    <3> QED BY <2>1, <2>5, <3>2
  <2> QED BY <2>2, <2>4, <2>5, <2>6, <2>7
<1>4. rank \in [SUBSET D -> 0 .. top] /\ pred \in [SUBSET D -> SUBSET D]
  BY <1>1, <1>3
<1>5. Shrinks(D, c, top, rank, pred)
  BY <1>2, <1>3, <1>4 DEF Shrinks, Descends
<1> QED BY <1>5

\* A fold of a finite set, however it draws the elements, has a value for every subset.
LEMMA FoldExists ==
    ASSUME NEW D, NEW c, Drawing(D, c), NEW V, NEW z \in V, NEW H \in [SUBSET D -> [V -> V]]
    PROVE  \E f \in [SUBSET D -> V] : Folds(f, D, c, z, H)
<1>1. PICK top, rank, pred : Shrinks(D, c, top, rank, pred)
  BY DrawingFacts
<1>2. PICK X, base : X = SUBSET D /\ base = [s \in X |-> z]
  OBVIOUS
<1>3. Descends(X, top, rank, pred) /\ base \in [X -> V] /\ H \in [X -> [V -> V]]
  BY <1>1, <1>2 DEF Shrinks
<1>4. PICK f \in [X -> V] : Solves(f, X, rank, pred, base, H)
  BY <1>3, OneStepBack
<1>5. ASSUME NEW s \in SUBSET D PROVE f[s] = IF s = {} THEN z ELSE H[s][f[s \ {c[s]}]]
  <2>1. (rank[s] = 0 <=> s = {}) /\ (s # {} => pred[s] = s \ {c[s]})
    BY <1>1 DEF Shrinks
  <2>2. base[s] = z
    BY <1>2
  <2>3. f[s] = IF rank[s] = 0 THEN base[s] ELSE H[s][f[pred[s]]]
    BY <1>2, <1>4 DEF Solves
  <2> QED BY <2>1, <2>2, <2>3
<1>6. Folds(f, D, c, z, H)
  BY <1>5 DEF Folds
<1> QED BY <1>2, <1>6

\* And nothing else.
LEMMA FoldOnce ==
    ASSUME NEW D, NEW c, Drawing(D, c), NEW f, NEW g, f[{}] = g[{}],
           \A s \in SUBSET D : s # {} /\ f[s \ {c[s]}] = g[s \ {c[s]}] => f[s] = g[s]
    PROVE  \A s \in SUBSET D : f[s] = g[s]
<1>1. PICK Bad : Bad = {s \in SUBSET D : f[s] # g[s]}
  OBVIOUS
<1>2. SUFFICES ASSUME Bad # {} PROVE FALSE
  BY <1>1
<1>3. \A s \in SUBSET D : IsFiniteSet(s)
  BY FS_Subset DEF Drawing
<1>4. \A s \in Bad : IsFiniteSet(s)
  BY <1>1, <1>3
<1>5. PICK s \in Bad : \A r \in Bad : Cardinality(s) <= Cardinality(r)
  BY <1>2, <1>4, Smallest
<1>6. s \in SUBSET D /\ s # {} /\ c[s] \in s
  BY <1>1 DEF Drawing
<1>7. PICK r : r = s \ {c[s]}
  OBVIOUS
<1>8. Cardinality(r) = Cardinality(s) - 1 /\ Cardinality(s) \in Nat
  BY <1>3, <1>6, <1>7, FS_RemoveElement, FS_CardinalityType
<1>9. r \notin Bad
  BY <1>5, <1>8
<1>10. f[r] = g[r]
  BY <1>1, <1>6, <1>7, <1>9
<1> QED BY <1>1, <1>6, <1>7, <1>10

\* What w gives for the elements of S, added up as MapThenSumSet does it.
Total(w, S) == Sum(S, LAMBDA x : w[x])
Adds(f, w, S) ==
    f = [s \in SUBSET S |-> IF s = {} THEN 0
                            ELSE w[CHOOSE x \in s : TRUE] + f[s \ {CHOOSE x \in s : TRUE}]]
Drawn(S)    == [s \in SUBSET S |-> CHOOSE x \in s : TRUE]
Added(w, S) == [s \in SUBSET S |-> [v \in Nat |-> IF s = {} THEN v ELSE w[CHOOSE x \in s : TRUE] + v]]

\* The sum draws an element with CHOOSE.
LEMMA DrawnDraws ==
    ASSUME NEW S, IsFiniteSet(S)
    PROVE  Drawing(S, Drawn(S))
<1>1. \A s \in SUBSET S : s # {} => (CHOOSE x \in s : TRUE) \in s
  OBVIOUS
<1> QED BY <1>1 DEF Drawing, Drawn

\* There is such a sum, ...
LEMMA AddsExists ==
    ASSUME NEW w, NEW S, IsFiniteSet(S), \A x \in S : w[x] \in Nat
    PROVE  \E f \in [SUBSET S -> Nat] : Adds(f, w, S)
<1>1. PICK c, H : c = Drawn(S) /\ H = Added(w, S)
  OBVIOUS
<1>2. Drawing(S, c)
  BY <1>1, DrawnDraws
<1>3. H \in [SUBSET S -> [Nat -> Nat]]
  <2>1. ASSUME NEW s \in SUBSET S, NEW v \in Nat
        PROVE  (IF s = {} THEN v ELSE w[CHOOSE x \in s : TRUE] + v) \in Nat
    <3>1. s # {} => (CHOOSE x \in s : TRUE) \in s
      OBVIOUS
    <3>2. s # {} => w[CHOOSE x \in s : TRUE] \in Nat
      BY <3>1
    <3> QED BY <3>2
  <2> QED BY <1>1, <2>1 DEF Added
<1>4. PICK f \in [SUBSET S -> Nat] : Folds(f, S, c, 0, H)
  BY <1>2, <1>3, FoldExists
<1>5. ASSUME NEW s \in SUBSET S
      PROVE  f[s] = IF s = {} THEN 0 ELSE w[CHOOSE x \in s : TRUE] + f[s \ {CHOOSE x \in s : TRUE}]
  <2>1. f[s] = IF s = {} THEN 0 ELSE H[s][f[s \ {c[s]}]]
    BY <1>4 DEF Folds
  <2>2. c[s] = CHOOSE x \in s : TRUE
    BY <1>1 DEF Drawn
  <2>3. \A v \in Nat : s # {} => H[s][v] = w[CHOOSE x \in s : TRUE] + v
    BY <1>1 DEF Added
  <2>4. f[s \ {c[s]}] \in Nat
    BY <1>4
  <2> QED BY <2>1, <2>2, <2>3, <2>4
<1>6. f = [s \in SUBSET S |-> IF s = {} THEN 0
                              ELSE w[CHOOSE x \in s : TRUE] + f[s \ {CHOOSE x \in s : TRUE}]]
  BY <1>4, <1>5
<1> QED BY <1>4, <1>6 DEF Adds

\* ... and one only, on the parts of S too, ...
LEMMA AddsOnce ==
    ASSUME NEW w, NEW S, IsFiniteSet(S), NEW R \in SUBSET S, NEW f, NEW g,
           Adds(f, w, S), Adds(g, w, R)
    PROVE  \A s \in SUBSET R : f[s] = g[s]
<1>1. PICK c : c = Drawn(R)
  OBVIOUS
<1>2. Drawing(R, c)
  BY <1>1, DrawnDraws, FS_Subset
<1>3. f[{}] = g[{}]
  BY DEF Adds
<1>4. ASSUME NEW s \in SUBSET R, s # {}, f[s \ {c[s]}] = g[s \ {c[s]}]
      PROVE  f[s] = g[s]
  <2>1. c[s] = CHOOSE x \in s : TRUE
    BY <1>1 DEF Drawn
  <2>2. s \in SUBSET S
    OBVIOUS
  <2>3. f[s] = w[c[s]] + f[s \ {c[s]}]
    BY <1>4, <2>1, <2>2 DEF Adds
  <2>4. g[s] = w[c[s]] + g[s \ {c[s]}]
    BY <1>4, <2>1 DEF Adds
  <2> QED BY <1>4, <2>3, <2>4
<1> QED BY <1>2, <1>3, <1>4, FoldOnce

\* ... and it is what Total finds.
LEMMA TotalAdds ==
    ASSUME NEW w, NEW S, IsFiniteSet(S), \A x \in S : w[x] \in Nat
    PROVE  \E f \in [SUBSET S -> Nat] : Adds(f, w, S) /\ Total(w, S) = f[S]
<1>1. PICK f \in [SUBSET S -> Nat] : Adds(f, w, S)
  BY AddsExists
<1> DEFINE It == CHOOSE iter : Adds(iter, w, S)
<1>2. Total(w, S) = It[S]
  BY DEF Total, Sum, MapThenSumSet, MapThenFoldSet, Adds
<1>3. Adds(It, w, S)
  BY <1>1
<1>4. PICK g : g = It
  OBVIOUS
<1>5. \A s \in SUBSET S : f[s] = g[s]
  BY <1>1, <1>3, <1>4, AddsOnce
<1> QED BY <1>1, <1>2, <1>4, <1>5

\* The parts of a sum are sums, whichever element is taken first.
LEMMA TotalTakes ==
    ASSUME NEW w, NEW S, IsFiniteSet(S), \A x \in S : w[x] \in Nat
    PROVE  /\ Total(w, S) \in Nat
           /\ S = {} => Total(w, S) = 0
           /\ S # {} => \E x \in S : Total(w, S) = w[x] + Total(w, S \ {x})
<1>1. PICK f \in [SUBSET S -> Nat] : Adds(f, w, S) /\ Total(w, S) = f[S]
  BY TotalAdds
<1>2. S = {} => Total(w, S) = 0
  BY <1>1 DEF Adds
<1>3. ASSUME S # {} PROVE \E x \in S : Total(w, S) = w[x] + Total(w, S \ {x})
  <2>1. PICK x \in S : x = CHOOSE y \in S : TRUE
    BY <1>3
  <2>2. PICK R : R = S \ {x}
    OBVIOUS
  <2>3. R \in SUBSET S /\ IsFiniteSet(R) /\ \A y \in R : w[y] \in Nat
    BY <2>2, FS_Subset
  <2>4. PICK g \in [SUBSET R -> Nat] : Adds(g, w, R) /\ Total(w, R) = g[R]
    BY <2>3, TotalAdds
  <2>5. f[R] = g[R]
    BY <1>1, <2>3, <2>4, AddsOnce
  <2>6. f[S] = w[x] + f[R]
    BY <1>1, <1>3, <2>1, <2>2 DEF Adds
  <2> QED BY <1>1, <2>2, <2>4, <2>5, <2>6
<1> QED BY <1>1, <1>2, <1>3

TakesAny(w, S) == \A x \in S : Total(w, S) = w[x] + Total(w, S \ {x})

\* The sum does not depend on the order: any element may be taken out first.
LEMMA TotalTakesAny ==
    ASSUME NEW w, NEW S, IsFiniteSet(S), \A x \in S : w[x] \in Nat
    PROVE  TakesAny(w, S)
<1>1. PICK Bad : Bad = {s \in SUBSET S : ~TakesAny(w, s)}
  OBVIOUS
<1>2. SUFFICES ASSUME Bad # {} PROVE FALSE
  BY <1>1
<1>3. \A s \in SUBSET S : IsFiniteSet(s) /\ \A x \in s : w[x] \in Nat
  BY FS_Subset
<1>4. \A s \in Bad : IsFiniteSet(s)
  BY <1>1, <1>3
<1>5. PICK s \in Bad : \A r \in Bad : Cardinality(s) <= Cardinality(r)
  BY <1>2, <1>4, Smallest
<1>6. s \in SUBSET S /\ IsFiniteSet(s) /\ Cardinality(s) \in Nat
  BY <1>1, <1>3, FS_CardinalityType
<1>7. PICK y \in s : Total(w, s) # w[y] + Total(w, s \ {y})
  BY <1>1 DEF TakesAny
<1>8. PICK x \in s : Total(w, s) = w[x] + Total(w, s \ {x})
  BY <1>3, <1>6, <1>7, TotalTakes
<1>9. x # y
  BY <1>7, <1>8
<1>10. ASSUME NEW z \in s PROVE TakesAny(w, s \ {z})
  <2>1. Cardinality(s \ {z}) = Cardinality(s) - 1
    BY <1>6, FS_RemoveElement
  <2>2. s \ {z} \notin Bad
    BY <1>5, <1>6, <2>1
  <2> QED BY <1>1, <1>6, <2>2
<1>11. PICK rest, X, Y : rest = s \ {x, y} /\ X = s \ {x} /\ Y = s \ {y}
  OBVIOUS
<1>12. X \ {y} = rest /\ Y \ {x} = rest /\ y \in X /\ x \in Y
  BY <1>9, <1>11
<1>13. Total(w, X) = w[y] + Total(w, rest) /\ Total(w, Y) = w[x] + Total(w, rest)
  <2>1. TakesAny(w, X) /\ TakesAny(w, Y)
    BY <1>10, <1>11
  <2> QED BY <1>12, <2>1 DEF TakesAny
<1>14. w[x] \in Nat /\ w[y] \in Nat
  BY <1>3, <1>6
<1>15. Total(w, rest) \in Nat
  <2>1. rest \in SUBSET S
    BY <1>6, <1>11
  <2> QED BY <1>3, <2>1, TotalTakes
<1> QED BY <1>7, <1>8, <1>11, <1>13, <1>14, <1>15

\* Two sets with nothing in common.
LEMMA TotalJoins ==
    ASSUME NEW w, NEW S, NEW T, IsFiniteSet(S), IsFiniteSet(T), S \cap T = {},
           \A x \in S \cup T : w[x] \in Nat
    PROVE  Total(w, S \cup T) = Total(w, S) + Total(w, T)
<1>1. PICK Bad : Bad = {t \in SUBSET T : Total(w, S \cup t) # Total(w, S) + Total(w, t)}
  OBVIOUS
<1>2. SUFFICES ASSUME Bad # {} PROVE FALSE
  BY <1>1
<1>3. ASSUME NEW t \in SUBSET T
      PROVE  /\ IsFiniteSet(t) /\ IsFiniteSet(S \cup t)
             /\ \A x \in t : w[x] \in Nat
             /\ \A x \in S \cup t : w[x] \in Nat
             /\ Total(w, t) \in Nat
  <2>1. IsFiniteSet(t) /\ IsFiniteSet(S \cup t)
    BY FS_Subset, FS_Union
  <2> QED BY <2>1, TotalTakes
<1>4. \A t \in Bad : IsFiniteSet(t)
  BY <1>1, <1>3
<1>5. PICK t \in Bad : \A r \in Bad : Cardinality(t) <= Cardinality(r)
  BY <1>2, <1>4, Smallest
<1>6. t \in SUBSET T /\ Total(w, S \cup t) # Total(w, S) + Total(w, t)
  BY <1>1
<1>7. Total(w, S) \in Nat
  BY TotalTakes
<1>8. t # {}
  <2>1. Total(w, {}) = 0
    BY TotalTakes, FS_EmptySet
  <2> QED BY <1>6, <1>7, <2>1
<1>9. PICK x \in t : TRUE
  BY <1>8
<1>10. PICK r : r = t \ {x}
  OBVIOUS
<1>11. r \notin Bad /\ r \in SUBSET T
  <2>1. Cardinality(r) = Cardinality(t) - 1 /\ Cardinality(t) \in Nat
    BY <1>3, <1>6, <1>10, FS_RemoveElement, FS_CardinalityType
  <2> QED BY <1>5, <1>6, <1>10, <2>1
<1>12. Total(w, S \cup r) = Total(w, S) + Total(w, r)
  BY <1>1, <1>11
<1>13. Total(w, t) = w[x] + Total(w, r)
  <2>1. TakesAny(w, t)
    BY <1>3, <1>6, TotalTakesAny
  <2> QED BY <1>10, <2>1 DEF TakesAny
<1>14. Total(w, S \cup t) = w[x] + Total(w, S \cup r)
  <2>1. PICK U : U = S \cup t
    OBVIOUS
  <2>2. U \ {x} = S \cup r /\ x \in U
    BY <1>6, <1>9, <1>10, <2>1
  <2>3. TakesAny(w, U)
    BY <1>3, <1>6, <2>1, TotalTakesAny
  <2> QED BY <2>1, <2>2, <2>3 DEF TakesAny
<1>15. w[x] \in Nat /\ Total(w, r) \in Nat
  BY <1>3, <1>6, <1>11
<1> QED BY <1>6, <1>7, <1>12, <1>13, <1>14, <1>15

\* The sum of the sizes of files, as the sums of the model write it.
LEMMA SizeTotal ==
    ASSUME NEW w, NEW S, IsFiniteSet(S), \A x \in S : w[x] = tree.files[x].size /\ w[x] \in Nat
    PROVE  /\ Sum(S, LAMBDA f : tree.files[f].size) = Total(w, S)
           /\ Sum(S, Size) = Total(w, S)
<1> DEFINE Is(iter) == iter = [s \in SUBSET S |->
                                  IF s = {} THEN 0
                                  ELSE LET x == CHOOSE x \in s : TRUE
                                       IN  tree.files[x].size + iter[s \ {x}]]
           It == CHOOSE iter : Is(iter)
<1>1. PICK f \in [SUBSET S -> Nat] : Adds(f, w, S) /\ Total(w, S) = f[S]
  BY TotalAdds
<1>2. \A s \in SUBSET S : s # {} => w[CHOOSE x \in s : TRUE] = tree.files[CHOOSE x \in s : TRUE].size
  <2>1. \A s \in SUBSET S : s # {} => (CHOOSE x \in s : TRUE) \in S
    OBVIOUS
  <2> QED BY <2>1
<1>3. Is(f)
  BY <1>1, <1>2 DEF Adds
<1>4. Is(It)
  BY <1>3, ZenonT(60)
<1>5. PICK g : g = It
  OBVIOUS
<1>6. Adds(g, w, S)
  <2>1. Is(g)
    <3> HIDE DEF Is, It
    <3> QED BY <1>4, <1>5
  <2>2. ASSUME NEW s \in SUBSET S, s # {}
        PROVE  tree.files[CHOOSE x \in s : TRUE].size = w[CHOOSE x \in s : TRUE]
    BY <1>2, <2>2
  <2> QED BY <2>1, <2>2 DEF Adds
<1>7. f[S] = g[S]
  BY <1>1, <1>6, AddsOnce
<1>8. Sum(S, LAMBDA x : tree.files[x].size) = It[S]
  BY DEF Sum, MapThenSumSet, MapThenFoldSet
<1>9. Sum(S, Size) = It[S]
  BY DEF Sum, MapThenSumSet, MapThenFoldSet, Size
<1> QED BY <1>1, <1>5, <1>7, <1>8, <1>9

-----------------------------------------------------------------------------
(* The way up from a directory *)

\* What IsTree says of the tree of the program.
LEMMA TreeFacts ==
    ASSUME IsTree(tree)
    PROVE  /\ IsFiniteSet(Dir) /\ Cardinality(Dir) \in Nat /\ Dir = 0 .. Cardinality(Dir) - 1
           /\ \A d \in Dir : /\ d \in Nat
                             /\ d = 0 => Above(tree, d) = None
                             /\ d # 0 => /\ Above(tree, d) \in 0 .. d - 1
                                         /\ Above(tree, d) # None
                                         /\ Above(tree, d) \in Dir
           /\ IsFiniteSet(File) /\ Cardinality(File) \in Nat /\ File = 0 .. Cardinality(File) - 1
           /\ tree.root = None <=> Dir = {}
<1>1. /\ IsFiniteSet(Dir) /\ Dir = 0 .. Cardinality(Dir) - 1
      /\ IsFiniteSet(File) /\ File = 0 .. Cardinality(File) - 1
  BY DEF IsTree, Dir, File
<1>2. Cardinality(Dir) \in Nat /\ Cardinality(File) \in Nat
  BY <1>1, FS_CardinalityType
<1>3. ASSUME NEW d \in Dir
      PROVE  /\ d \in Nat
             /\ d = 0 => Above(tree, d) = None
             /\ d # 0 => Above(tree, d) \in 0 .. d - 1
  <2>1. d \in Nat
    BY <1>1, <1>2
  <2> QED BY <2>1 DEF IsTree, Dir, Above
<1>4. ASSUME NEW d \in Dir, d # 0
      PROVE  Above(tree, d) # None /\ Above(tree, d) \in Dir
  <2>1. PICK n : n = Cardinality(Dir)
    OBVIOUS
  <2>2. n \in Nat /\ d \in Nat /\ d \in 0 .. n - 1
    BY <1>1, <1>2, <1>3, <2>1
  <2>3. Above(tree, d) \in 0 .. d - 1
    BY <1>3, <1>4
  <2>4. Above(tree, d) \in Nat /\ Above(tree, d) \in 0 .. n - 1
    BY <2>2, <2>3
  <2> QED BY <1>1, <2>1, <2>4, DiskAssumption
<1>5. tree.root = None <=> Dir = {}
  BY DiskAssumption DEF IsTree, Dir
<1> QED BY <1>1, <1>2, <1>3, <1>4, <1>5

\* The recursion of PathUp has a solution, for it goes to smaller ids.
LEMMA PathStep ==
    ASSUME IsTree(tree)
    PROVE  \A d \in Dir : PathUp[d] = {d} \cup (IF d = 0 THEN {} ELSE PathUp[Above(tree, d)])
<1> DEFINE Is(P) == P = [d \in Dir |-> LET parent == tree.directories[d].parent
                                       IN  {d} \cup (IF parent = None THEN {} ELSE P[parent])]
<1>1. PICK n, X : n = Cardinality(Dir) /\ X = Dir
  OBVIOUS
<1>2. n \in Nat /\ X = 0 .. n - 1
  BY <1>1, TreeFacts
<1>3. PICK rank, pred, base, G :
          /\ rank = [d \in X |-> d]
          /\ pred = [d \in X |-> IF d = 0 THEN d ELSE Above(tree, d)]
          /\ base = [d \in X |-> {d}]
          /\ G = [d \in X |-> [v \in SUBSET X |-> {d} \cup v]]
  OBVIOUS
<1>4. Descends(X, n, rank, pred)
  <2>1. rank \in [X -> 0 .. n]
    BY <1>2, <1>3
  <2>2. pred \in [X -> X]
    <3>1. \A d \in X : (IF d = 0 THEN d ELSE Above(tree, d)) \in X
      BY <1>1, TreeFacts
    <3> QED BY <1>3, <3>1
  <2>3. ASSUME NEW d \in X, rank[d] > 0 PROVE rank[pred[d]] < rank[d]
    <3>1. rank[d] = d /\ d \in Nat /\ d # 0
      BY <1>2, <1>3, <2>3
    <3>2. pred[d] = Above(tree, d) /\ Above(tree, d) \in 0 .. d - 1
      BY <1>1, <1>3, <3>1, TreeFacts
    <3>3. pred[d] < d
      BY <3>1, <3>2
    <3>4. rank[pred[d]] = pred[d]
      BY <1>3, <2>2
    <3> QED BY <3>1, <3>3, <3>4
  <2> QED BY <1>2, <2>1, <2>2, <2>3 DEF Descends
<1>5. base \in [X -> SUBSET X] /\ G \in [X -> [SUBSET X -> SUBSET X]]
  BY <1>3
<1>6. PICK f \in [X -> SUBSET X] : Solves(f, X, rank, pred, base, G)
  BY <1>4, <1>5, OneStepBack
<1>7. ASSUME NEW d \in Dir
      PROVE  f[d] = LET parent == tree.directories[d].parent
                    IN  {d} \cup (IF parent = None THEN {} ELSE f[parent])
  <2>1. rank[d] = d /\ base[d] = {d} /\ f[d] = IF rank[d] = 0 THEN base[d] ELSE G[d][f[pred[d]]]
    BY <1>1, <1>3, <1>6 DEF Solves
  <2>2. CASE d = 0
    BY <2>1, <2>2, TreeFacts DEF Above
  <2>3. CASE d # 0
    <3>1. pred[d] = Above(tree, d) /\ Above(tree, d) \in X /\ Above(tree, d) # None
      BY <1>1, <1>3, <2>3, TreeFacts
    <3>2. G[d][f[pred[d]]] = {d} \cup f[pred[d]]
      BY <1>1, <1>3, <1>6, <3>1
    <3> QED BY <2>1, <2>3, <3>1, <3>2 DEF Above
  <2> QED BY <2>2, <2>3
<1>8. Is(f)
  BY <1>1, <1>6, <1>7
<1>9. Is(PathUp)
  <2>1. PathUp = CHOOSE P : Is(P)
    BY DEF PathUp
  <2> HIDE DEF Is
  <2> QED BY <1>8, <2>1
<1> SUFFICES ASSUME NEW d \in Dir
             PROVE  PathUp[d] = {d} \cup (IF d = 0 THEN {} ELSE PathUp[Above(tree, d)])
  OBVIOUS
<1>10. PICK P : P = PathUp
  OBVIOUS
<1>11. P[d] = {d} \cup (IF Above(tree, d) = None THEN {} ELSE P[Above(tree, d)])
  <2>1. Is(P)
    <3> HIDE DEF Is
    <3> QED BY <1>9, <1>10
  <2> QED BY <2>1 DEF Above
<1>12. Above(tree, d) = None <=> d = 0
  BY TreeFacts
<1> QED BY <1>10, <1>11, <1>12

\* It ends at d and holds no id beyond, and from each of its directories on it is
\* the way up from there.
PathRight(e) ==
    /\ e \in PathUp[e] /\ PathUp[e] \subseteq 0 .. e
    /\ \A j \in PathUp[e] : j \in Dir /\ PathUp[e] \cap (0 .. j) = PathUp[j]

\* Of every directory: a smallest id it fails for has a parent it fails for.
LEMMA PathFacts ==
    ASSUME IsTree(tree)
    PROVE  \A e \in Dir : PathRight(e)
<1>1. PICK Bad : Bad = {e \in Dir : ~PathRight(e)}
  OBVIOUS
<1>2. SUFFICES ASSUME Bad # {} PROVE FALSE
  BY <1>1
<1>3. Bad \in SUBSET Nat
  BY <1>1, TreeFacts
<1>4. PICK e \in Bad : \A x \in Bad : e <= x
  BY <1>2, <1>3, LeastNumber
<1>5. e \in Dir /\ e \in Nat /\ ~PathRight(e)
  BY <1>1, <1>3
<1>6. PathUp[e] = {e} \cup (IF e = 0 THEN {} ELSE PathUp[Above(tree, e)])
  BY <1>5, PathStep
<1>7. CASE e = 0
  <2>1. PathUp[e] = {e} /\ 0 .. e = {e}
    BY <1>6, <1>7
  <2> QED BY <1>5, <2>1 DEF PathRight
<1>8. CASE e # 0
  <2>1. PICK q : q = Above(tree, e)
    OBVIOUS
  <2>2. q \in 0 .. e - 1 /\ q \in Dir
    BY <1>5, <1>8, <2>1, TreeFacts
  <2>3. q \in Nat /\ q < e
    BY <1>5, <2>2
  <2>4. PathRight(q)
    BY <1>1, <1>4, <1>5, <2>2, <2>3
  <2>5. PathUp[e] = {e} \cup PathUp[q] /\ PathUp[q] \subseteq 0 .. q
    BY <1>6, <1>8, <2>1, <2>4 DEF PathRight
  <2>6. e \in PathUp[e] /\ PathUp[e] \subseteq 0 .. e
    BY <1>5, <2>3, <2>5
  <2>7. ASSUME NEW j \in PathUp[e] PROVE j \in Dir /\ PathUp[e] \cap (0 .. j) = PathUp[j]
    <3>1. CASE j = e
      BY <1>5, <2>6, <3>1
    <3>2. CASE j # e
      <4>1. j \in PathUp[q] /\ j \in 0 .. q
        BY <2>5, <3>2
      <4>2. j \in Dir /\ PathUp[q] \cap (0 .. j) = PathUp[j]
        BY <2>4, <4>1 DEF PathRight
      <4>3. e \notin 0 .. j
        BY <2>3, <4>1
      <4> QED BY <2>5, <4>2, <4>3
    <3> QED BY <3>1, <3>2
  <2> QED BY <1>5, <2>6, <2>7 DEF PathRight
<1> QED BY <1>7, <1>8

-----------------------------------------------------------------------------
(* The two passes over the directories *)

\* A fold of a sequence from the left draws the last place first.
LastFirst(n) == [s \in SUBSET (1 .. n) |-> Max(s)]

\* The last place of a prefix is its greatest.
LEMMA LastDrawn ==
    ASSUME NEW n \in Nat
    PROVE  /\ Drawing(1 .. n, LastFirst(n))
           /\ \A k \in 1 .. n : Max(1 .. k) = k
<1>1. IsFiniteSet(1 .. n)
  BY FS_Interval
<1>2. ASSUME NEW s \in SUBSET (1 .. n), s # {}
      PROVE  Max(s) \in s
  <2>1. PICK T : T = {n - x : x \in s}
    OBVIOUS
  <2>2. T \in SUBSET Nat /\ T # {}
    <3>1. \A x \in s : n - x \in Nat
      OBVIOUS
    <3> QED BY <1>2, <2>1, <3>1
  <2>3. PICK m \in T : \A y \in T : m <= y
    BY <2>2, LeastNumber
  <2>4. PICK x \in s : m = n - x
    BY <2>1, <2>3
  <2>5. ASSUME NEW y \in s PROVE x >= y
    <3>1. n - y \in T /\ x \in Nat /\ y \in Nat
      BY <2>1
    <3>2. n - x <= n - y
      BY <2>3, <2>4, <3>1
    <3> QED BY <3>1, <3>2
  <2>6. \E z \in s : \A y \in s : z >= y
    BY <2>5
  <2> QED BY <2>6 DEF Max
<1>3. ASSUME NEW k \in 1 .. n PROVE Max(1 .. k) = k
  <2>1. k \in 1 .. k /\ \A y \in 1 .. k : k >= y
    OBVIOUS
  <2>2. \A x \in 1 .. k : (\A y \in 1 .. k : x >= y) => x = k
    OBVIOUS
  <2> QED BY <2>1, <2>2 DEF Max
<1> QED BY <1>1, <1>2, <1>3 DEF Drawing, LastFirst

\* Taken one place after another.
Marches(f, g, n, z, H) ==
    /\ g[0] = z /\ \A k \in 1 .. n : g[k] = H[k][g[k - 1]]
    /\ \A s \in SUBSET (1 .. n) : f[s] = IF s = {} THEN z ELSE H[Max(s)][f[s \ {Max(s)}]]
    /\ f[1 .. n] = g[n]

\* A fold of a sequence from the left takes its places in order.
LEMMA LeftFold ==
    ASSUME NEW n \in Nat, NEW V, NEW z \in V, NEW H \in [1 .. n -> [V -> V]]
    PROVE  \E f \in [SUBSET (1 .. n) -> V] : \E g \in [0 .. n -> V] : Marches(f, g, n, z, H)
<1>1. PICK c : c = LastFirst(n)
  OBVIOUS
<1>2. Drawing(1 .. n, c)
  BY <1>1, LastDrawn
<1>3. PICK K : K = [s \in SUBSET (1 .. n) |-> [v \in V |-> IF s = {} THEN v ELSE H[c[s]][v]]]
  OBVIOUS
<1>4. \A s \in SUBSET (1 .. n) : s # {} => c[s] \in s /\ c[s] = Max(s)
  BY <1>1, <1>2 DEF Drawing, LastFirst
<1>5. K \in [SUBSET (1 .. n) -> [V -> V]]
  <2>1. ASSUME NEW s \in SUBSET (1 .. n), NEW v \in V
        PROVE  (IF s = {} THEN v ELSE H[c[s]][v]) \in V
    <3>1. s # {} => c[s] \in 1 .. n
      BY <1>4
    <3> QED BY <3>1
  <2> QED BY <1>3, <2>1
<1>6. PICK f \in [SUBSET (1 .. n) -> V] : Folds(f, 1 .. n, c, z, K)
  BY <1>2, <1>5, FoldExists
<1>7. ASSUME NEW s \in SUBSET (1 .. n)
      PROVE  f[s] = IF s = {} THEN z ELSE H[Max(s)][f[s \ {Max(s)}]]
  <2>1. f[s] = IF s = {} THEN z ELSE K[s][f[s \ {c[s]}]]
    BY <1>6 DEF Folds
  <2>2. f[s \ {c[s]}] \in V
    BY <1>6
  <2> QED BY <1>3, <1>4, <2>1, <2>2
<1>8. PICK g : g = [k \in 0 .. n |-> f[1 .. k]]
  OBVIOUS
<1>9. \A k \in 0 .. n : 1 .. k \in SUBSET (1 .. n)
  OBVIOUS
<1>10. g \in [0 .. n -> V]
  BY <1>6, <1>8, <1>9
<1>11. g[0] = z
  <2>1. 1 .. 0 = {} /\ {} \in SUBSET (1 .. n) /\ 0 \in 0 .. n
    OBVIOUS
  <2>2. g[0] = f[{}]
    BY <1>8, <2>1
  <2> QED BY <1>7, <2>1, <2>2
<1>12. ASSUME NEW k \in 1 .. n PROVE g[k] = H[k][g[k - 1]]
  <2>1. /\ k \in 0 .. n /\ k - 1 \in 0 .. n /\ 1 .. k # {}
        /\ (1 .. k) \ {k} = 1 .. k - 1 /\ Max(1 .. k) = k
    <3>1. Max(1 .. k) = k
      BY LastDrawn
    <3>2. (1 .. k) \ {k} = 1 .. k - 1
      OBVIOUS
    <3>3. k \in 0 .. n /\ k - 1 \in 0 .. n
      OBVIOUS
    <3>4. k \in 1 .. k
      OBVIOUS
    <3> QED BY <3>1, <3>2, <3>3, <3>4
  <2>2. PICK s : s = 1 .. k
    OBVIOUS
  <2>3. s \in SUBSET (1 .. n) /\ s # {} /\ Max(s) = k /\ s \ {k} = 1 .. k - 1
    BY <1>9, <2>1, <2>2
  <2>4. f[s] = H[k][f[1 .. k - 1]]
    BY <1>7, <2>3
  <2> QED BY <1>8, <2>1, <2>2, <2>4
<1>13. f[1 .. n] = g[n]
  BY <1>8
<1> QED BY <1>6, <1>7, <1>10, <1>11, <1>12, <1>13 DEF Marches

\* Any fold of the same steps ends as this one does.
LEMMA SameMarch ==
    ASSUME NEW n \in Nat, NEW f, NEW it, f[{}] = it[{}],
           \A s \in SUBSET (1 .. n) : s # {} /\ f[s \ {Max(s)}] = it[s \ {Max(s)}] => f[s] = it[s]
    PROVE  f[1 .. n] = it[1 .. n]
<1>1. PICK c : c = LastFirst(n)
  OBVIOUS
<1>2. Drawing(1 .. n, c) /\ \A s \in SUBSET (1 .. n) : c[s] = Max(s)
  BY <1>1, LastDrawn DEF LastFirst
<1>3. \A s \in SUBSET (1 .. n) : s # {} /\ f[s \ {c[s]}] = it[s \ {c[s]}] => f[s] = it[s]
  BY <1>2
<1>4. PICK D : D = 1 .. n
  OBVIOUS
<1>5. Drawing(D, c) /\ \A s \in SUBSET D : s # {} /\ f[s \ {c[s]}] = it[s \ {c[s]}] => f[s] = it[s]
  BY <1>2, <1>3, <1>4
<1>6. \A s \in SUBSET D : f[s] = it[s]
  BY <1>5, FoldOnce
<1> QED BY <1>4, <1>6

\* The two folds of compute_directory_metrics, of which own is what the second starts from.
Depths       == FoldLeft(LAMBDA depth, id : Down(tree, depth, id), Zero(tree), InOrder(tree.directories))
Totals(own)  == FoldLeft(LAMBDA total, id : Up(tree, total, id), own, UpOrder(InOrder(tree.directories)))

\* Their steps.
Deeper(g, n) == /\ g[0] = Zero(tree)
                /\ \A k \in 1 .. n : g[k] = Down(tree, g[k - 1], k - 1)
Higher(g, n, own) == /\ g[0] = own
                     /\ \A k \in 1 .. n : g[k] = Up(tree, g[k - 1], n - k)

\* The first pass, as one step for each directory in the order of their ids.
LEMMA DepthSteps ==
    ASSUME IsTree(tree), NEW n, n = Cardinality(Dir)
    PROVE  \E g \in [0 .. n -> [Dir -> Nat]] : Deeper(g, n) /\ Depths = g[n]
<1>1. PICK V : V = [Dir -> Nat]
  OBVIOUS
<1>2. PICK seq, H : seq = InOrder(tree.directories) /\ H = [k \in 1 .. n |-> [v \in V |-> Down(tree, v, k - 1)]]
  OBVIOUS
<1>3. n \in Nat /\ Dir = 0 .. n - 1
  BY TreeFacts
<1>4. DOMAIN seq = 1 .. n /\ \A k \in 1 .. n : seq[k] = k - 1
  BY <1>2 DEF InOrder, Dir
<1>5. Zero(tree) \in V
  BY <1>1 DEF Zero, Dir
<1>6. H \in [1 .. n -> [V -> V]]
  <2>1. ASSUME NEW k \in 1 .. n, NEW v \in V PROVE Down(tree, v, k - 1) \in V
    <3> PICK d : d = k - 1
      OBVIOUS
    <3>1. d = k - 1 /\ d \in Dir
      <4>1. k - 1 \in 0 .. n - 1
        BY <1>3
      <4> QED BY <1>3, <4>1
    <3>2. CASE Above(tree, d) = None
      BY <3>1, <3>2 DEF Down
    <3>3. CASE Above(tree, d) # None
      <4>1. Above(tree, d) \in Dir
        BY <3>3, TreeFacts
      <4>2. v[Above(tree, d)] + 1 \in Nat
        BY <1>1, <4>1
      <4> QED BY <1>1, <3>1, <3>3, <4>2 DEF Down
    <3> QED BY <3>2, <3>3
  <2> QED BY <1>2, <2>1
<1>7. PICK f \in [SUBSET (1 .. n) -> V], g \in [0 .. n -> V] : Marches(f, g, n, Zero(tree), H)
  BY <1>3, <1>5, <1>6, LeftFold
<1>8. Deeper(g, n) /\ f[1 .. n] = g[n]
  <2>1. ASSUME NEW k \in 1 .. n PROVE g[k] = Down(tree, g[k - 1], k - 1)
    <3>1. g[k] = H[k][g[k - 1]] /\ g[k - 1] \in V
      BY <1>3, <1>7 DEF Marches
    <3> QED BY <1>2, <3>1
  <2> QED BY <1>7, <2>1 DEF Deeper, Marches
<1> DEFINE Is(iter) == iter = [s \in SUBSET DOMAIN seq |->
                                  IF s = {} THEN Zero(tree)
                                  ELSE LET x == Max(s) IN Down(tree, iter[s \ {x}], seq[x])]
           It == CHOOSE iter : Is(iter)
<1>9. Depths = It[DOMAIN seq]
  BY <1>2 DEF Depths, FoldLeft, MapThenFoldSet
<1>10. ASSUME NEW s \in SUBSET (1 .. n)
       PROVE  f[s] = IF s = {} THEN Zero(tree) ELSE Down(tree, f[s \ {Max(s)}], seq[Max(s)])
  <2>1. f[s] = IF s = {} THEN Zero(tree) ELSE H[Max(s)][f[s \ {Max(s)}]]
    BY <1>7 DEF Marches
  <2>2. ASSUME s # {} PROVE Max(s) \in 1 .. n
    BY <1>3, <2>2, LastDrawn DEF Drawing, LastFirst
  <2>3. f[s \ {Max(s)}] \in V
    BY <1>7
  <2> QED BY <1>2, <1>4, <2>1, <2>2, <2>3
<1>11. Is(f)
  BY <1>4, <1>7, <1>10
<1>12. PICK it : it = It
  OBVIOUS
<1>13. Is(it)
  <2> HIDE DEF Is
  <2> QED BY <1>11, <1>12
<1>14. f[{}] = it[{}]
  BY <1>10, <1>13
<1>15. ASSUME NEW s \in SUBSET (1 .. n), s # {}, f[s \ {Max(s)}] = it[s \ {Max(s)}]
       PROVE  f[s] = it[s]
  <2>1. it[s] = Down(tree, it[s \ {Max(s)}], seq[Max(s)])
    BY <1>4, <1>13, <1>15
  <2> QED BY <1>10, <1>15, <2>1
<1>16. f[1 .. n] = it[1 .. n]
  BY <1>3, <1>14, <1>15, SameMarch
<1> QED BY <1>1, <1>4, <1>7, <1>8, <1>9, <1>12, <1>16

\* The second pass, as one step for each directory, the last id first.
LEMMA TotalSteps ==
    ASSUME IsTree(tree), NEW n, n = Cardinality(Dir), NEW own \in [Dir -> Nat]
    PROVE  \E g \in [0 .. n -> [Dir -> Nat]] : Higher(g, n, own) /\ Totals(own) = g[n]
<1>1. PICK V : V = [Dir -> Nat]
  OBVIOUS
<1>2. PICK seq, H : seq = UpOrder(InOrder(tree.directories))
                    /\ H = [k \in 1 .. n |-> [v \in V |-> Up(tree, v, n - k)]]
  OBVIOUS
<1>3. n \in Nat /\ Dir = 0 .. n - 1
  BY TreeFacts
<1>4. DOMAIN seq = 1 .. n /\ \A k \in 1 .. n : seq[k] = n - k
  <2>1. PICK ids : ids = InOrder(tree.directories)
    OBVIOUS
  <2>2. ids \in Seq(Int) /\ Len(ids) = n /\ \A k \in 1 .. n : ids[k] = k - 1
    <3>1. ids = [k \in 1 .. n |-> k - 1]
      BY <2>1 DEF InOrder, Dir
    <3>2. \A k \in 1 .. n : k - 1 \in Int
      BY <1>3
    <3>3. ids \in [1 .. n -> Int]
      BY <3>1, <3>2
    <3>4. ids \in Seq(Int) /\ Len(ids) = n
      BY <1>3, <3>3
    <3> QED BY <3>1, <3>4
  <2>3. seq = [k \in 1 .. n |-> ids[(n - k) + 1]]
    BY <1>2, <2>1, <2>2 DEF UpOrder, Reverse
  <2>4. ASSUME NEW k \in 1 .. n PROVE ids[(n - k) + 1] = n - k
    <3>1. (n - k) + 1 \in 1 .. n
      BY <1>3
    <3>2. PICK j : j = (n - k) + 1
      OBVIOUS
    <3>3. ids[j] = j - 1
      BY <2>2, <3>1, <3>2
    <3>4. j - 1 = n - k
      <4>1. n \in Int /\ k \in Int
        BY <1>3
      <4> QED BY <3>2, <4>1
    <3> QED BY <3>2, <3>3, <3>4
  <2> QED BY <2>3, <2>4
<1>5. H \in [1 .. n -> [V -> V]]
  <2>1. ASSUME NEW k \in 1 .. n, NEW v \in V PROVE Up(tree, v, n - k) \in V
    <3> PICK d : d = n - k
      OBVIOUS
    <3>1. d = n - k /\ d \in Dir
      <4>1. n - k \in 0 .. n - 1
        BY <1>3
      <4> QED BY <1>3, <4>1
    <3>2. CASE Above(tree, d) = None
      BY <3>1, <3>2 DEF Up
    <3>3. CASE Above(tree, d) # None
      <4>1. Above(tree, d) \in Dir
        BY <3>1, <3>3, TreeFacts
      <4>2. v[Above(tree, d)] \in Nat /\ v[d] \in Nat
        BY <1>1, <3>1, <4>1
      <4>3. v[Above(tree, d)] + v[d] \in Nat
        BY <4>2
      <4> QED BY <1>1, <3>1, <3>3, <4>3 DEF Up
    <3> QED BY <3>2, <3>3
  <2> QED BY <1>2, <2>1
<1>6. own \in V
  BY <1>1
<1>7. PICK f \in [SUBSET (1 .. n) -> V], g \in [0 .. n -> V] : Marches(f, g, n, own, H)
  BY <1>3, <1>5, <1>6, LeftFold
<1>8. Higher(g, n, own) /\ f[1 .. n] = g[n]
  <2>1. ASSUME NEW k \in 1 .. n PROVE g[k] = Up(tree, g[k - 1], n - k)
    <3>1. g[k] = H[k][g[k - 1]] /\ g[k - 1] \in V
      BY <1>3, <1>7 DEF Marches
    <3> QED BY <1>2, <3>1
  <2> QED BY <1>7, <2>1 DEF Higher, Marches
<1> DEFINE Is(iter) == iter = [s \in SUBSET DOMAIN seq |->
                                  IF s = {} THEN own
                                  ELSE LET x == Max(s) IN Up(tree, iter[s \ {x}], seq[x])]
           It == CHOOSE iter : Is(iter)
<1>9. Totals(own) = It[DOMAIN seq]
  BY <1>2 DEF Totals, FoldLeft, MapThenFoldSet
<1>10. ASSUME NEW s \in SUBSET (1 .. n)
       PROVE  f[s] = IF s = {} THEN own ELSE Up(tree, f[s \ {Max(s)}], seq[Max(s)])
  <2>1. f[s] = IF s = {} THEN own ELSE H[Max(s)][f[s \ {Max(s)}]]
    BY <1>7 DEF Marches
  <2>2. ASSUME s # {} PROVE Max(s) \in 1 .. n
    BY <1>3, <2>2, LastDrawn DEF Drawing, LastFirst
  <2>3. f[s \ {Max(s)}] \in V
    BY <1>7
  <2> QED BY <1>2, <1>4, <2>1, <2>2, <2>3
<1>11. Is(f)
  BY <1>4, <1>7, <1>10
<1>12. PICK it : it = It
  OBVIOUS
<1>13. Is(it)
  <2> HIDE DEF Is
  <2> QED BY <1>11, <1>12
<1>14. f[{}] = it[{}]
  BY <1>10, <1>13
<1>15. ASSUME NEW s \in SUBSET (1 .. n), s # {}, f[s \ {Max(s)}] = it[s \ {Max(s)}]
       PROVE  f[s] = it[s]
  <2>1. it[s] = Up(tree, it[s \ {Max(s)}], seq[Max(s)])
    BY <1>4, <1>13, <1>15
  <2> QED BY <1>10, <1>15, <2>1
<1>16. f[1 .. n] = it[1 .. n]
  BY <1>3, <1>14, <1>15, SameMarch
<1> QED BY <1>1, <1>4, <1>7, <1>8, <1>9, <1>12, <1>16

\* The first pass: a directory's depth is how many are above it.
LEMMA DepthRight ==
    ASSUME IsTree(tree), NEW d \in Dir
    PROVE  Depths[d] = Cardinality(PathUp[d]) - 1
<1>1. PICK n : n = Cardinality(Dir)
  OBVIOUS
<1>2. n \in Nat /\ Dir = 0 .. n - 1
  BY <1>1, TreeFacts
<1>3. PICK g \in [0 .. n -> [Dir -> Nat]] : Deeper(g, n) /\ Depths = g[n]
  BY <1>1, DepthSteps
<1>4. \A e \in Dir : IsFiniteSet(PathUp[e]) /\ Cardinality(PathUp[e]) \in Nat
  <2>1. ASSUME NEW e \in Dir PROVE IsFiniteSet(PathUp[e])
    <3>1. PathUp[e] \subseteq 0 .. e
      BY PathFacts DEF PathRight
    <3>2. IsFiniteSet(0 .. e)
      BY <1>2, FS_Interval
    <3> QED BY <3>1, <3>2, FS_Subset
  <2> QED BY <2>1, FS_CardinalityType
<1> DEFINE Reached(k) == \A e \in Dir : e < k => g[k][e] = Cardinality(PathUp[e]) - 1
<1>5. PICK Bad : Bad = {k \in 0 .. n : ~Reached(k)}
  OBVIOUS
<1>6. Bad = {}
  <2> SUFFICES ASSUME Bad # {} PROVE FALSE
    OBVIOUS
  <2>1. Bad \in SUBSET Nat
    BY <1>5
  <2>2. PICK k \in Bad : \A m \in Bad : k <= m
    BY <2>1, LeastNumber
  <2>3. k \in 0 .. n /\ ~Reached(k)
    BY <1>5
  <2>4. k # 0
    BY <1>2, <2>3
  <2>5. PICK j : j = k - 1
    OBVIOUS
  <2>6. j \in Nat /\ j \in 0 .. n /\ j \in Dir /\ k \in 1 .. n /\ k = j + 1 /\ ~(k <= j)
    BY <1>2, <2>3, <2>4, <2>5
  <2>7. Reached(j)
    BY <1>5, <2>2, <2>6
  <2>8. g[k] = Down(tree, g[j], j)
    BY <1>3, <2>5, <2>6 DEF Deeper
  <2>9. PICK e \in Dir : e < k /\ g[k][e] # Cardinality(PathUp[e]) - 1
    BY <2>3
  <2>10. e \in Nat /\ g[j] \in [Dir -> Nat]
    BY <1>2, <1>3, <2>6
  <2>11. CASE e # j
    <3>1. e < j
      BY <2>6, <2>9, <2>10, <2>11
    <3>2. g[k][e] = g[j][e]
      <4>1. CASE Above(tree, j) = None
        BY <2>8, <4>1 DEF Down
      <4>2. CASE Above(tree, j) # None
        BY <2>8, <2>10, <2>11, <4>2 DEF Down
      <4> QED BY <4>1, <4>2
    <3> QED BY <2>7, <2>9, <3>1, <3>2
  <2>12. CASE e = j
    <3>1. CASE e = 0
      <4>1. Above(tree, j) = None
        BY <2>12, <3>1, TreeFacts
      <4>2. g[k] = g[j]
        BY <2>8, <4>1 DEF Down
      <4>3. j = 0 /\ g[j] = Zero(tree)
        BY <1>3, <2>12, <3>1 DEF Deeper
      <4>4. g[k][e] = 0
        BY <4>2, <4>3 DEF Zero, Dir
      <4>5. PathUp[e] = {e}
        BY <3>1, PathStep
      <4>6. Cardinality(PathUp[e]) = 1
        BY <4>5, FS_Singleton
      <4> QED BY <2>9, <4>4, <4>6
    <3>2. CASE e # 0
      <4>1. PICK q : q = Above(tree, e)
        OBVIOUS
      <4>2. q \in 0 .. e - 1 /\ q # None /\ q \in Dir
        BY <3>2, <4>1, TreeFacts
      <4>3. g[k][e] = g[j][q] + 1
        BY <2>8, <2>10, <2>12, <4>1, <4>2 DEF Down
      <4>4. q < j /\ q \in Nat
        BY <2>10, <2>12, <4>2
      <4>5. g[j][q] = Cardinality(PathUp[q]) - 1
        BY <2>7, <4>2, <4>4
      <4>6. PathUp[e] = PathUp[q] \cup {e}
        BY <3>2, <4>1, PathStep
      <4>7. e \notin PathUp[q]
        <5>1. PathUp[q] \subseteq 0 .. q
          BY <4>2, PathFacts DEF PathRight
        <5> QED BY <2>12, <4>4, <5>1
      <4>8. Cardinality(PathUp[e]) = Cardinality(PathUp[q]) + 1
        BY <1>4, <4>2, <4>6, <4>7, FS_AddElement
      <4>9. Cardinality(PathUp[q]) \in Nat
        BY <1>4, <4>2
      <4> QED BY <2>9, <4>3, <4>5, <4>8, <4>9
    <3> QED BY <3>1, <3>2
  <2> QED BY <2>11, <2>12
<1>7. Reached(n)
  <2>1. n \in 0 .. n
    BY <1>2
  <2> HIDE DEF Reached
  <2> QED BY <1>5, <1>6, <2>1
<1>8. d < n
  BY <1>2
<1> QED BY <1>3, <1>7, <1>8

Held(d) == tree.directories[d].files
\* The directories whose totals have come to d when those from j on have been added.
Come(d, j) == {e \in Dir : d \in PathUp[e] /\ PathUp[e] \cap (d + 1 .. j - 1) = {}}
HeldBy(R)  == UNION {Held(e) : e \in R}

\* Nothing has been added, ...
LEMMA ComeFirst ==
    ASSUME IsTree(tree), NEW d \in Dir
    PROVE  Come(d, Cardinality(Dir)) = {d}
<1>1. PICK n : n = Cardinality(Dir)
  OBVIOUS
<1>2. n \in Nat /\ Dir = 0 .. n - 1
  BY <1>1, TreeFacts
<1>3. ASSUME NEW e \in Come(d, n) PROVE e = d
  <2>1. e \in Dir /\ d \in PathUp[e] /\ PathUp[e] \cap (d + 1 .. n - 1) = {}
    BY DEF Come
  <2>2. e \in PathUp[e] /\ d \in 0 .. e
    BY <2>1, PathFacts DEF PathRight
  <2>3. e \notin d + 1 .. n - 1
    BY <2>1, <2>2
  <2> QED BY <1>2, <2>1, <2>2, <2>3
<1>4. d \in Come(d, n)
  <2>1. d \in PathUp[d] /\ PathUp[d] \subseteq 0 .. d
    BY PathFacts DEF PathRight
  <2>2. (0 .. d) \cap (d + 1 .. n - 1) = {}
    BY <1>2
  <2> QED BY <2>1, <2>2 DEF Come
<1> QED BY <1>1, <1>3, <1>4

\* ... then what has come to j goes to the directory above it, ...
LEMMA ComeNext ==
    ASSUME IsTree(tree), NEW j \in Dir, NEW d \in Dir
    PROVE  /\ d = Above(tree, j) =>
                  /\ Come(d, j) = Come(d, j + 1) \cup Come(j, j + 1)
                  /\ Come(d, j + 1) \cap Come(j, j + 1) = {}
           /\ d # Above(tree, j) => Come(d, j) = Come(d, j + 1)
<1>1. j \in Nat /\ d \in Nat
  BY TreeFacts
<1>2. ASSUME NEW e \in Dir, j \in PathUp[e], d \in PathUp[e], d < j
      PROVE  j # 0 /\ Above(tree, j) \in PathUp[e] /\ d <= Above(tree, j) /\ Above(tree, j) < j
  <2>1. j # 0
    BY <1>1, <1>2
  <2>2. PICK q : q = Above(tree, j)
    OBVIOUS
  <2>3. q \in 0 .. j - 1 /\ q \in Dir
    BY <2>1, <2>2, TreeFacts
  <2>4. PathUp[j] = {j} \cup PathUp[q]
    BY <2>1, <2>2, PathStep
  <2>5. PathUp[e] \cap (0 .. j) = PathUp[j]
    BY <1>2, PathFacts DEF PathRight
  <2>6. q \in PathUp[q] /\ PathUp[q] \subseteq 0 .. q
    BY <2>3, PathFacts DEF PathRight
  <2>7. d \in PathUp[q]
    BY <1>1, <1>2, <2>4, <2>5
  <2>8. d <= q /\ q < j
    BY <1>1, <2>3, <2>6, <2>7
  <2> QED BY <2>1, <2>2, <2>4, <2>5, <2>6, <2>8
<1>3. CASE d = Above(tree, j)
  <2>1. j # 0
    <3>1. d # None
      BY <1>1, DiskAssumption
    <3> QED BY <1>3, <3>1, TreeFacts
  <2>2. d < j
    BY <1>1, <1>3, <2>1, TreeFacts
  <2>3. ASSUME NEW e \in Dir, j \in PathUp[e] PROVE e \in Come(d, j)
    <3>1. PathUp[e] \cap (0 .. j) = PathUp[j]
      BY <2>3, PathFacts DEF PathRight
    <3>2. PathUp[j] = {j} \cup PathUp[d]
      BY <1>3, <2>1, PathStep
    <3>3. d \in PathUp[d] /\ PathUp[d] \subseteq 0 .. d
      BY PathFacts DEF PathRight
    <3>4. ASSUME NEW x \in PathUp[e], x \in d + 1 .. j - 1 PROVE FALSE
      <4>1. x \in 0 .. j /\ x # j /\ x \notin 0 .. d
        BY <1>1, <3>4
      <4> QED BY <3>1, <3>2, <3>3, <4>1
    <3> QED BY <3>1, <3>2, <3>3, <3>4 DEF Come
  <2>4. ASSUME NEW e \in Come(d, j), e \notin Come(d, j + 1) PROVE j \in PathUp[e] /\ e \in Dir
    <3>1. e \in Dir /\ d \in PathUp[e] /\ PathUp[e] \cap (d + 1 .. j - 1) = {}
      BY <2>4 DEF Come
    <3>2. PICK x \in PathUp[e] : x \in d + 1 .. (j + 1) - 1
      BY <2>4, <3>1 DEF Come
    <3>3. x \notin d + 1 .. j - 1
      BY <3>1, <3>2
    <3>4. x = j
      BY <1>1, <3>2, <3>3
    <3> QED BY <3>1, <3>2, <3>4
  <2>5. ASSUME NEW e \in Come(d, j + 1) PROVE e \in Come(d, j) /\ j \notin PathUp[e]
    <3>1. e \in Dir /\ d \in PathUp[e] /\ PathUp[e] \cap (d + 1 .. (j + 1) - 1) = {}
      BY DEF Come
    <3>2. j \in d + 1 .. (j + 1) - 1 /\ d + 1 .. j - 1 \subseteq d + 1 .. (j + 1) - 1
      BY <1>1, <2>2
    <3> QED BY <3>1, <3>2 DEF Come
  <2>6. \A e : e \in Come(j, j + 1) <=> e \in Dir /\ j \in PathUp[e]
    <3>1. j + 1 .. (j + 1) - 1 = {}
      BY <1>1
    <3> QED BY <3>1 DEF Come
  <2> QED BY <1>3, <2>3, <2>4, <2>5, <2>6
<1>4. CASE d # Above(tree, j)
  <2>1. ASSUME NEW e \in Dir, d \in PathUp[e]
        PROVE  PathUp[e] \cap (d + 1 .. j - 1) = {} <=> PathUp[e] \cap (d + 1 .. (j + 1) - 1) = {}
    <3>1. CASE d >= j
      <4>1. d + 1 .. j - 1 = {} /\ d + 1 .. (j + 1) - 1 = {}
        BY <1>1, <3>1
      <4> QED BY <4>1
    <3>2. CASE d < j /\ j \notin PathUp[e]
      <4>1. \A x : x \in d + 1 .. (j + 1) - 1 <=> x \in d + 1 .. j - 1 \/ x = j
        BY <1>1, <3>2
      <4> QED BY <3>2, <4>1
    <3>3. CASE d < j /\ j \in PathUp[e]
      <4>1. PICK q : q = Above(tree, j)
        OBVIOUS
      <4>2. j # 0 /\ q \in PathUp[e] /\ d <= q /\ q < j
        BY <1>2, <2>1, <3>3, <4>1
      <4>3. q \in Nat
        BY <1>1, <4>1, <4>2, TreeFacts
      <4>4. q \in d + 1 .. j - 1 /\ q \in d + 1 .. (j + 1) - 1
        BY <1>1, <1>4, <4>1, <4>2, <4>3
      <4> QED BY <4>2, <4>4
    <3> QED BY <1>1, <3>1, <3>2, <3>3
  <2>2. ASSUME NEW e PROVE e \in Come(d, j) <=> e \in Come(d, j + 1)
    BY <2>1 DEF Come
  <2> QED BY <1>4, <2>2
<1> QED BY <1>3, <1>4

\* ... and in the end everything below has come.
LEMMA ComeLast ==
    ASSUME IsTree(tree), NEW d \in Dir
    PROVE  HeldBy(Come(d, 0)) = FilesIn(d)
<1>1. d + 1 .. 0 - 1 = {}
  BY TreeFacts
<1>2. Come(d, 0) = {e \in Dir : d \in PathUp[e]}
  BY <1>1 DEF Come
<1> QED BY <1>2 DEF HeldBy, Held, FilesIn

\* A measure of sets of files, of which the totals are built.
Additive(M) ==
    \A S, T \in SUBSET File : S \cap T = {} => M[S \cup T] = M[S] + M[T]

\* No file is in two directories.
LEMMA HeldApart ==
    ASSUME IsTree(tree)
    PROVE  /\ \A R \in SUBSET Dir : HeldBy(R) \in SUBSET File
           /\ \A R, Q \in SUBSET Dir :
                 /\ HeldBy(R \cup Q) = HeldBy(R) \cup HeldBy(Q)
                 /\ R \cap Q = {} => HeldBy(R) \cap HeldBy(Q) = {}
           /\ \A d \in Dir : HeldBy({d}) = Held(d) /\ Held(d) \in SUBSET File
<1>1. /\ \A d, e \in Dir : d # e => Held(d) \cap Held(e) = {}
      /\ UNION {Held(d) : d \in Dir} = File
  BY DEF IsTree, Held, Dir, File
<1>2. \A d \in Dir : HeldBy({d}) = Held(d) /\ Held(d) \in SUBSET File
  BY <1>1 DEF HeldBy
<1>3. \A R \in SUBSET Dir : HeldBy(R) \in SUBSET File
  BY <1>1 DEF HeldBy
<1>4. ASSUME NEW R \in SUBSET Dir, NEW Q \in SUBSET Dir
      PROVE  /\ HeldBy(R \cup Q) = HeldBy(R) \cup HeldBy(Q)
             /\ R \cap Q = {} => HeldBy(R) \cap HeldBy(Q) = {}
  <2>1. HeldBy(R \cup Q) = HeldBy(R) \cup HeldBy(Q)
    BY DEF HeldBy
  <2>2. ASSUME R \cap Q = {}, NEW x \in HeldBy(R), x \in HeldBy(Q) PROVE FALSE
    <3>1. PICK d \in R : x \in Held(d)
      BY DEF HeldBy
    <3>2. PICK e \in Q : x \in Held(e)
      BY <2>2 DEF HeldBy
    <3> QED BY <1>1, <2>2, <3>1, <3>2
  <2> QED BY <2>1, <2>2
<1> QED BY <1>2, <1>3, <1>4

\* The second pass: what it adds up for a directory is the measure of all files below.
LEMMA TotalsRight ==
    ASSUME IsTree(tree), NEW M \in [SUBSET File -> Nat], Additive(M),
           NEW own \in [Dir -> Nat], \A d \in Dir : own[d] = M[Held(d)]
    PROVE  \A d \in Dir : Totals(own)[d] = M[FilesIn(d)]
<1>1. PICK n : n = Cardinality(Dir)
  OBVIOUS
<1>2. n \in Nat /\ Dir = 0 .. n - 1
  BY <1>1, TreeFacts
<1>3. PICK g \in [0 .. n -> [Dir -> Nat]] : Higher(g, n, own) /\ Totals(own) = g[n]
  BY <1>1, TotalSteps
<1>4. \A d \in Dir, j \in Int : Come(d, j) \in SUBSET Dir
  BY DEF Come
<1> DEFINE Reached(k) == \A d \in Dir : g[k][d] = M[HeldBy(Come(d, n - k))]
<1>5. PICK Bad : Bad = {k \in 0 .. n : ~Reached(k)}
  OBVIOUS
<1>6. Bad = {}
  <2> SUFFICES ASSUME Bad # {} PROVE FALSE
    OBVIOUS
  <2>1. Bad \in SUBSET Nat
    BY <1>5
  <2>2. PICK k \in Bad : \A m \in Bad : k <= m
    BY <2>1, LeastNumber
  <2>3. k \in 0 .. n /\ ~Reached(k)
    BY <1>5
  <2>4. PICK d \in Dir : g[k][d] # M[HeldBy(Come(d, n - k))]
    BY <2>3
  <2>5. k # 0
    <3>1. ASSUME k = 0 PROVE FALSE
      <4>1. g[k][d] = M[Held(d)]
        BY <1>3, <3>1 DEF Higher
      <4>2. n - k = n
        BY <1>2, <3>1
      <4>3. Come(d, n - k) = {d}
        BY <1>1, <4>2, ComeFirst
      <4> QED BY <2>4, <4>1, <4>3, HeldApart
    <3> QED BY <3>1
  <2>6. PICK j, m : j = n - k /\ m = k - 1
    OBVIOUS
  <2>7. /\ j \in Nat /\ j \in Dir /\ m \in 0 .. n /\ k \in 1 .. n /\ ~(k <= m) /\ n - m = j + 1
        /\ j \in Int /\ j + 1 \in Int
    BY <1>2, <2>3, <2>5, <2>6
  <2>8. \A e \in Dir : g[m][e] = M[HeldBy(Come(e, j + 1))]
    <3>1. Reached(m)
      BY <1>5, <2>2, <2>7
    <3> QED BY <2>7, <3>1
  <2>9. g[k] = Up(tree, g[m], j) /\ g[m] \in [Dir -> Nat]
    BY <1>3, <2>6, <2>7 DEF Higher
  <2>10. CASE d # Above(tree, j)
    <3>1. g[k][d] = g[m][d]
      BY <2>9, <2>10 DEF Up
    <3>2. Come(d, j) = Come(d, j + 1)
      BY <2>7, <2>10, ComeNext
    <3> QED BY <2>4, <2>6, <2>8, <3>1, <3>2
  <2>11. CASE d = Above(tree, j)
    <3>1. Above(tree, j) # None
      BY <1>2, <2>11, DiskAssumption
    <3>2. g[k][d] = g[m][d] + g[m][j]
      BY <2>9, <2>11, <3>1 DEF Up
    <3>3. PICK R, Q : R = Come(d, j + 1) /\ Q = Come(j, j + 1)
      OBVIOUS
    <3>4. Come(d, j) = R \cup Q /\ R \cap Q = {} /\ R \in SUBSET Dir /\ Q \in SUBSET Dir
      BY <1>4, <2>7, <2>11, <3>3, ComeNext
    <3>5. /\ HeldBy(R) \in SUBSET File /\ HeldBy(Q) \in SUBSET File
          /\ HeldBy(R) \cap HeldBy(Q) = {} /\ HeldBy(R \cup Q) = HeldBy(R) \cup HeldBy(Q)
      BY <3>4, HeldApart
    <3>6. M[HeldBy(R \cup Q)] = M[HeldBy(R)] + M[HeldBy(Q)]
      BY <3>5 DEF Additive
    <3>7. g[m][d] = M[HeldBy(R)] /\ g[m][j] = M[HeldBy(Q)]
      BY <2>7, <2>8, <3>3
    <3> QED BY <2>4, <2>6, <3>2, <3>4, <3>6, <3>7
  <2> QED BY <2>10, <2>11
<1>7. Reached(n)
  <2>1. n \in 0 .. n
    BY <1>2
  <2> HIDE DEF Reached
  <2> QED BY <1>5, <1>6, <2>1
<1>8. n - n = 0
  BY <1>2
<1> QED BY <1>3, <1>7, <1>8, ComeLast

\* How much the files of a set weigh, and how many they are.
Weights == [f \in File |-> tree.files[f].size]
Weight  == [S \in SUBSET File |-> Total(Weights, S)]
Count   == [S \in SUBSET File |-> Cardinality(S)]

\* Sizes and counts of files are such measures, and the sums of the reports.
LEMMA Measures ==
    ASSUME IsTree(tree)
    PROVE  /\ Weight \in [SUBSET File -> Nat] /\ Additive(Weight)
           /\ Count \in [SUBSET File -> Nat] /\ Additive(Count)
           /\ \A S \in SUBSET File : /\ IsFiniteSet(S)
                                     /\ Weight[S] = Sum(S, LAMBDA f : tree.files[f].size)
                                     /\ Weight[S] = Sum(S, Size)
                                     /\ Count[S] = Cardinality(S)
<1>1. PICK w : w = Weights
  OBVIOUS
<1>2. \A f \in File : w[f] = tree.files[f].size /\ w[f] \in Nat
  BY <1>1 DEF IsTree, File, Weights
<1>3. ASSUME NEW S \in SUBSET File
      PROVE  /\ IsFiniteSet(S) /\ Weight[S] = Total(w, S) /\ Total(w, S) \in Nat
             /\ Cardinality(S) \in Nat /\ Count[S] = Cardinality(S)
             /\ Weight[S] = Sum(S, LAMBDA f : tree.files[f].size)
             /\ Weight[S] = Sum(S, Size)
  <2>1. IsFiniteSet(S) /\ Cardinality(S) \in Nat
    BY TreeFacts, FS_Subset, FS_CardinalityType
  <2>2. \A x \in S : w[x] = tree.files[x].size /\ w[x] \in Nat
    BY <1>2
  <2>3. Total(w, S) \in Nat
    BY <2>1, <2>2, TotalTakes
  <2>4. /\ Sum(S, LAMBDA f : tree.files[f].size) = Total(w, S)
        /\ Sum(S, Size) = Total(w, S)
    BY <2>1, <2>2, SizeTotal
  <2>5. Weight[S] = Total(w, S) /\ Count[S] = Cardinality(S)
    BY <1>1 DEF Weight, Count
  <2> QED BY <2>1, <2>3, <2>4, <2>5
<1>4. Weight \in [SUBSET File -> Nat] /\ Count \in [SUBSET File -> Nat]
  <2>1. \A S \in SUBSET File : Total(Weights, S) \in Nat /\ Cardinality(S) \in Nat
    BY <1>1, <1>3
  <2> QED BY <2>1 DEF Weight, Count
<1>5. Additive(Weight) /\ Additive(Count)
  <2>1. ASSUME NEW S \in SUBSET File, NEW T \in SUBSET File, S \cap T = {}
        PROVE  Weight[S \cup T] = Weight[S] + Weight[T] /\ Count[S \cup T] = Count[S] + Count[T]
    <3>1. S \cup T \in SUBSET File /\ \A x \in S \cup T : w[x] \in Nat
      BY <1>2
    <3>2. /\ IsFiniteSet(S) /\ IsFiniteSet(T)
          /\ Cardinality(S) \in Nat /\ Cardinality(T) \in Nat
          /\ Total(w, S) \in Nat /\ Total(w, T) \in Nat
      BY <1>3
    <3>3. Total(w, S \cup T) = Total(w, S) + Total(w, T)
      BY <2>1, <3>1, <3>2, TotalJoins
    <3>4. Cardinality(S \cup T) = Cardinality(S) + Cardinality(T) - Cardinality(S \cap T)
      BY <3>2, FS_Union
    <3>5. Cardinality(S \cap T) = 0
      BY <2>1, FS_EmptySet
    <3>6. /\ Weight[S] = Total(w, S) /\ Weight[T] = Total(w, T)
          /\ Weight[S \cup T] = Total(w, S \cup T)
          /\ Count[S] = Cardinality(S) /\ Count[T] = Cardinality(T)
          /\ Count[S \cup T] = Cardinality(S \cup T)
      BY <1>3, <3>1
    <3> QED BY <3>2, <3>3, <3>4, <3>5, <3>6
  <2> QED BY <2>1 DEF Additive
<1> QED BY <1>3, <1>4, <1>5

\* What the second pass starts from.
LEMMA OwnTyped ==
    ASSUME IsTree(tree)
    PROVE  /\ OwnSize(tree) \in [Dir -> Nat] /\ OwnCount(tree) \in [Dir -> Nat]
           /\ \A e \in Dir : OwnSize(tree)[e] = Weight[Held(e)] /\ OwnCount(tree)[e] = Count[Held(e)]
<1>1. ASSUME NEW e \in Dir
      PROVE  /\ OwnSize(tree)[e] = Weight[Held(e)] /\ OwnCount(tree)[e] = Count[Held(e)]
             /\ Weight[Held(e)] \in Nat /\ Count[Held(e)] \in Nat
  <2>1. Held(e) \in SUBSET File
    BY HeldApart
  <2>2. Weight[Held(e)] \in Nat /\ Count[Held(e)] \in Nat
    BY <2>1, Measures
  <2>3. /\ Weight[Held(e)] = Sum(Held(e), LAMBDA f : tree.files[f].size)
        /\ Count[Held(e)] = Cardinality(Held(e))
    BY <2>1, Measures
  <2> QED BY <2>2, <2>3 DEF OwnSize, OwnCount, Held, Dir
<1>2. /\ OwnSize(tree) = [e \in Dir |-> OwnSize(tree)[e]]
      /\ OwnCount(tree) = [e \in Dir |-> OwnCount(tree)[e]]
  BY DEF OwnSize, OwnCount, Dir
<1> QED BY <1>1, <1>2

\* compute_directory_metrics gives the three numbers their meaning.
LEMMA MetricsOfTree ==
    ASSUME IsTree(tree), NEW d \in Dir
    PROVE  LET m == compute_directory_metrics(tree)
           IN  /\ m.depth[d] = Cardinality(PathUp[d]) - 1
               /\ m.recursive_file_count[d] = Cardinality(FilesIn(d))
               /\ m.recursive_size[d] = Sum(FilesIn(d), Size)
<1>1. tree.root # None
  BY TreeFacts
<1>2. compute_directory_metrics(tree)
          = [depth |-> Depths, recursive_size |-> Totals(OwnSize(tree)),
             recursive_file_count |-> Totals(OwnCount(tree))]
  BY <1>1 DEF compute_directory_metrics, Depths, Totals
<1>3. Depths[d] = Cardinality(PathUp[d]) - 1
  BY DepthRight
<1>4. FilesIn(d) \in SUBSET File
  <2>1. Come(d, 0) \in SUBSET Dir
    BY DEF Come
  <2> QED BY <2>1, ComeLast, HeldApart
<1>5. Totals(OwnSize(tree))[d] = Weight[FilesIn(d)] /\ Totals(OwnCount(tree))[d] = Count[FilesIn(d)]
  <2>1. PICK size, count, W, C : size = OwnSize(tree) /\ count = OwnCount(tree) /\ W = Weight /\ C = Count
    OBVIOUS
  <2>2. \A e \in Dir : size[e] = W[Held(e)] /\ count[e] = C[Held(e)]
    BY <2>1, OwnTyped
  <2>3. W \in [SUBSET File -> Nat] /\ Additive(W) /\ C \in [SUBSET File -> Nat] /\ Additive(C)
    BY <2>1, Measures
  <2>4. size \in [Dir -> Nat] /\ count \in [Dir -> Nat]
    BY <2>1, OwnTyped
  <2>5. Totals(size)[d] = W[FilesIn(d)]
    BY <2>2, <2>3, <2>4, TotalsRight
  <2>6. Totals(count)[d] = C[FilesIn(d)]
    BY <2>2, <2>3, <2>4, TotalsRight
  <2> QED BY <2>1, <2>5, <2>6
<1>6. Weight[FilesIn(d)] = Sum(FilesIn(d), Size) /\ Count[FilesIn(d)] = Cardinality(FilesIn(d))
  BY <1>4, Measures
<1> QED BY <1>2, <1>3, <1>5, <1>6

-----------------------------------------------------------------------------
(* What the caches hold *)

TreeOnDisk == \E path \in DOMAIN Disk : tree \in Disk[path]

\* From the time the tree is built, what is in a cache is computed from it.
ResultInv ==
    /\ pc \in {"help", "parse", "parsed"} => os = <<>> /\ \A c \in Cache : cache[c] = None
    /\ pc \in {"run", "get"} => os = <<>>
    /\ pc \in {"run", "get", "launch", "print"} =>
          TreeOnDisk /\ \A c \in Cache : cache[c] \in {None, Computed(c)}
    /\ os # <<>> => TreeOnDisk /\ \A c \in Cache : cache[c] = Computed(c)

\* Before the scan the caches are empty.
LEMMA ResultInit == Init => ResultInv
BY DEF Init, ExecutorInit, ResultInv

\* The tree stays, and with it what is computed from it.
LEMMA ResultKept ==
    ASSUME ResultInv, UNCHANGED <<tree, os, cache>>,
           pc' \in {"help", "parse", "parsed"} => pc \in {"help", "parse", "parsed"},
           pc' \in {"run", "get"} => pc \in {"run", "get"},
           pc' \in {"launch", "print"} => pc \in {"run", "get", "launch", "print"}
    PROVE  ResultInv'
<1>1. TreeOnDisk' <=> TreeOnDisk
  BY DEF TreeOnDisk
<1>2. ASSUME NEW c \in Cache PROVE Computed(c)' = Computed(c)
  BY DEF Computed
<1> QED BY <1>1, <1>2 DEF ResultInv

\* Each of the Executor's steps computes from the tree that was scanned.
LEMMA ResultNext == LineInv /\ CacheInv /\ ResultInv /\ [Next]_vars => ResultInv'
<1> SUFFICES ASSUME LineInv, CacheInv, ResultInv, [Next]_vars PROVE ResultInv'
  OBVIOUS
<1>1. CASE ParseStep /\ UNCHANGED executor_vars
  <2>1. UNCHANGED <<tree, os, cache>>
    BY <1>1 DEF executor_vars, run_vars
  <2>2. pc = "parse" /\ pc' \in {"parse", "parsed"}
    BY <1>1 DEF ParseStep, UnknownOption, MissingValue, HandleFlag, ParseReturn, Parsing
  <2> QED BY <2>1, <2>2, ResultKept
<1>2. CASE Warn \/ NoActions \/ PrintHelp
  <2>1. UNCHANGED <<tree, os, cache>> /\ pc \in {"parsed", "help"}
        /\ pc' \in {"undefined", "help", "end"}
    BY <1>2 DEF Warn, NoActions, PrintHelp, executor_vars, run_vars
  <2> QED BY <2>1, ResultKept
<1>3. CASE BuildTree
  <2>1. UNCHANGED <<os, cache>> /\ pc = "parsed" /\ pc' = "run" /\ tree' \in Disk[args[1]]
    BY <1>3 DEF BuildTree, run_vars
  <2>2. args[1] \in DOMAIN Disk
    BY <2>1, LineFacts DEF LineInv
  <2>3. TreeOnDisk'
    BY <2>1, <2>2 DEF TreeOnDisk
  <2> QED BY <2>1, <2>3 DEF ResultInv
<1>4. CASE LaunchShared
  <2>1. UNCHANGED <<tree, os, cache>> /\ pc = "run" /\ pc' = "get"
    BY <1>4 DEF LaunchShared
  <2> QED BY <2>1, ResultKept
<1>5. CASE GetShared
  <2>1. PICK k \in 1 .. 3 : /\ cache' = [cache EXCEPT ![CacheOrder[k]] = Computed(CacheOrder[k])]
                            /\ pc' \in {"get", "launch"}
    BY <1>5, CacheFacts DEF GetShared, Awaited
  <2>2. pc = "get" /\ UNCHANGED <<tree, os>>
    BY <1>5 DEF GetShared
  <2>3. os' = <<>> /\ TreeOnDisk /\ (TreeOnDisk' <=> TreeOnDisk)
    BY <2>2 DEF ResultInv, TreeOnDisk
  <2>4. ASSUME NEW c \in Cache PROVE cache'[c] \in {None, Computed(c)'}
    <3>1. Computed(c)' = Computed(c)
      BY <2>2 DEF Computed
    <3>2. PICK x, result : x = CacheOrder[k] /\ result = Computed(x)
      OBVIOUS
    <3>3. cache' = [cache EXCEPT ![x] = result]
      BY <2>1, <3>2
    <3>4. cache'[c] = IF c = x THEN result ELSE cache[c]
      <4>1. c \in DOMAIN cache
        BY DEF CacheInv
      <4> QED BY <3>3, <4>1
    <3>5. cache[c] \in {None, Computed(c)}
      BY <2>2 DEF ResultInv
    <3> QED BY <3>1, <3>2, <3>4, <3>5
  <2> QED BY <2>1, <2>3, <2>4 DEF ResultInv
<1>6. CASE LaunchReport
  <2>1. pc = "launch" /\ pc' \in {"launch", "print"} /\ UNCHANGED <<tree, os, cache>>
    BY <1>6 DEF LaunchReport
  <2> QED BY <2>1, ResultKept
<1>7. CASE PrintReport
  <2>1. pc = "print" /\ pc' \in {"print", "end"} /\ UNCHANGED <<tree, cache>>
    BY <1>7 DEF PrintReport
  <2>2. TreeOnDisk' <=> TreeOnDisk
    BY <2>1 DEF TreeOnDisk
  <2>3. TreeOnDisk /\ \A c \in Cache : cache[c] = Computed(c)
    BY <2>1 DEF ResultInv, CacheInv
  <2>4. ASSUME NEW c \in Cache PROVE cache'[c] = Computed(c)'
    BY <2>1, <2>3 DEF Computed
  <2> QED BY <2>1, <2>2, <2>3, <2>4 DEF ResultInv
<1>8. CASE ThreadStep
  <2>1. UNCHANGED <<tree, os, cache>> /\ pc' \in {pc, "undefined"}
    <3>1. CASE \E c \in Cache : ComputeShared(c)
      BY <3>1 DEF ComputeShared
    <3>2. CASE \E a \in DOMAIN report : Report(a)
      <4>1. PICK a \in DOMAIN report : Report(a)
        BY <3>2
      <4>2. UNCHANGED os
        BY <4>1 DEF Report
      <4> QED BY <4>1, <4>2, ReportReads
    <3> QED BY <1>8, <3>1, <3>2 DEF ThreadStep
  <2> QED BY <2>1, ResultKept
<1>9. CASE UNCHANGED vars
  <2>1. UNCHANGED <<tree, os, cache, pc>>
    BY <1>9 DEF vars, executor_vars, run_vars
  <2> QED BY <2>1, ResultKept
<1> QED BY <1>1, <1>2, <1>3, <1>4, <1>5, <1>6, <1>7, <1>8, <1>9
        DEF Next, MainStep, RunStep, Ended

\* What is printed as the metrics is, for every tree, what the words mean.
THEOREM MetricsAlwaysRight == Spec => []MetricsRight
<1>1. ResultInv => MetricsRight
  <2> SUFFICES ASSUME ResultInv, os # <<>>, NEW d \in Dir
               PROVE  LET m == cache["metrics"]
                      IN  /\ m.depth[d] = Cardinality(PathUp[d]) - 1
                          /\ m.recursive_file_count[d] = Cardinality(FilesIn(d))
                          /\ m.recursive_size[d] = Sum(FilesIn(d), Size)
    BY DEF MetricsRight
  <2>1. IsTree(tree)
    BY DiskAssumption DEF ResultInv, TreeOnDisk
  <2>2. cache["metrics"] = compute_directory_metrics(tree)
    BY CacheFacts DEF ResultInv, Computed
  <2> QED BY <2>1, <2>2, MetricsOfTree
<1> QED BY <1>1, ParseInit, ParseNext, CacheInit, CacheNext, ResultInit, ResultNext, PTL DEF Spec

-----------------------------------------------------------------------------
(* Every report has a result *)

\* A finite set has an element with the greatest key, and one with the smallest.
LEMMA Extremes ==
    ASSUME NEW S, IsFiniteSet(S), S # {}, NEW key, \A x \in S : key[x] \in Int
    PROVE  /\ \E x \in S : \A y \in S : key[y] <= key[x]
           /\ \E x \in S : \A y \in S : key[x] <= key[y]
<1> DEFINE Ends(T) == /\ \E x \in T : \A y \in T : key[y] <= key[x]
                      /\ \E x \in T : \A y \in T : key[x] <= key[y]
<1>1. PICK Bad : Bad = {T \in SUBSET S : T # {} /\ ~Ends(T)}
  OBVIOUS
<1>2. SUFFICES ASSUME Bad # {} PROVE FALSE
  BY <1>1
<1>3. \A T \in Bad : IsFiniteSet(T)
  BY <1>1, FS_Subset
<1>4. PICK T \in Bad : \A R \in Bad : Cardinality(T) <= Cardinality(R)
  BY <1>2, <1>3, Smallest
<1>5. T \in SUBSET S /\ T # {} /\ ~Ends(T) /\ IsFiniteSet(T)
  BY <1>1, <1>3
<1>6. PICK z \in T : TRUE
  BY <1>5
<1>7. PICK R : R = T \ {z}
  OBVIOUS
<1>8. CASE R = {}
  <2>1. \A y \in T : y = z
    BY <1>7, <1>8
  <2> QED BY <1>5, <1>6, <2>1
<1>9. CASE R # {}
  <2>1. Cardinality(R) = Cardinality(T) - 1 /\ Cardinality(T) \in Nat
    BY <1>5, <1>7, FS_RemoveElement, FS_CardinalityType
  <2>2. R \in SUBSET S /\ R \notin Bad
    BY <1>4, <1>5, <1>7, <2>1
  <2>3. Ends(R)
    BY <1>1, <1>9, <2>2
  <2>4. PICK x1 \in R : \A y \in R : key[y] <= key[x1]
    BY <2>3
  <2>5. PICK x2 \in R : \A y \in R : key[x2] <= key[y]
    BY <2>3
  <2>6. T = R \cup {z} /\ \A y \in T : key[y] \in Int
    BY <1>5, <1>7
  <2>7. \E x \in T : \A y \in T : key[y] <= key[x]
    <3>1. CASE key[z] <= key[x1]
      BY <2>4, <2>6, <3>1
    <3>2. CASE ~(key[z] <= key[x1])
      <4>1. \A y \in T : key[y] <= key[z]
        BY <2>4, <2>6, <3>2
      <4> QED BY <4>1
    <3> QED BY <3>1, <3>2
  <2>8. \E x \in T : \A y \in T : key[x] <= key[y]
    <3>1. CASE key[x2] <= key[z]
      BY <2>5, <2>6, <3>1
    <3>2. CASE ~(key[x2] <= key[z])
      <4>1. \A y \in T : key[z] <= key[y]
        BY <2>5, <2>6, <3>2
      <4> QED BY <4>1
    <3> QED BY <3>1, <3>2
  <2> QED BY <1>5, <2>7, <2>8
<1> QED BY <1>8, <1>9

\* A finite set can be sorted.
Falls(s, key) == \A k \in 1 .. Len(s) - 1 : key[s[k]] >= key[s[k + 1]]

\* A smallest set that could not be sorted has a greatest element to put first.
LEMMA Sortable ==
    ASSUME NEW S, IsFiniteSet(S), NEW key, \A x \in S : key[x] \in Int
    PROVE  \E s \in SetToSeqs(S) : Falls(s, key)
<1>1. PICK Bad : Bad = {T \in SUBSET S : ~ \E s \in SetToSeqs(T) : Falls(s, key)}
  OBVIOUS
<1>2. SUFFICES ASSUME Bad # {} PROVE FALSE
  BY <1>1
<1>3. \A T \in Bad : IsFiniteSet(T)
  BY <1>1, FS_Subset
<1>4. PICK T \in Bad : \A R \in Bad : Cardinality(T) <= Cardinality(R)
  BY <1>2, <1>3, Smallest
<1>5. /\ T \in SUBSET S /\ IsFiniteSet(T) /\ ~ \E s \in SetToSeqs(T) : Falls(s, key)
      /\ Cardinality(T) \in Nat
  BY <1>1, <1>3, FS_CardinalityType
<1>6. CASE T = {}
  <2>1. Cardinality(T) = 0
    BY <1>6, FS_EmptySet
  <2>2. <<>> \in SetToSeqs(T)
    BY <2>1 DEF SetToSeqs
  <2>3. Falls(<<>>, key)
    BY DEF Falls
  <2> QED BY <1>5, <2>2, <2>3
<1>7. CASE T # {}
  <2>1. PICK z \in T : \A y \in T : key[z] <= key[y]
    BY <1>5, <1>7, Extremes
  <2>2. PICK R, n : R = T \ {z} /\ n = Cardinality(R)
    OBVIOUS
  <2>3. /\ n = Cardinality(T) - 1 /\ n \in Nat /\ Cardinality(T) = n + 1
        /\ R \in SUBSET S /\ IsFiniteSet(R)
    <3>1. IsFiniteSet(T \ {z}) /\ Cardinality(T \ {z}) = Cardinality(T) - 1
      BY <1>5, FS_RemoveElement
    <3>2. n \in Nat
      BY <2>2, <3>1, FS_CardinalityType
    <3> QED BY <1>5, <2>2, <3>1, <3>2
  <2>4. R \notin Bad
    <3>1. ~(Cardinality(T) <= Cardinality(R))
      BY <1>5, <2>2, <2>3
    <3> QED BY <1>4, <3>1
  <2>5. PICK s \in SetToSeqs(R) : Falls(s, key)
    BY <1>1, <2>3, <2>4
  <2>6. s \in [1 .. n -> R] /\ \A p, q \in 1 .. n : p # q => s[p] # s[q]
    BY <2>2, <2>5 DEF SetToSeqs
  <2>7. s \in Seq(R) /\ Len(s) = n
    BY <2>3, <2>6
  <2>8. PICK t : t = [p \in 1 .. n + 1 |-> IF p = n + 1 THEN z ELSE s[p]]
    OBVIOUS
  <2>9. \A p \in 1 .. n + 1 : p # n + 1 => p \in 1 .. n
    BY <2>3
  <2>10. t \in [1 .. n + 1 -> T]
    <3>1. \A p \in 1 .. n : s[p] \in T
      BY <2>2, <2>6
    <3> QED BY <2>8, <2>9, <3>1
  <2>11. ASSUME NEW p \in 1 .. n + 1, NEW q \in 1 .. n + 1, p # q PROVE t[p] # t[q]
    <3>1. \A r \in 1 .. n : s[r] # z
      BY <2>2, <2>6
    <3> QED BY <2>6, <2>8, <2>9, <2>11, <3>1
  <2>12. t \in SetToSeqs(T)
    BY <2>3, <2>10, <2>11 DEF SetToSeqs
  <2>13. Len(t) = n + 1
    BY <2>3, <2>10
  <2>14. ASSUME NEW k \in 1 .. n PROVE key[t[k]] >= key[t[k + 1]]
    <3>1. k \in 1 .. n + 1 /\ k + 1 \in 1 .. n + 1 /\ k # n + 1 /\ t[k] = s[k] /\ s[k] \in T
      <4>1. k \in 1 .. n + 1 /\ k + 1 \in 1 .. n + 1 /\ k # n + 1
        BY <2>3
      <4>2. s[k] \in R
        BY <2>6
      <4> QED BY <2>2, <2>8, <4>1, <4>2
    <3>2. CASE k = n
      <4>1. t[k + 1] = z
        BY <2>8, <3>1, <3>2
      <4> QED BY <1>5, <2>1, <3>1, <4>1
    <3>3. CASE k # n
      <4>1. k \in 1 .. Len(s) - 1 /\ k + 1 # n + 1
        <5>1. n \in Nat /\ k \in Nat /\ 1 <= k /\ k <= n /\ Len(s) = n
          <6>1. k \in Nat /\ 1 <= k /\ k <= n
            OBVIOUS
          <6> QED BY <2>3, <2>7, <6>1
        <5> QED BY <3>3, <5>1
      <4>2. t[k + 1] = s[k + 1]
        BY <2>8, <3>1, <4>1
      <4>3. key[s[k]] >= key[s[k + 1]]
        BY <2>5, <4>1 DEF Falls
      <4> QED BY <3>1, <4>2, <4>3
    <3> QED BY <3>2, <3>3
  <2>15. Falls(t, key)
    <3>1. 1 .. Len(t) - 1 = 1 .. n
      BY <2>3, <2>13
    <3> QED BY <2>14, <3>1 DEF Falls
  <2> QED BY <1>5, <2>12, <2>15
<1> QED BY <1>6, <1>7

\* So max_element finds the first of the greatest, ...
LEMMA FirstGreatestFound ==
    ASSUME NEW f, IsFiniteSet(DOMAIN f), DOMAIN f # {}, DOMAIN f \in SUBSET Nat,
           \A x \in DOMAIN f : f[x] \in Int
    PROVE  FirstGreatest(f) # {}
<1>1. PICK D : D = DOMAIN f
  OBVIOUS
<1>2. PICK x \in D : \A y \in D : f[y] <= f[x]
  BY <1>1, Extremes
<1>3. PICK best : best = {k \in D : f[k] = f[x]}
  OBVIOUS
<1>4. best \in SUBSET Nat /\ best # {}
  BY <1>1, <1>2, <1>3
<1>5. PICK k \in best : \A j \in best : k <= j
  BY <1>4, LeastNumber
<1>6. k \in D /\ f[k] = f[x]
  BY <1>3
<1>7. ASSUME NEW j \in D PROVE f[j] <= f[k] /\ (j < k => f[j] < f[k])
  <2>1. f[j] <= f[k] /\ f[j] \in Int /\ f[k] \in Int
    BY <1>1, <1>2, <1>6
  <2>2. ASSUME j < k PROVE f[j] # f[k]
    <3>1. j \notin best
      BY <1>1, <1>4, <1>5, <2>2
    <3> QED BY <1>3, <1>6, <3>1
  <2> QED BY <2>1, <2>2
<1>8. k \in FirstGreatest(f)
  BY <1>1, <1>6, <1>7 DEF FirstGreatest
<1> QED BY <1>8

\* ... the files can be sorted by size and by time, the directories by size and
\* the extensions by theirs, ...
LEMMA FilesSort ==
    ASSUME IsTree(tree), NEW S \in SUBSET File
    PROVE  /\ Descending(S, LAMBDA f : tree.files[f].size) # {}
           /\ Descending(S, LAMBDA f : tree.files[f].modified) # {}
<1>1. IsFiniteSet(S)
  BY TreeFacts, FS_Subset
<1>2. PICK size, time : size = [f \in File |-> tree.files[f].size]
                        /\ time = [f \in File |-> tree.files[f].modified]
  OBVIOUS
<1>3. \A f \in S : size[f] \in Int /\ time[f] \in Int
  BY <1>2 DEF IsTree, File
<1>4. \A s \in SetToSeqs(S) : \A k \in 1 .. Len(s) - 1 : s[k] \in File /\ s[k + 1] \in File
  <2>1. ASSUME NEW s \in SetToSeqs(S), NEW k \in 1 .. Len(s) - 1
        PROVE  s[k] \in File /\ s[k + 1] \in File
    <3>1. s \in Seq(S)
      BY <1>1, Enumerated
    <3>2. k \in 1 .. Len(s) /\ k + 1 \in 1 .. Len(s)
      BY <3>1
    <3> QED BY <3>1, <3>2
  <2> QED BY <2>1
<1>5. PICK s \in SetToSeqs(S) : Falls(s, size)
  BY <1>1, <1>3, Sortable
<1>6. PICK t \in SetToSeqs(S) : Falls(t, time)
  BY <1>1, <1>3, Sortable
<1>7. s \in Descending(S, LAMBDA f : tree.files[f].size)
  BY <1>2, <1>4, <1>5 DEF Falls, Descending
<1>8. t \in Descending(S, LAMBDA f : tree.files[f].modified)
  BY <1>2, <1>4, <1>6 DEF Falls, Descending
<1> QED BY <1>7, <1>8

\* What the passes give is numbers.
LEMMA MetricsTyped ==
    ASSUME IsTree(tree)
    PROVE  LET m == compute_directory_metrics(tree)
           IN  /\ m.depth \in [Dir -> Nat]
               /\ m.recursive_size \in [Dir -> Nat]
               /\ m.recursive_file_count \in [Dir -> Nat]
<1>1. CASE tree.root = None
  <2>1. Zero(tree) \in [Dir -> Nat]
    BY DEF Zero, Dir
  <2> QED BY <1>1, <2>1 DEF compute_directory_metrics
<1>2. CASE tree.root # None
  <2>1. compute_directory_metrics(tree)
            = [depth |-> Depths, recursive_size |-> Totals(OwnSize(tree)),
               recursive_file_count |-> Totals(OwnCount(tree))]
    BY <1>2 DEF compute_directory_metrics, Depths, Totals
  <2>2. PICK n : n = Cardinality(Dir)
    OBVIOUS
  <2>3. n \in 0 .. n
    BY <2>2, TreeFacts
  <2>4. Depths \in [Dir -> Nat]
    BY <2>2, <2>3, DepthSteps
  <2>5. \A own \in [Dir -> Nat] : Totals(own) \in [Dir -> Nat]
    BY <2>2, <2>3, TotalSteps
  <2>6. OwnSize(tree) \in [Dir -> Nat] /\ OwnCount(tree) \in [Dir -> Nat]
    BY OwnTyped
  <2> QED BY <2>1, <2>4, <2>5, <2>6
<1> QED BY <1>1, <1>2

\* The largest directories: those listed are a sorted choice, and there is one.
LEMMA LargestDirsFound ==
    ASSUME IsTree(tree), NEW n
    PROVE  compute_largest_N_Directories(tree, compute_directory_metrics(tree), n) # {}
<1>1. PICK m, others : /\ m = compute_directory_metrics(tree)
                       /\ others = Cardinality(DOMAIN tree.directories) - 1
  OBVIOUS
<1>2. CASE NoOthers(tree)
  BY <1>2 DEF compute_largest_N_Directories
<1>3. CASE ~NoOthers(tree)
  <2>1. others \in Nat /\ others >= 0 /\ Dir = 0 .. others
    <3>1. Cardinality(Dir) \in Nat /\ Dir = 0 .. Cardinality(Dir) - 1 /\ ~(Cardinality(Dir) <= 1)
      BY <1>3, TreeFacts DEF NoOthers, Dir
    <3>2. others = Cardinality(Dir) - 1
      BY <1>1 DEF Dir
    <3> QED BY <3>1, <3>2
  <2>2. PICK key : key = m.recursive_size
    OBVIOUS
  <2>3. IsFiniteSet(1 .. others) /\ \A d \in 1 .. others : key[d] \in Int
    <3>1. key \in [Dir -> Nat]
      BY <1>1, <2>2, MetricsTyped
    <3>2. \A d \in 1 .. others : d \in Dir
      BY <2>1
    <3>3. IsFiniteSet(1 .. others)
      BY <2>1, FS_Interval
    <3> QED BY <3>1, <3>2, <3>3
  <2>4. PICK D : D = 1 .. others
    OBVIOUS
  <2>5. PICK s \in SetToSeqs(D) : Falls(s, key)
    BY <2>3, <2>4, Sortable
  <2>6. s \in Descending(1 .. others, LAMBDA d : m.recursive_size[d])
    BY <2>2, <2>4, <2>5 DEF Falls, Descending
  <2>7. s \in {x \in Descending(1 .. others, LAMBDA d : m.recursive_size[d]) : others >= 0}
    BY <2>1, <2>6
  <2>8. SubSeq(s, 1, IF n < others THEN n ELSE others)
            \in compute_largest_N_Directories(tree, m, n)
    BY <1>1, <1>3, <2>7 DEF compute_largest_N_Directories
  <2> QED BY <1>1, <2>8
<1> QED BY <1>2, <1>3

\* The extensions: their rows are finitely many and can be sorted.
LEMMA ExtensionsFound ==
    ASSUME IsTree(tree)
    PROVE  compute_extension_stats(tree) # {}
<1> DEFINE Ext(f)  == Lower[tree.files[f].extension]
           With(x) == {f \in File : Ext(f) = x}
           Row(x)  == [extension |-> x, count |-> Cardinality(With(x)),
                       total_size |-> Sum(With(x), LAMBDA f : tree.files[f].size)]
           Rows    == {Row(x) : x \in {Ext(f) : f \in File}}
<1>1. IsFiniteSet(Rows)
  <2>1. PICK h : h = [f \in File |-> Row(Ext(f))]
    OBVIOUS
  <2>2. h \in Surjection(File, Rows)
    <3>1. h \in [File -> Rows]
      BY <2>1
    <3>2. \A r \in Rows : \E f \in File : h[f] = r
      BY <2>1
    <3> HIDE DEF Rows
    <3> QED BY <3>1, <3>2 DEF Surjection
  <2> HIDE DEF Rows
  <2> QED BY <2>2, TreeFacts, FS_Surjection
<1>2. PICK key : key = [r \in Rows |-> r.total_size]
  OBVIOUS
<1>3. \A r \in Rows : key[r] \in Int
  <2>1. ASSUME NEW x PROVE Row(x).total_size \in Nat
    <3>1. With(x) \in SUBSET File
      OBVIOUS
    <3>2. PICK W : W = With(x)
      OBVIOUS
    <3>3. Weight[W] \in Nat /\ Weight[W] = Sum(W, LAMBDA f : tree.files[f].size)
      BY <3>1, <3>2, Measures
    <3> QED BY <3>2, <3>3
  <2>2. ASSUME NEW r \in Rows PROVE r.total_size \in Nat
    <3>1. PICK x : r = Row(x)
      OBVIOUS
    <3> HIDE DEF Row, Rows
    <3> QED BY <2>1, <3>1
  <2> HIDE DEF Row, Rows
  <2> QED BY <1>2, <2>2
<1>4. PICK D : D = Rows
  OBVIOUS
<1>5. PICK s \in SetToSeqs(D) : Falls(s, key)
  BY <1>1, <1>3, <1>4, Sortable
<1>6. \A k \in 1 .. Len(s) - 1 : s[k] \in D /\ s[k + 1] \in D
  <2>1. ASSUME NEW k \in 1 .. Len(s) - 1 PROVE s[k] \in D /\ s[k + 1] \in D
    <3>1. s \in Seq(D)
      BY <1>1, <1>4, Enumerated
    <3>2. k \in 1 .. Len(s) /\ k + 1 \in 1 .. Len(s)
      BY <3>1
    <3> QED BY <3>1, <3>2
  <2> QED BY <2>1
<1>7. \A k \in 1 .. Len(s) - 1 : s[k].total_size >= s[k + 1].total_size
  BY <1>2, <1>4, <1>5, <1>6 DEF Falls
<1>8. s \in Descending(D, LAMBDA r : r.total_size)
  BY <1>7 DEF Descending
<1>9. compute_extension_stats(tree) = Descending(Rows, LAMBDA r : r.total_size)
  BY DEF compute_extension_stats, File
<1> QED BY <1>4, <1>8, <1>9

\* The heaps of compute_largest_N_Files after the next file, and all heaps it can have.
Pushed(n, heap, id) == LET full == heap \cup {id}
                       IN  IF Cardinality(full) <= n THEN {full}
                           ELSE {full \ {f} : f \in Top(tree, full)}
PushedAll(n, heaps, id) == UNION {Pushed(n, heap, id) : heap \in heaps}
Heaps == {heaps \in SUBSET (SUBSET File) : heaps # {}}

\* ... and the heap of the largest files is never without a file to take off.
LEMMA HeapSteps ==
    ASSUME IsTree(tree), NEW n, NEW last, last = Cardinality(File)
    PROVE  \E g \in [0 .. last -> Heaps] :
               /\ g[0] = {{}} /\ \A k \in 1 .. last : g[k] = PushedAll(n, g[k - 1], k - 1)
               /\ compute_largest_N_Files(tree, n)
                      = UNION {Descending(h, LAMBDA x : tree.files[x].size) : h \in g[last]}
<1> DEFINE After(heap, id) == LET full == heap \cup {id}
                              IN  IF Cardinality(full) <= n THEN {full}
                                  ELSE {full \ {f} : f \in Top(tree, full)}
           Push(heaps, id) == UNION {After(heap, id) : heap \in heaps}
<1>1. PICK V, c, ids : /\ V = Heaps
                       /\ c = Cardinality(File) /\ ids = InOrder(tree.files)
  OBVIOUS
<1>2. c \in Nat /\ File = 0 .. c - 1 /\ {{}} \in V
  <2>1. {{}} \in SUBSET (SUBSET File) /\ {{}} # {}
    OBVIOUS
  <2> QED BY <1>1, <2>1, TreeFacts DEF Heaps
<1>3. DOMAIN ids = 1 .. c /\ \A k \in 1 .. c : ids[k] = k - 1
  BY <1>1 DEF InOrder, File
<1>4. ASSUME NEW heaps \in V, NEW id \in File PROVE Push(heaps, id) \in V
  <2>1. heaps \in SUBSET (SUBSET File) /\ heaps # {}
    BY <1>1 DEF Heaps
  <2>2. ASSUME NEW heap \in heaps, NEW full, full = heap \cup {id}
        PROVE  /\ full \in SUBSET File
               /\ Top(tree, full) # {}
               /\ {full \ {f} : f \in Top(tree, full)} \in SUBSET (SUBSET File)
    <3>1. full \in SUBSET File /\ full # {}
      BY <2>1, <2>2
    <3>2. IsFiniteSet(full)
      BY <3>1, TreeFacts, FS_Subset
    <3>3. PICK key : key = [f \in File |-> tree.files[f].size]
      OBVIOUS
    <3>4. \A f \in full : key[f] = tree.files[f].size /\ key[f] \in Int
      BY <3>1, <3>3 DEF IsTree, File
    <3>5. PICK f \in full : \A g \in full : key[f] <= key[g]
      BY <3>1, <3>2, <3>4, Extremes
    <3>6. f \in Top(tree, full)
      BY <3>4, <3>5 DEF Top
    <3> QED BY <3>1, <3>6
  <2>3. ASSUME NEW heap \in heaps
        PROVE  After(heap, id) \in SUBSET (SUBSET File) /\ After(heap, id) # {}
    <3>1. PICK full : full = heap \cup {id}
      OBVIOUS
    <3>2. PICK rest : rest = {full \ {f} : f \in Top(tree, full)}
      OBVIOUS
    <3>3. After(heap, id) = IF Cardinality(full) <= n THEN {full} ELSE rest
      BY <3>1, <3>2
    <3>4. /\ full \in SUBSET File /\ Top(tree, full) # {}
          /\ {full \ {f} : f \in Top(tree, full)} \in SUBSET (SUBSET File)
      BY <2>2, <3>1
    <3>5. rest # {}
      BY <3>2, <3>4
    <3>6. rest \in SUBSET (SUBSET File) /\ {full} \in SUBSET (SUBSET File) /\ {full} # {}
      BY <3>2, <3>4
    <3> HIDE DEF After
    <3> QED BY <3>3, <3>5, <3>6
  <2>4. PICK heap \in heaps : TRUE
    BY <2>1
  <2> HIDE DEF After
  <2>5. Push(heaps, id) \in SUBSET (SUBSET File)
    BY <2>3
  <2>6. Push(heaps, id) # {}
    <3>1. After(heap, id) \subseteq Push(heaps, id)
      OBVIOUS
    <3> QED BY <2>3, <3>1
  <2> QED BY <1>1, <2>5, <2>6 DEF Heaps
<1>5. PICK H : H = [k \in 1 .. c |-> [v \in V |-> Push(v, k - 1)]]
  OBVIOUS
<1>6. \A k \in 1 .. c : k - 1 \in File
  BY <1>2
<1> HIDE DEF Push
<1>7. H \in [1 .. c -> [V -> V]]
  BY <1>4, <1>5, <1>6
<1>8. PICK f \in [SUBSET (1 .. c) -> V], g \in [0 .. c -> V] : Marches(f, g, c, {{}}, H)
  BY <1>2, <1>7, LeftFold
<1> DEFINE Is(iter) == iter = [s \in SUBSET DOMAIN ids |->
                                  IF s = {} THEN {{}}
                                  ELSE LET x == Max(s) IN Push(iter[s \ {x}], ids[x])]
           It == CHOOSE iter : Is(iter)
<1>9. FoldLeft(Push, {{}}, InOrder(tree.files)) = It[DOMAIN ids]
  BY <1>1 DEF FoldLeft, MapThenFoldSet
<1>10. ASSUME NEW s \in SUBSET (1 .. c)
       PROVE  f[s] = IF s = {} THEN {{}} ELSE Push(f[s \ {Max(s)}], ids[Max(s)])
  <2>1. f[s] = IF s = {} THEN {{}} ELSE H[Max(s)][f[s \ {Max(s)}]]
    BY <1>8 DEF Marches
  <2>2. ASSUME s # {} PROVE Max(s) \in 1 .. c
    BY <1>2, <2>2, LastDrawn DEF Drawing, LastFirst
  <2>3. f[s \ {Max(s)}] \in V
    BY <1>8
  <2> QED BY <1>3, <1>5, <2>1, <2>2, <2>3
<1>11. Is(f)
  BY <1>3, <1>8, <1>10
<1>12. PICK it : it = It
  OBVIOUS
<1>13. Is(it)
  <2> HIDE DEF Is
  <2> QED BY <1>11, <1>12
<1>14. f[{}] = it[{}]
  BY <1>10, <1>13
<1>15. ASSUME NEW s \in SUBSET (1 .. c), s # {}, f[s \ {Max(s)}] = it[s \ {Max(s)}]
       PROVE  f[s] = it[s]
  <2>1. it[s] = Push(it[s \ {Max(s)}], ids[Max(s)])
    BY <1>3, <1>13, <1>15
  <2> QED BY <1>10, <1>15, <2>1
<1>16. f[1 .. c] = it[1 .. c]
  BY <1>2, <1>14, <1>15, SameMarch
<1>17. PICK all : all = FoldLeft(Push, {{}}, InOrder(tree.files))
  OBVIOUS
<1>18. all = g[c]
  BY <1>3, <1>8, <1>9, <1>12, <1>16, <1>17 DEF Marches
<1>19. ASSUME NEW k \in 1 .. c PROVE g[k] = PushedAll(n, g[k - 1], k - 1)
  <2>1. g[k] = H[k][g[k - 1]]
    BY <1>8 DEF Marches
  <2>2. g[k - 1] \in V
    BY <1>2, <1>8
  <2>3. g[k] = Push(g[k - 1], k - 1)
    BY <1>5, <2>1, <2>2
  <2> QED BY <2>3 DEF Push, After, PushedAll, Pushed
<1>20. g[0] = {{}}
  BY <1>8 DEF Marches
<1>21. compute_largest_N_Files(tree, n)
           = UNION {Descending(h, LAMBDA x : tree.files[x].size) : h \in all}
  BY <1>17, Zenon DEF compute_largest_N_Files, Push, After
<1> QED BY <1>1, <1>8, <1>18, <1>19, <1>20, <1>21

\* So there is a heap to be put in order.
LEMMA LargestFilesFound ==
    ASSUME IsTree(tree), NEW n
    PROVE  compute_largest_N_Files(tree, n) # {}
<1>1. PICK c : c = Cardinality(File)
  OBVIOUS
<1>2. PICK g \in [0 .. c -> Heaps] :
          compute_largest_N_Files(tree, n)
              = UNION {Descending(h, LAMBDA x : tree.files[x].size) : h \in g[c]}
  BY <1>1, HeapSteps
<1>3. c \in 0 .. c
  BY <1>1, TreeFacts
<1>4. PICK heap \in g[c] : heap \in SUBSET File
  BY <1>2, <1>3 DEF Heaps
<1>5. PICK D : D = Descending(heap, LAMBDA x : tree.files[x].size)
  OBVIOUS
<1>6. D # {} /\ D \subseteq compute_largest_N_Files(tree, n)
  BY <1>2, <1>4, <1>5, FilesSort
<1> QED BY <1>6

\* The reports that look up a directory find one, if there is a root.
LEMMA DeepestFound ==
    ASSUME IsTree(tree), tree.root # None
    PROVE  FirstGreatest(compute_directory_metrics(tree).depth) # {}
<1>1. PICK f : f = compute_directory_metrics(tree).depth
  OBVIOUS
<1>2. f \in [Dir -> Nat]
  BY <1>1, MetricsTyped
<1>3. IsFiniteSet(Dir) /\ Dir # {} /\ Dir \in SUBSET Nat
  BY TreeFacts
<1>4. IsFiniteSet(DOMAIN f) /\ DOMAIN f # {} /\ DOMAIN f \in SUBSET Nat /\ \A x \in DOMAIN f : f[x] \in Int
  BY <1>2, <1>3
<1>5. FirstGreatest(f) # {}
  BY <1>4, FirstGreatestFound
<1> QED BY <1>1, <1>5

\* The summary: a tree with a root has a deepest directory to name.
LEMMA SummaryFound ==
    ASSUME IsTree(tree), tree.root # None, NEW empty_dir, NEW fs
    PROVE  compute_summary(tree, compute_directory_metrics(tree), empty_dir, fs) # {}
BY DeepestFound DEF compute_summary

\* The directory statistics: a tree with a root has directories to name.
LEMMA StatsFound ==
    ASSUME IsTree(tree), tree.root # None
    PROVE  print_directory_stats(compute_directory_stats(tree, compute_directory_metrics(tree)), tree) # {}
<1>1. PICK m : m = compute_directory_metrics(tree)
  OBVIOUS
<1>2. FirstGreatest(m.depth) # {} /\ FirstGreatest(m.depth) \subseteq Dir
  <2>1. DOMAIN m.depth = Dir
    BY <1>1, MetricsTyped
  <2> QED BY <1>1, <2>1, DeepestFound DEF FirstGreatest
<1> DEFINE others == DOMAIN tree.directories \ {tree.root}
           Over(f) == [d \in {d \in others : f[d] > 0} |-> f[d]]
           Most(f) == LET best == FirstGreatest(Over(f))
                      IN  IF best = {} THEN [dir |-> 0, value |-> 0]
                          ELSE LET d == CHOOSE d \in best : TRUE IN [dir |-> d, value |-> f[d]]
<1>3. 0 \in Dir
  BY TreeFacts
<1>4. ASSUME NEW f PROVE Most(f).dir \in Dir
  <2>1. FirstGreatest(Over(f)) \subseteq Dir
    BY DEF FirstGreatest, Dir
  <2> QED BY <1>3, <2>1
<1>5. PICK stats : stats = compute_directory_stats(tree, m)
  OBVIOUS
<1>6. /\ stats.max_depth_dir = CHOOSE d \in FirstGreatest(m.depth) : TRUE
      /\ stats.max_files_count_dir = Most(m.recursive_file_count).dir
      /\ stats.max_files_size_dir = Most(m.recursive_size).dir
  BY <1>2, <1>5 DEF compute_directory_stats
<1>7. {stats.max_depth_dir, stats.max_files_count_dir, stats.max_files_size_dir} \subseteq Dir
  <2> HIDE DEF Most
  <2> QED BY <1>2, <1>4, <1>6
<1>8. stats \in print_directory_stats(stats, tree)
  BY <1>7 DEF print_directory_stats, Dir
<1> QED BY <1>1, <1>5, <1>8

Kinds == {"Summary", "Extensions", "EmptyDirs", "Symlinks", "Errors", "Metrics", "Stats", "Duplicate",
          "LargestFiles", "LargestDirs", "Recent"}

\* A flag asks for one of the eleven reports.
LEMMA KindsKnown == \A x \in Asking : x.kind \in Kinds
<1>1. \A f \in FlagSpecs : f.kind \in Kinds
  BY DEF FlagSpecs, Flag, Kinds
<1>2. ASSUME NEW t \in DOMAIN flag_table PROVE flag_table[t].kind \in Kinds
  <2>1. flag_table[t] \in FlagSpecs
    BY DEF flag_table
  <2> QED BY <1>1, <2>1
<1> QED BY <1>2 DEF Asking, Plain, Valued

\* Every action has a report that is defined, save the two that are about the
\* directories of a tree without any.
LEMMA ReportsFound ==
    ASSUME IsTree(tree), NEW action, action.kind \in Kinds,
           NEW c, c["metrics"] = compute_directory_metrics(tree),
           tree.root # None \/ action.kind \notin {"Summary", "Stats"}
    PROVE  Reports(action, c) # {}
<1>1. PICK kind, n : kind = action.kind /\ n = action.amount
  OBVIOUS
<1>2. CASE kind = "Summary"
  <2>1. Reports(action, c)
            = compute_summary(tree, c["metrics"], Len(c["empty_dirs"]), c["file_stats"])
    BY <1>1, <1>2 DEF Reports
  <2>2. PICK x, y : x = Len(c["empty_dirs"]) /\ y = c["file_stats"]
    OBVIOUS
  <2>3. compute_summary(tree, compute_directory_metrics(tree), x, y) # {}
    BY <1>1, <1>2, SummaryFound
  <2> QED BY <2>1, <2>2, <2>3
<1>3. CASE kind = "Extensions"
  BY <1>1, <1>3, ExtensionsFound DEF Reports
<1>4. CASE kind \in {"EmptyDirs", "Symlinks", "Errors", "Metrics"}
  BY <1>1, <1>4 DEF Reports
<1>5. CASE kind = "LargestFiles"
  <2>1. Reports(action, c) = compute_largest_N_Files(tree, n)
    BY <1>1, <1>5 DEF Reports
  <2> QED BY <2>1, LargestFilesFound
<1>6. CASE kind = "LargestDirs"
  <2>1. Reports(action, c) = compute_largest_N_Directories(tree, c["metrics"], n)
    BY <1>1, <1>6 DEF Reports
  <2> QED BY <2>1, LargestDirsFound
<1>7. CASE kind = "Recent"
  <2>1. Reports(action, c) = {print_recent_files(ids, tree, Now) : ids \in compute_recent_files(tree, n)}
    BY <1>1, <1>7 DEF Reports
  <2>2. PICK S : S = {f \in File : tree.files[f].modified >= Now - n}
    OBVIOUS
  <2>3. compute_recent_files(tree, n) = Descending(S, LAMBDA f : tree.files[f].modified)
    BY <2>2 DEF compute_recent_files, File
  <2>4. Descending(S, LAMBDA f : tree.files[f].modified) # {}
    <3>1. S \in SUBSET File
      BY <2>2
    <3> QED BY <3>1, FilesSort
  <2>5. compute_recent_files(tree, n) # {}
    BY <2>3, <2>4
  <2> QED BY <2>1, <2>5
<1>8. CASE kind = "Stats"
  <2>1. Reports(action, c) = print_directory_stats(compute_directory_stats(tree, c["metrics"]), tree)
    BY <1>1, <1>8 DEF Reports
  <2> QED BY <1>1, <1>8, <2>1, StatsFound
<1>9. CASE kind = "Duplicate"
  <2>1. Reports(action, c) = {Footer(groups) : groups \in GroupsFound}
    BY <1>1, <1>9 DEF Reports
  <2>2. {} \in GroupsFound
    BY DEF GroupsFound
  <2> QED BY <2>1, <2>2
<1> QED BY <1>1, <1>2, <1>3, <1>4, <1>5, <1>6, <1>7, <1>8, <1>9 DEF Kinds

-----------------------------------------------------------------------------
(* Undefined behaviour *)

\* The reports launched are those of the first actions.
AskedInv ==
    /\ actions \in Seq(Asking)
    /\ launched \in Nat /\ launched <= Len(actions)
    /\ pc \in {"help", "parse", "parsed", "run", "get"} => launched = 0
    /\ \E S : report \in Seq(S)
    /\ Len(report) = launched
    /\ UndefinedOnlyWithoutTree

\* At first no report is asked for.
LEMMA AskedInit == Init => AskedInv
<1> SUFFICES ASSUME Init PROVE AskedInv
  OBVIOUS
<1>1. /\ actions = <<>> /\ launched = 0 /\ report = <<>> /\ pc \in {"help", "parse"}
  BY DEF Init, ParserInit, ExecutorInit
<1>2. actions \in Seq(Asking) /\ report \in Seq({}) /\ Len(actions) = 0 /\ Len(report) = 0
  BY <1>1, EmptySeq
<1>3. UndefinedOnlyWithoutTree
  BY <1>1 DEF UndefinedOnlyWithoutTree
<1>4. \E S : report \in Seq(S)
  BY <1>2
<1> QED BY <1>1, <1>2, <1>3, <1>4 DEF AskedInv

\* A step that leaves the actions, the tree and the reports keeps it.
LEMMA AskedKept ==
    ASSUME AskedInv, UNCHANGED <<actions, errors, tree, launched, report>>,
           pc' = "undefined" => pc = "undefined",
           pc' \in {"help", "parse", "parsed", "run", "get"} => pc \in {"help", "parse", "parsed", "run", "get"}
    PROVE  AskedInv'
<1>1. Asked' = Asked
  BY DEF Asked
<1>2. UndefinedOnlyWithoutTree'
  BY <1>1 DEF AskedInv, UndefinedOnlyWithoutTree
<1> QED BY <1>2 DEF AskedInv

\* The thread of an action, which has a report or is one of the two.
LEMMA ReportAsked ==
    ASSUME AskedInv, CacheInv, ResultInv, NEW a, Report(a)
    PROVE  AskedInv'
<1>1. /\ pc \in {"launch", "print"} /\ a \in DOMAIN report
      /\ UNCHANGED <<parser_vars, tree, launched>>
      /\ \/ Reports(actions[a], cache') = {} /\ pc' = "undefined" /\ UNCHANGED report
         \/ (\E r : report' = [report EXCEPT ![a] = r]) /\ pc' = pc
  BY DEF Report
<1>2. UNCHANGED <<cache, actions, errors>>
  BY <1>1, ReportReads DEF parser_vars
<1>3. Asked' = Asked
  BY <1>2 DEF Asked
<1>4. PICK S : report \in Seq(S)
  BY DEF AskedInv
<1>5. DOMAIN report = 1 .. launched /\ a \in 1 .. Len(actions) /\ launched \in Nat /\ Len(actions) \in Nat
  <2>1. Len(report) = launched /\ launched <= Len(actions) /\ launched \in Nat /\ Len(actions) \in Nat
    BY DEF AskedInv
  <2>2. DOMAIN report = 1 .. launched
    BY <1>4, <2>1
  <2> QED BY <1>1, <2>1, <2>2
<1>6. CASE pc' = pc /\ \E r : report' = [report EXCEPT ![a] = r]
  <2>1. PICK r : report' = [report EXCEPT ![a] = r]
    BY <1>6
  <2>2. PICK T : T = S \cup {r}
    OBVIOUS
  <2>3. report' \in Seq(T) /\ Len(report') = launched'
    <3>1. report \in [1 .. launched -> S]
      BY <1>4, <1>5
    <3>2. report' \in [1 .. launched -> T]
      BY <2>1, <2>2, <3>1
    <3> QED BY <1>1, <1>5, <3>2
  <2>4. UndefinedOnlyWithoutTree'
    BY <1>1, <1>6 DEF UndefinedOnlyWithoutTree
  <2>5. \E Q : report' \in Seq(Q)
    BY <2>3
  <2> QED BY <1>1, <1>2, <1>6, <2>3, <2>4, <2>5 DEF AskedInv
<1>7. CASE Reports(actions[a], cache') = {} /\ pc' = "undefined" /\ UNCHANGED report
  <2>1. actions[a] \in Asking
    BY <1>5 DEF AskedInv
  <2>2. IsTree(tree) /\ cache["metrics"] = compute_directory_metrics(tree)
    <3>1. IsTree(tree)
      BY <1>1, DiskAssumption DEF ResultInv, TreeOnDisk
    <3>2. cache["metrics"] = Computed("metrics")
      BY <1>1, CacheFacts DEF ResultInv, CacheInv
    <3> QED BY <3>1, <3>2 DEF Computed
  <2>3. PICK action : action = actions[a]
    OBVIOUS
  <2>4. tree.root = None /\ action.kind \in {"Summary", "Stats"}
    <3>1. Reports(action, cache) = {} /\ action.kind \in Kinds
      BY <1>2, <1>7, <2>1, <2>3, KindsKnown
    <3> QED BY <2>2, <3>1, ReportsFound
  <2>5. action.kind \in Asked
    BY <1>5, <2>3 DEF Asked, AskedInv
  <2>6. tree'.root = None /\ Asked' \cap {"Summary", "Stats"} # {}
    BY <1>1, <1>3, <2>4, <2>5
  <2>7. UndefinedOnlyWithoutTree'
    BY <2>6 DEF UndefinedOnlyWithoutTree
  <2> QED BY <1>1, <1>2, <1>7, <2>7 DEF AskedInv
<1> QED BY <1>1, <1>6, <1>7

\* So does each step of main, of the parser and of the Executor.
LEMMA AskedNext ==
    LineInv /\ ParseInv /\ CacheInv /\ ResultInv /\ AskedInv /\ [Next]_vars => AskedInv'
<1> SUFFICES ASSUME LineInv, ParseInv, CacheInv, ResultInv, AskedInv, [Next]_vars PROVE AskedInv'
  OBVIOUS
<1>1. CASE ParseStep /\ UNCHANGED executor_vars
  <2>1. UNCHANGED <<tree, launched, report>>
    BY <1>1 DEF executor_vars, run_vars
  <2>2. pc = "parse" /\ pc' \in {"parse", "parsed"}
    BY <1>1 DEF ParseStep, UnknownOption, MissingValue, HandleFlag, ParseReturn, Parsing
  <2>3. actions' \in Seq(Asking)
    BY <2>2, ParseNext DEF ParseInv
  <2>4. launched = 0 /\ Len(actions') \in Nat
    BY <2>2, <2>3 DEF AskedInv
  <2>5. UndefinedOnlyWithoutTree'
    BY <2>2 DEF UndefinedOnlyWithoutTree
  <2> QED BY <2>1, <2>2, <2>3, <2>4, <2>5 DEF AskedInv
<1>2. CASE Warn
  <2>1. /\ pc = "parsed" /\ errors # {} /\ pc' = "undefined"
        /\ UNCHANGED <<tree, launched, report, actions, errors>>
    BY <1>2 DEF Warn, executor_vars, run_vars, parser_vars
  <2>2. UndefinedOnlyWithoutTree'
    BY <2>1 DEF UndefinedOnlyWithoutTree
  <2> QED BY <2>1, <2>2 DEF AskedInv
<1>3. CASE NoActions \/ PrintHelp
  <2>1. pc \in {"parsed", "help"} /\ pc' \in {"help", "end"}
        /\ UNCHANGED <<tree, launched, report, actions, errors>>
    BY <1>3 DEF NoActions, PrintHelp, executor_vars, run_vars, parser_vars
  <2> QED BY <2>1, AskedKept
<1>4. CASE BuildTree
  <2>1. pc = "parsed" /\ pc' = "run" /\ UNCHANGED <<launched, report, actions, errors>>
    BY <1>4 DEF BuildTree, run_vars, parser_vars
  <2>2. UndefinedOnlyWithoutTree'
    BY <2>1 DEF UndefinedOnlyWithoutTree
  <2> QED BY <2>1, <2>2 DEF AskedInv
<1>5. CASE LaunchShared \/ GetShared \/ PrintReport
  <2>1. /\ UNCHANGED <<tree, launched, report, actions, errors>>
        /\ pc' # "undefined"
        /\ pc' \in {"help", "parse", "parsed", "run", "get"} => pc \in {"run", "get"}
    BY <1>5 DEF LaunchShared, GetShared, PrintReport, parser_vars
  <2> QED BY <2>1, AskedKept
<1>6. CASE LaunchReport
  <2>1. pc = "launch" /\ UNCHANGED <<tree, actions, errors>> /\ pc' \in {"launch", "print"}
        /\ \/ launched < Len(actions) /\ launched' = launched + 1 /\ report' = Append(report, None)
           \/ UNCHANGED <<launched, report>>
    BY <1>6 DEF LaunchReport, parser_vars
  <2>2. UndefinedOnlyWithoutTree'
    BY <2>1 DEF UndefinedOnlyWithoutTree
  <2>3. CASE UNCHANGED <<launched, report>>
    BY <2>1, <2>2, <2>3 DEF AskedInv
  <2>4. CASE launched < Len(actions) /\ launched' = launched + 1 /\ report' = Append(report, None)
    <3>1. PICK S : report \in Seq(S)
      BY DEF AskedInv
    <3>2. PICK T : T = S \cup {None}
      OBVIOUS
    <3>3. report \in Seq(T)
      BY <3>1, <3>2
    <3>4. report' \in Seq(T) /\ Len(report') = Len(report) + 1
      BY <2>4, <3>2, <3>3
    <3>5. launched' \in Nat /\ launched' <= Len(actions') /\ Len(report') = launched'
      BY <2>1, <2>4, <3>4 DEF AskedInv
    <3>6. \E Q : report' \in Seq(Q)
      BY <3>4
    <3> QED BY <2>1, <2>2, <3>5, <3>6 DEF AskedInv
  <2> QED BY <2>1, <2>3, <2>4
<1>7. CASE \E c \in Cache : ComputeShared(c)
  <2>1. UNCHANGED <<tree, launched, report, actions, errors, pc>>
    BY <1>7 DEF ComputeShared, parser_vars
  <2> QED BY <2>1, AskedKept
<1>8. CASE \E a \in DOMAIN report : Report(a)
  BY <1>8, ReportAsked
<1>9. CASE UNCHANGED vars
  <2>1. UNCHANGED <<tree, launched, report, actions, errors, pc>>
    BY <1>9 DEF vars, executor_vars, run_vars, parser_vars
  <2> QED BY <2>1, AskedKept
<1> QED BY <1>1, <1>2, <1>3, <1>4, <1>5, <1>6, <1>7, <1>8, <1>9
        DEF Next, MainStep, RunStep, ThreadStep, Ended

\* Behaviour is undefined after a parse error, and for the two reports that look up
\* a directory of a tree without any; every other report, of every tree, is defined.
THEOREM OnlyTwoUndefined == Spec => []UndefinedOnlyWithoutTree
<1>1. AskedInv => UndefinedOnlyWithoutTree
  BY DEF AskedInv
<1> QED BY <1>1, ParseInit, ParseNext, CacheInit, CacheNext, ResultInit, ResultNext,
           AskedInit, AskedNext, PTL DEF Spec

-----------------------------------------------------------------------------
(* Rankings *)

\* Ranks, with the keys as a function.
RanksBy(ids, n, all, key) ==
    /\ ids \in Seq(all)
    /\ ToSet(ids) \subseteq all /\ IsInjective(ids)
    /\ Len(ids) = IF n < Cardinality(all) THEN n ELSE Cardinality(all)
    /\ \A j \in 2 .. Len(ids) : key[ids[j - 1]] >= key[ids[j]]
    /\ \A x \in all \ ToSet(ids), y \in ToSet(ids) : key[x] <= key[y]

\* In a list that falls from each element to the next, all that come later are smaller.
LEMMA FallsFar ==
    ASSUME NEW c \in Nat, NEW s, NEW key, \A k \in 1 .. c : key[s[k]] \in Int,
           \A k \in 1 .. c - 1 : key[s[k]] >= key[s[k + 1]]
    PROVE  \A p, q \in 1 .. c : p <= q => key[s[p]] >= key[s[q]]
<1>1. SUFFICES ASSUME NEW p \in 1 .. c
               PROVE  \A q \in 1 .. c : p <= q => key[s[p]] >= key[s[q]]
  OBVIOUS
<1>2. PICK Bad : Bad = {q \in 1 .. c : p <= q /\ ~(key[s[p]] >= key[s[q]])}
  OBVIOUS
<1>3. SUFFICES ASSUME Bad # {} PROVE FALSE
  BY <1>2
<1>4. Bad \in SUBSET Nat
  BY <1>2
<1>5. PICK q \in Bad : \A r \in Bad : q <= r
  BY <1>3, <1>4, LeastNumber
<1>6. q \in 1 .. c /\ p <= q /\ ~(key[s[p]] >= key[s[q]])
  BY <1>2
<1>7. p # q
  <2>1. key[s[p]] \in Int
    OBVIOUS
  <2> QED BY <1>6, <2>1
<1>8. q - 1 \in 1 .. c - 1 /\ q - 1 \in 1 .. c /\ p <= q - 1 /\ q - 1 + 1 = q /\ ~(q <= q - 1)
  BY <1>6, <1>7
<1>9. key[s[p]] >= key[s[q - 1]]
  BY <1>2, <1>5, <1>8
<1>10. key[s[q - 1]] >= key[s[q]]
  BY <1>8
<1>11. key[s[p]] \in Int /\ key[s[q]] \in Int /\ key[s[q - 1]] \in Int
  BY <1>6, <1>8
<1> QED BY <1>6, <1>9, <1>10, <1>11

\* The first n of a sorted list are n of the greatest.
LEMMA FirstOfSorted ==
    ASSUME NEW S, IsFiniteSet(S), NEW key, \A x \in S : key[x] \in Int,
           NEW s \in SetToSeqs(S), Falls(s, key), NEW n \in Nat, NEW m,
           m = IF n < Cardinality(S) THEN n ELSE Cardinality(S)
    PROVE  RanksBy(SubSeq(s, 1, m), n, S, key)
<1>1. PICK c : c = Cardinality(S)
  OBVIOUS
<1>2. /\ c \in Nat /\ s \in Seq(S) /\ Len(s) = c /\ DOMAIN s = 1 .. c /\ ToSet(s) = S /\ IsInjective(s)
  BY <1>1, Enumerated, FS_CardinalityType
<1>3. m \in Nat /\ m <= c /\ m = IF n < c THEN n ELSE c
  BY <1>1, <1>2
<1>4. PICK t : t = SubSeq(s, 1, m)
  OBVIOUS
<1>5. /\ t \in Seq(S) /\ Len(t) = m /\ DOMAIN t = 1 .. m /\ \A k \in 1 .. m : k \in 1 .. c /\ t[k] = s[k]
  BY <1>2, <1>3, <1>4, SubSeqProperties
<1>6. \A k \in 1 .. c : s[k] \in S /\ key[s[k]] \in Int
  BY <1>2
<1>7. \A p, q \in 1 .. c : p <= q => key[s[p]] >= key[s[q]]
  <2>1. \A k \in 1 .. c - 1 : key[s[k]] >= key[s[k + 1]]
    BY <1>2 DEF Falls
  <2> QED BY <1>2, <1>6, <2>1, FallsFar
<1>8. ToSet(t) = {t[k] : k \in 1 .. m} /\ ToSet(s) = {s[k] : k \in 1 .. c}
  BY <1>2, <1>5 DEF ToSet
<1>9. ToSet(t) \subseteq S
  BY <1>5, <1>6, <1>8
<1>10. IsInjective(t)
  BY <1>2, <1>5 DEF IsInjective
<1>11. ASSUME NEW j \in 2 .. m PROVE key[t[j - 1]] >= key[t[j]]
  <2>1. j - 1 \in 1 .. m /\ j \in 1 .. m /\ j - 1 <= j
    BY <1>3
  <2> QED BY <1>5, <1>7, <2>1
<1>12. ASSUME NEW x \in S \ ToSet(t), NEW y \in ToSet(t) PROVE key[x] <= key[y]
  <2>1. PICK q \in 1 .. c : x = s[q]
    BY <1>2, <1>8
  <2>2. PICK p \in 1 .. m : y = t[p]
    BY <1>8
  <2>3. q \notin 1 .. m
    BY <1>5, <1>8, <2>1
  <2>4. p \in 1 .. c /\ y = s[p] /\ p <= q
    BY <1>3, <1>5, <2>2, <2>3
  <2>5. key[s[p]] >= key[s[q]] /\ key[s[p]] \in Int /\ key[s[q]] \in Int
    BY <1>6, <1>7, <2>4
  <2> QED BY <2>1, <2>4, <2>5
<1> QED BY <1>1, <1>3, <1>4, <1>5, <1>9, <1>10, <1>11, <1>12 DEF RanksBy

\* All of a sorted list are.
LEMMA AllOfSorted ==
    ASSUME NEW S, IsFiniteSet(S), NEW key, \A x \in S : key[x] \in Int,
           NEW s \in SetToSeqs(S), Falls(s, key)
    PROVE  RanksBy(s, Cardinality(S), S, key)
<1>1. PICK c : c = Cardinality(S)
  OBVIOUS
<1>2. c \in Nat /\ s \in Seq(S) /\ Len(s) = c
  BY <1>1, Enumerated, FS_CardinalityType
<1>3. SubSeq(s, 1, c) = s
  BY <1>2
<1>4. RanksBy(SubSeq(s, 1, c), c, S, key)
  BY <1>1, <1>2, FirstOfSorted
<1> QED BY <1>1, <1>3, <1>4

\* What the heap is after the first k files: n of them, or all, and the greatest.
TopOf(heap, k, n) ==
    /\ heap \in SUBSET (0 .. k - 1)
    /\ Cardinality(heap) = IF n < k THEN n ELSE k
    /\ \A x \in (0 .. k - 1) \ heap, y \in heap : Weights[x] <= Weights[y]

\* The next file is one of the greatest, or the heap was full and its smallest goes.
LEMMA HeapStep ==
    ASSUME NEW n \in Nat, NEW k \in Nat, \A f \in 0 .. k : Weights[f] \in Nat /\ Weights[f] = tree.files[f].size,
           NEW heap, TopOf(heap, k, n), NEW next \in Pushed(n, heap, k)
    PROVE  TopOf(next, k + 1, n)
<1>1. PICK full : full = heap \cup {k}
  OBVIOUS
<1>2. heap \in SUBSET (0 .. k - 1) /\ IsFiniteSet(heap) /\ k \notin heap
  <2>1. heap \in SUBSET (0 .. k - 1) /\ IsFiniteSet(0 .. k - 1)
    BY FS_Interval DEF TopOf
  <2>2. k \notin heap
    BY <2>1
  <2> QED BY <2>1, <2>2, FS_Subset
<1>3. IsFiniteSet(full) /\ Cardinality(full) = Cardinality(heap) + 1 /\ full \in SUBSET (0 .. k)
  <2>1. IsFiniteSet(full) /\ Cardinality(full) = Cardinality(heap) + 1
    BY <1>1, <1>2, FS_AddElement
  <2> QED BY <1>1, <1>2, <2>1
<1>4. Cardinality(heap) = IF n < k THEN n ELSE k
  BY DEF TopOf
<1>5. k + 1 - 1 = k
  OBVIOUS
<1>6. CASE Cardinality(full) <= n
  <2>1. next = full /\ k < n /\ Cardinality(heap) = k
    BY <1>1, <1>3, <1>4, <1>6 DEF Pushed
  <2>2. heap = 0 .. k - 1
    <3>1. IsFiniteSet(0 .. k - 1) /\ Cardinality(0 .. k - 1) = k
      <4>1. 0 \in Int /\ k - 1 \in Int /\ (0 > k - 1 => k = 0) /\ (k - 1) - 0 + 1 = k
        OBVIOUS
      <4> QED BY <4>1, FS_Interval
    <3> QED BY <1>2, <2>1, <3>1, FS_Subset
  <2>3. full = 0 .. k
    BY <1>1, <2>2
  <2> QED BY <1>3, <1>5, <2>1, <2>3 DEF TopOf
<1>7. CASE ~(Cardinality(full) <= n)
  <2>1. PICK f \in Top(tree, full) : next = full \ {f}
    BY <1>1, <1>7 DEF Pushed
  <2>2. f \in full /\ \A y \in full : Weights[f] <= Weights[y]
    <3>1. \A y \in full : tree.files[y].size = Weights[y]
      BY <1>3
    <3> QED BY <2>1, <3>1 DEF Top
  <2>3. Cardinality(next) = n /\ n < k + 1
    <3>1. Cardinality(next) = Cardinality(full) - 1
      BY <1>3, <2>1, <2>2, FS_RemoveElement
    <3> QED BY <1>3, <1>4, <1>7, <3>1
  <2>4. ASSUME NEW x \in (0 .. k) \ next, NEW y \in next PROVE Weights[x] <= Weights[y]
    <3>1. y \in full /\ y # f /\ y \in 0 .. k
      BY <1>3, <2>1
    <3>2. CASE x = f
      BY <2>2, <3>1, <3>2
    <3>3. CASE x # f
      <4>1. x \in (0 .. k - 1) \ heap
        BY <1>1, <2>1, <3>3
      <4>2. CASE y \in heap
        BY <4>1, <4>2 DEF TopOf
      <4>3. CASE y \notin heap
        <5>1. y = k /\ f \in heap
          BY <1>1, <2>2, <3>1, <4>3
        <5>2. Weights[x] <= Weights[f] /\ Weights[f] <= Weights[y]
          BY <2>2, <3>1, <4>1, <5>1 DEF TopOf
        <5>3. Weights[x] \in Nat /\ Weights[f] \in Nat /\ Weights[y] \in Nat
          BY <1>3, <2>2, <3>1
        <5> QED BY <5>2, <5>3
      <4> QED BY <4>2, <4>3
    <3> QED BY <3>2, <3>3
  <2>5. next \in SUBSET (0 .. k)
    BY <1>3, <2>1
  <2>6. Cardinality(next) = IF n < k + 1 THEN n ELSE k + 1
    BY <2>3
  <2> QED BY <1>5, <2>4, <2>5, <2>6 DEF TopOf
<1> QED BY <1>6, <1>7

\* Sizes and times of files, as functions.
LEMMA FileKeys ==
    ASSUME IsTree(tree)
    PROVE  \A f \in File : /\ Weights[f] \in Nat /\ Weights[f] = tree.files[f].size
                           /\ Weights[f] = Size(f)
                           /\ tree.files[f].modified \in Int
BY DEF IsTree, File, Weights, Size

\* So compute_largest_N_Files gives what the ranking asks for.
LEMMA LargestFilesRank ==
    ASSUME IsTree(tree), NEW n \in Nat, NEW ids \in compute_largest_N_Files(tree, n)
    PROVE  RanksBy(ids, n, File, Weights)
<1>1. PICK c : c = Cardinality(File)
  OBVIOUS
<1>2. c \in Nat /\ File = 0 .. c - 1 /\ IsFiniteSet(File)
  BY <1>1, TreeFacts
<1>3. PICK g \in [0 .. c -> Heaps] :
          /\ g[0] = {{}} /\ \A k \in 1 .. c : g[k] = PushedAll(n, g[k - 1], k - 1)
          /\ compute_largest_N_Files(tree, n)
                 = UNION {Descending(h, LAMBDA x : tree.files[x].size) : h \in g[c]}
  BY <1>1, HeapSteps
<1>4. PICK Bad : Bad = {k \in 0 .. c : ~ \A heap \in g[k] : TopOf(heap, k, n)}
  OBVIOUS
<1>5. Bad = {}
  <2>1. SUFFICES ASSUME Bad # {} PROVE FALSE
    OBVIOUS
  <2>2. Bad \in SUBSET Nat
    BY <1>2, <1>4
  <2>3. PICK k \in Bad : \A j \in Bad : k <= j
    BY <2>1, <2>2, LeastNumber
  <2>4. PICK heap \in g[k] : ~TopOf(heap, k, n)
    BY <1>4
  <2>5. k \in 0 .. c
    BY <1>4
  <2>6. CASE k = 0
    <3>1. heap = {} /\ Cardinality(heap) = 0
      BY <1>3, <2>4, <2>6, FS_EmptySet
    <3>2. TopOf(heap, 0, n)
      BY <3>1 DEF TopOf
    <3> QED BY <2>4, <2>6, <3>2
  <2>7. CASE k # 0
    <3>1. PICK j : j = k - 1
      OBVIOUS
    <3>2. j \in Nat /\ j \in 0 .. c /\ k \in 1 .. c /\ k = j + 1 /\ ~(k <= j)
      BY <1>2, <2>5, <2>7, <3>1
    <3>3. PICK prev \in g[j] : heap \in Pushed(n, prev, j)
      BY <1>3, <2>4, <3>1, <3>2 DEF PushedAll
    <3>4. TopOf(prev, j, n)
      BY <1>4, <2>3, <3>2, <3>3
    <3>5. \A f \in 0 .. j : Weights[f] \in Nat /\ Weights[f] = tree.files[f].size
      BY <1>2, <3>2, FileKeys
    <3> QED BY <2>4, <3>2, <3>3, <3>4, <3>5, HeapStep
  <2> QED BY <2>6, <2>7
<1>6. PICK heap \in g[c] : ids \in Descending(heap, LAMBDA x : tree.files[x].size)
  BY <1>3
<1>7. TopOf(heap, c, n)
  <2>1. c \in 0 .. c
    BY <1>2
  <2> QED BY <1>4, <1>5, <1>6, <2>1
<1>8. heap \in SUBSET File /\ IsFiniteSet(heap)
  BY <1>2, <1>7, FS_Subset DEF TopOf
<1>9. ids \in SetToSeqs(heap) /\ \A k \in 1 .. Len(ids) - 1 : tree.files[ids[k]].size >= tree.files[ids[k + 1]].size
  BY <1>6 DEF Descending
<1>10. /\ ids \in Seq(heap) /\ Len(ids) = Cardinality(heap) /\ DOMAIN ids = 1 .. Len(ids)
       /\ ToSet(ids) = heap /\ IsInjective(ids)
  BY <1>8, <1>9, Enumerated
<1>11. ASSUME NEW j \in 2 .. Len(ids) PROVE Weights[ids[j - 1]] >= Weights[ids[j]]
  <2>1. PICK k : k = j - 1
    OBVIOUS
  <2>2. k \in 1 .. Len(ids) - 1 /\ k + 1 = j /\ k \in 1 .. Len(ids) /\ j \in 1 .. Len(ids)
    BY <1>10, <2>1
  <2>3. ids[k] \in File /\ ids[j] \in File
    BY <1>8, <1>10, <2>2
  <2>4. tree.files[ids[k]].size >= tree.files[ids[j]].size
    BY <1>9, <2>2
  <2> QED BY <2>1, <2>3, <2>4, FileKeys
<1>12. Len(ids) = IF n < Cardinality(File) THEN n ELSE Cardinality(File)
  BY <1>1, <1>7, <1>10 DEF TopOf
<1>13. \A x \in File \ ToSet(ids), y \in ToSet(ids) : Weights[x] <= Weights[y]
  BY <1>2, <1>7, <1>10 DEF TopOf
<1>14. ids \in Seq(File)
  <2>1. Len(ids) \in Nat /\ ids \in [1 .. Len(ids) -> heap]
    BY <1>10
  <2>2. ids \in [1 .. Len(ids) -> File]
    BY <1>8, <2>1
  <2> QED BY <2>1, <2>2
<1> QED BY <1>8, <1>10, <1>11, <1>12, <1>13, <1>14 DEF RanksBy

\* The size of everything below a directory, and the time of a file, as functions.
Below == [d \in Dir |-> Sum(FilesIn(d), Size)]
Times == [f \in File |-> tree.files[f].modified]

\* compute_largest_N_Directories gives what the ranking asks for.
LEMMA LargestDirsRank ==
    ASSUME IsTree(tree), NEW n \in Nat,
           NEW ids \in compute_largest_N_Directories(tree, compute_directory_metrics(tree), n)
    PROVE  RanksBy(ids, n, Dir \ {0}, Below)
<1>1. PICK m, others, key : /\ m = compute_directory_metrics(tree)
                            /\ others = Cardinality(DOMAIN tree.directories) - 1
                            /\ key = m.recursive_size
  OBVIOUS
<1>2. Cardinality(Dir) = others + 1 /\ others + 1 \in Nat /\ others \in Int /\ Dir = 0 .. others /\ IsFiniteSet(Dir)
  <2>1. PICK c : c = Cardinality(Dir)
    OBVIOUS
  <2>2. c \in Nat /\ Dir = 0 .. c - 1 /\ IsFiniteSet(Dir) /\ others = c - 1
    BY <1>1, <2>1, TreeFacts DEF Dir
  <2>3. others \in Int /\ others + 1 = c
    BY <2>2
  <2> QED BY <2>1, <2>2, <2>3
<1>3. key \in [Dir -> Nat] /\ \A d \in Dir : key[d] = Below[d]
  BY <1>1, MetricsTyped, MetricsOfTree DEF Below
<1>4. CASE NoOthers(tree)
  <2>1. ids = <<>>
    BY <1>4 DEF compute_largest_N_Directories
  <2>2. Dir \ {0} = {}
    <3>1. Cardinality(Dir) <= 1
      BY <1>4 DEF NoOthers, Dir
    <3>2. others <= 0
      BY <1>2, <3>1
    <3> QED BY <1>2, <3>2
  <2>3. Cardinality(Dir \ {0}) = 0
    BY <2>2, FS_EmptySet
  <2>4. ids \in Seq(Dir \ {0}) /\ Len(ids) = 0 /\ ToSet(ids) = {} /\ IsInjective(ids)
    BY <2>1 DEF ToSet, IsInjective
  <2>5. 2 .. Len(ids) = {} /\ Len(ids) = IF n < 0 THEN n ELSE 0
    BY <2>4
  <2> QED BY <2>2, <2>3, <2>4, <2>5 DEF RanksBy
<1>5. CASE ~NoOthers(tree)
  <2>1. PICK s : /\ s \in Descending(1 .. others, LAMBDA d : m.recursive_size[d])
                 /\ ids = SubSeq(s, 1, IF n < others THEN n ELSE others)
    <3> DEFINE last == Cardinality(DOMAIN tree.directories) - 1
    <3>1. ids \in compute_largest_N_Directories(tree, m, n)
      BY <1>1
    <3>2. ids \in {SubSeq(s, 1, IF n < last THEN n ELSE last)
                      : s \in {s \in Descending(1 .. last, LAMBDA d : m.recursive_size[d]) : last >= 0}}
      BY <1>5, <3>1, Zenon DEF compute_largest_N_Directories
    <3>3. PICK s : /\ s \in Descending(1 .. last, LAMBDA d : m.recursive_size[d])
                   /\ ids = SubSeq(s, 1, IF n < last THEN n ELSE last)
      BY <3>2
    <3> QED BY <1>1, <3>3
  <2>2. PICK D : D = 1 .. others
    OBVIOUS
  <2>3. D = Dir \ {0} /\ IsFiniteSet(D) /\ Cardinality(D) = others /\ others \in Nat
    <3>1. others \in Nat
      <4>1. ~(Cardinality(Dir) <= 1)
        BY <1>5 DEF NoOthers, Dir
      <4> QED BY <1>2, <4>1
    <3>2. IsFiniteSet(1 .. others) /\ Cardinality(1 .. others) = others
      BY <3>1, FS_Interval
    <3> QED BY <1>2, <2>2, <3>1, <3>2
  <2>4. s \in SetToSeqs(D) /\ \A k \in 1 .. Len(s) - 1 : key[s[k]] >= key[s[k + 1]]
    BY <1>1, <2>1, <2>2 DEF Descending
  <2>5. Len(s) \in Nat /\ \A k \in 1 .. Len(s) : s[k] \in D
    <3>1. s \in Seq(D)
      BY <2>3, <2>4, Enumerated
    <3> QED BY <3>1
  <2>6. \A k \in 1 .. Len(s) - 1 : Below[s[k]] >= Below[s[k + 1]]
    <3>1. ASSUME NEW k \in 1 .. Len(s) - 1 PROVE Below[s[k]] = key[s[k]] /\ Below[s[k + 1]] = key[s[k + 1]]
      <4>1. k \in 1 .. Len(s) /\ k + 1 \in 1 .. Len(s)
        BY <2>5
      <4>2. s[k] \in Dir /\ s[k + 1] \in Dir
        BY <2>3, <2>5, <4>1
      <4> QED BY <1>3, <4>2
    <3> QED BY <2>4, <3>1
  <2>7. \A d \in D : Below[d] \in Int
    BY <1>3, <2>3
  <2>8. PICK b : b = Below
    OBVIOUS
  <2>9. Falls(s, b)
    BY <2>6, <2>8 DEF Falls
  <2>10. RanksBy(SubSeq(s, 1, IF n < others THEN n ELSE others), n, D, b)
    BY <2>3, <2>4, <2>7, <2>8, <2>9, FirstOfSorted
  <2> QED BY <2>1, <2>3, <2>8, <2>10
<1> QED BY <1>4, <1>5

\* And compute_recent_files.
LEMMA RecentRank ==
    ASSUME IsTree(tree), NEW n, NEW S, S = {f \in File : tree.files[f].modified >= Now - n},
           NEW ids \in compute_recent_files(tree, n)
    PROVE  RanksBy(ids, Cardinality(S), S, Times) /\ ids \in Seq(S)
<1>1. S \in SUBSET File /\ IsFiniteSet(S) /\ \A f \in S : Times[f] = tree.files[f].modified /\ Times[f] \in Int
  <2>1. S \in SUBSET File
    OBVIOUS
  <2>2. \A f \in File : Times[f] = tree.files[f].modified /\ Times[f] \in Int
    BY FileKeys DEF Times
  <2> QED BY <2>1, <2>2, TreeFacts, FS_Subset
<1>2. ids \in Descending(S, LAMBDA f : tree.files[f].modified)
  BY DEF compute_recent_files, File
<1>3. ids \in SetToSeqs(S)
      /\ \A k \in 1 .. Len(ids) - 1 : tree.files[ids[k]].modified >= tree.files[ids[k + 1]].modified
  BY <1>2 DEF Descending
<1>4. ids \in Seq(S)
  BY <1>1, <1>3, Enumerated
<1>5. ASSUME NEW k \in 1 .. Len(ids) - 1 PROVE Times[ids[k]] >= Times[ids[k + 1]]
  <2>1. k \in 1 .. Len(ids) /\ k + 1 \in 1 .. Len(ids)
    BY <1>4
  <2>2. ids[k] \in S /\ ids[k + 1] \in S
    BY <1>4, <2>1
  <2> QED BY <1>1, <1>3, <2>2
<1>6. PICK t : t = Times
  OBVIOUS
<1>7. Falls(ids, t)
  BY <1>5, <1>6 DEF Falls
<1>8. RanksBy(ids, Cardinality(S), S, t)
  BY <1>1, <1>3, <1>6, <1>7, AllOfSorted
<1> QED BY <1>4, <1>6, <1>8

-----------------------------------------------------------------------------
(* Ages in words *)

Items == [n : Nat, unit : Nat]
WorthOf(g, items) ==
    /\ g \in [0 .. Len(items) -> Nat] /\ g[0] = 0
    /\ \A k \in 1 .. Len(items) : g[k] = g[k - 1] + items[k].n * items[k].unit

\* Worth adds up the items one after another.
LEMMA WorthSteps ==
    ASSUME NEW items \in Seq(Items)
    PROVE  \E g : WorthOf(g, items) /\ Worth(items) = g[Len(items)]
<1>1. PICK c : c = Len(items)
  OBVIOUS
<1>2. c \in Nat /\ DOMAIN items = 1 .. c /\ \A k \in 1 .. c : items[k] \in Items
  BY <1>1
<1>3. \A k \in 1 .. c : items[k].n * items[k].unit \in Nat
  <2>1. ASSUME NEW k \in 1 .. c PROVE items[k].n * items[k].unit \in Nat
    <3>1. items[k].n \in Nat /\ items[k].unit \in Nat
      BY <1>2 DEF Items
    <3>2. \A x, y \in Nat : x * y \in Nat
      OBVIOUS
    <3> QED BY <3>1, <3>2
  <2> QED BY <2>1
<1>4. PICK V, H : V = Nat /\ H = [k \in 1 .. c |-> [v \in V |-> v + items[k].n * items[k].unit]]
  OBVIOUS
<1>5. 0 \in V /\ H \in [1 .. c -> [V -> V]]
  <2>1. ASSUME NEW k \in 1 .. c, NEW v \in V PROVE v + items[k].n * items[k].unit \in V
    <3>1. PICK a : a = items[k].n * items[k].unit
      OBVIOUS
    <3>2. a \in Nat
      BY <1>3, <3>1
    <3> QED BY <1>4, <3>1, <3>2
  <2>2. PICK a : a = [k \in 1 .. c |-> items[k].n * items[k].unit]
    OBVIOUS
  <2>3. H = [k \in 1 .. c |-> [v \in V |-> v + a[k]]] /\ \A k \in 1 .. c, v \in V : v + a[k] \in V
    BY <1>4, <2>1, <2>2
  <2>4. H \in [1 .. c -> [V -> V]]
    BY <2>3
  <2> QED BY <1>4, <2>4
<1>6. PICK f \in [SUBSET (1 .. c) -> V], g \in [0 .. c -> V] : Marches(f, g, c, 0, H)
  BY <1>2, <1>5, LeftFold
<1> DEFINE Plus(sum, item) == sum + item.n * item.unit
           Is(iter) == iter = [s \in SUBSET DOMAIN items |->
                                  IF s = {} THEN 0
                                  ELSE LET x == Max(s) IN Plus(iter[s \ {x}], items[x])]
           It == CHOOSE iter : Is(iter)
<1>7. Worth(items) = It[DOMAIN items]
  BY DEF Worth, FoldLeft, MapThenFoldSet
<1>8. ASSUME NEW s \in SUBSET (1 .. c)
      PROVE  f[s] = IF s = {} THEN 0 ELSE Plus(f[s \ {Max(s)}], items[Max(s)])
  <2>1. f[s] = IF s = {} THEN 0 ELSE H[Max(s)][f[s \ {Max(s)}]]
    BY <1>6 DEF Marches
  <2>2. ASSUME s # {} PROVE Max(s) \in 1 .. c
    BY <1>2, <2>2, LastDrawn DEF Drawing, LastFirst
  <2>3. f[s \ {Max(s)}] \in V
    BY <1>6
  <2> QED BY <1>4, <2>1, <2>2, <2>3
<1> HIDE DEF Plus
<1>9. Is(f)
  BY <1>2, <1>6, <1>8
<1>10. PICK it : it = It
  OBVIOUS
<1>11. Is(it)
  <2> HIDE DEF Is
  <2> QED BY <1>9, <1>10
<1>12. f[{}] = it[{}]
  BY <1>8, <1>11
<1>13. ASSUME NEW s \in SUBSET (1 .. c), s # {}, f[s \ {Max(s)}] = it[s \ {Max(s)}]
       PROVE  f[s] = it[s]
  <2>1. it[s] = Plus(it[s \ {Max(s)}], items[Max(s)])
    BY <1>2, <1>11, <1>13
  <2> QED BY <1>8, <1>13, <2>1
<1>14. f[1 .. c] = it[1 .. c]
  BY <1>2, <1>12, <1>13, SameMarch
<1>15. Worth(items) = g[c]
  BY <1>2, <1>6, <1>7, <1>10, <1>14 DEF Marches
<1>16. ASSUME NEW k \in 1 .. c PROVE g[k] = g[k - 1] + items[k].n * items[k].unit
  <2>1. g[k] = H[k][g[k - 1]] /\ g[k - 1] \in V
    BY <1>2, <1>6 DEF Marches
  <2> QED BY <1>4, <2>1
<1>17. WorthOf(g, items)
  BY <1>1, <1>4, <1>6, <1>16 DEF WorthOf, Marches
<1> QED BY <1>1, <1>15, <1>17

\* One more item adds its worth, and none adds nothing.
LEMMA WorthMore ==
    ASSUME NEW items \in Seq(Items), NEW x \in Items
    PROVE  /\ Worth(items) \in Nat
           /\ Worth(Append(items, x)) = Worth(items) + x.n * x.unit
<1>1. PICK c, more : c = Len(items) /\ more = Append(items, x)
  OBVIOUS
<1>2. /\ c \in Nat /\ more \in Seq(Items) /\ Len(more) = c + 1 /\ more[c + 1] = x
      /\ \A k \in 1 .. c : more[k] = items[k]
  BY <1>1
<1>3. PICK g : WorthOf(g, items) /\ Worth(items) = g[c]
  BY <1>1, WorthSteps
<1>4. PICK h : WorthOf(h, more) /\ Worth(more) = h[c + 1]
  BY <1>2, WorthSteps
<1>5. PICK Bad : Bad = {k \in 0 .. c : g[k] # h[k]}
  OBVIOUS
<1>6. Bad = {}
  <2>1. SUFFICES ASSUME Bad # {} PROVE FALSE
    OBVIOUS
  <2>2. Bad \in SUBSET Nat
    BY <1>2, <1>5
  <2>3. PICK k \in Bad : \A j \in Bad : k <= j
    BY <2>1, <2>2, LeastNumber
  <2>4. k \in 0 .. c /\ g[k] # h[k]
    BY <1>5
  <2>5. k # 0
    BY <1>3, <1>4, <2>4 DEF WorthOf
  <2>6. k \in 1 .. c /\ k \in 1 .. c + 1 /\ k - 1 \in 0 .. c /\ ~(k <= k - 1)
    BY <1>2, <2>4, <2>5
  <2>7. g[k - 1] = h[k - 1]
    BY <1>5, <2>3, <2>6
  <2>8. g[k] = g[k - 1] + items[k].n * items[k].unit
    BY <1>1, <1>3, <2>6 DEF WorthOf
  <2>9. h[k] = h[k - 1] + more[k].n * more[k].unit
    BY <1>2, <1>4, <2>6 DEF WorthOf
  <2> QED BY <1>2, <2>4, <2>6, <2>7, <2>8, <2>9
<1>7. g[c] = h[c]
  BY <1>2, <1>5, <1>6
<1>8. h[c + 1] = h[c] + x.n * x.unit
  <2>1. c + 1 \in 1 .. c + 1 /\ c + 1 - 1 = c
    BY <1>2
  <2> QED BY <1>2, <1>4, <2>1 DEF WorthOf
<1>9. g[c] \in Nat
  BY <1>1, <1>2, <1>3 DEF WorthOf
<1> QED BY <1>1, <1>3, <1>4, <1>7, <1>8, <1>9

Item(n, unit)  == <<[n |-> n, unit |-> unit]>>
IfAny(n, unit) == IF n > 0 THEN Item(n, unit) ELSE <<>>

\* An item that is left out is worth nothing.
LEMMA WorthAny ==
    ASSUME NEW items \in Seq(Items), NEW n \in Nat, NEW unit \in Nat
    PROVE  /\ items \o IfAny(n, unit) \in Seq(Items) /\ IfAny(n, unit) \in Seq(Items)
           /\ Worth(items \o IfAny(n, unit)) = Worth(items) + n * unit
           /\ items \o Item(n, unit) \in Seq(Items)
           /\ Worth(items \o Item(n, unit)) = Worth(items) + n * unit
           /\ Worth(items) \in Nat
           /\ n > 0 => IfAny(n, unit) # <<>>
<1>1. PICK x : x = [n |-> n, unit |-> unit]
  OBVIOUS
<1>2. x \in Items /\ x.n = n /\ x.unit = unit
  BY <1>1 DEF Items
<1>3. Item(n, unit) = <<x>> /\ items \o <<x>> = Append(items, x) /\ <<x>> \in Seq(Items)
      /\ <<x>> # <<>> /\ Append(items, x) \in Seq(Items)
  BY <1>1, <1>2 DEF Item
<1>4. Worth(Append(items, x)) = Worth(items) + n * unit /\ Worth(items) \in Nat
  BY <1>2, WorthMore
<1>5. CASE n > 0
  <2>1. IfAny(n, unit) = <<x>>
    BY <1>3, <1>5 DEF IfAny
  <2> QED BY <1>3, <1>4, <2>1
<1>6. CASE ~(n > 0)
  <2>1. IfAny(n, unit) = <<>> /\ <<>> \in Seq(Items) /\ items \o <<>> = items
    BY <1>6 DEF IfAny
  <2>2. n * unit = 0
    BY <1>6
  <2>3. Worth(items) = Worth(items) + n * unit
    BY <1>4, <2>2
  <2> QED BY <1>3, <1>4, <1>6, <2>1, <2>3
<1> QED BY <1>5, <1>6

\* No items are worth nothing.
LEMMA WorthNothing == <<>> \in Seq(Items) /\ Worth(<<>>) = 0
<1>1. PICK e : e = <<>>
  OBVIOUS
<1>2. e \in Seq(Items) /\ Len(e) = 0
  BY <1>1
<1>3. PICK g : WorthOf(g, e) /\ Worth(e) = g[0]
  BY <1>2, WorthSteps
<1> QED BY <1>1, <1>2, <1>3 DEF WorthOf

\* Division with remainder.
LEMMA Divided ==
    ASSUME NEW a \in Nat, NEW b \in Nat \ {0}
    PROVE  \E q \in Nat, r \in Nat : q = a \div b /\ a = b * q + r /\ r < b
<1>1. a \div b \in Nat /\ 0 <= a - b * (a \div b) /\ a - b * (a \div b) < b
  OBVIOUS
<1>2. PICK q : q = a \div b
  OBVIOUS
<1>3. PICK p : p = b * q
  OBVIOUS
<1>4. q \in Nat /\ p \in Int /\ 0 <= a - p /\ a - p < b
  BY <1>1, <1>2, <1>3
<1>5. PICK r : r = a - p
  OBVIOUS
<1>6. r \in Nat /\ a = p + r /\ r < b
  BY <1>4, <1>5
<1> QED BY <1>2, <1>3, <1>4, <1>6

\* There is one quotient and one remainder.
LEMMA OneDivision ==
    ASSUME NEW b \in Nat, NEW q \in Nat, NEW r \in Nat, NEW p \in Nat, NEW s \in Nat,
           b * q + r = b * p + s, r < b, s < b
    PROVE  q = p /\ r = s
<1>1. \A u \in Nat, v \in Nat : u < v => b * u + b <= b * v
  <2>1. SUFFICES ASSUME NEW u \in Nat, NEW v \in Nat, u < v PROVE b * u + b <= b * v
    OBVIOUS
  <2>2. PICK w \in Nat : v = u + 1 + w
    <3>1. v - u - 1 \in Nat /\ v = u + 1 + (v - u - 1)
      BY <2>1
    <3> QED BY <3>1
  <2>3. b * v = b * u + b + b * w
    BY <2>2
  <2>4. PICK x, y : x = b * u /\ y = b * w
    OBVIOUS
  <2>5. x \in Nat /\ y \in Nat
    BY <2>4
  <2> QED BY <2>3, <2>4, <2>5
<1>2. PICK x, y : x = b * q /\ y = b * p
  OBVIOUS
<1>3. x \in Nat /\ y \in Nat
  BY <1>2
<1>4. CASE q < p
  <2>1. x + b <= y
    BY <1>1, <1>2, <1>4
  <2> QED BY <1>2, <1>3, <2>1
<1>5. CASE p < q
  <2>1. y + b <= x
    BY <1>1, <1>2, <1>5
  <2> QED BY <1>2, <1>3, <2>1
<1>6. CASE q = p
  BY <1>2, <1>3, <1>6
<1> QED BY <1>4, <1>5, <1>6

Multiple(A, B) == \E n \in Nat : A = B * n
Splits(age, A, B, q, q2, r1, r2) ==
    /\ Quot(age, A) = q /\ Rem(age, A) = r1 /\ Quot(r1, B) = q2 /\ Rem(age, B) = r2
    /\ age = q * A + q2 * B + r2

\* What is left of a multiple of the unit is left of the unit.
LEMMA SameRest ==
    ASSUME NEW age \in Nat, NEW A \in Nat \ {0}, NEW B \in Nat \ {0}, Multiple(A, B)
    PROVE  \E q, q2, r1, r2 \in Nat : Splits(age, A, B, q, q2, r1, r2)
<1>0. PICK n \in Nat : A = B * n
  BY DEF Multiple
<1>1. PICK q \in Nat, r1 \in Nat : q = age \div A /\ age = A * q + r1 /\ r1 < A
  BY Divided
<1>2. PICK h \in Nat, r2 \in Nat : h = age \div B /\ age = B * h + r2 /\ r2 < B
  BY Divided
<1>3. PICK q2 \in Nat, x \in Nat : q2 = r1 \div B /\ r1 = B * q2 + x /\ x < B
  BY Divided
<1>4. Quot(age, A) = q /\ Quot(age, B) = h /\ Quot(r1, B) = q2
  BY <1>1, <1>2, <1>3 DEF Quot
<1>5. PICK u, v, w, z : u = A * q /\ v = B * h /\ w = B * q2 /\ z = n * q
  OBVIOUS
<1>6. u \in Nat /\ v \in Nat /\ w \in Nat /\ z \in Nat
  BY <1>5
<1>7. Rem(age, A) = r1 /\ Rem(age, B) = r2
  <2>1. Rem(age, A) = age - A * q /\ Rem(age, B) = age - B * h
    BY <1>4 DEF Rem
  <2>2. age = u + r1 /\ age = v + r2
    BY <1>1, <1>2, <1>5
  <2>3. age - u = r1 /\ age - v = r2
    BY <1>6, <2>2
  <2> QED BY <1>5, <2>1, <2>3
<1>8. u = B * z
  <2>1. (B * n) * q = B * (n * q)
    OBVIOUS
  <2> QED BY <1>0, <1>5, <2>1
<1>9. B * (z + q2) = u + w
  <2>1. B * (z + q2) = B * z + B * q2
    BY <1>6
  <2> QED BY <1>5, <1>8, <2>1
<1>10. B * h + r2 = B * (z + q2) + x
  <2>1. age = u + r1 /\ age = v + r2 /\ r1 = w + x
    BY <1>1, <1>2, <1>3, <1>5
  <2>2. v + r2 = (u + w) + x
    BY <1>6, <2>1
  <2> QED BY <1>5, <1>9, <2>2
<1>11. r2 = x
  <2>1. PICK p : p = z + q2
    OBVIOUS
  <2>2. p \in Nat /\ B * h + r2 = B * p + x
    BY <1>6, <1>10, <2>1
  <2>3. B \in Nat /\ r2 < B /\ x < B
    BY <1>2, <1>3
  <2> QED BY <2>2, <2>3, OneDivision
<1>12. age = q * A + q2 * B + r2
  <2>1. q * A = u /\ q2 * B = w
    BY <1>5
  <2> QED BY <1>1, <1>3, <1>5, <1>6, <1>11, <2>1
<1> QED BY <1>4, <1>7, <1>12 DEF Splits

Three(a, A, b, B, c, C)    == (IfAny(a, A) \o IfAny(b, B)) \o IfAny(c, C)
Ending(longer, s)          == longer \o IF longer = <<>> THEN Item(s, 1) ELSE IfAny(s, 1)
Amounts(a, A, b, B, c, C, s) == a * A + b * B + c * C + s * 1
AreNumbers(a, A, b, B, c, C, s) ==
    a \in Nat /\ A \in Nat /\ b \in Nat /\ B \in Nat /\ c \in Nat /\ C \in Nat /\ s \in Nat

\* Three items and the seconds.
LEMMA WorthFour ==
    ASSUME NEW a, NEW A, NEW b, NEW B, NEW c, NEW C, NEW s, AreNumbers(a, A, b, B, c, C, s)
    PROVE  Worth(Ending(Three(a, A, b, B, c, C), s)) = Amounts(a, A, b, B, c, C, s)
<1> a \in Nat /\ A \in Nat /\ b \in Nat /\ B \in Nat /\ c \in Nat /\ C \in Nat /\ s \in Nat
  BY DEF AreNumbers
<1>0. PICK longer : longer = Three(a, A, b, B, c, C)
  OBVIOUS
<1>1. PICK p, q, r : p = a * A /\ q = b * B /\ r = c * C
  OBVIOUS
<1>2. p \in Nat /\ q \in Nat /\ r \in Nat
  BY <1>1
<1>3. PICK e, x, y : e = <<>> /\ x = IfAny(a, A) /\ y = x \o IfAny(b, B)
  OBVIOUS
<1>4. e \in Seq(Items) /\ Worth(e) = 0
  BY <1>3, WorthNothing
<1>5. x \in Seq(Items) /\ Worth(x) = p
  <2>1. x \in Seq(Items) /\ Worth(e \o IfAny(a, A)) = Worth(e) + a * A
    BY <1>3, <1>4, WorthAny
  <2>2. e \o IfAny(a, A) = x
    BY <1>3, <2>1
  <2> QED BY <1>1, <1>2, <1>4, <2>1, <2>2
<1>6. y \in Seq(Items) /\ Worth(y) = p + q
  <2>1. y \in Seq(Items) /\ Worth(y) = Worth(x) + b * B
    BY <1>3, <1>5, WorthAny
  <2> QED BY <1>1, <1>5, <2>1
<1>7. longer \in Seq(Items) /\ Worth(longer) = p + q + r
  <2>1. longer = y \o IfAny(c, C)
    BY <1>0, <1>3 DEF Three
  <2>2. longer \in Seq(Items) /\ Worth(longer) = Worth(y) + c * C
    BY <1>6, <2>1, WorthAny
  <2> QED BY <1>1, <1>6, <2>2
<1>8. Worth(longer \o Item(s, 1)) = Worth(longer) + s * 1
      /\ Worth(longer \o IfAny(s, 1)) = Worth(longer) + s * 1
  <2>1. PICK u : u = 1
    OBVIOUS
  <2>2. u \in Nat
    BY <2>1
  <2>3. Worth(longer \o Item(s, u)) = Worth(longer) + s * u
    BY <1>7, <2>2, WorthAny
  <2>4. Worth(longer \o IfAny(s, u)) = Worth(longer) + s * u
    BY <1>7, <2>2, WorthAny
  <2> QED BY <2>1, <2>3, <2>4
<1>9. Worth(Ending(longer, s)) = p + q + r + s * 1
  BY <1>7, <1>8 DEF Ending
<1> QED BY <1>0, <1>1, <1>9 DEF Amounts

\* An age in words, whatever the units.
LEMMA WorthParts ==
    ASSUME NEW age \in Nat, NEW A \in Nat \ {0}, NEW B \in Nat \ {0}, NEW C \in Nat \ {0},
           Multiple(A, B), Multiple(B, C)
    PROVE  Worth(Ending(Three(Quot(age, A), A, Quot(Rem(age, A), B), B, Quot(Rem(age, B), C), C), Rem(age, C)))
               = age
<1>1. PICK q, q2, r1, r2 \in Nat : Splits(age, A, B, q, q2, r1, r2)
  BY SameRest
<1>2. PICK h, q3, r3, t \in Nat : Splits(age, B, C, h, q3, r3, t)
  BY SameRest
<1>3. /\ Quot(age, A) = q /\ Rem(age, A) = r1 /\ Quot(r1, B) = q2 /\ Rem(age, B) = r2
      /\ age = q * A + q2 * B + r2
  BY <1>1 DEF Splits
<1>4. /\ Quot(age, B) = h /\ Rem(age, B) = r3 /\ Quot(r3, C) = q3 /\ Rem(age, C) = t
      /\ age = h * B + q3 * C + t
  BY <1>2 DEF Splits
<1>5. PICK x, y, z, u : x = q * A /\ y = q2 * B /\ z = q3 * C /\ u = h * B
  OBVIOUS
<1>6. x \in Nat /\ y \in Nat /\ z \in Nat /\ u \in Nat
  BY <1>5
<1>7. r2 = z + t
  <2>1. r2 = age - B * h
    BY <1>3, <1>4 DEF Rem
  <2>2. B * h = u /\ age = u + z + t
    BY <1>4, <1>5
  <2>3. r2 = age - u
    BY <2>1, <2>2
  <2> QED BY <1>6, <2>2, <2>3
<1>8. age = x + y + z + t * 1
  BY <1>3, <1>5, <1>6, <1>7
<1>9. Three(Quot(age, A), A, Quot(Rem(age, A), B), B, Quot(Rem(age, B), C), C) = Three(q, A, q2, B, q3, C)
  BY <1>3, <1>4
<1>10. Worth(Ending(Three(q, A, q2, B, q3, C), t)) = Amounts(q, A, q2, B, q3, C, t)
  <2>1. A \in Nat /\ B \in Nat /\ C \in Nat
    OBVIOUS
  <2>2. q \in Nat /\ q2 \in Nat /\ q3 \in Nat /\ t \in Nat
    OBVIOUS
  <2>3. AreNumbers(q, A, q2, B, q3, C, t)
    BY <2>1, <2>2 DEF AreNumbers
  <2> QED BY <2>3, WorthFour
<1>11. Amounts(q, A, q2, B, q3, C, t) = age
  BY <1>5, <1>8 DEF Amounts
<1> QED BY <1>4, <1>9, <1>10, <1>11

\* format_duration loses nothing of a time that is not negative.
LEMMA DurationWorth ==
    ASSUME NEW age \in Nat
    PROVE  Worth(format_duration(age)) = age
<1>1. format_duration(age)
          = Ending(Three(Quot(age, 86400), 86400, Quot(Rem(age, 86400), 3600), 3600,
                         Quot(Rem(age, 3600), 60), 60), Rem(age, 60))
  BY SMT DEF format_duration, Item, IfAny, Three, Ending
<1>2. 86400 \in Nat \ {0} /\ 3600 \in Nat \ {0} /\ 60 \in Nat \ {0}
  BY SMT
<1>3. Multiple(86400, 3600)
  <2>1. 24 \in Nat /\ 86400 = 3600 * 24
    BY SMT
  <2> QED BY <2>1, SMT DEF Multiple
<1>4. Multiple(3600, 60)
  <2>1. 60 \in Nat /\ 3600 = 60 * 60
    BY SMT
  <2> QED BY <2>1, SMT DEF Multiple
<1> QED BY <1>1, <1>2, <1>3, <1>4, WorthParts, SMT

-----------------------------------------------------------------------------
(* The rankings *)

\* A count that a flag takes is a number.
LEMMA CountsAreNumbers ==
    \A x \in Asking : x.kind # "Recent" => x.amount \in Nat
<1>1. \A u : FromChars(u).value \in Nat
  <2>1. ASSUME NEW u PROVE FromChars(u).value \in Nat
    <3>1. CASE u \in DOMAIN Numbers
      BY <3>1, NumbersAssumption DEF FromChars
    <3>2. CASE u \notin DOMAIN Numbers
      BY <3>2 DEF FromChars
    <3> QED BY <3>1, <3>2
  <2> QED BY <2>1
<1>2. \A kind, u : kind # "Recent" => Amount(kind, u) \in Nat
  BY <1>1 DEF Amount, parse_positive_size
<1>3. ASSUME NEW kind, NEW x \in Plain(kind) PROVE x.amount \in Nat
  BY DEF Plain
<1>4. ASSUME NEW kind, NEW u, NEW x \in Valued(kind, u), x.kind # "Recent" PROVE x.amount \in Nat
  <2>1. x = [kind |-> kind, amount |-> Amount(kind, u)]
    BY DEF Valued
  <2> QED BY <1>2, <1>4, <2>1
<1> QED BY <1>3, <1>4 DEF Asking

\* What RankingsRight asks of one report.
Ranked(action, r) ==
    LET n == action.amount
        recent == {f \in File : tree.files[f].modified >= Now - n}
    IN  CASE action.kind = "LargestFiles" -> Ranks(r, n, File, Size)
          [] action.kind = "LargestDirs" -> Ranks(r, n, Dir \ {0}, LAMBDA d : Sum(FilesIn(d), Size))
          [] action.kind = "Recent" ->
                 /\ Ranks(r.files, Cardinality(recent), recent, LAMBDA f : tree.files[f].modified)
                 /\ \A k \in DOMAIN r.ages :
                       LET age == Now - tree.files[r.files[k]].modified
                       IN  age >= 0 => Worth(r.ages[k]) = age
          [] OTHER -> TRUE

\* With the keys of the model for those of RanksBy.
LEMMA RanksFit ==
    ASSUME IsTree(tree), NEW ids, NEW n, NEW all
    PROVE  /\ RanksBy(ids, n, all, Weights) /\ all \subseteq File => Ranks(ids, n, all, Size)
           /\ RanksBy(ids, n, all, Below) /\ all \subseteq Dir
                  => Ranks(ids, n, all, LAMBDA d : Sum(FilesIn(d), Size))
           /\ RanksBy(ids, n, all, Times) /\ all \subseteq File
                  => Ranks(ids, n, all, LAMBDA f : tree.files[f].modified)
<1>1. ASSUME NEW key, RanksBy(ids, n, all, key)
      PROVE  /\ ToSet(ids) \subseteq all /\ IsInjective(ids)
             /\ Len(ids) = IF n < Cardinality(all) THEN n ELSE Cardinality(all)
             /\ \A j \in 2 .. Len(ids) : ids[j - 1] \in all /\ ids[j] \in all /\ key[ids[j - 1]] >= key[ids[j]]
             /\ \A x \in all \ ToSet(ids), y \in ToSet(ids) : x \in all /\ y \in all /\ key[x] <= key[y]
  <2>1. /\ ids \in Seq(all) /\ ToSet(ids) \subseteq all /\ IsInjective(ids)
        /\ Len(ids) = IF n < Cardinality(all) THEN n ELSE Cardinality(all)
        /\ \A j \in 2 .. Len(ids) : key[ids[j - 1]] >= key[ids[j]]
        /\ \A x \in all \ ToSet(ids), y \in ToSet(ids) : key[x] <= key[y]
    BY <1>1 DEF RanksBy
  <2>2. ASSUME NEW j \in 2 .. Len(ids) PROVE ids[j - 1] \in all /\ ids[j] \in all
    <3>1. j - 1 \in 1 .. Len(ids) /\ j \in 1 .. Len(ids)
      BY <2>1
    <3> QED BY <2>1, <3>1
  <2> QED BY <2>1, <2>2
<1>2. ASSUME RanksBy(ids, n, all, Weights), all \subseteq File PROVE Ranks(ids, n, all, Size)
  <2>1. \A f \in all : Weights[f] = Size(f)
    BY <1>2, FileKeys
  <2>2. PICK w : w = Weights
    OBVIOUS
  <2> QED BY <1>1, <1>2, <2>1, <2>2, Zenon DEF Ranks
<1>3. ASSUME RanksBy(ids, n, all, Below), all \subseteq Dir
      PROVE  Ranks(ids, n, all, LAMBDA d : Sum(FilesIn(d), Size))
  <2>1. \A d \in all : Below[d] = Sum(FilesIn(d), Size)
    BY <1>3 DEF Below
  <2> QED BY <1>1, <1>3, <2>1, Zenon DEF Ranks
<1>4. ASSUME RanksBy(ids, n, all, Times), all \subseteq File
      PROVE  Ranks(ids, n, all, LAMBDA f : tree.files[f].modified)
  <2>1. \A f \in all : Times[f] = tree.files[f].modified
    BY <1>4 DEF Times
  <2> QED BY <1>1, <1>4, <2>1, Zenon DEF Ranks
<1> QED BY <1>2, <1>3, <1>4

\* The recent files' ages in words are those of the files.
LEMMA AgesRight ==
    ASSUME IsTree(tree), NEW n, NEW S, S = {f \in File : tree.files[f].modified >= Now - n},
           NEW ids \in Seq(S)
    PROVE  LET r == print_recent_files(ids, tree, Now)
           IN  /\ r.files = ids
               /\ \A k \in DOMAIN r.ages : LET age == Now - tree.files[ids[k]].modified
                                          IN  age >= 0 => Worth(r.ages[k]) = age
<1>1. PICK r : r = print_recent_files(ids, tree, Now)
  OBVIOUS
<1>2. /\ r.files = ids /\ DOMAIN r.ages = DOMAIN ids
      /\ \A k \in DOMAIN ids : r.ages[k] = format_duration(Now - tree.files[ids[k]].modified)
  BY <1>1 DEF print_recent_files
<1>3. ASSUME NEW k \in DOMAIN ids, NEW age, age = Now - tree.files[ids[k]].modified, age >= 0
      PROVE  Worth(r.ages[k]) = age
  <2>1. ids[k] \in File
    <3>1. ids[k] \in S
      OBVIOUS
    <3> QED BY <3>1
  <2>2. tree.files[ids[k]].modified \in Int
    BY <2>1, FileKeys
  <2>3. age \in Nat
    BY <1>3, <2>2, ClockAssumption
  <2> QED BY <1>2, <1>3, <2>3, DurationWorth
<1> QED BY <1>1, <1>2, <1>3

\* Each ranking is right.
LEMMA ReportRanked ==
    ASSUME IsTree(tree), NEW action \in Asking, NEW c, c["metrics"] = compute_directory_metrics(tree),
           NEW r \in Reports(action, c)
    PROVE  Ranked(action, r)
<1>1. PICK n : n = action.amount
  OBVIOUS
<1>2. CASE action.kind = "LargestFiles"
  <2>1. r \in compute_largest_N_Files(tree, n)
    BY <1>1, <1>2 DEF Reports
  <2>2. n \in Nat
    BY <1>1, <1>2, CountsAreNumbers
  <2>3. RanksBy(r, n, File, Weights)
    BY <2>1, <2>2, LargestFilesRank
  <2>4. Ranks(r, n, File, Size)
    BY <2>3, RanksFit
  <2> QED BY <1>1, <1>2, <2>4 DEF Ranked
<1>3. CASE action.kind = "LargestDirs"
  <2>1. r \in compute_largest_N_Directories(tree, compute_directory_metrics(tree), n)
    BY <1>1, <1>3 DEF Reports
  <2>2. n \in Nat
    BY <1>1, <1>3, CountsAreNumbers
  <2>3. PICK D : D = Dir \ {0}
    OBVIOUS
  <2>4. RanksBy(r, n, D, Below) /\ D \subseteq Dir
    BY <2>1, <2>2, <2>3, LargestDirsRank
  <2>5. Ranks(r, n, D, LAMBDA d : Sum(FilesIn(d), Size))
    BY <2>4, RanksFit
  <2> QED BY <1>1, <1>3, <2>3, <2>5 DEF Ranked
<1>4. CASE action.kind = "Recent"
  <2>1. PICK ids \in compute_recent_files(tree, n) : r = print_recent_files(ids, tree, Now)
    BY <1>1, <1>4 DEF Reports
  <2>2. PICK S : S = {f \in File : tree.files[f].modified >= Now - n}
    OBVIOUS
  <2>3. RanksBy(ids, Cardinality(S), S, Times) /\ ids \in Seq(S) /\ S \subseteq File
    BY <2>2, RecentRank
  <2>4. Ranks(ids, Cardinality(S), S, LAMBDA f : tree.files[f].modified)
    BY <2>3, RanksFit
  <2>5. /\ r.files = ids
        /\ \A k \in DOMAIN r.ages : LET age == Now - tree.files[ids[k]].modified
                                   IN  age >= 0 => Worth(r.ages[k]) = age
    BY <2>1, <2>2, <2>3, AgesRight
  <2> QED BY <1>1, <1>4, <2>2, <2>4, <2>5 DEF Ranked
<1>5. CASE action.kind \notin {"LargestFiles", "LargestDirs", "Recent"}
  BY <1>5 DEF Ranked
<1> QED BY <1>2, <1>3, <1>4, <1>5

-----------------------------------------------------------------------------
(* What is printed *)

\* What is printed, and what is about to be, are reports of the actions with the
\* caches as they are.
PrintInv ==
    /\ \A a \in DOMAIN report : report[a] = None \/ report[a] \in Reports(actions[a], cache)
    /\ \E S : os \in Seq(S)
    /\ Len(os) <= launched
    /\ \A a \in DOMAIN os : os[a] \in Reports(actions[a], cache)

\* At first nothing is.
LEMMA PrintInit == Init => PrintInv
<1> SUFFICES ASSUME Init PROVE PrintInv
  OBVIOUS
<1>1. report = <<>> /\ os = <<>> /\ launched = 0
  BY DEF Init, ExecutorInit
<1>2. os \in Seq({}) /\ Len(os) = 0 /\ DOMAIN os = {} /\ DOMAIN report = {}
  BY <1>1
<1>3. \E S : os \in Seq(S)
  BY <1>2
<1> QED BY <1>1, <1>2, <1>3 DEF PrintInv

\* Before the reports are launched there is nothing to keep, ...
LEMMA NothingPrinted ==
    ASSUME AskedInv, PrintInv, launched = 0, UNCHANGED <<launched, report, os>>
    PROVE  PrintInv'
<1>1. PICK S : os \in Seq(S)
  BY DEF PrintInv
<1>2. PICK T : report \in Seq(T)
  BY DEF AskedInv
<1>3. Len(os) = 0 /\ Len(report) = 0
  BY <1>1 DEF PrintInv, AskedInv
<1>4. DOMAIN os = {} /\ DOMAIN report = {}
  BY <1>1, <1>2, <1>3
<1> QED BY <1>1, <1>3, <1>4 DEF PrintInv

\* The reports that are made from the tree with more than one operator, with the
\* tree as a parameter.
GroupsOf(t)       == {{}, UNION {Identical(t.files, ids) : ids \in ToSet(group_files_by_size(t.files))}}
FooterOf(t, groups) ==
    [groups |-> groups, total_files |-> Sum(groups, Cardinality),
     wasted |-> Sum(groups, LAMBDA g : t.files[CHOOSE f \in g : TRUE].size * (Cardinality(g) - 1))]
ScansOf(t)        == {FooterOf(t, groups) : groups \in GroupsOf(t)}
RecentOf(t, n)    == {print_recent_files(ids, t, Now) : ids \in compute_recent_files(t, n)}

\* ... and then what they are made from stays: the tree is all that the set of
\* reports of an action depends on, and the caches.
LEMMA ReportsStay ==
    ASSUME UNCHANGED <<tree, actions, cache>>
    PROVE  \A a : Reports(actions[a], cache)' = Reports(actions[a], cache)
<1>1. {Footer(groups) : groups \in GroupsFound} = ScansOf(tree)
  BY DEF ScansOf, FooterOf, GroupsOf, Footer, GroupsFound
<1>2. \A n : {print_recent_files(ids, tree, Now) : ids \in compute_recent_files(tree, n)} = RecentOf(tree, n)
  BY DEF RecentOf
<1>3. {Footer(groups) : groups \in GroupsFound}' = ScansOf(tree)'
  BY DEF ScansOf, FooterOf, GroupsOf, Footer, GroupsFound
<1>4. \A n : {print_recent_files(ids, tree, Now) : ids \in compute_recent_files(tree, n)}' = RecentOf(tree, n)'
  BY DEF RecentOf
<1>5. {Footer(groups) : groups \in GroupsFound}' = {Footer(groups) : groups \in GroupsFound}
  BY <1>1, <1>3
<1>6. \A n : {print_recent_files(ids, tree, Now) : ids \in compute_recent_files(tree, n)}'
                 = {print_recent_files(ids, tree, Now) : ids \in compute_recent_files(tree, n)}
  BY <1>2, <1>4
<1> QED BY <1>5, <1>6, ZenonT(60) DEF Reports

\* A step that leaves them all.
LEMMA PrintKept ==
    ASSUME PrintInv, UNCHANGED <<tree, actions, cache, launched, report, os>>
    PROVE  PrintInv'
BY ReportsStay DEF PrintInv

\* So every step keeps it.
LEMMA PrintNext ==
    LineInv /\ ParseInv /\ CacheInv /\ ResultInv /\ AskedInv /\ PrintInv /\ [Next]_vars => PrintInv'
<1> SUFFICES ASSUME LineInv, ParseInv, CacheInv, ResultInv, AskedInv, PrintInv, [Next]_vars
             PROVE  PrintInv'
  OBVIOUS
<1>1. CASE ParseStep /\ UNCHANGED executor_vars
  <2>1. UNCHANGED <<launched, report, os>> /\ pc = "parse"
    BY <1>1 DEF executor_vars, run_vars, ParseStep, UnknownOption, MissingValue, HandleFlag, ParseReturn, Parsing
  <2> QED BY <2>1, NothingPrinted DEF AskedInv
<1>2. CASE Warn \/ NoActions \/ PrintHelp \/ LaunchShared
  <2>1. UNCHANGED <<tree, actions, cache, launched, report, os>>
    BY <1>2 DEF Warn, NoActions, PrintHelp, LaunchShared, executor_vars, run_vars, parser_vars
  <2> QED BY <2>1, PrintKept
<1>3. CASE BuildTree \/ GetShared
  <2>1. UNCHANGED <<launched, report, os>> /\ pc \in {"parsed", "get"}
    BY <1>3 DEF BuildTree, GetShared, run_vars
  <2> QED BY <2>1, NothingPrinted DEF AskedInv
<1>4. CASE LaunchReport
  <2>1. /\ UNCHANGED <<tree, actions, cache, os>>
        /\ \/ launched' = launched + 1 /\ report' = Append(report, None)
           \/ UNCHANGED <<launched, report>>
    BY <1>4 DEF LaunchReport, parser_vars
  <2>2. CASE UNCHANGED <<launched, report>>
    BY <2>1, <2>2, PrintKept
  <2>3. CASE launched' = launched + 1 /\ report' = Append(report, None)
    <3>1. PICK S : report \in Seq(S)
      BY DEF AskedInv
    <3>2. Len(report) = launched /\ launched \in Nat
      BY DEF AskedInv
    <3>3. \A a \in DOMAIN report' : \/ a \in DOMAIN report /\ report'[a] = report[a]
                                    \/ report'[a] = None
      BY <2>3, <3>1, <3>2
    <3>4. \A a \in DOMAIN report' : report'[a] = None \/ report'[a] \in Reports(actions[a], cache)'
      BY <2>1, <3>3, ReportsStay DEF PrintInv
    <3>5. PICK T : os \in Seq(T)
      BY DEF PrintInv
    <3>6. Len(os') <= launched'
      BY <2>1, <2>3, <3>2, <3>5 DEF PrintInv
    <3>7. \A a \in DOMAIN os' : os'[a] \in Reports(actions[a], cache)'
      BY <2>1, ReportsStay DEF PrintInv
    <3> QED BY <2>1, <3>4, <3>5, <3>6, <3>7 DEF PrintInv
  <2> QED BY <2>1, <2>2, <2>3
<1>5. CASE PrintReport
  <2>1. /\ pc = "print" /\ UNCHANGED <<tree, actions, cache, launched, report>>
        /\ \/ UNCHANGED os
           \/ /\ Len(os) + 1 <= launched /\ report[Len(os) + 1] # None
              /\ os' = Append(os, report[Len(os) + 1])
    <3>1. PICK next : next = Len(os) + 1
      OBVIOUS
    <3>2. PICK T : os \in Seq(T)
      BY DEF PrintInv
    <3>3. next \in Nat /\ launched \in Nat
      BY <3>1, <3>2 DEF AskedInv
    <3>4. ~(next > launched) => next <= launched
      BY <3>3
    <3> QED BY <1>5, <3>1, <3>4 DEF PrintReport, parser_vars
  <2>2. CASE UNCHANGED os
    BY <2>1, <2>2, PrintKept
  <2>3. CASE /\ Len(os) + 1 <= launched /\ report[Len(os) + 1] # None
             /\ os' = Append(os, report[Len(os) + 1])
    <3>1. PICK next, r : next = Len(os) + 1 /\ r = report[next]
      OBVIOUS
    <3>2. PICK T : os \in Seq(T)
      BY DEF PrintInv
    <3>3. PICK S : report \in Seq(S)
      BY DEF AskedInv
    <3>4. next \in Nat /\ launched \in Nat /\ Len(report) = launched /\ next \in 1 .. launched
      BY <2>3, <3>1, <3>2 DEF AskedInv
    <3>5. next \in DOMAIN report /\ r # None /\ os' = Append(os, r)
      BY <2>3, <3>1, <3>3, <3>4
    <3>6. r \in Reports(actions[next], cache)
      BY <3>1, <3>5 DEF PrintInv
    <3>7. PICK Q : Q = T \cup {r}
      OBVIOUS
    <3>8. os \in Seq(Q) /\ os' \in Seq(Q) /\ Len(os') = next
      <4>1. os \in Seq(Q)
        BY <3>2, <3>7
      <4> QED BY <3>1, <3>5, <3>7, <4>1
    <3>9. \A a \in DOMAIN os' : \/ a \in DOMAIN os /\ os'[a] = os[a]
                                \/ a = next /\ os'[a] = r
      BY <3>1, <3>5, <3>8
    <3>10. \A a \in DOMAIN os' : os'[a] \in Reports(actions[a], cache)'
      BY <2>1, <3>6, <3>9, ReportsStay DEF PrintInv
    <3>11. \A a \in DOMAIN report' : report'[a] = None \/ report'[a] \in Reports(actions[a], cache)'
      BY <2>1, ReportsStay DEF PrintInv
    <3>12. Len(os') <= launched' /\ \E Z : os' \in Seq(Z)
      BY <2>1, <3>4, <3>8
    <3> QED BY <3>10, <3>11, <3>12 DEF PrintInv
  <2> QED BY <2>1, <2>2, <2>3
<1>6. CASE \E c \in Cache : ComputeShared(c)
  <2>1. UNCHANGED <<tree, actions, cache, launched, report, os>>
    BY <1>6 DEF ComputeShared, parser_vars
  <2> QED BY <2>1, PrintKept
<1>7. CASE \E a \in DOMAIN report : Report(a)
  <2>1. PICK a \in DOMAIN report : Report(a)
    BY <1>7
  <2>2. /\ UNCHANGED <<tree, actions, launched, os>>
        /\ \/ UNCHANGED report
           \/ \E r \in Reports(actions[a], cache') : report' = [report EXCEPT ![a] = r]
    BY <2>1 DEF Report, parser_vars
  <2>3. UNCHANGED cache
    BY <2>1, ReportReads
  <2>4. CASE UNCHANGED report
    BY <2>2, <2>3, <2>4, PrintKept
  <2>5. CASE \E r \in Reports(actions[a], cache') : report' = [report EXCEPT ![a] = r]
    <3>1. PICK r : r \in Reports(actions[a], cache) /\ report' = [report EXCEPT ![a] = r]
      BY <2>3, <2>5
    <3>2. \A b \in DOMAIN report' : \/ b \in DOMAIN report /\ report'[b] = report[b]
                                    \/ b = a /\ report'[b] = r
      BY <3>1
    <3>3. \A b \in DOMAIN report' : report'[b] = None \/ report'[b] \in Reports(actions[b], cache)'
      BY <2>2, <2>3, <3>1, <3>2, ReportsStay DEF PrintInv
    <3>4. \A b \in DOMAIN os' : os'[b] \in Reports(actions[b], cache)'
      BY <2>2, <2>3, ReportsStay DEF PrintInv
    <3> QED BY <2>2, <3>3, <3>4 DEF PrintInv
  <2> QED BY <2>2, <2>4, <2>5
<1>8. CASE UNCHANGED vars
  <2>1. UNCHANGED <<tree, actions, cache, launched, report, os>>
    BY <1>8 DEF vars, executor_vars, run_vars, parser_vars
  <2> QED BY <2>1, PrintKept
<1> QED BY <1>1, <1>2, <1>3, <1>4, <1>5, <1>6, <1>7, <1>8
        DEF Next, MainStep, RunStep, ThreadStep, Ended

\* So what is printed is, for each action, one of its reports, and each ranking
\* among them is right.
LEMMA RankingsOfTree ==
    ASSUME ResultInv, AskedInv, PrintInv, os # <<>>
    PROVE  /\ IsTree(tree) /\ \A c \in Cache : cache[c] = Computed(c)
           /\ DOMAIN os = 1 .. Len(os) /\ \A a \in DOMAIN os : actions[a] \in Asking
           /\ \A a \in DOMAIN os : os[a] \in Reports(actions[a], cache)
           /\ RankingsRight
<1>1. IsTree(tree) /\ \A c \in Cache : cache[c] = Computed(c)
  BY DiskAssumption DEF ResultInv, TreeOnDisk
<1>2. PICK S : os \in Seq(S)
  BY DEF PrintInv
<1>3. /\ Len(os) \in Nat /\ DOMAIN os = 1 .. Len(os) /\ Len(os) <= launched
      /\ launched \in Nat /\ launched <= Len(actions) /\ actions \in Seq(Asking)
  BY <1>2 DEF PrintInv, AskedInv
<1>4. \A a \in DOMAIN os : actions[a] \in Asking
  <2>1. ASSUME NEW a \in DOMAIN os PROVE actions[a] \in Asking
    <3>1. Len(actions) \in Nat /\ a \in Nat /\ 1 <= a /\ a <= Len(actions)
      BY <1>3
    <3> QED BY <1>3, <3>1
  <2> QED BY <2>1
<1>5. cache["metrics"] = compute_directory_metrics(tree)
  BY <1>1, CacheFacts DEF Computed
<1>6. \A a \in DOMAIN os : Ranked(actions[a], os[a])
  <2>1. ASSUME NEW a \in DOMAIN os PROVE Ranked(actions[a], os[a])
    <3>1. os[a] \in Reports(actions[a], cache)
      BY DEF PrintInv
    <3> QED BY <1>1, <1>4, <1>5, <3>1, ReportRanked
  <2> QED BY <2>1
<1>7. RankingsRight
  BY <1>6 DEF RankingsRight, Ranked
<1> QED BY <1>1, <1>3, <1>4, <1>7 DEF PrintInv

-----------------------------------------------------------------------------
(* Sums of parts *)

Parts(part, R, J) ==
    /\ IsFiniteSet(R) /\ part \in [R -> SUBSET File]
    /\ \A x, y \in R : x # y => part[x] \cap part[y] = {}
    /\ \A x \in R : part[x] \subseteq J
    /\ \A f \in J : \E x \in R : f \in part[x]
Measured(v, R, part, M) == \A x \in R : v[x] = M[part[x]]

\* The measures of parts that have nothing in common add up to that of the whole.
LEMMA PartsAddUp ==
    ASSUME NEW R, NEW part, NEW J, Parts(part, R, J),
           NEW M \in [SUBSET File -> Nat], Additive(M),
           NEW v, Measured(v, R, part, M)
    PROVE  Total(v, R) = M[J]
<1> DEFINE Joint(Q) == UNION {part[x] : x \in Q}
<1>0. /\ IsFiniteSet(R) /\ part \in [R -> SUBSET File] /\ J = Joint(R)
      /\ \A x, y \in R : x # y => part[x] \cap part[y] = {}
      /\ \A x \in R : v[x] = M[part[x]]
  BY DEF Parts, Measured
<1>1. PICK Bad : Bad = {Q \in SUBSET R : Total(v, Q) # M[Joint(Q)]}
  OBVIOUS
<1>2. SUFFICES ASSUME Bad # {} PROVE FALSE
  BY <1>0, <1>1
<1>3. \A Q \in SUBSET R : IsFiniteSet(Q) /\ \A x \in Q : v[x] \in Nat
  <2>1. \A x \in R : v[x] \in Nat
    BY <1>0
  <2> QED BY <1>0, <2>1, FS_Subset
<1>4. PICK Q \in Bad : \A P \in Bad : Cardinality(Q) <= Cardinality(P)
  BY <1>1, <1>2, <1>3, Smallest
<1>5. Q \in SUBSET R /\ IsFiniteSet(Q) /\ Cardinality(Q) \in Nat /\ Total(v, Q) # M[Joint(Q)]
  BY <1>1, <1>3, FS_CardinalityType
<1>6. CASE Q = {}
  <2>1. Joint(Q) = {} /\ {} \in SUBSET File /\ {} \cap {} = {} /\ {} \cup {} = {}
    BY <1>6
  <2>2. M[{}] = M[{}] + M[{}] /\ M[{}] \in Nat
    BY <2>1 DEF Additive
  <2>3. M[{}] = 0
    <3>1. \A e : e = e + e /\ e \in Nat => e = 0
      OBVIOUS
    <3> QED BY <2>2, <3>1
  <2>4. Total(v, Q) = 0
    BY <1>3, <1>5, <1>6, TotalTakes
  <2> QED BY <1>5, <2>1, <2>3, <2>4
<1>7. CASE Q # {}
  <2>1. PICK x \in Q : TRUE
    BY <1>7
  <2>2. PICK P : P = Q \ {x}
    OBVIOUS
  <2>3. P \in SUBSET R /\ P \notin Bad
    <3>1. Cardinality(P) = Cardinality(Q) - 1
      BY <1>5, <2>1, <2>2, FS_RemoveElement
    <3> QED BY <1>4, <1>5, <2>2, <3>1
  <2>4. PICK S, T : S = part[x] /\ T = Joint(P)
    OBVIOUS
  <2>5. S \in SUBSET File /\ T \in SUBSET File /\ S \cap T = {} /\ Joint(Q) = S \cup T
    <3>1. x \in R /\ \A y \in P : y \in R /\ y # x
      BY <1>5, <2>1, <2>2
    <3>2. S \in SUBSET File /\ T \in SUBSET File
      BY <1>0, <2>3, <2>4, <3>1
    <3>3. S \cap T = {}
      BY <1>0, <2>4, <3>1
    <3>4. Joint(Q) = S \cup T
      BY <2>1, <2>2, <2>4
    <3> QED BY <3>2, <3>3, <3>4
  <2>6. Total(v, P) = M[T]
    BY <1>1, <2>3, <2>4
  <2>7. Total(v, Q) = v[x] + Total(v, P)
    <3>1. TakesAny(v, Q)
      BY <1>3, <1>5, TotalTakesAny
    <3> QED BY <2>1, <2>2, <3>1 DEF TakesAny
  <2>8. M[S \cup T] = M[S] + M[T]
    BY <2>5 DEF Additive
  <2>9. v[x] = M[S]
    BY <1>0, <1>5, <2>1, <2>4
  <2> QED BY <1>5, <2>5, <2>6, <2>7, <2>8, <2>9
<1> QED BY <1>6, <1>7

\* A sum of smaller numbers is smaller.
LEMMA SmallerTotal ==
    ASSUME NEW R, IsFiniteSet(R), R # {}, NEW v, NEW w,
           \A x \in R : v[x] \in Nat /\ w[x] \in Nat /\ v[x] < w[x]
    PROVE  Total(v, R) < Total(w, R)
<1>1. PICK Bad : Bad = {Q \in SUBSET R : Q # {} /\ ~(Total(v, Q) < Total(w, Q))}
  OBVIOUS
<1>2. SUFFICES ASSUME Bad # {} PROVE FALSE
  BY <1>1
<1>3. \A Q \in SUBSET R : IsFiniteSet(Q) /\ \A x \in Q : v[x] \in Nat /\ w[x] \in Nat
  BY FS_Subset
<1>4. PICK Q \in Bad : \A P \in Bad : Cardinality(Q) <= Cardinality(P)
  BY <1>1, <1>2, <1>3, Smallest
<1>5. Q \in SUBSET R /\ Q # {} /\ IsFiniteSet(Q) /\ Cardinality(Q) \in Nat /\ ~(Total(v, Q) < Total(w, Q))
  BY <1>1, <1>3, FS_CardinalityType
<1>6. PICK x \in Q : TRUE
  BY <1>5
<1>7. PICK P : P = Q \ {x}
  OBVIOUS
<1>8. P \in SUBSET R /\ P \notin Bad
  <2>1. Cardinality(P) = Cardinality(Q) - 1
    BY <1>5, <1>6, <1>7, FS_RemoveElement
  <2> QED BY <1>4, <1>5, <1>7, <2>1
<1>9. Total(v, Q) = v[x] + Total(v, P) /\ Total(w, Q) = w[x] + Total(w, P)
  <2>1. TakesAny(v, Q) /\ TakesAny(w, Q)
    BY <1>3, <1>5, TotalTakesAny
  <2> QED BY <1>6, <1>7, <2>1 DEF TakesAny
<1>10. /\ Total(v, P) \in Nat /\ Total(w, P) \in Nat
       /\ P = {} => Total(v, P) = 0 /\ Total(w, P) = 0
  BY <1>3, <1>8, TotalTakes
<1>11. P # {} => Total(v, P) < Total(w, P)
  BY <1>1, <1>8
<1>12. v[x] \in Nat /\ w[x] \in Nat /\ v[x] < w[x]
  BY <1>5, <1>6
<1> QED BY <1>5, <1>9, <1>10, <1>11, <1>12

\* The root is above all, so all files are below it.
LEMMA RootHoldsAll ==
    ASSUME IsTree(tree), Dir # {}
    PROVE  tree.root = 0 /\ 0 \in Dir /\ FilesIn(0) = File
<1>1. tree.root = 0 /\ 0 \in Dir
  BY TreeFacts DEF IsTree, Dir
<1>2. PICK Bad : Bad = {e \in Dir : 0 \notin PathUp[e]}
  OBVIOUS
<1>3. Bad = {}
  <2>1. SUFFICES ASSUME Bad # {} PROVE FALSE
    OBVIOUS
  <2>2. Bad \in SUBSET Nat
    BY <1>2, TreeFacts
  <2>3. PICK e \in Bad : \A x \in Bad : e <= x
    BY <2>1, <2>2, LeastNumber
  <2>4. e \in Dir /\ e \in Nat /\ 0 \notin PathUp[e]
    BY <1>2, <2>2
  <2>5. PathUp[e] = {e} \cup (IF e = 0 THEN {} ELSE PathUp[Above(tree, e)])
    BY <2>4, PathStep
  <2>6. PICK q : q = Above(tree, e)
    OBVIOUS
  <2>7. e # 0 /\ q \in 0 .. e - 1 /\ q \in Dir /\ 0 \notin PathUp[q]
    BY <2>4, <2>5, <2>6, TreeFacts
  <2>8. q \in Bad /\ ~(e <= q)
    BY <1>2, <2>4, <2>7
  <2> QED BY <2>3, <2>8
<1>4. {e \in Dir : 0 \in PathUp[e]} = Dir
  BY <1>2, <1>3
<1>5. FilesIn(0) = File
  BY <1>4 DEF FilesIn, IsTree, Dir, File
<1> QED BY <1>1, <1>5

\* There is one first of the greatest.
LEMMA OneGreatest ==
    ASSUME NEW f, DOMAIN f \in SUBSET Nat, \A x \in DOMAIN f : f[x] \in Int,
           NEW j \in FirstGreatest(f), NEW k \in FirstGreatest(f)
    PROVE  j = k
<1>1. j \in DOMAIN f /\ k \in DOMAIN f /\ f[j] <= f[k] /\ f[k] <= f[j]
      /\ (j < k => f[j] < f[k]) /\ (k < j => f[k] < f[j])
  BY DEF FirstGreatest
<1>2. j \in Nat /\ k \in Nat /\ f[j] \in Int /\ f[k] \in Int
  BY <1>1
<1> QED BY <1>1, <1>2

-----------------------------------------------------------------------------
(* What the reports say of the same thing *)

FileStats == [total_size : Nat, symlink_ids : Seq(File), largest_file_size : Nat,
              largest_file_id : File \cup {None}]
NoStats   == [total_size |-> 0, symlink_ids |-> <<>>, largest_file_size |-> 0, largest_file_id |-> None]
CountSize(fs, id) == fs.total_size + tree.files[id].size
CountLinks(fs, id) == IF tree.files[id].is_symlink THEN Append(fs.symlink_ids, id) ELSE fs.symlink_ids
CountMost(fs, id) == IF tree.files[id].size > fs.largest_file_size THEN tree.files[id].size
                     ELSE fs.largest_file_size
CountFile(fs, id) == IF tree.files[id].size > fs.largest_file_size THEN id ELSE fs.largest_file_id

\* The file statistics count one file after another.
LEMMA FileStatsSteps ==
    ASSUME IsTree(tree), NEW last, last = Cardinality(File)
    PROVE  \E g \in [0 .. last -> FileStats] :
               /\ g[0] = NoStats /\ compute_file_stats(tree) = g[last]
               /\ \A k \in 1 .. last : /\ g[k].total_size = CountSize(g[k - 1], k - 1)
                                       /\ g[k].largest_file_size = CountMost(g[k - 1], k - 1)
<1> DEFINE Counted(fs, id) == [total_size |-> CountSize(fs, id), symlink_ids |-> CountLinks(fs, id),
                               largest_file_size |-> CountMost(fs, id),
                               largest_file_id |-> CountFile(fs, id)]
<1>1. PICK V, c, ids : /\ V = FileStats
                       /\ c = Cardinality(File) /\ ids = InOrder(tree.files)
  OBVIOUS
<1>2. c \in Nat /\ File = 0 .. c - 1 /\ NoStats \in V
  <2>1. <<>> \in Seq(File)
    OBVIOUS
  <2> QED BY <1>1, <2>1, TreeFacts DEF FileStats, NoStats
<1>3. DOMAIN ids = 1 .. c /\ \A k \in 1 .. c : ids[k] = k - 1
  BY <1>1 DEF InOrder, File
<1>4. ASSUME NEW fs \in V, NEW id \in File PROVE Counted(fs, id) \in V
  <2>1. /\ fs.total_size \in Nat /\ fs.symlink_ids \in Seq(File) /\ fs.largest_file_size \in Nat
        /\ fs.largest_file_id \in File \cup {None}
    BY <1>1 DEF FileStats
  <2>2. tree.files[id].size \in Nat
    BY FileKeys
  <2>3. CountSize(fs, id) \in Nat /\ CountMost(fs, id) \in Nat /\ CountFile(fs, id) \in File \cup {None}
    BY <2>1, <2>2 DEF CountSize, CountMost, CountFile
  <2>4. CountLinks(fs, id) \in Seq(File)
    BY <2>1, AppendProperties DEF CountLinks
  <2> QED BY <1>1, <2>3, <2>4 DEF FileStats
<1>5. PICK H : H = [k \in 1 .. c |-> [v \in V |-> Counted(v, k - 1)]]
  OBVIOUS
<1>6. \A k \in 1 .. c : k - 1 \in File
  BY <1>2
<1> HIDE DEF Counted
<1>7. H \in [1 .. c -> [V -> V]]
  BY <1>4, <1>5, <1>6
<1>8. PICK f \in [SUBSET (1 .. c) -> V], g \in [0 .. c -> V] : Marches(f, g, c, NoStats, H)
  BY <1>2, <1>7, LeftFold
<1> DEFINE Is(iter) == iter = [s \in SUBSET DOMAIN ids |->
                                  IF s = {} THEN NoStats
                                  ELSE LET x == Max(s) IN Counted(iter[s \ {x}], ids[x])]
           It == CHOOSE iter : Is(iter)
<1>9. FoldLeft(Counted, NoStats, InOrder(tree.files)) = It[DOMAIN ids]
  BY <1>1 DEF FoldLeft, MapThenFoldSet
<1>10. ASSUME NEW s \in SUBSET (1 .. c)
       PROVE  f[s] = IF s = {} THEN NoStats ELSE Counted(f[s \ {Max(s)}], ids[Max(s)])
  <2>1. f[s] = IF s = {} THEN NoStats ELSE H[Max(s)][f[s \ {Max(s)}]]
    BY <1>8 DEF Marches
  <2>2. ASSUME s # {} PROVE Max(s) \in 1 .. c
    BY <1>2, <2>2, LastDrawn DEF Drawing, LastFirst
  <2>3. f[s \ {Max(s)}] \in V
    BY <1>8
  <2> QED BY <1>3, <1>5, <2>1, <2>2, <2>3
<1>11. Is(f)
  BY <1>3, <1>8, <1>10
<1>12. PICK it : it = It
  OBVIOUS
<1>13. Is(it)
  <2> HIDE DEF Is
  <2> QED BY <1>11, <1>12
<1>14. f[{}] = it[{}]
  BY <1>10, <1>13
<1>15. ASSUME NEW s \in SUBSET (1 .. c), s # {}, f[s \ {Max(s)}] = it[s \ {Max(s)}]
       PROVE  f[s] = it[s]
  <2>1. it[s] = Counted(it[s \ {Max(s)}], ids[Max(s)])
    BY <1>3, <1>13, <1>15
  <2> QED BY <1>10, <1>15, <2>1
<1>16. f[1 .. c] = it[1 .. c]
  BY <1>2, <1>14, <1>15, SameMarch
<1>17. FoldLeft(Counted, NoStats, InOrder(tree.files)) = g[c]
  BY <1>3, <1>8, <1>9, <1>12, <1>16 DEF Marches
<1>18. ASSUME NEW k \in 1 .. c
       PROVE  /\ g[k].total_size = CountSize(g[k - 1], k - 1)
              /\ g[k].largest_file_size = CountMost(g[k - 1], k - 1)
  <2>1. g[k] = H[k][g[k - 1]]
    BY <1>8 DEF Marches
  <2>2. g[k - 1] \in V
    BY <1>2, <1>8
  <2>3. g[k] = Counted(g[k - 1], k - 1)
    BY <1>5, <2>1, <2>2
  <2> QED BY <2>3 DEF Counted
<1>19. g[0] = NoStats
  BY <1>8 DEF Marches
<1>20. compute_file_stats(tree) = FoldLeft(Counted, NoStats, InOrder(tree.files))
  BY Zenon DEF compute_file_stats, Counted, NoStats, CountSize, CountLinks, CountMost, CountFile
<1> QED BY <1>1, <1>8, <1>17, <1>18, <1>19, <1>20

\* So they are the size of all files and that of the largest.
LEMMA FileStatsRight ==
    ASSUME IsTree(tree), NEW fs, fs = compute_file_stats(tree)
    PROVE  /\ fs.total_size = Weight[File] /\ fs.largest_file_size \in Nat
           /\ \A f \in File : Weights[f] <= fs.largest_file_size
           /\ fs.largest_file_size = 0 \/ \E f \in File : Weights[f] = fs.largest_file_size
<1>1. PICK c : c = Cardinality(File)
  OBVIOUS
<1>2. c \in Nat /\ File = 0 .. c - 1
  BY <1>1, TreeFacts
<1>3. PICK g \in [0 .. c -> FileStats] :
          /\ g[0] = NoStats /\ fs = g[c]
          /\ \A k \in 1 .. c : /\ g[k].total_size = CountSize(g[k - 1], k - 1)
                               /\ g[k].largest_file_size = CountMost(g[k - 1], k - 1)
  BY <1>1, FileStatsSteps
<1> DEFINE Fine(k) == /\ g[k].total_size = Weight[0 .. k - 1]
                      /\ \A f \in 0 .. k - 1 : Weights[f] <= g[k].largest_file_size
                      /\ \/ g[k].largest_file_size = 0
                         \/ \E f \in 0 .. k - 1 : Weights[f] = g[k].largest_file_size
<1>4. PICK Bad : Bad = {k \in 0 .. c : ~Fine(k)}
  OBVIOUS
<1>5. Bad = {}
  <2>1. SUFFICES ASSUME Bad # {} PROVE FALSE
    OBVIOUS
  <2>2. Bad \in SUBSET Nat
    BY <1>2, <1>4
  <2>3. PICK k \in Bad : \A x \in Bad : k <= x
    BY <2>1, <2>2, LeastNumber
  <2>4. k \in 0 .. c /\ k \in Nat /\ ~Fine(k)
    BY <1>2, <1>4, <2>2
  <2>5. CASE k = 0
    <3>1. 0 .. k - 1 = {} /\ {} \in SUBSET File /\ {} \cap {} = {} /\ {} \cup {} = {}
      BY <2>5
    <3>2. Weight[{}] \in Nat /\ Weight[{}] = Weight[{}] + Weight[{}]
      BY <3>1, Measures, ZenonT(60) DEF Additive
    <3>3. \A e : e = e + e /\ e \in Nat => e = 0
      OBVIOUS
    <3>4. Weight[{}] = 0
      BY <3>2, <3>3
    <3>5. g[k].total_size = 0 /\ g[k].largest_file_size = 0
      BY <1>3, <2>5 DEF NoStats
    <3> QED BY <2>4, <3>1, <3>4, <3>5
  <2>6. CASE k # 0
    <3>1. PICK p : p = k - 1
      OBVIOUS
    <3>2. p \in 0 .. c /\ p \in File /\ p \in Nat /\ k \in 1 .. c /\ k = p + 1 /\ ~(k <= p)
      BY <1>2, <2>4, <2>6, <3>1
    <3>3. Fine(p)
      BY <1>4, <2>3, <3>2
    <3>4. PICK S : S = 0 .. p - 1
      OBVIOUS
    <3>5. S \in SUBSET File /\ {p} \in SUBSET File /\ S \cap {p} = {} /\ 0 .. k - 1 = S \cup {p}
      BY <1>2, <3>2, <3>4
    <3>6. Weight[S \cup {p}] = Weight[S] + Weight[{p}]
      BY <3>5, Measures DEF Additive
    <3>7. Weight[{p}] = Weights[p] /\ Weights[p] \in Nat /\ Weights[p] = tree.files[p].size
      <4>1. Weights[p] \in Nat /\ Weights[p] = tree.files[p].size
        BY <3>2, FileKeys
      <4>2. PICK w : w = Weights
        OBVIOUS
      <4>3. \A x \in {p} : w[x] \in Nat
        BY <4>1, <4>2
      <4>4. IsFiniteSet({p})
        BY FS_Singleton
      <4>5. PICK Q : Q = {p} \ {p}
        OBVIOUS
      <4>6. TakesAny(w, {p}) /\ Total(w, Q) = 0
        <5>1. Q = {} /\ IsFiniteSet(Q) /\ \A x \in Q : w[x] \in Nat
          BY <4>5, FS_EmptySet
        <5> QED BY <4>3, <4>4, <5>1, TotalTakesAny, TotalTakes
      <4>7. Total(w, {p}) = w[p] + Total(w, Q)
        BY <4>5, <4>6 DEF TakesAny
      <4>8. Total(w, {p}) = w[p]
        BY <4>1, <4>2, <4>6, <4>7
      <4>9. Weight[{p}] = Total(w, {p})
        BY <3>5, <4>2 DEF Weight
      <4> QED BY <4>1, <4>2, <4>8, <4>9
    <3>8. g[p].largest_file_size \in Nat
      <4>1. g[p] \in FileStats
        BY <1>3, <3>2
      <4> QED BY <4>1 DEF FileStats
    <3>9. /\ g[k].total_size = g[p].total_size + Weights[p]
          /\ g[k].largest_file_size = IF Weights[p] > g[p].largest_file_size THEN Weights[p]
                                      ELSE g[p].largest_file_size
      BY <1>3, <3>1, <3>2, <3>7 DEF CountSize, CountMost
    <3>10. g[k].total_size = Weight[0 .. k - 1]
      BY <3>3, <3>4, <3>5, <3>6, <3>7, <3>9
    <3>11. \A f \in S : Weights[f] \in Nat
      BY <3>5, FileKeys
    <3>12. PICK a, b : a = g[p].largest_file_size /\ b = g[k].largest_file_size
      OBVIOUS
    <3>13. /\ a \in Nat /\ b = IF Weights[p] > a THEN Weights[p] ELSE a
           /\ \A f \in S : Weights[f] <= a
           /\ a = 0 \/ \E f \in S : Weights[f] = a
      BY <3>3, <3>4, <3>8, <3>9, <3>12
    <3>14. \A f \in S \cup {p} : Weights[f] <= b
      BY <3>7, <3>11, <3>13
    <3>15. b = 0 \/ \E f \in S \cup {p} : Weights[f] = b
      BY <3>7, <3>13
    <3> QED BY <2>4, <3>5, <3>10, <3>12, <3>14, <3>15
  <2> QED BY <2>5, <2>6
<1>6. Fine(c)
  BY <1>2, <1>4, <1>5
<1>7. fs.largest_file_size \in Nat
  <2>1. g[c] \in FileStats
    BY <1>2, <1>3
  <2> QED BY <1>3, <2>1 DEF FileStats
<1> QED BY <1>2, <1>3, <1>6, <1>7

\* The summary, by what it is made of.
LEMMA SummaryFacts ==
    ASSUME IsTree(tree), NEW m, NEW n, NEW fs, NEW s \in compute_summary(tree, m, n, fs)
    PROVE  /\ s.total_files = Cardinality(File) /\ s.total_size = fs.total_size
           /\ s.total_symlinks = Len(fs.symlink_ids) /\ s.total_empty_dir = n
           /\ s.total_errors = tree.errors /\ s.largest_file_size = fs.largest_file_size
           /\ s.max_depth_dir \in FirstGreatest(m.depth) /\ m.depth[s.max_depth_dir] = s.max_depth
           /\ s.max_depth_dir \in DOMAIN m.depth
<1>1. PICK d \in FirstGreatest(m.depth) :
          s = [total_directories |-> Cardinality(DOMAIN tree.directories),
               total_files |-> Cardinality(DOMAIN tree.files), total_size |-> fs.total_size,
               total_symlinks |-> Len(fs.symlink_ids), total_empty_dir |-> n,
               total_errors |-> tree.errors, largest_file_size |-> fs.largest_file_size,
               max_depth |-> m.depth[d], max_depth_dir |-> d]
  BY DEF compute_summary
<1>2. d \in DOMAIN m.depth
  BY DEF FirstGreatest
<1> QED BY <1>1, <1>2 DEF File

\* The statistics name the same deepest directory, and the size of the largest
\* directory below the root, if one holds anything.
LEMMA StatsFacts ==
    ASSUME IsTree(tree), NEW m, m = compute_directory_metrics(tree),
           NEW t \in print_directory_stats(compute_directory_stats(tree, m), tree), Dir # {}
    PROVE  /\ t.max_depth_dir \in FirstGreatest(m.depth) /\ t.max_depth = m.depth[t.max_depth_dir]
           /\ t.max_files_size \in Nat
           /\ \A d \in Dir \ {0} : m.recursive_size[d] <= t.max_files_size
           /\ t.max_files_size = 0 \/ \E d \in Dir \ {0} : m.recursive_size[d] = t.max_files_size
<1>1. t = compute_directory_stats(tree, m)
  BY DEF print_directory_stats
<1>2. FirstGreatest(m.depth) # {}
  <2>1. tree.root # None
    BY TreeFacts
  <2> QED BY <2>1, DeepestFound
<1> DEFINE others == DOMAIN tree.directories \ {tree.root}
           Over(f) == [d \in {d \in others : f[d] > 0} |-> f[d]]
           Most(f) == LET best == FirstGreatest(Over(f))
                      IN  IF best = {} THEN [dir |-> 0, value |-> 0]
                          ELSE LET d == CHOOSE d \in best : TRUE IN [dir |-> d, value |-> f[d]]
<1>3. /\ t.max_depth_dir = CHOOSE d \in FirstGreatest(m.depth) : TRUE
      /\ t.max_depth = m.depth[CHOOSE d \in FirstGreatest(m.depth) : TRUE]
      /\ t.max_files_size = Most(m.recursive_size).value
  BY <1>1, <1>2 DEF compute_directory_stats
<1>4. PICK f, D : f = m.recursive_size /\ D = Dir \ {0}
  OBVIOUS
<1>5. f \in [Dir -> Nat] /\ others = D
  BY <1>4, MetricsTyped, RootHoldsAll DEF Dir
<1>6. PICK h : h = Over(f)
  OBVIOUS
<1>7. /\ DOMAIN h = {d \in D : f[d] > 0} /\ \A d \in DOMAIN h : h[d] = f[d] /\ d \in D /\ d \in Dir /\ h[d] \in Nat
      /\ IsFiniteSet(DOMAIN h) /\ DOMAIN h \in SUBSET Nat
  <2>1. DOMAIN h = {d \in D : f[d] > 0} /\ \A d \in DOMAIN h : h[d] = f[d]
    BY <1>5, <1>6
  <2>2. DOMAIN h \in SUBSET Dir /\ \A d \in DOMAIN h : d \in D
    BY <1>4, <2>1
  <2>3. IsFiniteSet(DOMAIN h) /\ DOMAIN h \in SUBSET Nat
    BY <2>2, TreeFacts, FS_Subset
  <2> QED BY <1>5, <2>1, <2>2, <2>3
<1>8. PICK v : v = t.max_files_size
  OBVIOUS
<1>9. CASE FirstGreatest(h) = {}
  <2>1. v = 0
    BY <1>3, <1>4, <1>6, <1>8, <1>9
  <2>2. DOMAIN h = {}
    <3>1. \A x \in DOMAIN h : h[x] \in Int
      BY <1>7
    <3> QED BY <1>7, <1>9, <3>1, FirstGreatestFound
  <2>3. \A d \in D : f[d] <= 0
    <3>1. \A d \in D : f[d] \in Nat /\ ~(f[d] > 0)
      BY <1>4, <1>5, <1>7, <2>2
    <3> QED BY <3>1
  <2>4. v \in Nat /\ (\A d \in D : f[d] <= v) /\ v = 0
    BY <2>1, <2>3
  <2> HIDE DEF Most
  <2> QED BY <1>2, <1>3, <1>4, <1>8, <2>4
<1>10. CASE FirstGreatest(h) # {}
  <2>1. PICK d : d = CHOOSE x \in FirstGreatest(h) : TRUE
    OBVIOUS
  <2>2. d \in FirstGreatest(h) /\ v = f[d]
    BY <1>3, <1>4, <1>6, <1>8, <1>10, <2>1
  <2>3. d \in DOMAIN h /\ \A j \in DOMAIN h : h[j] <= h[d]
    BY <2>2 DEF FirstGreatest
  <2>4. d \in D /\ f[d] \in Nat /\ f[d] > 0
    BY <1>7, <2>3
  <2>5. \A e \in D : f[e] <= f[d]
    <3>1. ASSUME NEW e \in D PROVE f[e] <= f[d]
      <4>1. f[e] \in Nat
        BY <1>4, <1>5
      <4>2. CASE f[e] > 0
        BY <1>7, <2>3, <4>2
      <4>3. CASE ~(f[e] > 0)
        BY <2>4, <4>1, <4>3
      <4> QED BY <4>2, <4>3
    <3> QED BY <3>1
  <2> QED BY <1>2, <1>3, <1>4, <1>8, <2>2, <2>4, <2>5
<1> QED BY <1>9, <1>10

\* The first of a ranking is the greatest of all.
LEMMA FirstOfRanking ==
    ASSUME NEW ids, NEW n, NEW all, NEW key, RanksBy(ids, n, all, key), ids # <<>>,
           \A x \in all : key[x] \in Int
    PROVE  ids[1] \in all /\ \A x \in all : key[x] <= key[ids[1]]
<1>1. /\ ids \in Seq(all) /\ Len(ids) \in Nat /\ 1 \in 1 .. Len(ids) /\ DOMAIN ids = 1 .. Len(ids)
      /\ \A j \in 2 .. Len(ids) : key[ids[j - 1]] >= key[ids[j]]
      /\ \A x \in all \ ToSet(ids), y \in ToSet(ids) : key[x] <= key[y]
  <2>1. ids \in Seq(all) /\ Len(ids) \in Nat /\ DOMAIN ids = 1 .. Len(ids)
    BY DEF RanksBy
  <2>2. Len(ids) # 0
    BY <2>1
  <2>3. 1 \in 1 .. Len(ids)
    BY <2>1, <2>2
  <2> QED BY <2>1, <2>3 DEF RanksBy
<1>2. PICK c : c = Len(ids)
  OBVIOUS
<1>3. \A k \in 1 .. c : ids[k] \in all /\ key[ids[k]] \in Int /\ ids[k] \in ToSet(ids)
  BY <1>1, <1>2 DEF ToSet
<1>4. \A k \in 1 .. c - 1 : key[ids[k]] >= key[ids[k + 1]]
  <2>1. ASSUME NEW k \in 1 .. c - 1 PROVE key[ids[k]] >= key[ids[k + 1]]
    <3>1. PICK j : j = k + 1
      OBVIOUS
    <3>2. j \in 2 .. c /\ j - 1 = k
      BY <1>1, <1>2, <3>1
    <3>3. key[ids[j - 1]] >= key[ids[j]]
      BY <1>1, <1>2, <3>2
    <3> QED BY <3>1, <3>2, <3>3
  <2> QED BY <2>1
<1>5. \A p, q \in 1 .. c : p <= q => key[ids[p]] >= key[ids[q]]
  BY <1>1, <1>2, <1>3, <1>4, FallsFar
<1>6. PICK y : y = ids[1]
  OBVIOUS
<1>7. y \in all /\ y \in ToSet(ids) /\ key[y] \in Int
  BY <1>1, <1>2, <1>3, <1>6
<1>8. ASSUME NEW x \in all PROVE key[x] <= key[y]
  <2>1. CASE x \in ToSet(ids)
    <3>1. PICK q \in 1 .. c : x = ids[q]
      BY <1>1, <1>2, <2>1 DEF ToSet
    <3>2. key[ids[1]] >= key[ids[q]]
      BY <1>1, <1>2, <1>5
    <3>3. key[y] >= key[x]
      BY <1>6, <3>1, <3>2
    <3> QED BY <1>7, <3>3
  <2>2. CASE x \notin ToSet(ids)
    BY <1>1, <1>7, <2>2
  <2> QED BY <2>1, <2>2
<1> QED BY <1>6, <1>7, <1>8

\* The sums over rows, as the sums of the model write them.
LEMMA CountTotal ==
    ASSUME NEW w, NEW S, IsFiniteSet(S), \A x \in S : w[x] = x.count /\ w[x] \in Nat
    PROVE  Sum(S, LAMBDA e : e.count) = Total(w, S)
<1> DEFINE Is(iter) == iter = [s \in SUBSET S |->
                                  IF s = {} THEN 0
                                  ELSE LET x == CHOOSE x \in s : TRUE IN x.count + iter[s \ {x}]]
           It == CHOOSE iter : Is(iter)
<1>1. PICK f \in [SUBSET S -> Nat] : Adds(f, w, S) /\ Total(w, S) = f[S]
  BY TotalAdds
<1>2. \A s \in SUBSET S : s # {} => w[CHOOSE x \in s : TRUE] = (CHOOSE x \in s : TRUE).count
  <2>1. \A s \in SUBSET S : s # {} => (CHOOSE x \in s : TRUE) \in S
    OBVIOUS
  <2> QED BY <2>1
<1>3. Is(f)
  BY <1>1, <1>2, SMTT(60) DEF Adds
<1>4. Is(It)
  BY <1>3, ZenonT(60)
<1>5. PICK g : g = It
  OBVIOUS
<1>6. Adds(g, w, S)
  <2>1. Is(g)
    <3> HIDE DEF Is, It
    <3> QED BY <1>4, <1>5
  <2>2. ASSUME NEW s \in SUBSET S, s # {}
        PROVE  (CHOOSE x \in s : TRUE).count = w[CHOOSE x \in s : TRUE]
    BY <1>2, <2>2
  <2> QED BY <2>1, <2>2 DEF Adds
<1>7. f[S] = g[S]
  BY <1>1, <1>6, AddsOnce
<1>8. Sum(S, LAMBDA e : e.count) = It[S]
  BY DEF Sum, MapThenSumSet, MapThenFoldSet
<1> QED BY <1>1, <1>5, <1>7, <1>8

\* The same for their sizes.
LEMMA RowSizeTotal ==
    ASSUME NEW w, NEW S, IsFiniteSet(S), \A x \in S : w[x] = x.total_size /\ w[x] \in Nat
    PROVE  Sum(S, LAMBDA e : e.total_size) = Total(w, S)
<1> DEFINE Is(iter) == iter = [s \in SUBSET S |->
                                  IF s = {} THEN 0
                                  ELSE LET x == CHOOSE x \in s : TRUE IN x.total_size + iter[s \ {x}]]
           It == CHOOSE iter : Is(iter)
<1>1. PICK f \in [SUBSET S -> Nat] : Adds(f, w, S) /\ Total(w, S) = f[S]
  BY TotalAdds
<1>2. \A s \in SUBSET S : s # {} => w[CHOOSE x \in s : TRUE] = (CHOOSE x \in s : TRUE).total_size
  <2>1. \A s \in SUBSET S : s # {} => (CHOOSE x \in s : TRUE) \in S
    OBVIOUS
  <2> QED BY <2>1
<1>3. Is(f)
  BY <1>1, <1>2, SMTT(60) DEF Adds
<1>4. Is(It)
  BY <1>3, ZenonT(60)
<1>5. PICK g : g = It
  OBVIOUS
<1>6. Adds(g, w, S)
  <2>1. Is(g)
    <3> HIDE DEF Is, It
    <3> QED BY <1>4, <1>5
  <2>2. ASSUME NEW s \in SUBSET S, s # {}
        PROVE  (CHOOSE x \in s : TRUE).total_size = w[CHOOSE x \in s : TRUE]
    BY <1>2, <2>2
  <2> QED BY <2>1, <2>2 DEF Adds
<1>7. f[S] = g[S]
  BY <1>1, <1>6, AddsOnce
<1>8. Sum(S, LAMBDA e : e.total_size) = It[S]
  BY DEF Sum, MapThenSumSet, MapThenFoldSet
<1> QED BY <1>1, <1>5, <1>7, <1>8

Wasted(g) == tree.files[CHOOSE f \in g : TRUE].size * (Cardinality(g) - 1)

\* And for the bytes that duplicates waste.
LEMMA WasteTotal ==
    ASSUME NEW w, NEW S, IsFiniteSet(S), \A g \in S : w[g] = Wasted(g) /\ w[g] \in Nat
    PROVE  Sum(S, Wasted) = Total(w, S)
<1> DEFINE Is(iter) == iter = [s \in SUBSET S |->
                                  IF s = {} THEN 0
                                  ELSE LET x == CHOOSE x \in s : TRUE IN Wasted(x) + iter[s \ {x}]]
           It == CHOOSE iter : Is(iter)
<1>1. PICK f \in [SUBSET S -> Nat] : Adds(f, w, S) /\ Total(w, S) = f[S]
  BY TotalAdds
<1>2. \A s \in SUBSET S : s # {} => w[CHOOSE x \in s : TRUE] = Wasted(CHOOSE x \in s : TRUE)
  <2>1. \A s \in SUBSET S : s # {} => (CHOOSE x \in s : TRUE) \in S
    OBVIOUS
  <2> QED BY <2>1
<1>3. Is(f)
  BY <1>1, <1>2 DEF Adds
<1>4. Is(It)
  BY <1>3, ZenonT(60)
<1>5. PICK g : g = It
  OBVIOUS
<1>6. Adds(g, w, S)
  <2>1. Is(g)
    <3> HIDE DEF Is, It
    <3> QED BY <1>4, <1>5
  <2>2. ASSUME NEW s \in SUBSET S, s # {}
        PROVE  Wasted(CHOOSE x \in s : TRUE) = w[CHOOSE x \in s : TRUE]
    BY <1>2, <2>2
  <2> QED BY <2>1, <2>2, ZenonT(60) DEF Adds
<1>7. f[S] = g[S]
  BY <1>1, <1>6, AddsOnce
<1>8. Sum(S, Wasted) = It[S]
  BY DEF Sum, MapThenSumSet, MapThenFoldSet
<1> QED BY <1>1, <1>5, <1>7, <1>8

\* The rows of the extension statistics.
Ext(f)  == Lower[tree.files[f].extension]
With(x) == {f \in File : Ext(f) = x}
Row(x)  == [extension |-> x, count |-> Cardinality(With(x)),
            total_size |-> Sum(With(x), LAMBDA f : tree.files[f].size)]
Rows    == {Row(x) : x \in {Ext(f) : f \in File}}

\* Every file counts for one row, so the rows add up to all files.
LEMMA RowsAddUp ==
    ASSUME IsTree(tree), NEW x \in compute_extension_stats(tree)
    PROVE  /\ Sum(ToSet(x), LAMBDA e : e.count) = Cardinality(File)
           /\ Sum(ToSet(x), LAMBDA e : e.total_size) = Weight[File]
<1>1. PICK R : R = Rows
  OBVIOUS
<1>2. IsFiniteSet(R)
  <2>1. PICK h : h = [f \in File |-> Row(Ext(f))]
    OBVIOUS
  <2>2. h \in Surjection(File, R)
    <3>1. h \in [File -> R]
      BY <1>1, <2>1 DEF Rows
    <3>2. \A r \in R : \E f \in File : h[f] = r
      BY <1>1, <2>1 DEF Rows
    <3> QED BY <3>1, <3>2 DEF Surjection
  <2> QED BY <2>2, TreeFacts, FS_Surjection
<1>3. x \in SetToSeqs(R)
  <2>1. compute_extension_stats(tree) = Descending(Rows, LAMBDA r : r.total_size)
    BY DEF compute_extension_stats, Rows, Row, With, Ext, File
  <2> QED BY <1>1, <2>1 DEF Descending
<1>4. ToSet(x) = R
  BY <1>2, <1>3, Enumerated
<1>5. ASSUME NEW y PROVE With(y) \in SUBSET File
  BY DEF With
<1>6. ASSUME NEW y
      PROVE  /\ Row(y).extension = y
             /\ Row(y).count = Count[With(y)] /\ Row(y).total_size = Weight[With(y)]
             /\ Count[With(y)] \in Nat /\ Weight[With(y)] \in Nat
  <2>1. PICK W : W = With(y)
    OBVIOUS
  <2>2. /\ Weight[W] \in Nat /\ Weight[W] = Sum(W, LAMBDA f : tree.files[f].size)
        /\ Count[W] \in Nat /\ Count[W] = Cardinality(W)
    BY <1>5, <2>1, Measures
  <2> QED BY <2>1, <2>2 DEF Row
<1>7. PICK part, n, w : /\ part = [r \in R |-> With(r.extension)]
                        /\ n = [r \in R |-> r.count] /\ w = [r \in R |-> r.total_size]
  OBVIOUS
<1>8. \A r \in R : r = Row(r.extension) /\ \E f \in File : r.extension = Ext(f)
  <2>1. ASSUME NEW r \in R PROVE r = Row(r.extension) /\ \E f \in File : r.extension = Ext(f)
    <3>1. PICK f \in File : r = Row(Ext(f))
      BY <1>1 DEF Rows
    <3>2. r.extension = Ext(f)
      BY <1>6, <3>1
    <3> QED BY <3>1, <3>2
  <2> QED BY <2>1
<1>9. part \in [R -> SUBSET File] /\ \A r \in R : part[r] = With(r.extension)
  BY <1>5, <1>7
<1>10. ASSUME NEW r \in R
       PROVE  /\ n[r] = r.count /\ w[r] = r.total_size /\ n[r] \in Nat /\ w[r] \in Nat
              /\ n[r] = Count[part[r]] /\ w[r] = Weight[part[r]]
  <2>1. PICK y : y = r.extension
    OBVIOUS
  <2>2. r = Row(y) /\ part[r] = With(y)
    BY <1>8, <1>9, <2>1
  <2>3. r.count = Count[With(y)] /\ r.total_size = Weight[With(y)] /\ Count[With(y)] \in Nat /\ Weight[With(y)] \in Nat
    BY <1>6, <2>2
  <2> QED BY <1>7, <2>2, <2>3
<1>11. \A r, q \in R : r # q => part[r] \cap part[q] = {}
  <2>1. ASSUME NEW r \in R, NEW q \in R, NEW f \in part[r], f \in part[q] PROVE r = q
    <3>1. Ext(f) = r.extension /\ Ext(f) = q.extension
      BY <1>9, <2>1 DEF With
    <3> QED BY <1>8, <3>1
  <2> QED BY <2>1
<1>12. Parts(part, R, File)
  <2>1. \A r \in R : part[r] \subseteq File
    BY <1>9
  <2>2. ASSUME NEW f \in File PROVE \E r \in R : f \in part[r]
    <3>1. PICK r : r = Row(Ext(f))
      OBVIOUS
    <3>2. r \in R /\ r.extension = Ext(f)
      BY <1>1, <1>6, <3>1 DEF Rows
    <3>3. f \in With(Ext(f))
      BY DEF With
    <3> QED BY <1>9, <3>2, <3>3
  <2> QED BY <1>2, <1>9, <1>11, <2>1, <2>2 DEF Parts
<1>13. PICK C, W : C = Count /\ W = Weight
  OBVIOUS
<1>14. C \in [SUBSET File -> Nat] /\ Additive(C) /\ W \in [SUBSET File -> Nat] /\ Additive(W)
  BY <1>13, Measures
<1>15. \A J, M, v : Parts(part, R, J) /\ M \in [SUBSET File -> Nat] /\ Additive(M) /\ Measured(v, R, part, M)
                    => Total(v, R) = M[J]
  BY PartsAddUp
<1>16. Total(n, R) = C[File]
  <2>1. Measured(n, R, part, C)
    BY <1>10, <1>13 DEF Measured
  <2> QED BY <1>12, <1>14, <1>15, <2>1
<1>17. Total(w, R) = W[File]
  <2>1. Measured(w, R, part, W)
    BY <1>10, <1>13 DEF Measured
  <2> QED BY <1>12, <1>14, <1>15, <2>1
<1>18. Sum(R, LAMBDA e : e.count) = Total(n, R)
  BY <1>2, <1>10, CountTotal
<1>19. Sum(R, LAMBDA e : e.total_size) = Total(w, R)
  BY <1>2, <1>10, RowSizeTotal
<1>20. Count[File] = Cardinality(File)
  BY Measures
<1> QED BY <1>4, <1>12, <1>13, <1>16, <1>17, <1>18, <1>19, <1>20

\* Files of one size weigh as many times that size.
LEMMA SameSize ==
    ASSUME IsTree(tree), NEW n \in Nat, NEW S \in SUBSET File, \A f \in S : Weights[f] = n
    PROVE  Weight[S] = n * Cardinality(S)
<1>1. PICK w : w = Weights
  OBVIOUS
<1>2. PICK Bad : Bad = {Q \in SUBSET S : Total(w, Q) # n * Cardinality(Q)}
  OBVIOUS
<1>3. ASSUME NEW Q \in SUBSET S PROVE IsFiniteSet(Q) /\ Cardinality(Q) \in Nat /\ \A x \in Q : w[x] \in Nat /\ w[x] = n
  <2>1. IsFiniteSet(Q)
    BY TreeFacts, FS_Subset
  <2> QED BY <1>1, <2>1, FS_CardinalityType
<1>4. Bad = {}
  <2>1. SUFFICES ASSUME Bad # {} PROVE FALSE
    OBVIOUS
  <2>2. \A Q \in Bad : IsFiniteSet(Q)
    BY <1>2, <1>3
  <2>3. PICK Q \in Bad : \A P \in Bad : Cardinality(Q) <= Cardinality(P)
    BY <2>1, <2>2, Smallest
  <2>4. Q \in SUBSET S /\ Total(w, Q) # n * Cardinality(Q)
    BY <1>2
  <2>5. IsFiniteSet(Q) /\ Cardinality(Q) \in Nat /\ \A x \in Q : w[x] \in Nat /\ w[x] = n
    BY <1>3, <2>4
  <2>6. CASE Q = {}
    <3>1. Total(w, Q) = 0 /\ Cardinality(Q) = 0
      BY <2>5, <2>6, TotalTakes, FS_EmptySet
    <3> QED BY <2>4, <3>1
  <2>7. CASE Q # {}
    <3>1. PICK x \in Q : TRUE
      BY <2>7
    <3>2. PICK P : P = Q \ {x}
      OBVIOUS
    <3>3. PICK c : c = Cardinality(P)
      OBVIOUS
    <3>4. Cardinality(P) = Cardinality(Q) - 1
      BY <2>5, <3>1, <3>2, FS_RemoveElement
    <3>5. P \in SUBSET S /\ c \in Nat
      BY <1>3, <2>4, <3>2, <3>3
    <3>6. P \notin Bad
      BY <2>3, <2>5, <3>3, <3>4, <3>5
    <3>7. Total(w, P) = n * c
      BY <1>2, <3>3, <3>5, <3>6
    <3>8. Total(w, Q) = n + n * c
      <4>1. TakesAny(w, Q)
        BY <2>5, TotalTakesAny
      <4>2. Total(w, Q) = w[x] + Total(w, P)
        BY <3>1, <3>2, <4>1 DEF TakesAny
      <4> QED BY <2>5, <3>1, <3>7, <4>2
    <3>9. \A b \in Nat : n * (b + 1) = n + n * b
      OBVIOUS
    <3>10. Cardinality(Q) = c + 1
      BY <2>5, <3>3, <3>4
    <3> QED BY <2>4, <3>5, <3>8, <3>9, <3>10
  <2> QED BY <2>6, <2>7
<1>5. Weight[S] = Total(w, S)
  BY <1>1 DEF Weight
<1> QED BY <1>2, <1>4, <1>5

\* The groups a scan may report: files of one size, that is not 0, and of one content,
\* at least two of them.
IsGroup(g) ==
    /\ g \in SUBSET File /\ Cardinality(g) >= 2
    /\ \E n \in Nat : n > 0 /\ \A f \in g : tree.files[f].size = n
AllGroups == UNION {Identical(tree.files, ids) : ids \in ToSet(group_files_by_size(tree.files))}

\* Two groups have no file in common.
LEMMA GroupsApart ==
    ASSUME IsTree(tree)
    PROVE  /\ \A g \in AllGroups : IsGroup(g)
           /\ \A g, h \in AllGroups : g # h => g \cap h = {}
<1> DEFINE OfSize(n) == {id \in File : Eligible(tree.files[id]) /\ tree.files[id].size = n}
           Like(ids, k) == {j \in ids : tree.files[j].content = tree.files[k].content}
<1>1. PICK by : by = group_files_by_size(tree.files)
  OBVIOUS
<1>2. \A ids \in ToSet(by) : \E n : ids = OfSize(n)
  BY <1>1 DEF group_files_by_size, ToSet, File
<1>3. \A ids, g : g \in Identical(tree.files, ids) => Cardinality(g) >= 2 /\ \E k \in ids : g = Like(ids, k)
  BY DEF Identical
<1>4. ASSUME NEW g \in AllGroups PROVE Cardinality(g) >= 2 /\ \E n : \E k \in OfSize(n) : g = Like(OfSize(n), k)
  <2>1. PICK ids \in ToSet(by) : g \in Identical(tree.files, ids)
    BY <1>1 DEF AllGroups
  <2>2. PICK n : ids = OfSize(n)
    BY <1>2
  <2> HIDE DEF OfSize, Like
  <2> QED BY <1>3, <2>1, <2>2
<1>5. ASSUME NEW g \in AllGroups PROVE IsGroup(g)
  <2>1. PICK n, k : k \in OfSize(n) /\ g = Like(OfSize(n), k)
    BY <1>4
  <2>2. n \in Nat /\ n > 0
    <3>1. k \in File /\ Eligible(tree.files[k]) /\ tree.files[k].size = n
      BY <2>1
    <3>2. n \in Nat /\ n # 0
      BY <3>1 DEF Eligible, IsTree, File
    <3> QED BY <3>2
  <2>3. g \in SUBSET File /\ \A f \in g : tree.files[f].size = n
    BY <2>1
  <2> QED BY <1>4, <2>2, <2>3 DEF IsGroup
<1>6. ASSUME NEW g \in AllGroups, NEW h \in AllGroups, NEW f \in g, f \in h PROVE g = h
  <2>1. PICK n, k : k \in OfSize(n) /\ g = Like(OfSize(n), k)
    BY <1>4
  <2>2. PICK m, j : j \in OfSize(m) /\ h = Like(OfSize(m), j)
    BY <1>4
  <2>3. n = m
    BY <1>6, <2>1, <2>2
  <2>4. tree.files[k].content = tree.files[j].content
    BY <1>6, <2>1, <2>2
  <2> QED BY <2>1, <2>2, <2>3, <2>4
<1> QED BY <1>5, <1>6

\* One file of each group is not wasted.
LEMMA GroupWastes ==
    ASSUME IsTree(tree), NEW g, IsGroup(g)
    PROVE  Wasted(g) \in Nat /\ Weight[g] \in Nat /\ Wasted(g) < Weight[g]
<1>1. /\ g \in SUBSET File /\ Cardinality(g) >= 2 /\ Cardinality(g) \in Nat /\ IsFiniteSet(g)
  <2>1. g \in SUBSET File /\ Cardinality(g) >= 2
    BY DEF IsGroup
  <2>2. IsFiniteSet(g)
    BY <2>1, TreeFacts, FS_Subset
  <2> QED BY <2>1, <2>2, FS_CardinalityType
<1>2. PICK n \in Nat : n > 0 /\ \A f \in g : tree.files[f].size = n
  BY DEF IsGroup
<1>3. g # {}
  <2>1. g = {} => Cardinality(g) = 0
    BY FS_EmptySet
  <2> QED BY <1>1, <2>1
<1>4. (CHOOSE f \in g : TRUE) \in g
  BY <1>3
<1>5. PICK c : c = Cardinality(g) - 1
  OBVIOUS
<1>6. c \in Nat /\ Cardinality(g) = c + 1
  BY <1>1, <1>5
<1>7. Wasted(g) = n * c
  BY <1>2, <1>4, <1>5 DEF Wasted
<1>8. \A f \in g : Weights[f] = n
  BY <1>1, <1>2, FileKeys
<1>9. Weight[g] = n * (c + 1)
  BY <1>1, <1>6, <1>8, SameSize
<1>10. n * (c + 1) = n + n * c
  BY <1>6
<1>11. \A x, y \in Nat : x * y \in Nat
  OBVIOUS
<1>12. PICK p : p = n * c
  OBVIOUS
<1>13. p \in Nat
  BY <1>6, <1>11, <1>12
<1> QED BY <1>2, <1>7, <1>9, <1>10, <1>12, <1>13

\* So a scan that finds anything wastes less than all files have.
LEMMA ScanWastes ==
    ASSUME IsTree(tree), NEW groups \in GroupsFound
    PROVE  Footer(groups).groups = {} \/ Footer(groups).wasted < Weight[File]
<1>1. PICK G : G = groups
  OBVIOUS
<1>2. Footer(groups).groups = G /\ Footer(groups).wasted = Sum(G, Wasted)
  BY <1>1 DEF Footer, Wasted
<1>3. SUFFICES ASSUME G # {} PROVE Sum(G, Wasted) < Weight[File]
  BY <1>2
<1>4. G = AllGroups
  BY <1>1, <1>3 DEF GroupsFound, AllGroups
<1>5. \A g \in G : g \in SUBSET File /\ Wasted(g) \in Nat /\ Weight[g] \in Nat /\ Wasted(g) < Weight[g]
  BY <1>4, GroupsApart, GroupWastes DEF IsGroup
<1>6. IsFiniteSet(G)
  <2>1. G \subseteq SUBSET File
    BY <1>5
  <2>2. IsFiniteSet(SUBSET File)
    BY TreeFacts, FS_SUBSET
  <2> QED BY <2>1, <2>2, FS_Subset
<1>7. PICK v, w, part : /\ v = [g \in G |-> Wasted(g)] /\ w = [g \in G |-> Weight[g]]
                        /\ part = [g \in G |-> g]
  OBVIOUS
<1>8. \A g \in G : /\ v[g] = Wasted(g) /\ v[g] \in Nat /\ w[g] = Weight[g] /\ w[g] \in Nat
                   /\ v[g] < w[g] /\ part[g] = g /\ g \in SUBSET File
  BY <1>5, <1>7
<1>9. Sum(G, Wasted) = Total(v, G)
  BY <1>6, <1>8, WasteTotal
<1>10. Total(v, G) < Total(w, G)
  BY <1>3, <1>6, <1>8, SmallerTotal
<1>11. PICK J, M : J = UNION G /\ M = Weight
  OBVIOUS
<1>12. M \in [SUBSET File -> Nat] /\ Additive(M) /\ J \in SUBSET File
  BY <1>8, <1>11, Measures
<1>13. Parts(part, G, J)
  <2>1. \A g, h \in G : g # h => part[g] \cap part[h] = {}
    BY <1>4, <1>8, GroupsApart
  <2>2. part \in [G -> SUBSET File]
    BY <1>7, <1>8
  <2>3. \A g \in G : part[g] \subseteq J
    BY <1>8, <1>11
  <2>4. \A f \in J : \E g \in G : f \in part[g]
    BY <1>8, <1>11
  <2> QED BY <1>6, <2>1, <2>2, <2>3, <2>4 DEF Parts
<1>14. Measured(w, G, part, M)
  BY <1>8, <1>11 DEF Measured
<1>15. \A K, L, u : Parts(part, G, K) /\ L \in [SUBSET File -> Nat] /\ Additive(L) /\ Measured(u, G, part, L)
                    => Total(u, G) = L[K]
  BY PartsAddUp
<1>16. Total(w, G) = M[J]
  BY <1>12, <1>13, <1>14, <1>15
<1>17. M[File] = M[J] + M[File \ J] /\ M[J] \in Nat /\ M[File \ J] \in Nat
  <2>1. PICK K : K = File \ J
    OBVIOUS
  <2>2. K \in SUBSET File /\ J \cap K = {} /\ J \cup K = File
    BY <1>12, <2>1
  <2>3. M[J \cup K] = M[J] + M[K]
    BY <1>12, <2>2 DEF Additive
  <2>4. M[J] \in Nat /\ M[K] \in Nat
    BY <1>12, <2>2
  <2> QED BY <2>1, <2>2, <2>3, <2>4
<1>18. \A g \in G : v[g] \in Nat
  BY <1>8
<1>19. Total(v, G) \in Nat
  BY <1>6, <1>18, TotalTakes
<1> QED BY <1>9, <1>10, <1>11, <1>16, <1>17, <1>19

\* The metrics of the root are those of all files.
LEMMA RootMetrics ==
    ASSUME IsTree(tree), Dir # {}, NEW m, m = compute_directory_metrics(tree)
    PROVE  /\ m.recursive_size[tree.root] = Weight[File]
           /\ m.recursive_file_count[tree.root] = Cardinality(File)
<1>1. tree.root = 0 /\ 0 \in Dir /\ FilesIn(0) = File
  BY RootHoldsAll
<1>2. PICK S : S = FilesIn(0)
  OBVIOUS
<1>3. m.recursive_file_count[0] = Cardinality(S) /\ m.recursive_size[0] = Sum(S, Size)
  BY <1>1, <1>2, MetricsOfTree
<1>4. S \in SUBSET File
  BY <1>1, <1>2
<1>5. Weight[S] = Sum(S, Size)
  BY <1>4, Measures
<1> QED BY <1>1, <1>2, <1>3, <1>5

\* The largest file listed first is the one of the summary, ...
LEMMA FirstFile ==
    ASSUME IsTree(tree), NEW n \in Nat, NEW l \in compute_largest_N_Files(tree, n), l # <<>>,
           NEW fs, fs = compute_file_stats(tree)
    PROVE  Size(l[1]) = fs.largest_file_size
<1>1. PICK w, L, x : w = Weights /\ L = fs.largest_file_size /\ x = l[1]
  OBVIOUS
<1>2. L \in Nat /\ (\A f \in File : w[f] <= L) /\ (L = 0 \/ \E f \in File : w[f] = L)
  BY <1>1, FileStatsRight
<1>3. \A f \in File : w[f] \in Nat /\ w[f] = Size(f)
  BY <1>1, FileKeys
<1>4. x \in File /\ \A f \in File : w[f] <= w[x]
  <2>1. RanksBy(l, n, File, w)
    BY <1>1, LargestFilesRank
  <2>2. \A f \in File : w[f] \in Int
    BY <1>3
  <2> QED BY <1>1, <2>1, <2>2, FirstOfRanking
<1>5. w[x] = L
  <2>1. w[x] \in Nat /\ w[x] <= L
    BY <1>2, <1>3, <1>4
  <2>2. L <= w[x]
    BY <1>2, <1>4, <2>1
  <2> QED BY <1>2, <2>1, <2>2
<1> QED BY <1>1, <1>3, <1>4, <1>5

\* ... and the largest directory the one of the statistics.
LEMMA FirstDir ==
    ASSUME IsTree(tree), NEW n \in Nat, NEW m, m = compute_directory_metrics(tree),
           NEW l \in compute_largest_N_Directories(tree, m, n), l # <<>>,
           NEW t \in print_directory_stats(compute_directory_stats(tree, m), tree), Dir # {}
    PROVE  t.max_files_size = Sum(FilesIn(l[1]), Size)
<1>1. PICK w, L, x, D : w = Below /\ L = t.max_files_size /\ x = l[1] /\ D = Dir \ {0}
  OBVIOUS
<1>2. \A d \in D : d \in Dir /\ w[d] = m.recursive_size[d] /\ w[d] \in Nat /\ w[d] = Sum(FilesIn(d), Size)
  <2>1. ASSUME NEW d \in D
        PROVE  d \in Dir /\ w[d] = m.recursive_size[d] /\ w[d] \in Nat /\ w[d] = Sum(FilesIn(d), Size)
    <3>1. d \in Dir
      BY <1>1
    <3>2. w[d] = Sum(FilesIn(d), Size)
      BY <1>1, <3>1 DEF Below
    <3>3. m.recursive_size[d] = Sum(FilesIn(d), Size)
      BY <3>1, MetricsOfTree
    <3>4. m.recursive_size[d] \in Nat
      BY <3>1, MetricsTyped
    <3> QED BY <3>1, <3>2, <3>3, <3>4
  <2> QED BY <2>1
<1>3. L \in Nat /\ (\A d \in D : w[d] <= L) /\ (L = 0 \/ \E d \in D : w[d] = L)
  <2>1. /\ t.max_files_size \in Nat
        /\ \A d \in Dir \ {0} : m.recursive_size[d] <= t.max_files_size
        /\ t.max_files_size = 0 \/ \E d \in Dir \ {0} : m.recursive_size[d] = t.max_files_size
    BY StatsFacts
  <2> QED BY <1>1, <1>2, <2>1
<1>4. x \in D /\ \A d \in D : w[d] <= w[x]
  <2>1. RanksBy(l, n, D, w)
    BY <1>1, LargestDirsRank
  <2>2. \A d \in D : w[d] \in Int
    BY <1>2
  <2> QED BY <1>1, <2>1, <2>2, FirstOfRanking
<1>5. w[x] = L
  <2>1. w[x] \in Nat /\ w[x] <= L
    BY <1>2, <1>3, <1>4
  <2>2. L <= w[x]
    BY <1>3, <1>4, <2>1
  <2> QED BY <1>3, <2>1, <2>2
<1> QED BY <1>1, <1>2, <1>4, <1>5

\* A report of a kind that was printed is one of those of an action of that kind.
LEMMA WhatPrinted ==
    ASSUME ResultInv, AskedInv, PrintInv, os # <<>>,
           NEW m, m = compute_directory_metrics(tree), NEW e, e = compute_empty_directories(tree),
           NEW fs, fs = compute_file_stats(tree)
    PROVE  /\ \A s \in Printed("Summary") : s \in compute_summary(tree, m, Len(e), fs)
           /\ \A x \in Printed("Metrics") : x = m
           /\ \A x \in Printed("Extensions") : x \in compute_extension_stats(tree)
           /\ \A x \in Printed("Symlinks") : x = fs.symlink_ids
           /\ \A x \in Printed("EmptyDirs") : x = e
           /\ \A x \in Printed("Errors") : x = tree.errors
           /\ \A x \in Printed("LargestFiles") : \E n \in Nat : x \in compute_largest_N_Files(tree, n)
           /\ \A x \in Printed("LargestDirs") :
                 \E n \in Nat : x \in compute_largest_N_Directories(tree, m, n)
           /\ \A x \in Printed("Stats") : x \in print_directory_stats(compute_directory_stats(tree, m), tree)
           /\ \A x \in Printed("Duplicate") : \E groups \in GroupsFound : x = Footer(groups)
<1>1. cache["metrics"] = m /\ cache["empty_dirs"] = e /\ cache["file_stats"] = fs
  <2>1. \A c \in Cache : cache[c] = Computed(c)
    BY RankingsOfTree
  <2> QED BY <2>1, CacheFacts DEF Computed
<1>2. ASSUME NEW kind, NEW x \in Printed(kind)
      PROVE  \E action \in Asking : action.kind = kind /\ x \in Reports(action, cache)
  <2>1. PICK a \in DOMAIN os : actions[a].kind = kind /\ x = os[a]
    BY DEF Printed
  <2>2. actions[a] \in Asking /\ os[a] \in Reports(actions[a], cache)
    BY RankingsOfTree
  <2> QED BY <2>1, <2>2
<1>3. \A s \in Printed("Summary") : s \in compute_summary(tree, m, Len(e), fs)
  BY <1>1, <1>2 DEF Reports
<1>4. \A x \in Printed("Metrics") : x = m
  BY <1>1, <1>2 DEF Reports
<1>5. \A x \in Printed("Extensions") : x \in compute_extension_stats(tree)
  BY <1>2 DEF Reports
<1>6. \A x \in Printed("Symlinks") : x = fs.symlink_ids
  BY <1>1, <1>2 DEF Reports
<1>7. \A x \in Printed("EmptyDirs") : x = e
  BY <1>1, <1>2 DEF Reports
<1>8. \A x \in Printed("Errors") : x = tree.errors
  BY <1>2 DEF Reports
<1>9. \A x \in Printed("LargestFiles") : \E n \in Nat : x \in compute_largest_N_Files(tree, n)
  BY <1>2, CountsAreNumbers DEF Reports
<1>10. \A x \in Printed("LargestDirs") : \E n \in Nat : x \in compute_largest_N_Directories(tree, m, n)
  BY <1>1, <1>2, CountsAreNumbers DEF Reports
<1>11. \A x \in Printed("Stats") : x \in print_directory_stats(compute_directory_stats(tree, m), tree)
  BY <1>1, <1>2 DEF Reports
<1>12. \A x \in Printed("Duplicate") : \E groups \in GroupsFound : x = Footer(groups)
  BY <1>2 DEF Reports
<1> QED BY <1>3, <1>4, <1>5, <1>6, <1>7, <1>8, <1>9, <1>10, <1>11, <1>12

\* Put together, no two reports of a run contradict each other.
LEMMA Agreement ==
    ASSUME ResultInv, AskedInv, PrintInv, os # <<>>
    PROVE  ReportsAgree
<1>1. PICK m, e, fs : /\ m = compute_directory_metrics(tree) /\ e = compute_empty_directories(tree)
                      /\ fs = compute_file_stats(tree)
  OBVIOUS
<1>2. IsTree(tree)
  BY RankingsOfTree
<1>3. /\ \A s \in Printed("Summary") : s \in compute_summary(tree, m, Len(e), fs)
      /\ \A x \in Printed("Metrics") : x = m
      /\ \A x \in Printed("Extensions") : x \in compute_extension_stats(tree)
      /\ \A x \in Printed("Symlinks") : x = fs.symlink_ids
      /\ \A x \in Printed("EmptyDirs") : x = e
      /\ \A x \in Printed("Errors") : x = tree.errors
      /\ \A x \in Printed("LargestFiles") : \E n \in Nat : x \in compute_largest_N_Files(tree, n)
      /\ \A x \in Printed("LargestDirs") : \E n \in Nat : x \in compute_largest_N_Directories(tree, m, n)
      /\ \A x \in Printed("Stats") : x \in print_directory_stats(compute_directory_stats(tree, m), tree)
      /\ \A x \in Printed("Duplicate") : \E groups \in GroupsFound : x = Footer(groups)
  BY <1>1, WhatPrinted
<1>4. fs.total_size = Weight[File]
  BY <1>1, <1>2, FileStatsRight
<1>5. m.depth \in [Dir -> Nat]
  BY <1>1, <1>2, MetricsTyped
<1>6. Dir \in SUBSET Nat
  BY <1>2, TreeFacts
<1>7. ASSUME NEW s \in Printed("Summary")
      PROVE  /\ s.total_files = Cardinality(File) /\ s.total_size = Weight[File]
             /\ s.total_symlinks = Len(fs.symlink_ids) /\ s.total_empty_dir = Len(e)
             /\ s.total_errors = tree.errors /\ s.largest_file_size = fs.largest_file_size
             /\ s.max_depth_dir \in FirstGreatest(m.depth) /\ m.depth[s.max_depth_dir] = s.max_depth
             /\ Dir # {}
  <2>1. PICK n : n = Len(e)
    OBVIOUS
  <2>2. s \in compute_summary(tree, m, n, fs)
    BY <1>3, <2>1
  <2>3. /\ s.total_files = Cardinality(File) /\ s.total_size = fs.total_size
        /\ s.total_symlinks = Len(fs.symlink_ids) /\ s.total_empty_dir = n
        /\ s.total_errors = tree.errors /\ s.largest_file_size = fs.largest_file_size
        /\ s.max_depth_dir \in FirstGreatest(m.depth) /\ m.depth[s.max_depth_dir] = s.max_depth
        /\ s.max_depth_dir \in DOMAIN m.depth
    BY <1>2, <2>2, SummaryFacts
  <2>4. Dir # {}
    BY <1>5, <2>3
  <2> QED BY <1>4, <2>1, <2>3, <2>4
<1>8. ASSUME NEW s \in Printed("Summary"), NEW x \in Printed("Metrics")
      PROVE  /\ x.recursive_size[tree.root] = s.total_size
             /\ x.recursive_file_count[tree.root] = s.total_files
             /\ x.depth[s.max_depth_dir] = s.max_depth
  <2>1. /\ m.recursive_size[tree.root] = Weight[File]
        /\ m.recursive_file_count[tree.root] = Cardinality(File)
    BY <1>1, <1>2, <1>7, RootMetrics
  <2> QED BY <1>3, <1>7, <2>1
<1>9. ASSUME NEW s \in Printed("Summary"), NEW x \in Printed("Extensions")
      PROVE  /\ Sum(ToSet(x), LAMBDA r : r.count) = s.total_files
             /\ Sum(ToSet(x), LAMBDA r : r.total_size) = s.total_size
  <2>1. x \in compute_extension_stats(tree)
    BY <1>3
  <2>2. /\ Sum(ToSet(x), LAMBDA r : r.count) = Cardinality(File)
        /\ Sum(ToSet(x), LAMBDA r : r.total_size) = Weight[File]
    BY <1>2, <2>1, RowsAddUp
  <2> QED BY <1>7, <2>2
<1>10. ASSUME NEW s \in Printed("Summary")
       PROVE  /\ \A l \in Printed("Symlinks") : Len(l) = s.total_symlinks
              /\ \A l \in Printed("EmptyDirs") : Len(l) = s.total_empty_dir
              /\ \A l \in Printed("Errors") : l = s.total_errors
  BY <1>3, <1>7
<1>11. ASSUME NEW s \in Printed("Summary"), NEW l \in Printed("LargestFiles"), l # <<>>
       PROVE  Size(l[1]) = s.largest_file_size
  <2>1. PICK n \in Nat : l \in compute_largest_N_Files(tree, n)
    BY <1>3
  <2>2. Size(l[1]) = fs.largest_file_size
    BY <1>1, <1>2, <1>11, <2>1, FirstFile
  <2> QED BY <1>7, <2>2
<1>12. ASSUME NEW s \in Printed("Summary"), NEW t \in Printed("Stats")
       PROVE  t.max_depth = s.max_depth /\ t.max_depth_dir = s.max_depth_dir
  <2>1. t \in print_directory_stats(compute_directory_stats(tree, m), tree)
    BY <1>3
  <2>2. t.max_depth_dir \in FirstGreatest(m.depth) /\ t.max_depth = m.depth[t.max_depth_dir]
    BY <1>1, <1>2, <1>7, <2>1, StatsFacts
  <2>3. PICK f, j, k : f = m.depth /\ j = s.max_depth_dir /\ k = t.max_depth_dir
    OBVIOUS
  <2>4. /\ DOMAIN f \in SUBSET Nat /\ \A x \in DOMAIN f : f[x] \in Int
    <3>1. f \in [Dir -> Nat]
      BY <1>5, <2>3
    <3>2. DOMAIN f = Dir /\ \A x \in Dir : f[x] \in Nat
      BY <3>1
    <3> QED BY <1>6, <3>2
  <2>5. j \in FirstGreatest(f) /\ k \in FirstGreatest(f)
    BY <1>7, <2>2, <2>3
  <2>6. j = k
    BY <2>4, <2>5, OneGreatest
  <2> QED BY <1>7, <2>2, <2>3, <2>6
<1>13. ASSUME NEW s \in Printed("Summary"), NEW d \in Printed("Duplicate")
       PROVE  d.wasted < s.total_size \/ d.groups = {}
  <2>1. PICK groups \in GroupsFound : d = Footer(groups)
    BY <1>3
  <2>2. d.groups = {} \/ d.wasted < Weight[File]
    BY <1>2, <2>1, ScanWastes
  <2> QED BY <1>7, <2>2
<1>14. ASSUME NEW t \in Printed("Stats"), NEW l \in Printed("LargestDirs"), l # <<>>
       PROVE  t.max_files_size = Sum(FilesIn(l[1]), Size)
  <2>1. t \in print_directory_stats(compute_directory_stats(tree, m), tree)
    BY <1>3
  <2>2. PICK n \in Nat : l \in compute_largest_N_Directories(tree, m, n)
    BY <1>3
  <2>3. Dir # {}
    BY <2>1 DEF print_directory_stats, Dir
  <2> QED BY <1>1, <1>2, <1>14, <2>1, <2>2, <2>3, FirstDir
<1> QED BY <1>8, <1>9, <1>10, <1>11, <1>12, <1>13, <1>14, Zenon DEF ReportsAgree

\* The rankings are right and the reports agree, whatever the command line, the
\* tree and the order in which the threads end.
THEOREM ReportsAlwaysRight == Spec => []ReportsRight
<1>1. ResultInv /\ AskedInv /\ PrintInv => ReportsRight
  BY RankingsOfTree, Agreement DEF ReportsRight
<1> QED BY <1>1, ParseInit, ParseNext, CacheInit, CacheNext, ResultInit, ResultNext,
           AskedInit, AskedNext, PrintInit, PrintNext, PTL DEF Spec
=============================================================================
