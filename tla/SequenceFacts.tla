----------------------------- MODULE SequenceFacts -----------------------------
(***************************************************************************)
(* Facts about sequences, finite sets and numbers that the proofs of       *)
(* several components rest on.  The deques, queues and lists of the        *)
(* program are all sequences that lose their head or their last element    *)
(* and gain a new last one.                                                *)
(***************************************************************************)
EXTENDS Orders, FiniteSetTheorems, SequenceTheorems, TLAPS

-----------------------------------------------------------------------------
(* Numbers *)

\* Every set of natural numbers has a least one.  The provers cannot be given a
\* property to do induction on; they can be given the set of counterexamples.
LEMMA LeastNumber ==
    ASSUME NEW T \in SUBSET Nat, T # {}
    PROVE  \E n \in T : \A m \in T : n <= m
<1> DEFINE Below == {1 .. n : n \in T}
<1>1. Below # {} /\ \A Y \in Below : Y \in SUBSET Nat /\ IsFiniteSet(Y)
  <2>1. ASSUME NEW n \in T PROVE 1 .. n \in SUBSET Nat /\ IsFiniteSet(1 .. n)
    BY FS_Interval
  <2> QED BY <2>1
<1>2. Below \subseteq FiniteSubsetsOf(Nat)
  BY <1>1 DEF FiniteSubsetsOf
<1>3. PICK X \in Below : \A Y \in Below : ~(<<Y, X>> \in StrictSubsetOrdering(Nat))
  BY <1>1, <1>2, WFMin, FS_StrictSubsetOrderingWellFounded
<1>4. PICK n \in T : X = 1 .. n
  BY <1>3
<1>5. ASSUME NEW m \in T, m < n PROVE FALSE
  <2>1. 1 .. m \subseteq 1 .. n /\ n \in 1 .. n /\ n \notin 1 .. m
    BY <1>5
  <2>2. 1 .. m # 1 .. n /\ 1 .. m \in SUBSET Nat /\ 1 .. n \in SUBSET Nat
    BY <2>1
  <2>3. <<1 .. m, 1 .. n>> \in StrictSubsetOrdering(Nat)
    BY <2>1, <2>2 DEF StrictSubsetOrdering
  <2> QED BY <1>3, <1>4, <2>3
<1> QED BY <1>5

\* A quotient and a remainder that fit are the quotient and the remainder.
LEMMA Division ==
    ASSUME NEW b \in Nat \ {0}, NEW d \in Nat, NEW r \in 0 .. b - 1, NEW x, x = d * b + r
    PROVE  x \div b = d /\ x % b = r
<1> DEFINE e == x \div b
           m == x % b
<1>1. e \in Nat /\ m \in 0 .. b - 1 /\ x = b * e + m
  OBVIOUS
<1> HIDE DEF e, m
<1>2. ~ (e >= d + 1)
  <2> SUFFICES ASSUME e >= d + 1 PROVE FALSE
    OBVIOUS
  <2>1. b * e >= b * (d + 1)
    BY <1>1
  <2>2. b * (d + 1) = d * b + b
    OBVIOUS
  <2> QED BY <1>1, <2>1, <2>2
<1>3. ~ (d >= e + 1)
  <2> SUFFICES ASSUME d >= e + 1 PROVE FALSE
    OBVIOUS
  <2>1. d * b >= (e + 1) * b
    BY <1>1
  <2>2. (e + 1) * b = b * e + b
    BY <1>1
  <2> QED BY <1>1, <2>1, <2>2
<1>4. e = d
  BY <1>1, <1>2, <1>3
<1>5. m = r
  BY <1>1, <1>4
<1> QED BY <1>4, <1>5 DEF e, m

-----------------------------------------------------------------------------
(* What the ends of a sequence give and leave *)

\* A sequence that loses its head loses that one element, and stays injective.
LEMMA HeadTaken ==
    ASSUME NEW S, NEW s \in Seq(S), s # <<>>
    PROVE  /\ Head(s) \in S /\ Tail(s) \in Seq(S)
           /\ Head(s) \in ToSet(s)
           /\ ToSet(s) = ToSet(Tail(s)) \cup {Head(s)}
           /\ IsInjective(s) => IsInjective(Tail(s)) /\ Head(s) \notin ToSet(Tail(s))
<1>1. Len(s) \in Nat \ {0} /\ DOMAIN s = 1 .. Len(s) /\ Head(s) = s[1]
  BY EmptySeq, LenProperties
<1>2. /\ Head(s) \in S /\ Tail(s) \in Seq(S) /\ Len(Tail(s)) = Len(s) - 1
      /\ DOMAIN Tail(s) = 1 .. Len(s) - 1
      /\ \A i \in 1 .. Len(s) - 1 : Tail(s)[i] = s[i + 1]
  BY HeadTailProperties, LenProperties
<1>4. Head(s) \in ToSet(s) /\ ToSet(s) = ToSet(Tail(s)) \cup {Head(s)}
  <2>1. \A i \in 1 .. Len(s) - 1 : i + 1 \in 1 .. Len(s)
    BY <1>1
  <2>2. \A x : x \in ToSet(s) <=> \E i \in 1 .. Len(s) : x = s[i]
    BY <1>1 DEF ToSet
  <2>3. \A x : x \in ToSet(Tail(s)) <=> \E i \in 1 .. Len(s) - 1 : x = s[i + 1]
    BY <1>2 DEF ToSet
  <2>4. Head(s) \in ToSet(s) /\ \A x \in ToSet(Tail(s)) : x \in ToSet(s)
    BY <1>1, <2>1, <2>2, <2>3
  <2>5. \A x \in ToSet(s) : x = Head(s) \/ x \in ToSet(Tail(s))
    <3>1. SUFFICES ASSUME NEW i \in 1 .. Len(s), i # 1 PROVE s[i] \in ToSet(Tail(s))
      BY <1>1, <2>2
    <3>2. i - 1 \in 1 .. Len(s) - 1 /\ s[i] = s[(i - 1) + 1]
      BY <1>1, <3>1
    <3> QED BY <3>2, <2>3
  <2> QED BY <2>4, <2>5
<1>5. ASSUME IsInjective(s) PROVE IsInjective(Tail(s)) /\ Head(s) \notin ToSet(Tail(s))
  <2>1. \A i, j \in 1 .. Len(s) : s[i] = s[j] => i = j
    BY <1>1, <1>5 DEF IsInjective
  <2>2. \A i \in 1 .. Len(s) - 1 : i + 1 \in 1 .. Len(s) /\ Tail(s)[i] = s[i + 1] /\ i + 1 # 1
    BY <1>1, <1>2
  <2>3. IsInjective(Tail(s))
    BY <1>1, <1>2, <2>1, <2>2 DEF IsInjective
  <2>4. Head(s) \notin ToSet(Tail(s))
    BY <1>1, <1>2, <2>1, <2>2 DEF ToSet
  <2> QED BY <2>3, <2>4
<1> QED BY <1>2, <1>4, <1>5

\* A sequence without its last element.
Shorter(s) == SubSeq(s, 1, Len(s) - 1)

\* The same of its last element.
LEMMA LastTaken ==
    ASSUME NEW S, NEW s \in Seq(S), s # <<>>
    PROVE  /\ s[Len(s)] \in S /\ Shorter(s) \in Seq(S)
           /\ s[Len(s)] \in ToSet(s)
           /\ ToSet(s) = ToSet(Shorter(s)) \cup {s[Len(s)]}
           /\ IsInjective(s) => IsInjective(Shorter(s)) /\ s[Len(s)] \notin ToSet(Shorter(s))
<1>1. Len(s) \in Nat \ {0} /\ DOMAIN s = 1 .. Len(s) /\ \A i \in 1 .. Len(s) : s[i] \in S
  BY EmptySeq, LenProperties, ElementOfSeq
<1>2. \A i \in 1 .. Len(s) - 1 : s[i] \in S
  BY <1>1
<1>3. /\ Shorter(s) \in Seq(S) /\ Len(Shorter(s)) = Len(s) - 1
      /\ \A i \in 1 .. Len(s) - 1 : Shorter(s)[i] = s[i]
  BY <1>1, <1>2, SubSeqProperties DEF Shorter
<1>4. DOMAIN Shorter(s) = 1 .. Len(s) - 1
  BY <1>3, LenProperties
<1>5. s[Len(s)] \in ToSet(s) /\ ToSet(s) = ToSet(Shorter(s)) \cup {s[Len(s)]}
  BY <1>1, <1>3, <1>4 DEF ToSet
<1>6. ASSUME IsInjective(s) PROVE IsInjective(Shorter(s)) /\ s[Len(s)] \notin ToSet(Shorter(s))
  BY <1>1, <1>3, <1>4, <1>6 DEF IsInjective, ToSet
<1> QED BY <1>1, <1>3, <1>5, <1>6

\* A sequence that gains a new last element.
LEMMA LastAdded ==
    ASSUME NEW S, NEW s \in Seq(S), NEW x \in S
    PROVE  /\ Append(s, x) \in Seq(S)
           /\ Append(s, x) # <<>>
           /\ ToSet(Append(s, x)) = ToSet(s) \cup {x}
           /\ IsInjective(s) /\ x \notin ToSet(s) => IsInjective(Append(s, x))
<1>1. Len(s) \in Nat /\ DOMAIN s = 1 .. Len(s)
  BY LenProperties
<1>2. /\ Append(s, x) \in Seq(S) /\ Len(Append(s, x)) = Len(s) + 1
      /\ DOMAIN Append(s, x) = 1 .. Len(s) + 1
      /\ \A i \in 1 .. Len(s) : Append(s, x)[i] = s[i]
      /\ Append(s, x)[Len(s) + 1] = x
  BY <1>1
<1>3. ToSet(Append(s, x)) = ToSet(s) \cup {x}
  BY <1>1, <1>2 DEF ToSet
<1>4. ASSUME IsInjective(s), x \notin ToSet(s) PROVE IsInjective(Append(s, x))
  BY <1>1, <1>2, <1>4 DEF IsInjective, ToSet
<1>5. Append(s, x) # <<>>
  BY <1>1, <1>2, EmptySeq
<1> QED BY <1>2, <1>3, <1>4, <1>5

\* Two sequences joined.
LEMMA Joined ==
    ASSUME NEW S, NEW s \in Seq(S), NEW t \in Seq(S)
    PROVE  /\ s \o t \in Seq(S) /\ DOMAIN (s \o t) = 1 .. Len(s) + Len(t)
           /\ ToSet(s \o t) = ToSet(s) \cup ToSet(t)
           /\ IsInjective(s) /\ IsInjective(t) /\ ToSet(s) \cap ToSet(t) = {}
                  => IsInjective(s \o t)
<1>1. /\ Len(s) \in Nat /\ DOMAIN s = 1 .. Len(s)
      /\ Len(t) \in Nat /\ DOMAIN t = 1 .. Len(t)
  BY LenProperties
<1>2. /\ s \o t \in Seq(S) /\ Len(s \o t) = Len(s) + Len(t)
      /\ \A i \in 1 .. Len(s) + Len(t) :
            (s \o t)[i] = IF i <= Len(s) THEN s[i] ELSE t[i - Len(s)]
  BY ConcatProperties
<1>3. DOMAIN (s \o t) = 1 .. Len(s) + Len(t)
  BY <1>2, LenProperties
<1>4. \A i \in 1 .. Len(s) : i \in DOMAIN (s \o t) /\ (s \o t)[i] = s[i]
  BY <1>1, <1>2, <1>3
<1>5. \A i \in 1 .. Len(t) : Len(s) + i \in DOMAIN (s \o t) /\ (s \o t)[Len(s) + i] = t[i]
  <2>1. SUFFICES ASSUME NEW i \in 1 .. Len(t)
                 PROVE  Len(s) + i \in DOMAIN (s \o t) /\ (s \o t)[Len(s) + i] = t[i]
    OBVIOUS
  <2>2. Len(s) + i \in 1 .. Len(s) + Len(t) /\ ~(Len(s) + i <= Len(s)) /\ Len(s) + i - Len(s) = i
    BY <1>1
  <2> QED BY <1>2, <1>3, <2>2
<1>6. \A k \in DOMAIN (s \o t) :
         \/ k \in 1 .. Len(s) /\ (s \o t)[k] = s[k]
         \/ k - Len(s) \in 1 .. Len(t) /\ (s \o t)[k] = t[k - Len(s)]
  BY <1>1, <1>2, <1>3
<1>7. ToSet(s \o t) = ToSet(s) \cup ToSet(t)
  <2>1. \A k \in DOMAIN (s \o t) : (s \o t)[k] \in ToSet(s) \cup ToSet(t)
    BY <1>1, <1>6 DEF ToSet
  <2>2. \A i \in DOMAIN s : s[i] \in ToSet(s \o t)
    BY <1>1, <1>4 DEF ToSet
  <2>3. \A i \in DOMAIN t : t[i] \in ToSet(s \o t)
    BY <1>1, <1>5 DEF ToSet
  <2> QED BY <2>1, <2>2, <2>3 DEF ToSet
<1>8. ASSUME IsInjective(s), IsInjective(t), ToSet(s) \cap ToSet(t) = {}
      PROVE  IsInjective(s \o t)
  <2>1. SUFFICES ASSUME NEW i \in DOMAIN (s \o t), NEW j \in DOMAIN (s \o t),
                        (s \o t)[i] = (s \o t)[j]
                 PROVE  i = j
    BY DEF IsInjective
  <2>2. \A k \in 1 .. Len(s), m \in 1 .. Len(t) : s[k] # t[m]
    BY <1>1, <1>8 DEF ToSet
  <2>3. i \in Int /\ j \in Int
    BY <1>1, <1>3
  <2>4. CASE i \in 1 .. Len(s) /\ j \in 1 .. Len(s)
    BY <2>1, <2>4, <1>1, <1>4, <1>8 DEF IsInjective
  <2>5. CASE i - Len(s) \in 1 .. Len(t) /\ j - Len(s) \in 1 .. Len(t)
    <3>1. ~(i \in 1 .. Len(s)) /\ ~(j \in 1 .. Len(s))
      BY <1>1, <2>5
    <3>2. t[i - Len(s)] = t[j - Len(s)]
      BY <2>1, <1>6, <3>1
    <3>3. i - Len(s) = j - Len(s)
      BY <3>2, <2>5, <1>1, <1>8 DEF IsInjective
    <3> QED BY <3>3, <2>3, <1>1
  <2> QED BY <2>1, <2>2, <2>4, <2>5, <1>6
<1> QED BY <1>2, <1>3, <1>7, <1>8

\* What leaves the front of one queue for the back of another keeps its place in
\* the two together, and so does what arrives at the back of the second.
LEMMA MovedOn ==
    ASSUME NEW S, NEW s \in Seq(S), NEW t \in Seq(S)
    PROVE  /\ t # <<>> => Append(s, Head(t)) \o Tail(t) = s \o t
           /\ \A x \in S : s \o Append(t, x) = Append(s \o t, x)
<1>1. ASSUME t # <<>> PROVE Append(s, Head(t)) \o Tail(t) = s \o t
  <2>1. Head(t) \in S /\ Tail(t) \in Seq(S)
    BY <1>1, HeadTailProperties
  <2>2. <<Head(t)>> \in Seq(S) /\ Append(s, Head(t)) = s \o <<Head(t)>>
    BY <2>1, AppendIsConcat
  <2>3. <<Head(t)>> \o Tail(t) = t
    BY <1>1, <2>1
  <2> QED BY <2>1, <2>2, <2>3, ConcatAssociative
<1>2. ASSUME NEW x \in S PROVE s \o Append(t, x) = Append(s \o t, x)
  <2>1. <<x>> \in Seq(S) /\ Append(t, x) = t \o <<x>>
    BY AppendIsConcat
  <2>2. s \o t \in Seq(S)
    BY ConcatProperties
  <2> QED BY <2>1, <2>2, ConcatAssociative, AppendIsConcat
<1> QED BY <1>1, <1>2

-----------------------------------------------------------------------------
(* Finite sets as sequences *)

\* A sequence that enumerates a finite set has its elements, once each.
LEMMA Enumerated ==
    ASSUME NEW S, IsFiniteSet(S), NEW s \in SetToSeqs(S)
    PROVE  /\ s \in Seq(S) /\ Len(s) = Cardinality(S) /\ DOMAIN s = 1 .. Cardinality(S)
           /\ ToSet(s) = S /\ IsInjective(s)
<1>1. Cardinality(S) \in Nat
  BY FS_CardinalityType
<1>2. /\ s \in [1 .. Cardinality(S) -> S]
      /\ \A i, j \in 1 .. Cardinality(S) : i # j => s[i] # s[j]
  BY DEF SetToSeqs
<1>3. s \in Seq(S) /\ Len(s) = Cardinality(S) /\ DOMAIN s = 1 .. Cardinality(S)
  BY <1>1, <1>2
<1>4. IsInjective(s)
  BY <1>2, <1>3 DEF IsInjective
<1>5. s \in Injection(1 .. Cardinality(S), S)
  BY <1>2, <1>4 DEF Injection
<1>6. Cardinality(1 .. Cardinality(S)) = Cardinality(S)
  BY <1>1, FS_Interval
<1>7. s \in Surjection(1 .. Cardinality(S), S)
  BY <1>5, <1>6, FS_Injection
<1>8. ToSet(s) = S
  BY <1>2, <1>3, <1>7 DEF Surjection, ToSet
<1> QED BY <1>3, <1>4, <1>8

\* A finite set of numbers can be written down in increasing order.
LEMMA Increasing ==
    ASSUME NEW S \in SUBSET Nat, IsFiniteSet(S)
    PROVE  \E s \in SetToSeqs(S) : \A i, j \in DOMAIN s : i < j => s[i] < s[j]
<1> DEFINE Sorted(s) == \A i, j \in DOMAIN s : i < j => s[i] < s[j]
           Bad == {n \in Nat : \E R \in SUBSET Nat : /\ IsFiniteSet(R) /\ Cardinality(R) = n
                                                     /\ ~ \E s \in SetToSeqs(R) : Sorted(s)}
<1>1. SUFFICES ASSUME Bad # {} PROVE FALSE
  BY FS_CardinalityType
<1>2. PICK n \in Bad : \A m \in Bad : n <= m
  BY <1>1, LeastNumber
<1>3. PICK R \in SUBSET Nat : /\ IsFiniteSet(R) /\ Cardinality(R) = n
                              /\ ~ \E s \in SetToSeqs(R) : Sorted(s)
  BY <1>2
<1>4. R # {}
  <2>1. ASSUME R = {} PROVE FALSE
    <3>1. Cardinality(R) = 0
      BY <2>1, FS_EmptySet
    <3>2. <<>> \in [1 .. 0 -> {}] /\ DOMAIN <<>> = {}
      BY EmptySeq
    <3>3. <<>> \in SetToSeqs(R) /\ Sorted(<<>>)
      BY <2>1, <3>1, <3>2 DEF SetToSeqs
    <3> QED BY <3>3, <1>3
  <2> QED BY <2>1
<1>5. PICK m \in R : \A k \in R : m <= k
  BY <1>4, LeastNumber
<1>6. /\ IsFiniteSet(R \ {m}) /\ Cardinality(R \ {m}) = n - 1 /\ n \in Nat /\ n # 0
      /\ n - 1 \in Nat
  <2>1. IsFiniteSet(R \ {m}) /\ Cardinality(R \ {m}) = n - 1
    BY <1>3, FS_RemoveElement
  <2>2. n - 1 \in Nat /\ n \in Nat
    BY <2>1, <1>2, FS_CardinalityType
  <2> QED BY <2>1, <2>2
<1>7. n - 1 \notin Bad
  BY <1>2, <1>6
<1>8. PICK t \in SetToSeqs(R \ {m}) : Sorted(t)
  BY <1>6, <1>7
<1>9. /\ DOMAIN t = 1 .. n - 1 /\ t \in [1 .. n - 1 -> R \ {m}]
      /\ \A i, j \in 1 .. n - 1 : i # j => t[i] # t[j]
  BY <1>6, <1>8 DEF SetToSeqs
<1> DEFINE s == [i \in 1 .. n |-> IF i = 1 THEN m ELSE t[i - 1]]
<1>10. \A i \in 1 .. n : i = 1 \/ i - 1 \in 1 .. n - 1
  BY <1>6
<1>11. s \in [1 .. n -> R] /\ DOMAIN s = 1 .. n
  BY <1>9, <1>10
<1>12. \A i \in 2 .. n : s[i] = t[i - 1] /\ i - 1 \in 1 .. n - 1 /\ s[i] \in R \ {m}
  BY <1>6, <1>9
<1>13. s[1] = m
  BY <1>6
<1> HIDE DEF s
<1>14. Sorted(s)
  <2>1. SUFFICES ASSUME NEW i \in 1 .. n, NEW j \in 1 .. n, i < j PROVE s[i] < s[j]
    BY <1>11
  <2>2. j \in 2 .. n
    BY <2>1, <1>6
  <2>3. CASE i = 1
    <3>1. s[i] = m /\ s[j] \in R /\ s[j] # m
      BY <2>2, <2>3, <1>12, <1>13
    <3>2. m <= s[j] /\ m \in Nat /\ s[j] \in Nat
      BY <3>1, <1>5
    <3> HIDE DEF Sorted, Bad
    <3> QED BY <3>1, <3>2
  <2>4. CASE i # 1
    <3>1. i \in 2 .. n /\ i - 1 < j - 1
      BY <2>1, <2>4, <1>6
    <3>2. i - 1 \in DOMAIN t /\ j - 1 \in DOMAIN t /\ s[i] = t[i - 1] /\ s[j] = t[j - 1]
      BY <2>2, <3>1, <1>9, <1>12
    <3> QED BY <3>1, <3>2, <1>8
  <2> QED BY <2>3, <2>4
<1>15. \A i, j \in 1 .. n : i # j => s[i] # s[j]
  <2>1. \A i, j \in 1 .. n : i < j => s[i] < s[j]
    BY <1>11, <1>14
  <2>2. \A i \in 1 .. n : s[i] \in Nat
    BY <1>11
  <2>3. \A i, j \in 1 .. n : i # j => i < j \/ j < i
    BY <1>6
  <2> QED BY <2>1, <2>2, <2>3
<1>16. s \in SetToSeqs(R)
  BY <1>3, <1>11, <1>15 DEF SetToSeqs
<1> QED BY <1>3, <1>14, <1>16

\* That is what Ascending gives.
LEMMA OrderFacts ==
    ASSUME NEW S \in SUBSET Nat, IsFiniteSet(S)
    PROVE  LET s == Ascending(S)
           IN  /\ s \in Seq(S) /\ DOMAIN s = 1 .. Cardinality(S) /\ Len(s) = Cardinality(S)
               /\ Cardinality(S) \in Nat /\ ToSet(s) = S /\ IsInjective(s)
               /\ \A i, j \in DOMAIN s : i < j => s[i] < s[j]
<1> DEFINE s == Ascending(S)
<1>1. s \in SetToSeqs(S) /\ \A i, j \in DOMAIN s : i < j => s[i] < s[j]
  BY Increasing DEF Ascending
<1> HIDE DEF s
<1>2. /\ s \in Seq(S) /\ DOMAIN s = 1 .. Cardinality(S) /\ Len(s) = Cardinality(S)
      /\ Cardinality(S) \in Nat /\ ToSet(s) = S /\ IsInjective(s)
  BY <1>1, Enumerated, FS_CardinalityType
<1> QED BY <1>1, <1>2 DEF s

\* Numbers have one increasing order.
LEMMA OneOrder ==
    ASSUME NEW s \in Seq(Nat), NEW t \in Seq(Nat), Len(s) = Len(t), ToSet(s) = ToSet(t),
           \A i, j \in DOMAIN s : i < j => s[i] < s[j],
           \A i, j \in DOMAIN t : i < j => t[i] < t[j]
    PROVE  s = t
<1> PICK n : n = Len(s)
  OBVIOUS
<1>1. /\ n \in Nat /\ DOMAIN s = 1 .. n /\ DOMAIN t = 1 .. n
      /\ \A i \in 1 .. n : s[i] \in Nat /\ t[i] \in Nat
  BY LenProperties, ElementOfSeq
<1> DEFINE Bad == {i \in 1 .. n : s[i] # t[i]}
<1>2. SUFFICES ASSUME Bad # {} PROVE FALSE
  BY <1>1, SeqEqual
<1>3. Bad \in SUBSET Nat
  BY <1>1
<1>4. PICK i \in Bad : \A m \in Bad : i <= m
  BY <1>2, <1>3, LeastNumber
<1>5. i \in 1 .. n /\ s[i] # t[i] /\ \A k \in 1 .. n : k < i => s[k] = t[k]
  BY <1>1, <1>4
<1>6. PICK j \in 1 .. n : t[j] = s[i]
  BY <1>1, <1>5 DEF ToSet
<1>7. PICK k \in 1 .. n : s[k] = t[i]
  BY <1>1, <1>5, ZenonT(40) DEF ToSet
<1>8. /\ \A a, b \in 1 .. n : a < b => s[a] < s[b]
      /\ \A a, b \in 1 .. n : a < b => t[a] < t[b]
  BY <1>1
<1>9. i \in Nat /\ j \in Nat /\ k \in Nat /\ s[i] \in Nat /\ t[i] \in Nat
  BY <1>1, <1>5
<1>10. CASE j < i
  <2>1. s[j] < s[i] /\ s[j] = s[i]
    BY <1>5, <1>6, <1>8, <1>10
  <2> QED BY <1>9, <2>1, SMTT(30)
<1>11. CASE k < i
  <2>1. t[k] < t[i] /\ t[k] = t[i]
    BY <1>5, <1>7, <1>8, <1>11
  <2> QED BY <1>9, <2>1
<1>12. CASE i < j /\ i < k
  <2>1. t[i] < s[i] /\ s[i] < t[i]
    BY <1>5, <1>6, <1>7, <1>8, <1>12
  <2> QED BY <1>9, <2>1
<1>13. CASE j = i \/ k = i
  BY <1>5, <1>6, <1>7, <1>13
<1> QED BY <1>9, <1>10, <1>11, <1>12, <1>13

\* A number above all others comes last.
LEMMA OrderGrows ==
    ASSUME NEW S \in SUBSET Nat, IsFiniteSet(S), NEW n \in Nat, \A x \in S : x < n
    PROVE  Ascending(S \cup {n}) = Append(Ascending(S), n)
<1> DEFINE s == Ascending(S)
           t == Ascending(S \cup {n})
           longer == Append(s, n)
<1>1. /\ s \in Seq(S) /\ DOMAIN s = 1 .. Cardinality(S) /\ Len(s) = Cardinality(S)
      /\ Cardinality(S) \in Nat /\ ToSet(s) = S
      /\ \A i, j \in DOMAIN s : i < j => s[i] < s[j]
  BY OrderFacts
<1>2. S \cup {n} \in SUBSET Nat /\ IsFiniteSet(S \cup {n}) /\ n \notin S
      /\ Cardinality(S \cup {n}) = Cardinality(S) + 1
  BY FS_AddElement
<1>3. /\ t \in Seq(S \cup {n}) /\ Len(t) = Cardinality(S) + 1 /\ ToSet(t) = S \cup {n}
      /\ \A i, j \in DOMAIN t : i < j => t[i] < t[j]
  BY <1>2, OrderFacts
<1> HIDE DEF s, t
<1>4. s \in Seq(Nat) /\ t \in Seq(Nat)
  <2>1. s \in [1 .. Len(s) -> S] /\ t \in [1 .. Len(t) -> S \cup {n}] /\ Len(s) \in Nat /\ Len(t) \in Nat
    BY <1>1, <1>3, LenProperties
  <2>2. s \in [1 .. Len(s) -> Nat] /\ t \in [1 .. Len(t) -> Nat]
    BY <2>1
  <2> QED BY <2>1, <2>2, SeqDef
<1>5. /\ longer \in Seq(Nat) /\ Len(longer) = Cardinality(S) + 1 /\ ToSet(longer) = S \cup {n}
  BY <1>1, <1>4, LastAdded, SMTT(30)
<1>6. ASSUME NEW i \in DOMAIN longer, NEW j \in DOMAIN longer, i < j
      PROVE  longer[i] < longer[j]
  <2>1. /\ i \in 1 .. Len(s) /\ longer[i] = s[i] /\ s[i] \in S
        /\ j \in 1 .. Len(s) => longer[j] = s[j]
        /\ j \notin 1 .. Len(s) => longer[j] = n
    BY <1>1, <1>4, <1>6
  <2> QED BY <1>1, <1>6, <2>1
<1> HIDE DEF longer
<1>7. t = longer
  BY <1>3, <1>4, <1>5, <1>6, OneOrder
<1> QED BY <1>7 DEF s, t, longer
=============================================================================
