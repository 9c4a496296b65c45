------------------------------ MODULE WorkDeque ------------------------------
(***************************************************************************)
(* What a LockFreeDeque<T> (src/src/builder/deque.cpp) promises: a         *)
(* double-ended queue whose owner pushes and pops at the back while any    *)
(* number of thieves take from the front, every item being handed out      *)
(* exactly once.  Items are told apart: the program stores directory ids.  *)
(*                                                                         *)
(* A steal_front or a pop_back that returns nullopt, because the deque is  *)
(* empty or a race was lost, changes nothing here: it stutters.            *)
(***************************************************************************)
EXTENDS Naturals, Sequences, SequencesExt

CONSTANT Item    \* what may be pushed

VARIABLES q,       \* the items inside, front first
          taken    \* the items handed out

vars == <<q, taken>>

Init == q = <<>> /\ taken = {}

Push(x) == /\ x \notin ToSet(q) \cup taken
           /\ q' = Append(q, x)
           /\ UNCHANGED taken

Pop == /\ q # <<>>
       /\ taken' = taken \cup {Last(q)}
       /\ q' = Front(q)

Steal == /\ q # <<>>
         /\ taken' = taken \cup {Head(q)}
         /\ q' = Tail(q)

Next == (\E x \in Item : Push(x)) \/ Pop \/ Steal

Spec == Init /\ [][Next]_vars
=============================================================================
