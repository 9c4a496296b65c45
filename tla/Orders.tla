-------------------------------- MODULE Orders --------------------------------
(***************************************************************************)
(* The numbers of a finite set, written down in increasing order.  It is   *)
(* stated as what the list is, not as how it is sorted, so that proofs can *)
(* use it (SequenceFacts).                                                 *)
(***************************************************************************)
EXTENDS Integers, Sequences, SequencesExt

Ascending(S) == CHOOSE s \in SetToSeqs(S) : \A i, j \in DOMAIN s : i < j => s[i] < s[j]
=============================================================================
