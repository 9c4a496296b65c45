------------------------------- MODULE MCHasher -------------------------------
(* The instance of Hasher for TLC; its constants are numbers. *)
EXTENDS Hasher
=============================================================================
