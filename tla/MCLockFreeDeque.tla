--------------------------- MODULE MCLockFreeDeque ---------------------------
(* The instance of LockFreeDeque for TLC; its constants are numbers. *)
EXTENDS LockFreeDeque
=============================================================================
