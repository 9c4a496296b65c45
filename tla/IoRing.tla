-------------------------------- MODULE IoRing --------------------------------
(***************************************************************************)
(* The Ring of src/src/io/oring.cpp: the class of Ring on Windows, with    *)
(* another init() and with a next() that submits, pops and waits in three  *)
(* calls.  open, submit, release, reset and close_file do what Ring's do,  *)
(* and are used from there (an IoRing read is built whenever the queue has *)
(* room for it); a handle stands for the lowest free number.               *)
(***************************************************************************)
EXTENDS Ring

\* The ring, and an event that next() can do without.
IoInitHeld     == {{}, {"ring"}, {"ring", "event"}}
IoInitOk(held) == "ring" \in held

\* What init() may have got, and whether that will do.
InitOutcomes == IF ring.io = "IoRing" THEN IoInitHeld ELSE InitHeld
InitSucceeds(held) == IF ring.io = "IoRing" THEN IoInitOk(held) ELSE InitOk(held)

\* Mutant: once everything is submitted next() waits before it pops again.
NotPopped     == TRUE
NothingPopped == cq = <<>>

\* Nothing popped, nothing to submit: wait for the kernel.  Without an event
\* the wait is a call of SubmitIoRing, which is no step.
NextWait ==
    /\ ring.io = "IoRing" /\ "event" \in ring.held
    /\ ~ring.waiting
    /\ NothingPopped
    /\ ring.pending = 0 /\ ring.inflight > 0
    /\ ring' = [ring EXCEPT !.waiting = TRUE]
    /\ UNCHANGED <<ops, cq>>

\* The event wakes the worker, which resets it, and next() goes round again.
NextWoken ==
    /\ ring.waiting /\ ring.event
    /\ ring' = [ring EXCEPT !.waiting = FALSE, !.event = FALSE]
    /\ UNCHANGED <<ops, cq>>

-----------------------------------------------------------------------------

\* A worker that waits on the event while there is something to pop is about to
\* be woken: an event left over from an earlier completion may wake it for
\* nothing, but no completion is slept over.
WaiterIsSignalled == ring.waiting /\ cq # <<>> => ring.event
=============================================================================
