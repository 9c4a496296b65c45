--------------------------------- MODULE Ring ---------------------------------
(***************************************************************************)
(* The Ring of src/src/io/uring.cpp as one worker of the duplicate scan    *)
(* uses it: reads against handles opened beforehand, any number in flight, *)
(* their completions collected in any order by next().  What the Windows   *)
(* Ring does otherwise is IoRing's.                                        *)
(*                                                                         *)
(* What a caller does between two calls of next() is one action of the     *)
(* modules that extend this one, so Ring's own operations are operators    *)
(* on the record ring.  The kernel takes queued reads only inside next():  *)
(* it reads the descriptor's file then, not when the read was queued.      *)
(* A file is a sequence of bytes.                                          *)
(***************************************************************************)
EXTENDS Integers, Sequences, SequencesExt, FiniteSets

CONSTANTS File,        \* the files on disk
          NoFile,      \* what a closed descriptor leads to
          Content,     \* [File -> Seq(byte)]: what they hold by now
          Faulty,      \* the files whose open or reads may fail, or read short
          SqEntries    \* param.sq_entries

Byte == 0 .. 255

ASSUME RingAssumption ==
    /\ IsFiniteSet(File) /\ NoFile \notin File /\ Faulty \subseteq File
    /\ Content \in [File -> Seq(Byte)]
    /\ SqEntries \in Nat \ {0}

VARIABLES
    ring,   \* io         "io_uring" or "IoRing": which Ring was built
            \* held       the objects init() has got from the kernel
            \* buf        [0 .. n - 1 -> Seq(byte)]: buffer[tag].buf
            \* free_slots Seq(tag)
            \* files      [0 .. m - 1 -> descriptor or -1]
            \* free_files Seq(handle)
            \* fds        [open descriptors -> File]: the process's table
            \* sq         Seq([tag, fd, len, off]): queued reads
            \* pending, inflight
            \* event      IoRing's completion_event is set
            \* waiting    the worker is in WaitForSingleObject
    ops,    \* the reads the kernel has accepted and not completed
    cq      \* Seq([tag, res]): completions

ring_vars == <<ring, ops, cq>>

\* <<>> is a function with an empty domain, too.
FreshRing(io) == [io |-> io, held |-> {}, buf |-> <<>>, free_slots |-> <<>>, files |-> <<>>,
                  free_files |-> <<>>, fds |-> <<>>, sq |-> <<>>, pending |-> 0,
                  inflight |-> 0, event |-> FALSE, waiting |-> FALSE]

RingInit == ring \in {FreshRing("io_uring"), FreshRing("IoRing")} /\ ops = {} /\ cq = <<>>

Smaller(a, b) == IF a < b THEN a ELSE b

\* The table f with e at d, where it may have had no entry.
With(f, d, e) == [x \in DOMAIN f \cup {d} |-> IF x = d THEN e ELSE f[x]]

-----------------------------------------------------------------------------
(* Operations of the class *)

\* init() makes the ring and maps its queues, in this order; the rest is not
\* tried when one of them fails.
Objects  == <<"ring", "sq", "cq", "sqes">>
InitHeld == {ToSet(SubSeq(Objects, 1, n)) : n \in 0 .. Len(Objects)}
InitOk(held) == "sqes" \in held

\* open(2) returns the lowest descriptor that is free.
LowestFd(s) ==
    CHOOSE fd \in 0 .. Cardinality(DOMAIN s.fds) :
        /\ fd \notin DOMAIN s.fds
        /\ \A e \in 0 .. fd - 1 : e \in DOMAIN s.fds

\* The handle open() returns: the one closed last, or a new one.
NewHandle(s) == IF s.free_files # <<>> THEN Last(s.free_files)
                ELSE Cardinality(DOMAIN s.files)

OpenFile(s, f) ==
    [s EXCEPT !.fds = With(@, LowestFd(s), f),
              !.files = With(@, NewHandle(s), LowestFd(s)),
              !.free_files = IF @ # <<>> THEN Front(@) ELSE @]

\* Mutant: the handle is given back and its descriptor is not closed.
CloseLeaks(s, fh) ==
    IF fh \notin DOMAIN s.files \/ s.files[fh] < 0 THEN s
    ELSE [s EXCEPT !.files[fh] = -1, !.free_files = Append(@, fh)]

CloseFile(s, fh) ==
    IF fh \notin DOMAIN s.files \/ s.files[fh] < 0 THEN s
    ELSE [s EXCEPT !.fds = [fd \in DOMAIN @ \ {s.files[fh]} |-> @[fd]],
                   !.files[fh] = -1,
                   !.free_files = Append(@, fh)]

\* How many reads the queue has room for (IoRing goes by its own count).
SqRoom(s) == SqEntries - (IF s.io = "IoRing" THEN s.pending ELSE Len(s.sq))

\* The tag of the i-th slot alloc_slot returns from here on: the slots released
\* come first, the last one released before the others.
NextTag(s, i) ==
    LET free == Len(s.free_slots)
    IN  IF i <= free THEN s.free_slots[free - i + 1]
        ELSE Cardinality(DOMAIN s.buf) + (i - free) - 1

\* Mutant: the slots stay on the free list.
SubmitUnclaimed(s, fh, reads) ==
    LET tags == [i \in DOMAIN reads |-> NextTag(s, i)]
    IN  [s EXCEPT !.buf = [tag \in DOMAIN @ \cup ToSet(tags) |->
                             IF tag \in DOMAIN @ THEN @[tag] ELSE <<>>],
                  !.sq = @ \o [i \in DOMAIN reads |-> [tag |-> tags[i], fd |-> s.files[fh],
                                                       off |-> reads[i].off,
                                                       len |-> reads[i].len]],
                  !.pending = @ + Len(reads)]

\* submit(handle, ...) of one read after another, for which the queue has room.
Submit(s, fh, reads) ==
    LET tags == [i \in DOMAIN reads |-> NextTag(s, i)]
    IN  [s EXCEPT !.buf = [tag \in DOMAIN @ \cup ToSet(tags) |->
                             IF tag \in DOMAIN @ THEN @[tag] ELSE <<>>],
                  !.free_slots = SubSeq(@, 1, Len(@) - Len(reads)),
                  !.sq = @ \o [i \in DOMAIN reads |-> [tag |-> tags[i], fd |-> s.files[fh],
                                                       off |-> reads[i].off,
                                                       len |-> reads[i].len]],
                  !.pending = @ + Len(reads)]

\* release() of one tag after another.
Release(s, tags) == [s EXCEPT !.free_slots = @ \o tags]

\* drain() has nothing to wait for: its loop, which would collect what is
\* outstanding, is left at once.  The callers reset and tear down only then.
Drained(s) == s.pending = 0 /\ s.inflight = 0

\* reset() of a ring that is drained.  The bytes left in the buffers are dropped:
\* callers look at what a completed read has put there, and at no more.
Reset(s) ==
    [s EXCEPT !.fds = [fd \in DOMAIN @ \ {s.files[h] : h \in DOMAIN s.files} |-> @[fd]],
              !.buf = [tag \in DOMAIN @ |-> <<>>],
              !.free_slots = [i \in 1 .. Cardinality(DOMAIN s.buf) |-> i - 1],
              !.files = <<>>, !.free_files = <<>>]

\* teardown() of a ring that is drained.
Teardown(s) ==
    [FreshRing(s.io) EXCEPT
        !.fds = [fd \in DOMAIN s.fds \ {s.files[h] : h \in DOMAIN s.files} |-> s.fds[fd]]]

-----------------------------------------------------------------------------
(* next() and the kernel *)

\* io_uring_enter hands over the first k of the queued reads.
Entered(s, k) ==
    [s EXCEPT !.sq = SubSeq(@, k + 1, Len(@)), !.pending = @ - k, !.inflight = @ + k]

Accepted(s, k) ==
    {[tag |-> e.tag, len |-> e.len, off |-> e.off,
      file |-> IF e.fd \in DOMAIN s.fds THEN s.fds[e.fd] ELSE NoFile]
         : e \in ToSet(SubSeq(s.sq, 1, k))}

\* Nothing to collect: hand over what is pending and wait.  An interrupted or
\* failed call changes nothing and is made again; io_uring's wait is no step.
NextEnter ==
    /\ cq = <<>>
    /\ \E k \in 1 .. ring.pending :
          ring' = Entered(ring, k) /\ ops' = ops \cup Accepted(ring, k)
    /\ UNCHANGED cq

\* What may be handed over on the way past to a completion (0: the call failed
\* for now).  IoRing pops before it submits.
Passed == IF ring.io = "IoRing" THEN {0} ELSE 0 .. ring.pending

\* A completion is there, and is taken.
NextTake(k) ==
    /\ cq # <<>> /\ ~ring.waiting
    /\ ops' = ops \cup Accepted(ring, k)
    /\ cq' = Tail(cq)

\* Mutant: a completion is not counted off.
TakenUncounted(s, k) == Entered(s, k)
Taken(s, k)          == [Entered(s, k) EXCEPT !.inflight = @ - 1]

\* What a read may return: every byte there is, or, if the file is faulty,
\* fewer, none or a negative errno.
Outcomes(op) ==
    LET there == IF op.file = NoFile \/ op.off >= Len(Content[op.file]) THEN 0
                 ELSE Smaller(op.len, Len(Content[op.file]) - op.off)
    IN  IF op.file = NoFile THEN {-1}
        ELSE IF op.file \in Faulty /\ there > 0 THEN {-1} \cup 1 .. there
        ELSE {there}

\* The kernel ends any read it has accepted; it sets the event, if there is one,
\* when the completion finds the queue empty.
Complete(op) ==
    /\ op \in ops
    /\ \E res \in Outcomes(op) :
          /\ cq' = Append(cq, [tag |-> op.tag, res |-> res])
          /\ ring' = [ring EXCEPT
                         !.event = @ \/ ("event" \in ring.held /\ cq = <<>>),
                         !.buf = IF res <= 0 THEN @
                                 ELSE [@ EXCEPT ![op.tag] =
                                     SubSeq(Content[op.file], op.off + 1, op.off + res)]]
    /\ ops' = ops \ {op}

KernelStep == \E op \in ops : Complete(op)

-----------------------------------------------------------------------------
(* Properties of the ring, whoever calls it *)

BusyTags == {e.tag : e \in ToSet(ring.sq)} \cup {op.tag : op \in ops}
               \cup {c.tag : c \in ToSet(cq)}

\* A slot is never free while a read that was queued for it is outstanding, nor
\* free twice: two reads never share a buffer.
SlotsApart ==
    /\ IsInjective(ring.free_slots)
    /\ ToSet(ring.free_slots) \cap BusyTags = {}
    /\ Cardinality(BusyTags) = Len(ring.sq) + Cardinality(ops) + Len(cq)

\* pending and inflight, unsigned in the code, are what is queued and what the
\* kernel has; neither drifts however enter() splits a batch, so drain() ends.
CountsExact ==
    /\ ring.pending = Len(ring.sq)
    /\ ring.inflight = Cardinality(ops) + Len(cq)

\* No read goes to a descriptor that was closed, or closed and opened again for
\* another file, between queueing and io_uring_enter.
DescriptorsLive == \A i \in DOMAIN ring.sq : ring.sq[i].fd \in DOMAIN ring.fds
=============================================================================
