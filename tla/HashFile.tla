------------------------------- MODULE HashFile -------------------------------
(***************************************************************************)
(* hash_file of src/src/analyzer/duplicates.cpp: the files that share a    *)
(* sample hash are read whole through the Ring that prefilter_group left   *)
(* behind, chunk after chunk, FILES files at a time; a file that is done   *)
(* gives its place to the next one.                                        *)
(*                                                                         *)
(* pc, next_file and in_flight are hash_file's own from StartHash on.  The *)
(* hash is again taken to be injective.                                    *)
(***************************************************************************)
EXTENDS Prefilter

CONSTANTS CHUNK,       \* bytes of a read at most (4 MiB)
          FILES        \* files in flight at most (hash_file's WINDOW, 16)

\* The ring has 1024 entries: FILES reads fit in it.
ASSUME HashFileAssumption == CHUNK \in Nat \ {0} /\ FILES \in 1 .. SqEntries

VARIABLES
    worklist,       \* Seq(File)
    active,         \* Seq([id, offset, handle, state]); state: the bytes hashed
    tag_to_active,  \* [tag -> index of active]
    by_full,        \* [hash -> Seq(File)]: result
    failed          \* history: the files whose open or read failed here

hash_vars == <<worklist, active, tag_to_active, by_full, failed>>

HashInit ==
    /\ worklist = <<>> /\ active = <<>> /\ tag_to_active = <<>>
    /\ by_full = <<>>
    /\ failed = {}

-----------------------------------------------------------------------------
(* The candidates, and chunk 0 of the first FILES of them *)

\* Mutant: a bucket of two is taken for one that needs no second look.
MoreThanTwo == {by_sample[h] : h \in {h \in DOMAIN by_sample : Len(by_sample[h]) > 2}}
Candidates == {by_sample[h] : h \in {h \in DOMAIN by_sample : Len(by_sample[h]) >= 2}}

\* All candidates; an unordered_map gives its buckets in any order.
StartHash ==
    /\ pc = "sampled" /\ Size > SAMPLE
    /\ \E order \in SetToSeqs(Candidates) : worklist' = FlattenSeq(order)
    /\ pc' = "fill"
    /\ UNCHANGED <<ring_vars, sample_vars, next_file, in_flight, active, tag_to_active,
                   by_full, failed>>

Started(f, fh) == [id |-> f, offset |-> 0, handle |-> fh, state |-> <<>>]

\* Mutant: every read asks for a whole chunk.
WholeChunk(a) == CHUNK
NextLen(a)    == Smaller(CHUNK, Size - a.offset)
NextRead(a)   == <<[off |-> a.offset, len |-> NextLen(a)]>>

\* Mutant: the handle is closed once its read is queued.
QueueChunkClosed(s, a, index, n) ==
    /\ ring' = CloseFile(Submit(s, a.handle, NextRead(a)), a.handle)
    /\ in_flight' = n + 1
    /\ tag_to_active' = With(tag_to_active, NextTag(s, 1), index)

\* Queue the next chunk of a, which is active[index], with n reads in flight
\* so far.  If the queue is full the file is closed and given up.
QueueChunk(s, a, index, n) ==
    IF SqRoom(s) = 0
    THEN /\ ring' = CloseFile(s, a.handle)
         /\ in_flight' = n
         /\ UNCHANGED tag_to_active
    ELSE /\ ring' = Submit(s, a.handle, NextRead(a))
         /\ in_flight' = n + 1
         /\ tag_to_active' = With(tag_to_active, NextTag(s, 1), index)

FillFile ==
    /\ pc = "fill"
    /\ in_flight < FILES /\ next_file <= Len(worklist)
    /\ LET f == worklist[next_file]
           a == Started(f, NewHandle(ring))
       IN  /\ QueueChunk(OpenFile(ring, f), a, Len(active) + 1, in_flight)
           /\ active' = IF SqRoom(ring) = 0 THEN active ELSE Append(active, a)
    /\ next_file' = next_file + 1
    /\ UNCHANGED <<ops, cq, pc, sample_vars, worklist, by_full, failed>>

\* open() fails: the file is skipped.
FillUnopenable ==
    /\ pc = "fill"
    /\ in_flight < FILES /\ next_file <= Len(worklist)
    /\ worklist[next_file] \in Faulty
    /\ failed' = failed \cup {worklist[next_file]}
    /\ next_file' = next_file + 1
    /\ UNCHANGED <<ring_vars, pc, sample_vars, in_flight, worklist, active, tag_to_active,
                   by_full>>

FillDone ==
    /\ pc = "fill"
    /\ in_flight = FILES \/ next_file > Len(worklist)
    /\ pc' = "chunk"
    /\ UNCHANGED <<ring_vars, sample_vars, next_file, in_flight, hash_vars>>

-----------------------------------------------------------------------------
(* One completion *)

EnterForChunk ==
    /\ pc = "chunk" /\ in_flight > 0
    /\ NextEnter \/ NextWait \/ NextWoken
    /\ UNCHANGED <<pc, sample_vars, next_file, in_flight, hash_vars>>

At == tag_to_active[Done.tag]

\* Mutant: the offset moves by what was asked for, not by what was read.
FedAsked ==
    [active[At] EXCEPT !.state = @ \o SubSeq(ring.buf[Done.tag], 1, Done.res),
                       !.offset = @ + NextLen(active[At])]
\* active[index] with the bytes that are back.
Fed == [active[At] EXCEPT !.state = @ \o SubSeq(ring.buf[Done.tag], 1, Done.res),
                          !.offset = @ + Done.res]

\* A read error: the file is closed and leaves; no other file takes its place.
TakeError ==
    /\ pc = "chunk" /\ in_flight > 0
    /\ \E k \in Passed :
          /\ NextTake(k)
          /\ Done.res < 0
          /\ ring' = Release(CloseFile(Taken(ring, k), active[At].handle), <<Done.tag>>)
    /\ in_flight' = in_flight - 1
    /\ failed' = failed \cup {active[At].id}
    /\ UNCHANGED <<pc, sample_vars, next_file, worklist, active, tag_to_active, by_full>>

\* More of the file is to come: the next chunk is queued.
TakeChunk ==
    /\ pc = "chunk" /\ in_flight > 0
    /\ \E k \in Passed :
          /\ NextTake(k)
          /\ Done.res >= 0 /\ Fed.offset < Size
          /\ QueueChunk(Release(Taken(ring, k), <<Done.tag>>), Fed, At, in_flight - 1)
    /\ active' = [active EXCEPT ![At] = Fed]
    /\ UNCHANGED <<pc, sample_vars, next_file, worklist, by_full, failed>>

NextOfList == Smaller(next_file + 1, Len(worklist) + 1)

\* The ring when the file whose last read this is has been closed (k: NextTake).
Freed(k) == CloseFile(Release(Taken(ring, k), <<Done.tag>>), Fed.handle)

\* result[h].push_back(...): the file is done.
FileDone(k) ==
    /\ pc = "chunk" /\ in_flight > 0
    /\ NextTake(k)
    /\ Done.res >= 0 /\ Fed.offset >= Size
    /\ by_full' = AddTo(by_full, Fed.state, Fed.id)
    /\ next_file' = NextOfList
    /\ UNCHANGED <<pc, sample_vars, worklist>>

\* No file waits, or the one that does cannot be opened: the place is lost.
TakeLastChunk ==
    /\ \E k \in Passed : FileDone(k) /\ ring' = Freed(k)
    /\ failed' = IF next_file > Len(worklist) THEN failed
                 ELSE failed \cup {worklist[next_file]}
    /\ failed' \subseteq Faulty
    /\ active' = [active EXCEPT ![At] = Fed]
    /\ in_flight' = in_flight - 1
    /\ UNCHANGED tag_to_active

\* The next file takes its place.
TakeLastChunkReuse ==
    /\ next_file <= Len(worklist)
    /\ \E k \in Passed :
          /\ FileDone(k)
          /\ LET a == Started(worklist[next_file], NewHandle(Freed(k)))
             IN  /\ active' = [active EXCEPT ![At] = a]
                 /\ QueueChunk(OpenFile(Freed(k), a.id), a, At, in_flight - 1)
    /\ UNCHANGED failed

\* Nothing is in flight: reset() and the return.
HashReturn ==
    /\ pc = "chunk" /\ in_flight = 0 /\ Drained(ring)
    /\ ring' = Reset(ring)
    /\ pc' = "hashed"
    /\ UNCHANGED <<ops, cq, sample_vars, next_file, in_flight, hash_vars>>

HashStep ==
    \/ StartHash \/ FillFile \/ FillUnopenable \/ FillDone
    \/ EnterForChunk \/ TakeError \/ TakeChunk \/ TakeLastChunk \/ TakeLastChunkReuse
    \/ HashReturn
=============================================================================
