------------------------------- MODULE GroupScan -------------------------------
(***************************************************************************)
(* What a worker of compute_duplicate_groups                               *)
(* (src/src/analyzer/duplicates.cpp) does with one size group: the files   *)
(* are sampled (Prefilter), those whose samples agree are read whole       *)
(* (HashFile) unless the samples were all there is, and every bucket with  *)
(* two files or more is reported.  The worker sets its Ring up before and  *)
(* takes it down after; the kernel runs beside it.                         *)
(*                                                                         *)
(* How workers share the groups and hand the reports on is DuplicateScan.  *)
(***************************************************************************)
EXTENDS HashFile

VARIABLE reported    \* the buckets pushed on ready

vars == <<ring_vars, pc, sample_vars, next_file, in_flight, hash_vars, reported>>

Init ==
    /\ PrefilterInit
    /\ HashInit
    /\ reported = {}

\* Ring::init.  A worker whose ring cannot be set up scans nothing.
SetUp ==
    /\ pc = "init"
    /\ \E held \in InitOutcomes :
          /\ ring' = [ring EXCEPT !.held = held]
          /\ pc' = IF InitSucceeds(held) THEN "pump" ELSE "teardown"
    /\ UNCHANGED <<ops, cq, sample_vars, next_file, in_flight, hash_vars, reported>>

\* ~Ring, whatever init() has got.
TakeDown ==
    /\ pc = "teardown" /\ Drained(ring)
    /\ ring' = Teardown(ring)
    /\ pc' = "end"
    /\ UNCHANGED <<ops, cq, sample_vars, next_file, in_flight, hash_vars, reported>>

\* by_hash of a small group, by_full of any other.
Buckets == IF Size <= SAMPLE THEN {by_sample[h] : h \in DOMAIN by_sample}
                             ELSE {by_full[h] : h \in DOMAIN by_full}

Report ==
    /\ \/ pc = "sampled" /\ Size <= SAMPLE
       \/ pc = "hashed"
    /\ reported' = {bucket \in Buckets : Len(bucket) >= 2}
    /\ pc' = "teardown"
    /\ UNCHANGED <<ring_vars, sample_vars, next_file, in_flight, hash_vars>>

Sampling == PrefilterStep /\ UNCHANGED <<hash_vars, reported>>
Hashing  == HashStep /\ UNCHANGED reported
Worker   == SetUp \/ Sampling \/ Hashing \/ Report \/ TakeDown

Kernel == KernelStep /\ UNCHANGED <<pc, sample_vars, next_file, in_flight, hash_vars, reported>>

Next == Worker \/ Kernel

Spec == Init /\ [][Next]_vars

\* The worker runs, and the kernel ends what it has accepted.
FairSpec == Spec /\ WF_vars(Worker) /\ WF_vars(Kernel)

-----------------------------------------------------------------------------
(* Properties *)

Files    == ToSet(Group)
Sampled  == pc \in {"pump", "next", "reset"}
Chunking == pc \in {"fill", "chunk", "hashed"}

\* Every variable keeps its type; neither window is exceeded and no file is
\* read past the size the tree gives it.
GroupTypeOK ==
    /\ pc \in {"init", "pump", "next", "reset", "sampled", "fill", "chunk", "hashed",
              "teardown", "end"}
    /\ in_flight \in 0 .. (IF Sampled THEN WINDOW ELSE FILES)
    /\ next_file \in 1 .. Len(Group) + 1
    /\ \A i \in Index : acc[i].arrived \in 0 .. acc[i].submitted /\ acc[i].submitted <= Expected
    /\ \A t \in DOMAIN meta : meta[t].file_idx \in Index /\ meta[t].region \in Region
    /\ ToSet(worklist) \subseteq Files /\ IsInjective(worklist)
    /\ Len(active) <= FILES
    /\ \A i \in DOMAIN active : /\ active[i].id \in ToSet(worklist)
                               /\ active[i].offset \in 0 .. Size
                               /\ Len(active[i].state) = active[i].offset
    /\ \A t \in DOMAIN tag_to_active : tag_to_active[t] \in DOMAIN active
    /\ failed \subseteq Faulty

\* What is held for reassembly is not overwritten: while a file waits for its
\* other samples, the buffers of those that are back hold that file's bytes.
HeldSamplesKept ==
    Sampled =>
    \A i \in Index :
        LET a == acc[i] IN
        a.got # <<>> /\ a.arrived < a.submitted =>
            \A r \in DOMAIN a.got :
                /\ a.got[r].tag \notin BusyTags \cup ToSet(ring.free_slots)
                /\ a.got[r].res > 0 =>
                      ring.buf[a.got[r].tag] =
                          SubSeq(Content[Group[i]], Offset(r) + 1, Offset(r) + a.got[r].res)

\* Whom a queued read is for, and at which offset.
Asker(e)  == IF Sampled THEN Group[meta[e.tag].file_idx] ELSE active[tag_to_active[e.tag]].id
WantedAt(e) == IF Sampled THEN Offset(meta[e.tag].region) ELSE active[tag_to_active[e.tag]].offset

\* A queued read goes to the file it was made for and to the offset its asker
\* waits for, although descriptors, handles and slots are reused while it
\* waits; and no file has two chunks outstanding.
ReadsItsOwnFile ==
    /\ DescriptorsLive
    /\ \A i \in DOMAIN ring.sq :
          /\ ring.fds[ring.sq[i].fd] = Asker(ring.sq[i])
          /\ ring.sq[i].off = WantedAt(ring.sq[i])
    /\ Chunking =>
          Cardinality({tag_to_active[t] : t \in BusyTags}) = Cardinality(BusyTags)

\* drain() inside reset() and teardown() has nothing to wait for (so the guards
\* Drained keep no step from being taken), and no descriptor is left open, whichever
\* opens and reads failed.
QuietAtReset ==
    /\ \/ pc \in {"reset", "sampled", "hashed", "teardown", "end"}
       \/ pc = "chunk" /\ in_flight = 0
       => BusyTags = {} /\ Drained(ring) /\ ring.fds = <<>>
    /\ pc = "end" => ring.held = {} /\ ring.buf = <<>>

\* The bytes a file has, as far as the tree knows of them.
Bytes(f) == SubSeq(Content[f], 1, Size)

\* The samples a file has, region by region.
SampleAt(f, r) == IF r \in ToSet(Applicable)
                  THEN SubSeq(Content[f], Offset(r) + 1, Smaller(Offset(r) + SAMPLE, Size))
                  ELSE <<>>
SampleOf(f)    == SampleAt(f, 0) \o SampleAt(f, 1) \o SampleAt(f, 2)

\* A file is in at most one bucket, and a file none of whose reads failed is in
\* the bucket of its own samples, in whatever order its reads came back.
BucketsAreRight ==
    \A h \in DOMAIN by_sample :
        /\ IsInjective(by_sample[h])
        /\ \A g \in DOMAIN by_sample \ {h} : ToSet(by_sample[g]) \cap ToSet(by_sample[h]) = {}
        /\ \A f \in ToSet(by_sample[h]) \ Faulty : h = SampleOf(f)

\* A file is hashed at most once, and its hash is of all of its bytes in their
\* order: no chunk is lost, doubled or credited to another file, however slots
\* and places are reused and whatever order the reads come back in.
HashIsOfWholeFile ==
    \A h \in DOMAIN by_full :
        /\ \A f \in ToSet(by_full[h]) : h = Bytes(f)
        /\ IsInjective(by_full[h])

Together(f, g) == \E bucket \in reported : {f, g} \subseteq ToSet(bucket)

\* Of the files larger than a sample, those reported together are equal, and
\* equal files are reported together, whatever fails for other files, as long as
\* fewer of those fail in hash_file than it has places.
DuplicatesFound ==
    pc = "teardown" /\ InitSucceeds(ring.held) /\ Size > SAMPLE =>
        \A f, g \in Files :
            f # g =>
            /\ Together(f, g) => Bytes(f) = Bytes(g)
            /\ {f, g} \cap Faulty = {} /\ Bytes(f) = Bytes(g)
                  /\ Cardinality(failed) < FILES => Together(f, g)

\* "this are genuine duplicates" (of the small files, whose samples are all
\* there is): files reported together are equal.
GenuineDuplicates ==
    \A bucket \in reported : \A f, g \in ToSet(bucket) : Bytes(f) = Bytes(g)

\* "can't open, skip this file", "read error: drop this chunk and close the
\* file": only the files that fail are left out.
OnlyFailedSkipped ==
    pc = "hashed" =>
        UNION {ToSet(by_full[h]) : h \in DOMAIN by_full} = ToSet(worklist) \ failed

\* The group is dealt with: no read is forgotten, in either phase.  (No file has
\* shrunk: one that did would be read past its end for ever.)
GroupEnds == <>(pc = "end")
=============================================================================
