------------------------------- MODULE Prefilter -------------------------------
(***************************************************************************)
(* prefilter_group of src/src/analyzer/duplicates.cpp: up to three samples *)
(* of every file of one size group are read through a Ring, at most WINDOW *)
(* reads at a time, and the files are sorted into buckets by the hash of   *)
(* their samples.  A file is hashed when all of its reads are back, in     *)
(* whatever order they came.                                               *)
(*                                                                         *)
(* The hash is taken to be injective: it stands for the bytes it is made   *)
(* from.  A cloud placeholder is passed over like a file that cannot be     *)
(* opened.                                                                 *)
(***************************************************************************)
EXTENDS IoRing

CONSTANTS SAMPLE,       \* bytes of a sample (4096)
          WINDOW,       \* reads outstanding at most (512)
          Group,        \* Seq(File): group.files
          Size          \* group.size, as it was when the tree was built

\* The ring has 1024 entries: WINDOW reads fit in it.
ASSUME PrefilterAssumption ==
    /\ SAMPLE \in Nat \ {0} /\ Size \in Nat \ {0}
    /\ WINDOW \in 3 .. SqEntries
    /\ Group \in Seq(File) /\ IsInjective(Group)
    /\ \A f \in File \ Faulty : Len(Content[f]) = Size

Index   == DOMAIN Group
Region  == 0 .. 2                  \* front, middle, back

\* The regions of a file and where they start.
Applicable ==
    <<0>> \o (IF Size > 3 * SAMPLE THEN <<1>> ELSE <<>>)
          \o (IF Size > 2 * SAMPLE THEN <<2>> ELSE <<>>)
Expected  == Len(Applicable)
Offset(r) == CASE r = 0 -> 0
               [] r = 1 -> (Size \div 2) - (SAMPLE \div 2)
               [] r = 2 -> Size - SAMPLE

VARIABLES
    pc,         \* where the worker is
    meta,       \* [tag -> [file_idx, region]]
    acc,        \* [Index -> [submitted, arrived, handle, got]]; got is a function
                \* from the regions that are back to [tag, res]
    next_file,
    in_flight,
    by_sample   \* [hash -> Seq(File)]: result

sample_vars == <<meta, acc, by_sample>>

NoAcc == [i \in Index |-> [submitted |-> 0, arrived |-> 0, handle |-> 0, got |-> <<>>]]

PrefilterInit ==
    /\ RingInit
    /\ pc = "init"
    /\ meta = <<>>
    /\ acc = NoAcc
    /\ next_file = 1
    /\ in_flight = 0
    /\ by_sample = <<>>

-----------------------------------------------------------------------------
(* pump: open the next file and queue its reads *)

\* A place for every read of a file.
Room == in_flight + Expected <= WINDOW

\* The regions whose reads the queue has room for, in the order of add().
Queued == SubSeq(Applicable, 1, Smaller(Expected, SqRoom(ring)))
Reads  == [i \in DOMAIN Queued |-> [off |-> Offset(Queued[i]), len |-> SAMPLE]]

PumpFile ==
    /\ pc = "pump"
    /\ next_file <= Len(Group) /\ Room
    /\ LET fh == NewHandle(ring)
           n  == Len(Queued)
           s  == Submit(OpenFile(ring, Group[next_file]), fh, Reads)
       IN  /\ ring' = IF n = 0 THEN CloseFile(s, fh) ELSE s
           /\ meta' = [tag \in DOMAIN meta \cup {NextTag(ring, i) : i \in 1 .. n} |->
                          IF \E i \in 1 .. n : NextTag(ring, i) = tag
                          THEN [file_idx |-> next_file,
                                region |-> Queued[CHOOSE i \in 1 .. n : NextTag(ring, i) = tag]]
                          ELSE meta[tag]]
           /\ acc' = [acc EXCEPT ![next_file].handle = fh, ![next_file].submitted = n]
           /\ in_flight' = in_flight + n
    /\ next_file' = next_file + 1
    /\ UNCHANGED <<ops, cq, pc, by_sample>>

\* open() fails: the file takes no further part.
PumpUnopenable ==
    /\ pc = "pump"
    /\ next_file <= Len(Group) /\ Room
    /\ Group[next_file] \in Faulty
    /\ acc' = [acc EXCEPT ![next_file].submitted = 0]
    /\ next_file' = next_file + 1
    /\ UNCHANGED <<ring_vars, pc, meta, in_flight, by_sample>>

\* The pump stops at the end of the group or when the window is full; the
\* loop around it, when nothing is outstanding.
PumpDone ==
    /\ pc = "pump"
    /\ next_file > Len(Group) \/ ~Room
    /\ pc' = IF in_flight > 0 THEN "next" ELSE "reset"
    /\ UNCHANGED <<ring_vars, sample_vars, next_file, in_flight>>

-----------------------------------------------------------------------------
(* One completion *)

EnterForSample ==
    /\ pc = "next"
    /\ NextEnter \/ NextWait \/ NextWoken
    /\ UNCHANGED <<pc, sample_vars, next_file, in_flight>>

Done == Head(cq)
Fid  == meta[Done.tag].file_idx

\* acc[fid] with the read that is back.
Gathered ==
    [acc[Fid] EXCEPT !.got = With(@, meta[Done.tag].region, [tag |-> Done.tag, res |-> Done.res]),
                     !.arrived = @ + 1]

\* Mutant: a file settles on its first read.
AnyIsBack(a) == a.arrived > 0
\* Mutant: a file settles one read too late.
OneTooMany(a) == a.arrived > a.submitted
AllBack(a)   == a.arrived = a.submitted

TakeSample ==
    /\ pc = "next"
    /\ \E k \in Passed :
          /\ NextTake(k)
          /\ ~AllBack(Gathered)
          /\ ring' = Taken(ring, k)
    /\ acc' = [acc EXCEPT ![Fid] = Gathered]
    /\ UNCHANGED <<pc, meta, next_file, in_flight, by_sample>>

\* What the hash is made from: the bytes read, region by region.
RegionBytes(a, r) ==
    IF r \in DOMAIN a.got /\ a.got[r].res > 0
    THEN SubSeq(ring.buf[a.got[r].tag], 1, a.got[r].res) ELSE <<>>
Digest(a) == RegionBytes(a, 0) \o RegionBytes(a, 1) \o RegionBytes(a, 2)

\* The tags of a settled file, in the order they are released.
HeldTag(a, r) == IF r \in DOMAIN a.got THEN <<a.got[r].tag>> ELSE <<>>
HeldTags(a)   == HeldTag(a, 0) \o HeldTag(a, 1) \o HeldTag(a, 2)

\* result[h].push_back(f)
AddTo(buckets, h, f) ==
    With(buckets, h, Append(IF h \in DOMAIN buckets THEN buckets[h] ELSE <<>>, f))

TakeLastSample ==
    /\ pc = "next"
    /\ \E k \in Passed :
          /\ NextTake(k)
          /\ AllBack(Gathered)
          /\ ring' = CloseFile(Release(Taken(ring, k), HeldTags(Gathered)), Gathered.handle)
    /\ acc' = [acc EXCEPT ![Fid] = Gathered]
    /\ by_sample' = IF Gathered.submitted = Expected
                    THEN AddTo(by_sample, Digest(Gathered), Group[Fid]) ELSE by_sample
    /\ in_flight' = in_flight - Len(HeldTags(Gathered))
    /\ pc' = "pump"
    /\ UNCHANGED <<meta, next_file>>

\* reset() and the return: the locals are gone, the buckets stay.
PrefilterReturn ==
    /\ pc = "reset" /\ Drained(ring)
    /\ ring' = Reset(ring)
    /\ meta' = <<>> /\ acc' = NoAcc
    /\ next_file' = 1 /\ in_flight' = 0
    /\ pc' = "sampled"
    /\ UNCHANGED <<ops, cq, by_sample>>

PrefilterStep ==
    PumpFile \/ PumpUnopenable \/ PumpDone \/ EnterForSample \/ TakeSample \/ TakeLastSample
    \/ PrefilterReturn
=============================================================================
