---------------------------- MODULE GroupScanProofs ----------------------------
(***************************************************************************)
(* Proofs about GroupScan and the modules below it (Ring, IoRing,          *)
(* Prefilter, HashFile), for any group, any sizes of samples, chunks,      *)
(* windows and queues, and whatever reads fail.                            *)
(*                                                                         *)
(* First the ring: Flow says what the reads outstanding were asked for,    *)
(* and one lemma for each operation that it stays so.  Then the worker:    *)
(* SampleInv and HashInv are its books while it samples and while it       *)
(* hashes, Inv puts the phases together, and the properties follow.        *)
(***************************************************************************)
EXTENDS GroupScan, SequenceFacts

-----------------------------------------------------------------------------
(* A ring by itself *)

Buffers     == UNION {[0 .. n - 1 -> Seq(Byte)] : n \in Nat}
HandleTable == UNION {[0 .. m - 1 -> Nat \cup {-1}] : m \in Nat}
Descriptors == UNION {[D -> File] : D \in SUBSET Nat}
Read        == [tag : Nat, fd : Nat, off : Nat, len : Nat]
Accept      == [tag : Nat, len : Nat, off : Nat, file : File]
Completion  == [tag : Nat, res : Int]

RingRecord ==
    [io : {"io_uring", "IoRing"}, held : SUBSET {"ring", "sq", "cq", "sqes", "event"},
     buf : Buffers, free_slots : Seq(Nat), files : HandleTable, free_files : Seq(Nat),
     fds : Descriptors, sq : Seq(Read), pending : Int, inflight : Int, event : BOOLEAN,
     waiting : BOOLEAN]

\* Free slots are slots, and listed once.
FreeOnce(s) == IsInjective(s.free_slots) /\ ToSet(s.free_slots) \subseteq DOMAIN s.buf

\* The slots that someone uses.
Used(s) == DOMAIN s.buf \ ToSet(s.free_slots)

\* The handles that are open; each has a descriptor, and each descriptor a handle.
Opened(s) == {h \in DOMAIN s.files : s.files[h] # -1}
HandlesPaired(s) ==
    /\ IsInjective(s.free_files)
    /\ \A h : h \in ToSet(s.free_files) <=> h \in DOMAIN s.files /\ s.files[h] = -1
    /\ IsFiniteSet(DOMAIN s.fds)
    /\ \A h, g \in Opened(s) : s.files[h] = s.files[g] => h = g
    /\ \A fd : fd \in DOMAIN s.fds <=> \E h \in Opened(s) : s.files[h] = fd

Sound(s) == s \in RingRecord /\ FreeOnce(s) /\ HandlesPaired(s)

\* A finite set of numbers leaves a number out, and there is a least one.
LEMMA LeastLeftOut ==
    ASSUME NEW D \in SUBSET Nat, IsFiniteSet(D)
    PROVE  \E n \in 0 .. Cardinality(D) : n \notin D /\ \A e \in 0 .. n - 1 : e \in D
<1>1. PICK c : c = Cardinality(D)
  OBVIOUS
<1>2. c \in Nat
  BY <1>1, FS_CardinalityType
<1>3. Nat \ D # {}
  <2>1. SUFFICES ASSUME Nat \subseteq D PROVE FALSE
    OBVIOUS
  <2>2. 0 .. c \in SUBSET D
    BY <1>2, <2>1
  <2>3. Cardinality(0 .. c) <= c
    BY <1>1, <2>2, FS_Subset
  <2>4. Cardinality(0 .. c) = c + 1
    BY <1>2, FS_Interval
  <2> QED BY <1>2, <2>3, <2>4
<1>4. PICK n \in Nat \ D : \A m \in Nat \ D : n <= m
  BY <1>3, LeastNumber
<1>5. \A e \in 0 .. n - 1 : e \in D
  BY <1>4
<1>6. n <= c
  <2>1. 0 .. n - 1 \in SUBSET D
    BY <1>5
  <2>2. Cardinality(0 .. n - 1) <= c
    BY <1>1, <2>1, FS_Subset
  <2>3. Cardinality(0 .. n - 1) = n
    <3>1. n - 1 \in Int /\ 0 \in Int
      BY <1>4
    <3>2. Cardinality(0 .. n - 1) = IF 0 > n - 1 THEN 0 ELSE n - 1 - 0 + 1
      BY <3>1, FS_Interval
    <3> QED BY <1>4, <3>2
  <2> QED BY <2>2, <2>3
<1> QED BY <1>1, <1>2, <1>4, <1>5, <1>6

\* The fields of a ring have their types, and its tables are what they are.
LEMMA RingFields ==
    ASSUME NEW s, s \in RingRecord
    PROVE  /\ s.io \in {"io_uring", "IoRing"} /\ s.event \in BOOLEAN /\ s.waiting \in BOOLEAN
           /\ s.held \in SUBSET {"ring", "sq", "cq", "sqes", "event"}
           /\ s.free_slots \in Seq(Nat) /\ s.free_files \in Seq(Nat) /\ s.sq \in Seq(Read)
           /\ s.pending \in Int /\ s.inflight \in Int
           /\ s.buf \in Buffers /\ s.files \in HandleTable /\ s.fds \in Descriptors
           /\ \E n \in Nat : /\ DOMAIN s.buf = 0 .. n - 1 /\ Cardinality(DOMAIN s.buf) = n
                             /\ s.buf \in [0 .. n - 1 -> Seq(Byte)]
           /\ \E m \in Nat : /\ DOMAIN s.files = 0 .. m - 1 /\ Cardinality(DOMAIN s.files) = m
                             /\ s.files \in [0 .. m - 1 -> Nat \cup {-1}]
           /\ DOMAIN s.fds \in SUBSET Nat /\ s.fds \in [DOMAIN s.fds -> File]
<1>1. /\ s.io \in {"io_uring", "IoRing"} /\ s.event \in BOOLEAN /\ s.waiting \in BOOLEAN
      /\ s.held \in SUBSET {"ring", "sq", "cq", "sqes", "event"}
      /\ s.free_slots \in Seq(Nat) /\ s.free_files \in Seq(Nat) /\ s.sq \in Seq(Read)
      /\ s.pending \in Int /\ s.inflight \in Int
      /\ s.buf \in Buffers /\ s.files \in HandleTable /\ s.fds \in Descriptors
  BY DEF RingRecord
<1>2. ASSUME NEW n \in Nat PROVE Cardinality(0 .. n - 1) = n
  <2>1. n - 1 \in Int /\ 0 \in Int
    OBVIOUS
  <2>2. Cardinality(0 .. n - 1) = IF 0 > n - 1 THEN 0 ELSE n - 1 - 0 + 1
    BY <2>1, FS_Interval
  <2> QED BY <2>2
<1>3. PICK n \in Nat : s.buf \in [0 .. n - 1 -> Seq(Byte)]
  BY <1>1 DEF Buffers
<1>4. PICK m \in Nat : s.files \in [0 .. m - 1 -> Nat \cup {-1}]
  BY <1>1 DEF HandleTable
<1>5. PICK D \in SUBSET Nat : s.fds \in [D -> File]
  BY <1>1 DEF Descriptors
<1>6. /\ DOMAIN s.buf = 0 .. n - 1 /\ Cardinality(DOMAIN s.buf) = n
      /\ DOMAIN s.files = 0 .. m - 1 /\ Cardinality(DOMAIN s.files) = m
  BY <1>2, <1>3, <1>4
<1>7. DOMAIN s.fds \in SUBSET Nat /\ s.fds \in [DOMAIN s.fds -> File]
  BY <1>5
<1> HIDE DEF RingRecord
<1> QED BY <1>1, <1>3, <1>4, <1>6, <1>7

\* Only these fields differ.
SameQueues(s, r) ==
    /\ r.io = s.io /\ r.held = s.held /\ r.sq = s.sq /\ r.pending = s.pending
    /\ r.inflight = s.inflight /\ r.event = s.event /\ r.waiting = s.waiting
SameSlots(s, r)   == r.buf = s.buf /\ r.free_slots = s.free_slots
SameHandles(s, r) == r.files = s.files /\ r.free_files = s.free_files /\ r.fds = s.fds

\* The handle that open() returns is a new one or a closed one, and its
\* descriptor is free.
LEMMA NewNames ==
    ASSUME NEW s, Sound(s)
    PROVE  /\ NewHandle(s) \in Nat /\ NewHandle(s) \notin Opened(s)
           /\ LowestFd(s) \in Nat /\ LowestFd(s) \notin DOMAIN s.fds
           /\ s.free_files # <<>> => /\ NewHandle(s) \in ToSet(s.free_files)
                                     /\ NewHandle(s) \in DOMAIN s.files
                                     /\ Front(s.free_files) \in Seq(Nat)
                                     /\ IsInjective(Front(s.free_files))
                                     /\ ToSet(Front(s.free_files)) = ToSet(s.free_files) \ {NewHandle(s)}
           /\ s.free_files = <<>> => \E m \in Nat : DOMAIN s.files = 0 .. m - 1 /\ NewHandle(s) = m
<1>1. s \in RingRecord /\ FreeOnce(s) /\ HandlesPaired(s)
  BY DEF Sound
<1>2. PICK m \in Nat : /\ DOMAIN s.files = 0 .. m - 1 /\ Cardinality(DOMAIN s.files) = m
                       /\ s.files \in [0 .. m - 1 -> Nat \cup {-1}]
  BY <1>1, RingFields
<1>3. s.free_files \in Seq(Nat) /\ DOMAIN s.fds \in SUBSET Nat
  BY <1>1, RingFields
<1>4. IsInjective(s.free_files) /\ IsFiniteSet(DOMAIN s.fds)
      /\ \A h : h \in ToSet(s.free_files) <=> h \in DOMAIN s.files /\ s.files[h] = -1
  BY <1>1 DEF HandlesPaired
<1>5. LowestFd(s) \in Nat /\ LowestFd(s) \notin DOMAIN s.fds
  <2>1. PICK D : D = DOMAIN s.fds
    OBVIOUS
  <2>2. \E n \in 0 .. Cardinality(D) : n \notin D /\ \A e \in 0 .. n - 1 : e \in D
    BY <1>3, <1>4, <2>1, LeastLeftOut
  <2>3. Cardinality(D) \in Nat
    BY <1>4, <2>1, FS_CardinalityType
  <2>4. LowestFd(s) \in 0 .. Cardinality(D) /\ LowestFd(s) \notin D
    BY <2>1, <2>2 DEF LowestFd
  <2> QED BY <2>1, <2>3, <2>4
<1>6. CASE s.free_files # <<>>
  <2>1. NewHandle(s) = s.free_files[Len(s.free_files)] /\ Front(s.free_files) = Shorter(s.free_files)
    BY <1>6 DEF NewHandle, Last, Front, Shorter
  <2>2. /\ s.free_files[Len(s.free_files)] \in Nat /\ Shorter(s.free_files) \in Seq(Nat)
        /\ s.free_files[Len(s.free_files)] \in ToSet(s.free_files)
        /\ ToSet(s.free_files) = ToSet(Shorter(s.free_files)) \cup {s.free_files[Len(s.free_files)]}
        /\ IsInjective(Shorter(s.free_files))
        /\ s.free_files[Len(s.free_files)] \notin ToSet(Shorter(s.free_files))
    BY <1>3, <1>4, <1>6, LastTaken
  <2> QED BY <1>4, <1>5, <1>6, <2>1, <2>2 DEF Opened
<1>7. CASE s.free_files = <<>>
  <2>1. NewHandle(s) = m
    BY <1>2, <1>7 DEF NewHandle
  <2> QED BY <1>2, <1>5, <1>7, <2>1 DEF Opened
<1> QED BY <1>6, <1>7

\* open() adds a handle that leads to its file, and leaves the others alone.
LEMMA FileOpened ==
    ASSUME NEW s, Sound(s), NEW f \in File
    PROVE  LET r == OpenFile(s, f) IN
           /\ Sound(r) /\ SameQueues(s, r) /\ SameSlots(s, r)
           /\ Opened(r) = Opened(s) \cup {NewHandle(s)}
           /\ r.files[NewHandle(s)] \in DOMAIN r.fds /\ r.fds[r.files[NewHandle(s)]] = f
           /\ \A h \in Opened(s) : /\ r.files[h] = s.files[h]
                                   /\ r.fds[r.files[h]] = s.fds[s.files[h]]
<1> DEFINE r == OpenFile(s, f)
<1>1. s \in RingRecord /\ FreeOnce(s) /\ HandlesPaired(s)
  BY DEF Sound
<1>2. PICK h0 : h0 = NewHandle(s)
  OBVIOUS
<1>3. PICK d0 : d0 = LowestFd(s)
  OBVIOUS
<1>4. /\ h0 \in Nat /\ h0 \notin Opened(s) /\ d0 \in Nat /\ d0 \notin DOMAIN s.fds
      /\ s.free_files # <<>> => /\ h0 \in ToSet(s.free_files) /\ h0 \in DOMAIN s.files
                                /\ Front(s.free_files) \in Seq(Nat)
                                /\ IsInjective(Front(s.free_files))
                                /\ ToSet(Front(s.free_files)) = ToSet(s.free_files) \ {h0}
      /\ s.free_files = <<>> => \E m \in Nat : DOMAIN s.files = 0 .. m - 1 /\ h0 = m
  BY <1>2, <1>3, NewNames
<1>5. PICK m \in Nat : DOMAIN s.files = 0 .. m - 1 /\ s.files \in [0 .. m - 1 -> Nat \cup {-1}]
  BY <1>1, RingFields
<1>6. s.free_files \in Seq(Nat) /\ DOMAIN s.fds \in SUBSET Nat /\ s.fds \in [DOMAIN s.fds -> File]
  BY <1>1, RingFields
<1>7. PICK free : free = IF s.free_files # <<>> THEN Front(s.free_files) ELSE s.free_files
  OBVIOUS
<1>8. PICK fds : fds = With(s.fds, d0, f)
  OBVIOUS
<1>9. PICK files : files = With(s.files, h0, d0)
  OBVIOUS
<1>10. r = [s EXCEPT !.fds = fds, !.files = files, !.free_files = free]
  BY <1>2, <1>3, <1>7, <1>8, <1>9 DEF OpenFile
<1>11. /\ DOMAIN fds = DOMAIN s.fds \cup {d0} /\ fds[d0] = f
       /\ \A fd \in DOMAIN s.fds : fds[fd] = s.fds[fd]
       /\ fds \in [DOMAIN s.fds \cup {d0} -> File]
  BY <1>4, <1>6, <1>8 DEF With
<1>12. /\ DOMAIN files = DOMAIN s.files \cup {h0} /\ files[h0] = d0
       /\ \A h \in DOMAIN s.files \ {h0} : files[h] = s.files[h]
       /\ files \in [DOMAIN s.files \cup {h0} -> Nat \cup {-1}]
  BY <1>4, <1>5, <1>9 DEF With
<1>13. fds \in Descriptors
  BY <1>4, <1>6, <1>11 DEF Descriptors
<1>14. files \in HandleTable
  <2>1. CASE s.free_files # <<>>
    <3>1. DOMAIN s.files \cup {h0} = 0 .. m - 1
      BY <1>4, <1>5, <2>1
    <3> QED BY <1>12, <3>1 DEF HandleTable
  <2>2. CASE s.free_files = <<>>
    <3>1. DOMAIN s.files \cup {h0} = 0 .. h0 /\ h0 = (h0 + 1) - 1 /\ h0 + 1 \in Nat
      BY <1>4, <1>5, <2>2
    <3> QED BY <1>12, <3>1 DEF HandleTable
  <2> QED BY <2>1, <2>2
<1>15. /\ free \in Seq(Nat) /\ IsInjective(free) /\ ToSet(free) = ToSet(s.free_files) \ {h0}
  <2>1. CASE s.free_files # <<>>
    BY <1>4, <1>7, <2>1
  <2>2. CASE s.free_files = <<>>
    <3>1. free = <<>> /\ ToSet(s.free_files) = {} /\ IsInjective(s.free_files)
      BY <1>1, <1>7, <2>2 DEF HandlesPaired, ToSet
    <3> QED BY <1>6, <2>2, <3>1
  <2> QED BY <2>1, <2>2
<1>16. /\ r \in RingRecord /\ r.fds = fds /\ r.files = files /\ r.free_files = free
       /\ SameQueues(s, r) /\ SameSlots(s, r)
  BY <1>1, <1>10, <1>13, <1>14, <1>15 DEF RingRecord, SameQueues, SameSlots
<1>17. FreeOnce(r)
  BY <1>1, <1>16 DEF FreeOnce, SameSlots
<1>18. Opened(r) = Opened(s) \cup {h0}
  BY <1>4, <1>12, <1>16 DEF Opened
<1>19. \A h \in Opened(s) : h # h0 /\ h \in DOMAIN s.files /\ files[h] = s.files[h] /\ s.files[h] \in DOMAIN s.fds
  BY <1>1, <1>4, <1>12 DEF Opened, HandlesPaired
<1>20. HandlesPaired(r)
  <2>1. \A h : h \in ToSet(free) <=> h \in DOMAIN files /\ files[h] = -1
    BY <1>1, <1>4, <1>12, <1>15 DEF HandlesPaired
  <2>2. IsFiniteSet(DOMAIN fds)
    BY <1>1, <1>11, FS_AddElement DEF HandlesPaired
  <2>3. \A h, g \in Opened(r) : files[h] = files[g] => h = g
    BY <1>1, <1>4, <1>12, <1>18, <1>19 DEF HandlesPaired
  <2>4. \A fd : fd \in DOMAIN fds <=> \E h \in Opened(r) : files[h] = fd
    BY <1>1, <1>11, <1>12, <1>18, <1>19 DEF HandlesPaired
  <2> QED BY <1>15, <1>16, <2>1, <2>2, <2>3, <2>4 DEF HandlesPaired
<1>21. \A h \in Opened(s) : r.files[h] = s.files[h] /\ r.fds[r.files[h]] = s.fds[s.files[h]]
  BY <1>11, <1>16, <1>19
<1>22. r.files[h0] \in DOMAIN r.fds /\ r.fds[r.files[h0]] = f
  BY <1>11, <1>12, <1>16
<1> QED BY <1>2, <1>16, <1>17, <1>18, <1>20, <1>21, <1>22 DEF Sound

\* close_file() of an open handle takes it away, and leaves the others alone.
LEMMA FileClosed ==
    ASSUME NEW s, Sound(s), NEW h0 \in Opened(s)
    PROVE  LET r == CloseFile(s, h0) IN
           /\ Sound(r) /\ SameQueues(s, r) /\ SameSlots(s, r)
           /\ Opened(r) = Opened(s) \ {h0}
           /\ \A h \in Opened(r) : /\ r.files[h] = s.files[h]
                                   /\ r.fds[r.files[h]] = s.fds[s.files[h]]
<1> DEFINE r == CloseFile(s, h0)
<1>1. s \in RingRecord /\ FreeOnce(s) /\ HandlesPaired(s)
  BY DEF Sound
<1>2. PICK m \in Nat : DOMAIN s.files = 0 .. m - 1 /\ s.files \in [0 .. m - 1 -> Nat \cup {-1}]
  BY <1>1, RingFields
<1>3. s.free_files \in Seq(Nat) /\ DOMAIN s.fds \in SUBSET Nat /\ s.fds \in [DOMAIN s.fds -> File]
  BY <1>1, RingFields
<1>4. h0 \in DOMAIN s.files /\ s.files[h0] # -1 /\ s.files[h0] \in Nat /\ ~(s.files[h0] < 0) /\ h0 \in Nat
  BY <1>2 DEF Opened
<1>5. PICK d0 : d0 = s.files[h0]
  OBVIOUS
<1>6. PICK fds : fds = [fd \in DOMAIN s.fds \ {d0} |-> s.fds[fd]]
  OBVIOUS
<1>7. PICK files : files = [s.files EXCEPT ![h0] = -1]
  OBVIOUS
<1>8. PICK free : free = Append(s.free_files, h0)
  OBVIOUS
<1>9. r = [s EXCEPT !.fds = fds, !.files = files, !.free_files = free]
  <2>1. r = [s EXCEPT !.fds = [fd \in DOMAIN s.fds \ {s.files[h0]} |-> s.fds[fd]],
                      !.files[h0] = -1, !.free_files = Append(s.free_files, h0)]
    BY <1>4 DEF CloseFile
  <2>2. [s EXCEPT !.files[h0] = -1] = [s EXCEPT !.files = files]
    BY <1>7
  <2> QED BY <1>5, <1>6, <1>7, <1>8, <2>1, <2>2
<1>10. /\ DOMAIN fds = DOMAIN s.fds \ {d0}
       /\ \A fd \in DOMAIN fds : fds[fd] = s.fds[fd]
       /\ fds \in [DOMAIN s.fds \ {d0} -> File]
  BY <1>3, <1>6
<1>11. /\ DOMAIN files = DOMAIN s.files /\ files[h0] = -1
       /\ \A h \in DOMAIN s.files \ {h0} : files[h] = s.files[h]
       /\ files \in [0 .. m - 1 -> Nat \cup {-1}]
  BY <1>2, <1>4, <1>7
<1>12. fds \in Descriptors /\ files \in HandleTable
  BY <1>3, <1>10, <1>11 DEF Descriptors, HandleTable
<1>13. free \in Seq(Nat) /\ IsInjective(free) /\ ToSet(free) = ToSet(s.free_files) \cup {h0}
  <2>1. h0 \notin ToSet(s.free_files) /\ IsInjective(s.free_files)
    BY <1>1, <1>4 DEF HandlesPaired
  <2> QED BY <1>3, <1>4, <1>8, <2>1, LastAdded
<1>14. /\ r \in RingRecord /\ r.fds = fds /\ r.files = files /\ r.free_files = free
       /\ SameQueues(s, r) /\ SameSlots(s, r)
  BY <1>1, <1>9, <1>12, <1>13 DEF RingRecord, SameQueues, SameSlots
<1>15. FreeOnce(r)
  BY <1>1, <1>14 DEF FreeOnce, SameSlots
<1>16. Opened(r) = Opened(s) \ {h0}
  BY <1>11, <1>14 DEF Opened
<1>17. \A h \in Opened(r) : /\ h # h0 /\ h \in Opened(s) /\ h \in DOMAIN s.files
                            /\ files[h] = s.files[h] /\ s.files[h] # d0 /\ s.files[h] \in DOMAIN s.fds
  BY <1>1, <1>5, <1>11, <1>16 DEF Opened, HandlesPaired
<1>18. HandlesPaired(r)
  <2>1. \A h : h \in ToSet(free) <=> h \in DOMAIN files /\ files[h] = -1
    BY <1>1, <1>4, <1>11, <1>13 DEF HandlesPaired
  <2>2. IsFiniteSet(DOMAIN fds)
    BY <1>1, <1>10, FS_RemoveElement DEF HandlesPaired
  <2>3. \A h, g \in Opened(r) : files[h] = files[g] => h = g
    BY <1>1, <1>17 DEF HandlesPaired
  <2>4. \A fd : fd \in DOMAIN fds <=> \E h \in Opened(r) : files[h] = fd
    BY <1>1, <1>5, <1>10, <1>16, <1>17 DEF HandlesPaired
  <2> QED BY <1>13, <1>14, <2>1, <2>2, <2>3, <2>4 DEF HandlesPaired
<1>19. \A h \in Opened(r) : r.files[h] = s.files[h] /\ r.fds[r.files[h]] = s.fds[s.files[h]]
  BY <1>10, <1>14, <1>17
<1> QED BY <1>14, <1>15, <1>16, <1>18, <1>19 DEF Sound

-----------------------------------------------------------------------------
(* A ring with reads outstanding *)

Busy(s, o, c) == {e.tag : e \in ToSet(s.sq)} \cup {op.tag : op \in o} \cup {d.tag : d \in ToSet(c)}

\* No tag is outstanding twice.
TagsOnce(s, o, c) ==
    /\ \A i, j \in DOMAIN s.sq : s.sq[i].tag = s.sq[j].tag => i = j
    /\ \A a, b \in o : a.tag = b.tag => a = b
    /\ \A i, j \in DOMAIN c : c[i].tag = c[j].tag => i = j
    /\ \A i \in DOMAIN s.sq, a \in o : s.sq[i].tag # a.tag
    /\ \A i \in DOMAIN s.sq, j \in DOMAIN c : s.sq[i].tag # c[j].tag
    /\ \A a \in o, j \in DOMAIN c : a.tag # c[j].tag

\* What a completion says of the read w, and what it left in the buffer.
Served(s, w, d) ==
    /\ d.res \in Outcomes(w)
    /\ d.res > 0 => s.buf[d.tag] = SubSeq(Content[w.file], w.off + 1, w.off + d.res)

\* W[t] is the read that tag t was given out for: [file, off, len, handle].
Asked(s, o, c, W) ==
    /\ \A i \in DOMAIN s.sq : LET e == s.sq[i] w == W[e.tag] IN
          /\ e.off = w.off /\ e.len = w.len
          /\ w.handle \in Opened(s) /\ e.fd = s.files[w.handle] /\ s.fds[e.fd] = w.file
    /\ \A op \in o : LET w == W[op.tag] IN op.off = w.off /\ op.len = w.len /\ op.file = w.file
    /\ \A i \in DOMAIN c : Served(s, W[c[i].tag], c[i])
    /\ \A t \in Busy(s, o, c) : W[t].file \in File /\ W[t].off \in Nat /\ W[t].len \in Nat

Flow(s, o, c, W) ==
    /\ Sound(s) /\ o \in SUBSET Accept /\ IsFiniteSet(o) /\ c \in Seq(Completion)
    /\ TagsOnce(s, o, c)
    /\ s.pending = Len(s.sq) /\ s.inflight = Cardinality(o) + Len(c)
    /\ Busy(s, o, c) \subseteq Used(s)
    /\ Asked(s, o, c, W)

\* A set and its image under a function that tells its elements apart.
LEMMA Counted ==
    ASSUME NEW S, IsFiniteSet(S), NEW f, DOMAIN f = S,
           \A x, y \in S : f[x] = f[y] => x = y,
           f = [x \in S |-> f[x]]
    PROVE  IsFiniteSet({f[x] : x \in S}) /\ Cardinality({f[x] : x \in S}) = Cardinality(S)
<1> DEFINE T == {f[x] : x \in S}
<1>1. f \in [S -> T]
  OBVIOUS
<1>2. f \in Injection(S, T) /\ f \in Surjection(S, T)
  BY <1>1 DEF Injection, Surjection, IsInjective
<1>3. f \in Bijection(S, T)
  BY <1>2 DEF Bijection
<1>4. ExistsBijection(S, T)
  BY <1>3 DEF ExistsBijection
<1> QED BY <1>4, FS_Bijection

\* The same of a numbered family.
LEMMA Numbered ==
    ASSUME NEW n \in Nat, NEW f, DOMAIN f = 1 .. n, f = [i \in 1 .. n |-> f[i]],
           \A i, j \in 1 .. n : f[i] = f[j] => i = j
    PROVE  IsFiniteSet({f[i] : i \in 1 .. n}) /\ Cardinality({f[i] : i \in 1 .. n}) = n
<1>1. PICK S : S = 1 .. n
  OBVIOUS
<1>2. 1 \in Int /\ n \in Int
  OBVIOUS
<1>3. IsFiniteSet(1 .. n) /\ Cardinality(1 .. n) = IF 1 > n THEN 0 ELSE n - 1 + 1
  BY <1>2, FS_Interval
<1>4. Cardinality(S) = n /\ IsFiniteSet(S)
  BY <1>1, <1>3
<1>5. DOMAIN f = S /\ f = [i \in S |-> f[i]] /\ \A i, j \in S : f[i] = f[j] => i = j
  BY <1>1
<1>6. IsFiniteSet({f[i] : i \in S}) /\ Cardinality({f[i] : i \in S}) = Cardinality(S)
  BY <1>4, <1>5, Counted
<1> QED BY <1>1, <1>4, <1>6

\* Two sets apart.
LEMMA ApartCounted ==
    ASSUME NEW S, NEW T, IsFiniteSet(S), IsFiniteSet(T), S \cap T = {}
    PROVE  /\ IsFiniteSet(S \cup T) /\ Cardinality(S \cup T) = Cardinality(S) + Cardinality(T)
           /\ Cardinality(S) \in Nat /\ Cardinality(T) \in Nat
<1>1. Cardinality(S) \in Nat /\ Cardinality(T) \in Nat
  BY FS_CardinalityType
<1>2. Cardinality(S \cap T) = 0
  BY FS_EmptySet
<1>3. /\ IsFiniteSet(S \cup T)
      /\ Cardinality(S \cup T) = Cardinality(S) + Cardinality(T) - Cardinality(S \cap T)
  BY FS_Union
<1> QED BY <1>1, <1>2, <1>3

\* The outstanding tags are finitely many, one for each read.
LEMMA BusyCounted ==
    ASSUME NEW s, NEW o, NEW c, s.sq \in Seq(Read), o \in SUBSET Accept, IsFiniteSet(o),
           c \in Seq(Completion), TagsOnce(s, o, c)
    PROVE  /\ IsFiniteSet(Busy(s, o, c))
           /\ Cardinality(Busy(s, o, c)) = Len(s.sq) + Cardinality(o) + Len(c)
           /\ Len(s.sq) \in Nat /\ Cardinality(o) \in Nat /\ Len(c) \in Nat
<1>1. PICK q : q = s.sq
  OBVIOUS
<1>2. q \in Seq(Read) /\ Len(q) \in Nat /\ DOMAIN q = 1 .. Len(q)
  BY <1>1
<1>3. Len(c) \in Nat /\ DOMAIN c = 1 .. Len(c)
  OBVIOUS
<1>4. Cardinality(o) \in Nat
  BY FS_CardinalityType
<1> DEFINE Q == {e.tag : e \in ToSet(s.sq)}
           A == {op.tag : op \in o}
           C == {d.tag : d \in ToSet(c)}
<1>5. IsFiniteSet(Q) /\ Cardinality(Q) = Len(q)
  <2>1. PICK f : f = [i \in DOMAIN q |-> q[i].tag]
    OBVIOUS
  <2>2. \A i, j \in DOMAIN q : f[i] = f[j] => i = j
    BY <1>1, <2>1 DEF TagsOnce
  <2>3. Q = {f[i] : i \in DOMAIN q}
    BY <1>1, <2>1 DEF ToSet
  <2>4. PICK n \in Nat : n = Len(q) /\ DOMAIN q = 1 .. n
    BY <1>2
  <2>5. DOMAIN f = 1 .. n /\ f = [i \in 1 .. n |-> f[i]]
    BY <2>1, <2>4
  <2>6. \A i, j \in 1 .. n : f[i] = f[j] => i = j
    BY <2>2, <2>4
  <2>7. /\ IsFiniteSet({f[i] : i \in 1 .. n}) /\ Cardinality({f[i] : i \in 1 .. n}) = n
    BY <2>5, <2>6, Numbered, SMTT(30)
  <2> QED BY <2>3, <2>4, <2>7
<1>6. IsFiniteSet(C) /\ Cardinality(C) = Len(c)
  <2>1. PICK f : f = [i \in DOMAIN c |-> c[i].tag]
    OBVIOUS
  <2>2. \A i, j \in DOMAIN c : f[i] = f[j] => i = j
    BY <2>1 DEF TagsOnce
  <2>3. C = {f[i] : i \in DOMAIN c}
    BY <2>1 DEF ToSet
  <2>4. PICK n \in Nat : n = Len(c) /\ DOMAIN c = 1 .. n
    BY <1>3
  <2>5. DOMAIN f = 1 .. n /\ f = [i \in 1 .. n |-> f[i]]
    BY <2>1, <2>4
  <2>6. \A i, j \in 1 .. n : f[i] = f[j] => i = j
    BY <2>2, <2>4
  <2>7. /\ IsFiniteSet({f[i] : i \in 1 .. n}) /\ Cardinality({f[i] : i \in 1 .. n}) = n
    BY <2>5, <2>6, Numbered, SMTT(30)
  <2> QED BY <2>3, <2>4, <2>7
<1>7. IsFiniteSet(A) /\ Cardinality(A) = Cardinality(o)
  <2>1. PICK f : f = [op \in o |-> op.tag]
    OBVIOUS
  <2>2. \A x, y \in o : f[x] = f[y] => x = y
    BY <2>1 DEF TagsOnce
  <2>3. A = {f[op] : op \in o}
    BY <2>1
  <2>5. DOMAIN f = o /\ f = [op \in o |-> f[op]]
    BY <2>1
  <2> HIDE DEF A
  <2> QED BY <2>2, <2>3, <2>5, Counted
<1>8. Q \cap A = {} /\ (Q \cup A) \cap C = {}
  BY DEF TagsOnce, ToSet
<1>9. Busy(s, o, c) = (Q \cup A) \cup C
  BY DEF Busy
<1> HIDE DEF Q, A, C
<1>10. IsFiniteSet(Q \cup A) /\ Cardinality(Q \cup A) = Cardinality(Q) + Cardinality(A)
  BY <1>5, <1>7, <1>8, ApartCounted
<1>11. IsFiniteSet((Q \cup A) \cup C) /\ Cardinality((Q \cup A) \cup C) = Cardinality(Q \cup A) + Cardinality(C)
  BY <1>6, <1>8, <1>10, ApartCounted
<1>12. Cardinality((Q \cup A) \cup C) = Len(q) + Cardinality(o) + Len(c)
  BY <1>5, <1>6, <1>7, <1>10, <1>11
<1> QED BY <1>1, <1>2, <1>3, <1>4, <1>9, <1>11, <1>12

\* The same reads, whoever is asked about them.
LEMMA Agreed ==
    ASSUME NEW s, NEW o, NEW c, NEW W, NEW V, Flow(s, o, c, W),
           \A t \in Busy(s, o, c) : V[t] = W[t]
    PROVE  Flow(s, o, c, V)
<1>1. /\ \A i \in DOMAIN s.sq : s.sq[i].tag \in Busy(s, o, c)
      /\ \A op \in o : op.tag \in Busy(s, o, c)
      /\ \A i \in DOMAIN c : c[i].tag \in Busy(s, o, c)
  BY DEF Busy, ToSet
<1>2. Asked(s, o, c, W)
  BY DEF Flow
<1>3. Asked(s, o, c, V)
  BY <1>1, <1>2 DEF Asked
<1> QED BY <1>3 DEF Flow

\* What a read may return, and that it then was there.
LEMMA OutcomeFacts ==
    ASSUME NEW w, w.file \in File, w.off \in Nat, w.len \in Nat, NEW res \in Outcomes(w)
    PROVE  /\ res \in Int /\ res <= w.len
           /\ res > 0 => /\ w.off + res <= Len(Content[w.file])
                         /\ SubSeq(Content[w.file], w.off + 1, w.off + res) \in Seq(Byte)
                         /\ Len(SubSeq(Content[w.file], w.off + 1, w.off + res)) = res
           /\ w.file \notin Faulty => /\ res >= 0
                                      /\ w.off < Len(Content[w.file]) =>
                                            res = Smaller(w.len, Len(Content[w.file]) - w.off)
<1>1. PICK b \in Seq(Byte) : b = Content[w.file]
  BY RingAssumption
<1>2. w.file # NoFile
  BY RingAssumption
<1>3. PICK n : n = IF w.off >= Len(b) THEN 0 ELSE Smaller(w.len, Len(b) - w.off)
  OBVIOUS
<1>4. Len(b) \in Nat /\ n \in Nat /\ n <= w.len /\ (n > 0 => w.off + n <= Len(b))
  BY <1>3 DEF Smaller
<1>5. res \in IF w.file \in Faulty /\ n > 0 THEN {-1} \cup 1 .. n ELSE {n}
  BY <1>1, <1>2, <1>3 DEF Outcomes
<1>6. res \in Int /\ res <= n
  BY <1>4, <1>5
<1>7. w.file \notin Faulty => res = n
  BY <1>5
<1>8. ASSUME res > 0
      PROVE  /\ w.off + res <= Len(b)
             /\ SubSeq(b, w.off + 1, w.off + res) \in Seq(Byte)
             /\ Len(SubSeq(b, w.off + 1, w.off + res)) = res
  <2>1. w.off + res <= Len(b) /\ res \in Nat
    BY <1>4, <1>6, <1>8
  <2> QED BY <1>1, <1>8, <2>1
<1> QED BY <1>1, <1>3, <1>4, <1>6, <1>7, <1>8

\* Nothing but the queues differs.
SameTables(s, r) == /\ r.io = s.io /\ r.held = s.held /\ r.event = s.event /\ r.waiting = s.waiting
                    /\ SameSlots(s, r) /\ SameHandles(s, r)

\* io_uring_enter moves reads from the queue to the kernel, and that is all.
LEMMA HandedOver ==
    ASSUME NEW s, NEW o, NEW c, NEW W, Flow(s, o, c, W), NEW k \in 0 .. s.pending
    PROVE  LET r == Entered(s, k) p == o \cup Accepted(s, k) IN
           /\ Flow(r, p, c, W) /\ SameTables(s, r)
           /\ Busy(r, p, c) = Busy(s, o, c)
           /\ (k > 0 => p # {})
<1> DEFINE r == Entered(s, k)
           A == Accepted(s, k)
           p == o \cup A
<1>1. /\ Sound(s) /\ o \in SUBSET Accept /\ IsFiniteSet(o) /\ c \in Seq(Completion)
      /\ TagsOnce(s, o, c)
      /\ s.pending = Len(s.sq) /\ s.inflight = Cardinality(o) + Len(c)
      /\ Busy(s, o, c) \subseteq Used(s)
      /\ Asked(s, o, c, W)
  BY DEF Flow
<1>2. s \in RingRecord /\ FreeOnce(s) /\ HandlesPaired(s)
  BY <1>1 DEF Sound
<1>3. PICK q \in Seq(Read) : q = s.sq
  BY <1>2, RingFields
<1>4. PICK n \in Nat : n = Len(q) /\ DOMAIN q = 1 .. n /\ k \in 0 .. n /\ k \in Nat /\ k <= n
  BY <1>1, <1>3
<1>5. PICK q2 : q2 = SubSeq(q, k + 1, n)
  OBVIOUS
<1>6. q2 \in Seq(Read) /\ Len(q2) = n - k /\ DOMAIN q2 = 1 .. n - k /\ \A i \in 1 .. n - k : q2[i] = q[k + i]
  BY <1>4, <1>5
<1>7. r = [s EXCEPT !.sq = q2, !.pending = @ - k, !.inflight = @ + k]
  BY <1>3, <1>4, <1>5 DEF Entered
<1>8. /\ r \in RingRecord /\ r.sq = q2 /\ r.pending = s.pending - k /\ r.inflight = s.inflight + k
      /\ SameTables(s, r)
  <2>1. PICK pending \in Int : pending = s.pending - k
    BY <1>2, <1>4, RingFields
  <2>2. PICK inflight \in Int : inflight = s.inflight + k
    BY <1>2, <1>4, RingFields
  <2>3. r = [s EXCEPT !.sq = q2, !.pending = pending, !.inflight = inflight]
    BY <1>7, <2>1, <2>2
  <2> HIDE DEF r
  <2>4. r \in RingRecord /\ r.sq = q2 /\ r.pending = pending /\ r.inflight = inflight
    BY <1>2, <1>6, <2>3 DEF RingRecord
  <2>5. SameTables(s, r)
    BY <1>2, <2>3 DEF RingRecord, SameTables, SameSlots, SameHandles
  <2> QED BY <2>1, <2>2, <2>4, <2>5
<1>9. \A i \in 1 .. n : /\ q[i] \in Read /\ q[i].fd \in DOMAIN s.fds /\ s.fds[q[i].fd] = W[q[i].tag].file
                        /\ q[i].off = W[q[i].tag].off /\ q[i].len = W[q[i].tag].len
                        /\ W[q[i].tag].file \in File
  <2>1. TAKE i \in 1 .. n
  <2>2. q[i].tag \in Busy(s, o, c)
    BY <1>3, <1>4 DEF Busy, ToSet
  <2>3. W[q[i].tag].file \in File
    BY <1>1, <2>2 DEF Asked
  <2>4. /\ q[i].off = W[q[i].tag].off /\ q[i].len = W[q[i].tag].len
        /\ W[q[i].tag].handle \in Opened(s) /\ q[i].fd = s.files[W[q[i].tag].handle]
        /\ s.fds[q[i].fd] = W[q[i].tag].file
    BY <1>1, <1>3, <1>4 DEF Asked
  <2>5. q[i].fd \in DOMAIN s.fds
    BY <1>2, <2>4 DEF HandlesPaired
  <2> QED BY <1>4, <2>3, <2>4, <2>5
<1>10. PICK g : g = [i \in 1 .. k |-> [tag |-> q[i].tag, len |-> q[i].len, off |-> q[i].off,
                                     file |-> W[q[i].tag].file]]
  OBVIOUS
<1>11. ToSet(SubSeq(q, 1, k)) = {q[i] : i \in 1 .. k}
  <2>1. Len(SubSeq(q, 1, k)) = k /\ DOMAIN SubSeq(q, 1, k) = 1 .. k /\ \A i \in 1 .. k : SubSeq(q, 1, k)[i] = q[i]
    BY <1>4
  <2> QED BY <2>1 DEF ToSet
<1>12. A = {g[i] : i \in 1 .. k}
  <2>1. A = {[tag |-> e.tag, len |-> e.len, off |-> e.off,
              file |-> IF e.fd \in DOMAIN s.fds THEN s.fds[e.fd] ELSE NoFile] : e \in {q[i] : i \in 1 .. k}}
    BY <1>3, <1>11 DEF Accepted
  <2>2. \A i \in 1 .. k : g[i] = [tag |-> q[i].tag, len |-> q[i].len, off |-> q[i].off,
                                  file |-> IF q[i].fd \in DOMAIN s.fds THEN s.fds[q[i].fd] ELSE NoFile]
    BY <1>4, <1>9, <1>10
  <2> QED BY <2>1, <2>2, ZenonT(60)
<1>13. \A i \in 1 .. k : /\ i \in 1 .. n /\ i \in DOMAIN s.sq /\ g[i].tag = q[i].tag /\ g[i] \in Accept
                         /\ g[i].off = W[q[i].tag].off /\ g[i].len = W[q[i].tag].len
                         /\ g[i].file = W[q[i].tag].file
  <2>1. TAKE i \in 1 .. k
  <2>2. i \in 1 .. n
    BY <1>4
  <2>3. /\ q[i] \in Read /\ q[i].off = W[q[i].tag].off /\ q[i].len = W[q[i].tag].len
        /\ W[q[i].tag].file \in File
    BY <1>9, <2>2
  <2>4. g[i] = [tag |-> q[i].tag, len |-> q[i].len, off |-> q[i].off, file |-> W[q[i].tag].file]
    BY <1>10
  <2>5. g[i] \in Accept
    BY <2>3, <2>4, SMTT(30) DEF Accept, Read
  <2> QED BY <1>3, <1>4, <2>2, <2>3, <2>4, <2>5
<1>14. \A i, j \in 1 .. n : q[i].tag = q[j].tag => i = j
  BY <1>1, <1>3, <1>4 DEF TagsOnce
<1> HIDE DEF r, A
<1>15. IsFiniteSet(A) /\ Cardinality(A) = k
  <2>1. PICK m \in Nat : m = k
    BY <1>4
  <2>2. \A i, j \in 1 .. m : g[i] = g[j] => i = j
    BY <1>13, <1>14, <2>1
  <2>3. DOMAIN g = 1 .. m /\ g = [i \in 1 .. m |-> g[i]]
    BY <1>10, <2>1
  <2>4. IsFiniteSet({g[i] : i \in 1 .. m}) /\ Cardinality({g[i] : i \in 1 .. m}) = m
    BY <2>2, <2>3, Numbered
  <2> QED BY <1>12, <2>1, <2>4
<1>16. \A a \in A : \E i \in 1 .. k : a = g[i]
  BY <1>12
<1>17. o \cap A = {}
  BY <1>1, <1>3, <1>4, <1>13, <1>16 DEF TagsOnce
<1>18. IsFiniteSet(p) /\ Cardinality(p) = Cardinality(o) + k /\ p \in SUBSET Accept /\ Cardinality(o) \in Nat
  <2>1. IsFiniteSet(p) /\ Cardinality(p) = Cardinality(o) + k /\ Cardinality(o) \in Nat
    BY <1>1, <1>15, <1>17, ApartCounted
  <2>2. p \in SUBSET Accept
    BY <1>1, <1>13, <1>16
  <2> QED BY <2>1, <2>2
<1>19. TagsOnce(r, p, c)
  <2>1. \A i \in DOMAIN q2 : /\ k + i \in 1 .. n /\ k + i \in DOMAIN s.sq /\ q2[i].tag = s.sq[k + i].tag
                             /\ q2[i] = q[k + i]
    BY <1>3, <1>4, <1>6
  <2>2. \A i, j \in DOMAIN q2 : q2[i].tag = q2[j].tag => i = j
    <3>1. TAKE i, j \in DOMAIN q2
    <3>2. HAVE q2[i].tag = q2[j].tag
    <3>3. k + i = k + j
      BY <1>14, <2>1, <3>2
    <3>4. i \in Nat /\ j \in Nat
      BY <1>6
    <3> QED BY <1>4, <3>3, <3>4
  <2>3. \A a, b \in p : a.tag = b.tag => a = b
    <3>1. TAKE a, b \in p
    <3>2. HAVE a.tag = b.tag
    <3>3. CASE a \in o /\ b \in o
      BY <1>1, <3>2, <3>3 DEF TagsOnce
    <3>4. ASSUME NEW e \in o, NEW d \in A PROVE e.tag # d.tag
      <4>1. PICK i \in 1 .. k : d = g[i]
        BY <1>16
      <4>2. i \in DOMAIN s.sq /\ d.tag = s.sq[i].tag
        BY <1>3, <1>13, <4>1
      <4> QED BY <1>1, <4>2 DEF TagsOnce
    <3>5. CASE a \in A /\ b \in A
      BY <1>13, <1>14, <1>16, <3>2, <3>5
    <3> QED BY <3>2, <3>3, <3>4, <3>5
  <2>4. \A i \in DOMAIN q2, a \in p : q2[i].tag # a.tag
    <3>1. TAKE i \in DOMAIN q2, a \in p
    <3>2. CASE a \in o
      BY <1>1, <2>1, <3>2 DEF TagsOnce
    <3>3. CASE a \in A
      <4>1. PICK j \in 1 .. k : a = g[j]
        BY <1>16, <3>3
      <4>2. k + i # j /\ k + i \in 1 .. n /\ j \in 1 .. n /\ i \in 1 .. n - k
        BY <1>4, <1>6, <2>1, <4>1
      <4> QED BY <1>13, <1>14, <2>1, <4>1, <4>2
    <3> QED BY <3>2, <3>3
  <2>5. \A i \in DOMAIN q2, j \in DOMAIN c : q2[i].tag # c[j].tag
    BY <1>1, <2>1 DEF TagsOnce
  <2>6. \A a \in p, j \in DOMAIN c : a.tag # c[j].tag
    BY <1>1, <1>3, <1>13, <1>16 DEF TagsOnce
  <2>7. \A i, j \in DOMAIN c : c[i].tag = c[j].tag => i = j
    BY <1>1 DEF TagsOnce
  <2> QED BY <1>8, <2>2, <2>3, <2>4, <2>5, <2>6, <2>7 DEF TagsOnce
<1>20. Busy(r, p, c) = Busy(s, o, c)
  <2>1. ToSet(q) = ToSet(q2) \cup {q[i] : i \in 1 .. k}
    <3>1. \A i \in 1 .. n : i \in 1 .. k \/ (i - k \in 1 .. n - k /\ q[i] = q2[i - k])
      BY <1>4, <1>6
    <3>2. \A i \in 1 .. n - k : k + i \in 1 .. n /\ q2[i] = q[k + i]
      BY <1>4, <1>6
    <3>3. 1 .. k \subseteq 1 .. n
      BY <1>4
    <3>4. ToSet(q) = {q[i] : i \in 1 .. n} /\ ToSet(q2) = {q2[i] : i \in 1 .. n - k}
      BY <1>4, <1>6 DEF ToSet
    <3>5. ToSet(q) \subseteq ToSet(q2) \cup {q[i] : i \in 1 .. k}
      BY <3>1, <3>4
    <3>6. ToSet(q2) \cup {q[i] : i \in 1 .. k} \subseteq ToSet(q)
      BY <3>2, <3>3, <3>4
    <3> QED BY <3>5, <3>6
  <2>2. {e.tag : e \in ToSet(q)} = {e.tag : e \in ToSet(q2)} \cup {q[i].tag : i \in 1 .. k}
    BY <2>1
  <2>3. {a.tag : a \in p} = {a.tag : a \in o} \cup {q[i].tag : i \in 1 .. k}
    BY <1>12, <1>13
  <2> QED BY <1>3, <1>8, <2>2, <2>3 DEF Busy
<1>21. Opened(r) = Opened(s) /\ Used(r) = Used(s)
  BY <1>8 DEF Opened, Used, SameTables, SameSlots, SameHandles
<1>22. Asked(r, p, c, W)
  <2>1. \A i \in DOMAIN q2 : /\ q2[i].off = W[q2[i].tag].off /\ q2[i].len = W[q2[i].tag].len
                             /\ W[q2[i].tag].handle \in Opened(s)
                             /\ q2[i].fd = s.files[W[q2[i].tag].handle]
                             /\ s.fds[q2[i].fd] = W[q2[i].tag].file
    <3>1. \A i \in DOMAIN q2 : k + i \in DOMAIN s.sq /\ q2[i] = s.sq[k + i]
      BY <1>3, <1>4, <1>6
    <3> QED BY <1>1, <3>1 DEF Asked
  <2>2. \A a \in p : a.off = W[a.tag].off /\ a.len = W[a.tag].len /\ a.file = W[a.tag].file
    <3>1. \A a \in o : a.off = W[a.tag].off /\ a.len = W[a.tag].len /\ a.file = W[a.tag].file
      BY <1>1 DEF Asked
    <3> QED BY <1>13, <1>16, <3>1
  <2>3. \A i \in DOMAIN c : Served(r, W[c[i].tag], c[i])
    BY <1>1, <1>8 DEF Asked, Served, SameTables, SameSlots
  <2>4. \A t \in Busy(s, o, c) : W[t].file \in File /\ W[t].off \in Nat /\ W[t].len \in Nat
    BY <1>1 DEF Asked
  <2>5. r.files = s.files /\ r.fds = s.fds
    BY <1>8 DEF SameTables, SameHandles
  <2> QED BY <1>8, <1>20, <1>21, <2>1, <2>2, <2>3, <2>4, <2>5 DEF Asked
<1>23. Sound(r)
  <2>1. FreeOnce(r)
    BY <1>2, <1>8 DEF FreeOnce, SameTables, SameSlots
  <2>2. HandlesPaired(r)
    BY <1>2, <1>8, <1>21 DEF HandlesPaired, SameTables, SameHandles
  <2> QED BY <1>8, <2>1, <2>2 DEF Sound
<1>24. r.pending = Len(r.sq) /\ r.inflight = Cardinality(p) + Len(c)
  BY <1>1, <1>3, <1>4, <1>6, <1>8, <1>18
<1>25. k > 0 => p # {}
  <2>1. k > 0 => 1 \in 1 .. k
    BY <1>4
  <2> QED BY <1>12, <2>1
<1>26. Flow(r, p, c, W)
  BY <1>1, <1>18, <1>19, <1>20, <1>21, <1>22, <1>23, <1>24 DEF Flow
<1> QED BY <1>8, <1>20, <1>25, <1>26 DEF r, A

\* What the kernel makes of a ring when it ends the read op.
Ended(s, c, op, res) ==
    [s EXCEPT !.event = @ \/ ("event" \in s.held /\ c = <<>>),
              !.buf = IF res <= 0 THEN @
                      ELSE [@ EXCEPT ![op.tag] = SubSeq(Content[op.file], op.off + 1, op.off + res)]]

\* The kernel ends a read: its bytes are in its own buffer.
LEMMA ReadEnded ==
    ASSUME NEW s, NEW o, NEW c, NEW W, Flow(s, o, c, W), NEW op, op \in o,
           NEW res, res \in Outcomes(op)
    PROVE  LET r == Ended(s, c, op, res) p == o \ {op} d == Append(c, [tag |-> op.tag, res |-> res])
           IN
           /\ Flow(r, p, d, W) /\ Busy(r, p, d) = Busy(s, o, c)
           /\ SameHandles(s, r) /\ r.free_slots = s.free_slots /\ DOMAIN r.buf = DOMAIN s.buf
           /\ \A t \in DOMAIN s.buf \ {op.tag} : r.buf[t] = s.buf[t]
           /\ op.tag \in Busy(s, o, c)
           /\ r.io = s.io /\ r.held = s.held /\ r.waiting = s.waiting
           /\ r.event = (s.event \/ ("event" \in s.held /\ c = <<>>))
<1> DEFINE r == Ended(s, c, op, res)
           p == o \ {op}
           last == [tag |-> op.tag, res |-> res]
           d == Append(c, last)
<1>1. /\ Sound(s) /\ o \in SUBSET Accept /\ IsFiniteSet(o) /\ c \in Seq(Completion)
      /\ TagsOnce(s, o, c)
      /\ s.pending = Len(s.sq) /\ s.inflight = Cardinality(o) + Len(c)
      /\ Busy(s, o, c) \subseteq Used(s)
      /\ Asked(s, o, c, W)
  BY DEF Flow
<1>2. s \in RingRecord /\ FreeOnce(s) /\ HandlesPaired(s)
  BY <1>1 DEF Sound
<1>3. op.tag \in Busy(s, o, c) /\ op.tag \in Used(s) /\ op.tag \in DOMAIN s.buf
  BY <1>1 DEF Busy, Used
<1>4. PICK w : w = W[op.tag]
  OBVIOUS
<1>5. /\ w.file = op.file /\ w.off = op.off /\ w.len = op.len
      /\ w.file \in File /\ w.off \in Nat /\ w.len \in Nat
  BY <1>1, <1>3, <1>4 DEF Asked
<1>6. res \in Outcomes(w)
  BY <1>5 DEF Outcomes
<1>7. /\ res \in Int
      /\ res > 0 => SubSeq(Content[w.file], w.off + 1, w.off + res) \in Seq(Byte)
  BY <1>5, <1>6, OutcomeFacts
<1>8. PICK n \in Nat : DOMAIN s.buf = 0 .. n - 1 /\ s.buf \in [0 .. n - 1 -> Seq(Byte)]
  BY <1>2, RingFields
<1>9. PICK buf : buf = IF res <= 0 THEN s.buf
                       ELSE [s.buf EXCEPT ![op.tag] = SubSeq(Content[op.file], op.off + 1, op.off + res)]
  OBVIOUS
<1>10. /\ buf \in [0 .. n - 1 -> Seq(Byte)]
       /\ \A t \in DOMAIN s.buf \ {op.tag} : buf[t] = s.buf[t]
       /\ res > 0 => buf[op.tag] = SubSeq(Content[w.file], w.off + 1, w.off + res)
  <2>1. CASE res <= 0
    BY <1>7, <1>8, <1>9, <2>1
  <2>2. CASE res > 0
    <3>1. PICK bytes \in Seq(Byte) : bytes = SubSeq(Content[w.file], w.off + 1, w.off + res)
      BY <1>7, <2>2
    <3>2. buf = [s.buf EXCEPT ![op.tag] = bytes]
      BY <1>5, <1>7, <1>9, <2>2, <3>1
    <3> QED BY <1>3, <1>8, <3>1, <3>2
  <2> QED BY <1>7, <2>1, <2>2
<1>11. PICK ev : ev = (s.event \/ ("event" \in s.held /\ c = <<>>)) /\ ev \in BOOLEAN
  <2>1. s.event \in BOOLEAN
    BY <1>2, RingFields
  <2> QED BY <2>1
<1>12. r = [s EXCEPT !.event = ev, !.buf = buf]
  BY <1>9, <1>11 DEF Ended
<1> HIDE DEF r
<1>13. /\ r \in RingRecord /\ r.buf = buf /\ r.event = ev /\ SameHandles(s, r)
       /\ r.free_slots = s.free_slots /\ r.sq = s.sq /\ r.pending = s.pending
       /\ r.inflight = s.inflight /\ r.io = s.io /\ r.held = s.held /\ r.waiting = s.waiting
  <2>1. buf \in Buffers
    BY <1>10 DEF Buffers
  <2> QED BY <1>2, <1>11, <1>12, <2>1 DEF RingRecord, SameHandles
<1>14. DOMAIN r.buf = DOMAIN s.buf /\ Used(r) = Used(s) /\ Opened(r) = Opened(s)
  BY <1>8, <1>10, <1>13 DEF Used, Opened, SameHandles
<1>15. Sound(r)
  <2>1. FreeOnce(r)
    BY <1>2, <1>13, <1>14 DEF FreeOnce
  <2>2. HandlesPaired(r)
    BY <1>2, <1>13, <1>14 DEF HandlesPaired, SameHandles
  <2> QED BY <1>13, <2>1, <2>2 DEF Sound
<1>16. last \in Completion /\ last.tag = op.tag /\ last.res = res
  BY <1>1, <1>7 DEF Completion, Accept
<1>17. PICK m \in Nat : m = Len(c) /\ DOMAIN c = 1 .. m
  BY <1>1
<1> HIDE DEF last
<1>18. /\ d \in Seq(Completion) /\ Len(d) = m + 1 /\ DOMAIN d = 1 .. m + 1 /\ d[m + 1] = last
       /\ \A i \in 1 .. m : d[i] = c[i]
       /\ ToSet(d) = ToSet(c) \cup {last}
  BY <1>1, <1>16, <1>17, LastAdded
<1> HIDE DEF d
<1>19. /\ p \in SUBSET Accept /\ IsFiniteSet(p) /\ Cardinality(p) = Cardinality(o) - 1
       /\ Cardinality(o) \in Nat
  BY <1>1, FS_RemoveElement, FS_CardinalityType
<1>20. TagsOnce(r, p, d)
  <2>1. \A i, j \in DOMAIN r.sq : r.sq[i].tag = r.sq[j].tag => i = j
    BY <1>1, <1>13 DEF TagsOnce
  <2>2. \A a, b \in p : a.tag = b.tag => a = b
    BY <1>1 DEF TagsOnce
  <2>3. \A i, j \in DOMAIN d : d[i].tag = d[j].tag => i = j
    <3>1. \A i \in 1 .. m + 1 : i \in 1 .. m \/ i = m + 1
      OBVIOUS
    <3>2. \A i, j \in 1 .. m : d[i].tag = d[j].tag => i = j
      BY <1>1, <1>17, <1>18 DEF TagsOnce
    <3>3. \A i \in 1 .. m : d[i].tag # d[m + 1].tag
      BY <1>1, <1>16, <1>17, <1>18 DEF TagsOnce
    <3> QED BY <1>18, <3>1, <3>2, <3>3
  <2>4. \A i \in DOMAIN r.sq, a \in p : r.sq[i].tag # a.tag
    BY <1>1, <1>13 DEF TagsOnce
  <2>5. \A i \in DOMAIN r.sq, e \in ToSet(d) : r.sq[i].tag # e.tag
    <3>1. \A i \in DOMAIN r.sq, e \in ToSet(c) : r.sq[i].tag # e.tag
      BY <1>1, <1>13 DEF TagsOnce, ToSet
    <3>2. \A i \in DOMAIN r.sq : r.sq[i].tag # last.tag
      BY <1>1, <1>13, <1>16 DEF TagsOnce
    <3> QED BY <1>18, <3>1, <3>2
  <2>6. \A a \in p, e \in ToSet(d) : a.tag # e.tag
    <3>1. \A a \in p, e \in ToSet(c) : a.tag # e.tag
      BY <1>1 DEF TagsOnce, ToSet
    <3>2. \A a \in p : a.tag # last.tag
      BY <1>1, <1>16 DEF TagsOnce
    <3> QED BY <1>18, <3>1, <3>2
  <2>7. \A i \in DOMAIN d : d[i] \in ToSet(d)
    BY DEF ToSet
  <2> QED BY <2>1, <2>2, <2>3, <2>4, <2>5, <2>6, <2>7 DEF TagsOnce
<1>21. Busy(r, p, d) = Busy(s, o, c)
  <2>1. {e.tag : e \in ToSet(d)} = {e.tag : e \in ToSet(c)} \cup {op.tag}
    BY <1>16, <1>18
  <2>2. {a.tag : a \in o} = {a.tag : a \in p} \cup {op.tag}
    OBVIOUS
  <2> QED BY <1>13, <2>1, <2>2 DEF Busy
<1>22. Asked(r, p, d, W)
  <2>1. r.files = s.files /\ r.fds = s.fds
    BY <1>13 DEF SameHandles
  <2>2. \A i \in DOMAIN r.sq : LET e == r.sq[i] v == W[e.tag] IN
          /\ e.off = v.off /\ e.len = v.len
          /\ v.handle \in Opened(r) /\ e.fd = r.files[v.handle] /\ r.fds[e.fd] = v.file
    BY <1>1, <1>13, <1>14, <2>1 DEF Asked
  <2>3. \A a \in p : LET v == W[a.tag] IN a.off = v.off /\ a.len = v.len /\ a.file = v.file
    BY <1>1 DEF Asked
  <2>4. \A i \in 1 .. m : Served(r, W[c[i].tag], c[i])
    <3>1. TAKE i \in 1 .. m
    <3>2. Served(s, W[c[i].tag], c[i])
      BY <1>1, <1>17 DEF Asked
    <3>3. c[i].tag # op.tag /\ c[i].tag \in DOMAIN s.buf
      BY <1>1, <1>17 DEF TagsOnce, Busy, Used, ToSet
    <3>4. r.buf[c[i].tag] = s.buf[c[i].tag]
      BY <1>10, <1>13, <3>3
    <3> QED BY <3>2, <3>4 DEF Served
  <2>5. Served(r, W[last.tag], last)
    BY <1>4, <1>6, <1>10, <1>13, <1>16 DEF Served
  <2>6. \A i \in DOMAIN d : Served(r, W[d[i].tag], d[i])
    <3>1. \A i \in 1 .. m + 1 : i \in 1 .. m \/ i = m + 1
      OBVIOUS
    <3> QED BY <1>18, <2>4, <2>5, <3>1
  <2>7. \A t \in Busy(s, o, c) : W[t].file \in File /\ W[t].off \in Nat /\ W[t].len \in Nat
    BY <1>1 DEF Asked
  <2> QED BY <1>21, <2>2, <2>3, <2>6, <2>7 DEF Asked
<1>23. r.pending = Len(r.sq) /\ r.inflight = Cardinality(p) + Len(d)
  BY <1>1, <1>13, <1>17, <1>18, <1>19
<1>24. Flow(r, p, d, W)
  BY <1>1, <1>14, <1>15, <1>18, <1>19, <1>20, <1>21, <1>22, <1>23 DEF Flow
<1> QED BY <1>3, <1>10, <1>11, <1>13, <1>14, <1>21, <1>24 DEF r, d, last

\* A completion is taken: its tag is free of reads.
LEMMA HeadOfCq ==
    ASSUME NEW s, NEW o, NEW c, NEW W, Flow(s, o, c, W), c # <<>>
    PROVE  LET r == [s EXCEPT !.inflight = @ - 1] d == Head(c) IN
           /\ Flow(r, o, Tail(c), W) /\ SameTables(s, r)
           /\ Busy(r, o, Tail(c)) = Busy(s, o, c) \ {d.tag}
           /\ d \in Completion /\ d.tag \in Busy(s, o, c) /\ Served(s, W[d.tag], d)
           /\ W[d.tag].file \in File /\ W[d.tag].off \in Nat /\ W[d.tag].len \in Nat
<1> DEFINE r == [s EXCEPT !.inflight = @ - 1]
           d == Head(c)
<1>1. /\ Sound(s) /\ o \in SUBSET Accept /\ IsFiniteSet(o) /\ c \in Seq(Completion)
      /\ TagsOnce(s, o, c)
      /\ s.pending = Len(s.sq) /\ s.inflight = Cardinality(o) + Len(c)
      /\ Busy(s, o, c) \subseteq Used(s)
      /\ Asked(s, o, c, W)
  BY DEF Flow
<1>2. s \in RingRecord /\ FreeOnce(s) /\ HandlesPaired(s)
  BY <1>1 DEF Sound
<1>3. PICK m \in Nat : m = Len(c) /\ DOMAIN c = 1 .. m /\ m > 0
  BY <1>1
<1>4. PICK t : t = Tail(c)
  OBVIOUS
<1>5. /\ t \in Seq(Completion) /\ Len(t) = m - 1 /\ DOMAIN t = 1 .. m - 1
      /\ \A i \in 1 .. m - 1 : t[i] = c[i + 1] /\ i + 1 \in 1 .. m
      /\ d = c[1] /\ 1 \in 1 .. m /\ d \in Completion
      /\ ToSet(c) = ToSet(t) \cup {d}
  BY <1>1, <1>3, <1>4, HeadTaken
<1>6. PICK inflight \in Int : inflight = s.inflight - 1
  BY <1>2, RingFields
<1>7. r = [s EXCEPT !.inflight = inflight]
  BY <1>6
<1> HIDE DEF r, d
<1>8. /\ r \in RingRecord /\ r.inflight = s.inflight - 1 /\ r.sq = s.sq /\ r.pending = s.pending
      /\ SameTables(s, r)
  BY <1>2, <1>6, <1>7 DEF RingRecord, SameTables, SameSlots, SameHandles
<1>9. Opened(r) = Opened(s) /\ Used(r) = Used(s) /\ r.buf = s.buf /\ r.files = s.files /\ r.fds = s.fds
  BY <1>8 DEF Opened, Used, SameTables, SameSlots, SameHandles
<1>10. Sound(r)
  <2>1. FreeOnce(r)
    BY <1>2, <1>8 DEF FreeOnce, SameTables, SameSlots
  <2>2. HandlesPaired(r)
    BY <1>2, <1>8, <1>9 DEF HandlesPaired, SameTables, SameHandles
  <2> QED BY <1>8, <2>1, <2>2 DEF Sound
<1>11. d.tag \in Busy(s, o, c) /\ Served(s, W[d.tag], d)
  BY <1>1, <1>3, <1>5 DEF Busy, Asked, ToSet
<1>12. \A i \in 1 .. m - 1 : /\ i + 1 \in DOMAIN c /\ t[i] = c[i + 1] /\ t[i].tag # d.tag
  <2>1. TAKE i \in 1 .. m - 1
  <2>2. i + 1 # 1 /\ i + 1 \in DOMAIN c /\ 1 \in DOMAIN c
    BY <1>3, <1>5
  <2> QED BY <1>1, <1>5, <2>2 DEF TagsOnce
<1>13. TagsOnce(r, o, t)
  <2>1. \A i, j \in DOMAIN t : t[i].tag = t[j].tag => i = j
    <3>1. TAKE i, j \in DOMAIN t
    <3>2. HAVE t[i].tag = t[j].tag
    <3>3. i + 1 = j + 1
      BY <1>1, <1>5, <1>12, <3>2 DEF TagsOnce
    <3> QED BY <1>5, <3>3
  <2> QED BY <1>1, <1>5, <1>8, <1>12, <2>1 DEF TagsOnce
<1>14. Busy(r, o, t) = Busy(s, o, c) \ {d.tag}
  <2>1. {e.tag : e \in ToSet(c)} = {e.tag : e \in ToSet(t)} \cup {d.tag}
    BY <1>5
  <2>2. /\ \A e \in ToSet(t) : e.tag # d.tag
        /\ \A e \in ToSet(s.sq) : e.tag # d.tag
        /\ \A a \in o : a.tag # d.tag
    BY <1>1, <1>3, <1>5, <1>12 DEF TagsOnce, ToSet
  <2> QED BY <1>8, <2>1, <2>2 DEF Busy
<1>15. Asked(r, o, t, W)
  <2>1. \A i \in DOMAIN r.sq : LET e == r.sq[i] v == W[e.tag] IN
          /\ e.off = v.off /\ e.len = v.len
          /\ v.handle \in Opened(r) /\ e.fd = r.files[v.handle] /\ r.fds[e.fd] = v.file
    BY <1>1, <1>8, <1>9 DEF Asked
  <2>2. \A a \in o : LET v == W[a.tag] IN a.off = v.off /\ a.len = v.len /\ a.file = v.file
    BY <1>1 DEF Asked
  <2>3. \A i \in DOMAIN t : Served(r, W[t[i].tag], t[i])
    <3>1. TAKE i \in DOMAIN t
    <3>2. i + 1 \in DOMAIN c /\ t[i] = c[i + 1]
      BY <1>5, <1>12
    <3>3. Served(s, W[t[i].tag], t[i])
      BY <1>1, <3>2 DEF Asked
    <3> QED BY <1>9, <3>3 DEF Served
  <2>4. \A u \in Busy(s, o, c) : W[u].file \in File /\ W[u].off \in Nat /\ W[u].len \in Nat
    BY <1>1 DEF Asked
  <2> QED BY <1>14, <2>1, <2>2, <2>3, <2>4 DEF Asked
<1>16. r.pending = Len(r.sq) /\ r.inflight = Cardinality(o) + Len(t)
  <2>1. Cardinality(o) \in Nat
    BY <1>1, FS_CardinalityType
  <2>2. s.pending = Len(s.sq) /\ s.inflight = Cardinality(o) + Len(c)
    BY <1>1
  <2>3. Len(t) = m - 1 /\ m = Len(c)
    BY <1>3, <1>5
  <2> QED BY <1>8, <2>1, <2>2, <2>3
<1>17. Flow(r, o, t, W)
  BY <1>1, <1>5, <1>9, <1>10, <1>13, <1>14, <1>15, <1>16 DEF Flow
<1>18. W[d.tag].file \in File /\ W[d.tag].off \in Nat /\ W[d.tag].len \in Nat
  BY <1>1, <1>11 DEF Asked
<1> QED BY <1>4, <1>5, <1>8, <1>11, <1>14, <1>17, <1>18 DEF r, d

\* next() returns a completion, having handed over what it could.
LEMMA CompletionTaken ==
    ASSUME NEW s, NEW o, NEW c, NEW W, Flow(s, o, c, W), c # <<>>, NEW k \in 0 .. s.pending
    PROVE  LET r == Taken(s, k) p == o \cup Accepted(s, k) d == Head(c) IN
           /\ Flow(r, p, Tail(c), W) /\ SameTables(s, r)
           /\ Busy(r, p, Tail(c)) = Busy(s, o, c) \ {d.tag}
           /\ d \in Completion /\ d.tag \in Busy(s, o, c) /\ Served(r, W[d.tag], d)
           /\ W[d.tag].file \in File /\ W[d.tag].off \in Nat /\ W[d.tag].len \in Nat
<1>1. PICK e : e = Entered(s, k)
  OBVIOUS
<1>2. PICK p : p = o \cup Accepted(s, k)
  OBVIOUS
<1>3. Flow(e, p, c, W) /\ SameTables(s, e) /\ Busy(e, p, c) = Busy(s, o, c)
  BY <1>1, <1>2, HandedOver
<1>4. PICK r : r = [e EXCEPT !.inflight = @ - 1]
  OBVIOUS
<1>5. /\ Flow(r, p, Tail(c), W) /\ SameTables(e, r)
      /\ Busy(r, p, Tail(c)) = Busy(e, p, c) \ {Head(c).tag}
      /\ Head(c) \in Completion /\ Head(c).tag \in Busy(e, p, c) /\ Served(e, W[Head(c).tag], Head(c))
      /\ W[Head(c).tag].file \in File /\ W[Head(c).tag].off \in Nat /\ W[Head(c).tag].len \in Nat
  BY <1>3, <1>4, HeadOfCq
<1>6. SameTables(s, r) /\ Served(r, W[Head(c).tag], Head(c))
  BY <1>3, <1>5 DEF SameTables, SameSlots, SameHandles, Served
<1>7. r = Taken(s, k)
  BY <1>1, <1>4 DEF Taken
<1> QED BY <1>2, <1>3, <1>5, <1>6, <1>7

\* The empty sequence is one of anything, and a function of nothing.
LEMMA NoElements ==
    /\ DOMAIN <<>> = {} /\ ToSet(<<>>) = {} /\ IsInjective(<<>>) /\ Len(<<>>) = 0
    /\ \A S : <<>> \in Seq(S)
    /\ \A f : f = [x \in DOMAIN f |-> f[x]] /\ DOMAIN f = {} => f = <<>>
BY DEF ToSet, IsInjective

\* The tags that the next reads get are nobody's, and no two are the same.
LEMMA FreshTags ==
    ASSUME NEW s, Sound(s)
    PROVE  /\ \A i \in Nat \ {0} : NextTag(s, i) \in Nat /\ NextTag(s, i) \notin Used(s)
           /\ \A i, j \in Nat \ {0} : NextTag(s, i) = NextTag(s, j) => i = j
<1>1. s \in RingRecord /\ FreeOnce(s)
  BY DEF Sound
<1>2. PICK n \in Nat : DOMAIN s.buf = 0 .. n - 1 /\ Cardinality(DOMAIN s.buf) = n
  BY <1>1, RingFields
<1>3. PICK free \in Seq(Nat) : free = s.free_slots
  BY <1>1, RingFields
<1>4. PICK l \in Nat : l = Len(free) /\ DOMAIN free = 1 .. l
  BY <1>3
<1>5. /\ \A j \in 1 .. l : free[j] \in 0 .. n - 1
      /\ \A j, k \in 1 .. l : free[j] = free[k] => j = k
      /\ \A t \in Used(s) : t \in 0 .. n - 1 /\ \A j \in 1 .. l : free[j] # t
  BY <1>1, <1>2, <1>3, <1>4 DEF FreeOnce, IsInjective, ToSet, Used
<1>6. \A i \in Nat \ {0} : NextTag(s, i) = IF i <= l THEN free[l - i + 1] ELSE n + (i - l) - 1
  BY <1>2, <1>3, <1>4 DEF NextTag
<1>7. \A i \in Nat \ {0} : i <= l => l - i + 1 \in 1 .. l
  BY <1>4
<1>8. \A i \in Nat \ {0} : ~(i <= l) => n + (i - l) - 1 \in Nat /\ n + (i - l) - 1 >= n
  BY <1>4
<1>9. \A i \in Nat \ {0} : NextTag(s, i) \in Nat /\ NextTag(s, i) \notin Used(s)
  <2>1. TAKE i \in Nat \ {0}
  <2>2. CASE i <= l
    <3>1. PICK j \in 1 .. l : j = l - i + 1
      BY <1>7, <2>2
    <3>2. NextTag(s, i) = free[j]
      BY <1>6, <2>2, <3>1
    <3>3. free[j] \in 0 .. n - 1 /\ free[j] \notin Used(s)
      BY <1>5
    <3> QED BY <1>2, <3>2, <3>3
  <2>3. CASE ~(i <= l)
    <3>1. PICK t \in Nat : t = n + (i - l) - 1 /\ t >= n
      BY <1>8, <2>3
    <3>2. NextTag(s, i) = t
      BY <1>6, <2>3, <3>1
    <3>3. t \notin 0 .. n - 1
      BY <3>1
    <3> QED BY <1>5, <3>2, <3>3
  <2> QED BY <2>2, <2>3
<1>10. ASSUME NEW i \in Nat \ {0}, NEW j \in Nat \ {0}, i <= l, ~(j <= l)
       PROVE  NextTag(s, i) # NextTag(s, j)
  <2>1. NextTag(s, i) = free[l - i + 1] /\ l - i + 1 \in 1 .. l
    BY <1>6, <1>7, <1>10
  <2>2. NextTag(s, i) \in 0 .. n - 1
    BY <1>5, <2>1
  <2>3. NextTag(s, j) >= n /\ NextTag(s, j) \in Nat
    BY <1>6, <1>8, <1>10
  <2> QED BY <2>2, <2>3
<1>11. ASSUME NEW i \in Nat \ {0}, NEW j \in Nat \ {0}, NextTag(s, i) = NextTag(s, j)
       PROVE  i = j
  <2>1. CASE i <= l /\ j <= l
    <3>1. l - i + 1 = l - j + 1
      BY <1>5, <1>6, <1>7, <1>11, <2>1
    <3> QED BY <3>1
  <2>2. CASE ~(i <= l) /\ ~(j <= l)
    BY <1>6, <1>11, <2>2
  <2> QED BY <1>10, <1>11, <2>1, <2>2
<1> QED BY <1>9, <1>11

\* What m calls of alloc_slot do to the slots.
LEMMA SlotsTaken ==
    ASSUME NEW s, Sound(s), NEW m \in Nat
    PROVE  \E T, buf, free :
              /\ T = {NextTag(s, i) : i \in 1 .. m}
              /\ buf = [t \in DOMAIN s.buf \cup T |-> IF t \in DOMAIN s.buf THEN s.buf[t] ELSE <<>>]
              /\ free = SubSeq(s.free_slots, 1, Len(s.free_slots) - m)
              /\ buf \in Buffers /\ free \in Seq(Nat) /\ IsInjective(free)
              /\ ToSet(free) \subseteq DOMAIN buf
              /\ DOMAIN buf \ ToSet(free) = Used(s) \cup T
<1>1. PICK T : T = {NextTag(s, i) : i \in 1 .. m}
  OBVIOUS
<1>2. PICK buf : buf = [t \in DOMAIN s.buf \cup T |-> IF t \in DOMAIN s.buf THEN s.buf[t] ELSE <<>>]
  OBVIOUS
<1>3. PICK free : free = SubSeq(s.free_slots, 1, Len(s.free_slots) - m)
  OBVIOUS
<1>4. SUFFICES /\ buf \in Buffers /\ free \in Seq(Nat) /\ IsInjective(free)
               /\ ToSet(free) \subseteq DOMAIN buf
               /\ DOMAIN buf \ ToSet(free) = Used(s) \cup T
  BY <1>1, <1>2, <1>3
<1>5. s \in RingRecord /\ FreeOnce(s)
  BY DEF Sound
<1>6. PICK n \in Nat : /\ DOMAIN s.buf = 0 .. n - 1 /\ Cardinality(DOMAIN s.buf) = n
                       /\ s.buf \in [0 .. n - 1 -> Seq(Byte)]
  BY <1>5, RingFields
<1>7. PICK q \in Seq(Nat) : q = s.free_slots
  BY <1>5, RingFields
<1>8. PICK l \in Nat : l = Len(q) /\ DOMAIN q = 1 .. l
  BY <1>7
<1>9. /\ \A j \in 1 .. l : q[j] \in 0 .. n - 1
      /\ \A j, k \in 1 .. l : q[j] = q[k] => j = k
      /\ Used(s) = (0 .. n - 1) \ {q[j] : j \in 1 .. l}
  BY <1>5, <1>6, <1>7, <1>8 DEF FreeOnce, IsInjective, ToSet, Used
<1>10. \A i \in 1 .. m : NextTag(s, i) = IF i <= l THEN q[l - i + 1] ELSE n + (i - l) - 1
  BY <1>6, <1>7, <1>8 DEF NextTag
<1>11. CASE m <= l
  <2>1. /\ free \in Seq(Nat) /\ Len(free) = l - m /\ DOMAIN free = 1 .. l - m
        /\ \A j \in 1 .. l - m : free[j] = q[j] /\ j \in 1 .. l
    BY <1>3, <1>7, <1>8, <1>11
  <2>2. \A i \in 1 .. m : i <= l /\ l - i + 1 \in 1 .. l /\ l - i + 1 \notin 1 .. l - m
    BY <1>8, <1>11
  <2>3. \A j \in 1 .. l : j \in 1 .. l - m \/ (l - j + 1 \in 1 .. m /\ l - (l - j + 1) + 1 = j)
    BY <1>8, <1>11
  <2>4. T = {q[l - i + 1] : i \in 1 .. m}
    BY <1>1, <1>10, <2>2
  <2>5. T \subseteq 0 .. n - 1
    BY <1>9, <2>2, <2>4
  <2>6. {q[j] : j \in 1 .. l} = {free[j] : j \in 1 .. l - m} \cup T
    <3>1. {q[j] : j \in 1 .. l} \subseteq {free[j] : j \in 1 .. l - m} \cup T
      <4>1. SUFFICES ASSUME NEW j \in 1 .. l PROVE q[j] \in {free[i] : i \in 1 .. l - m} \cup T
        OBVIOUS
      <4>2. CASE j \in 1 .. l - m
        BY <2>1, <4>2
      <4>3. CASE l - j + 1 \in 1 .. m /\ l - (l - j + 1) + 1 = j
        BY <2>4, <4>3
      <4> QED BY <2>3, <4>2, <4>3
    <3>2. {free[j] : j \in 1 .. l - m} \cup T \subseteq {q[j] : j \in 1 .. l}
      BY <2>1, <2>2, <2>4
    <3> QED BY <3>1, <3>2
  <2>7. {free[j] : j \in 1 .. l - m} \cap T = {}
    <3>1. \A j \in 1 .. l - m, i \in 1 .. m : free[j] # q[l - i + 1]
      <4>1. TAKE j \in 1 .. l - m, i \in 1 .. m
      <4>2. PICK k \in 1 .. l : k = l - i + 1 /\ k # j
        BY <2>2
      <4>3. free[j] = q[j] /\ j \in 1 .. l
        BY <2>1
      <4> QED BY <1>9, <4>2, <4>3
    <3> QED BY <2>4, <3>1
  <2>8. buf = s.buf
    BY <1>2, <1>6, <2>5
  <2>9. IsInjective(free) /\ ToSet(free) = {free[j] : j \in 1 .. l - m}
    <3>1. \A j, k \in 1 .. l - m : free[j] = free[k] => j = k
      BY <1>9, <2>1
    <3>2. DOMAIN free = 1 .. l - m
      BY <2>1
    <3> QED BY <3>1, <3>2 DEF IsInjective, ToSet
  <2>10. buf \in Buffers
    BY <1>5, <2>8, RingFields
  <2>11. {free[j] : j \in 1 .. l - m} \subseteq 0 .. n - 1
    BY <1>9, <2>1
  <2> QED BY <1>6, <1>9, <2>1, <2>5, <2>6, <2>7, <2>8, <2>9, <2>10, <2>11
<1>12. CASE m > l
  <2>1. free = <<>>
    BY <1>3, <1>7, <1>8, <1>12
  <2>2. \A i \in 1 .. l : i \in 1 .. m /\ i <= l /\ l - i + 1 \in 1 .. l /\ l - (l - i + 1) + 1 = i
    BY <1>8, <1>12
  <2>3. \A i \in 1 .. m : i <= l \/ (n + (i - l) - 1 \in n .. n + (m - l) - 1)
    BY <1>8, <1>12
  <2>4. \A t \in n .. n + (m - l) - 1 : /\ t - n + l + 1 \in 1 .. m /\ ~(t - n + l + 1 <= l)
                                        /\ n + ((t - n + l + 1) - l) - 1 = t
    BY <1>8, <1>12
  <2>5. T = {q[j] : j \in 1 .. l} \cup n .. n + (m - l) - 1
    <3>1. ASSUME NEW i \in 1 .. m PROVE NextTag(s, i) \in {q[j] : j \in 1 .. l} \cup n .. n + (m - l) - 1
      <4>1. CASE i <= l
        <5>1. i \in 1 .. l
          BY <1>8, <4>1
        <5> QED BY <1>10, <2>2, <4>1, <5>1
      <4>2. CASE ~(i <= l)
        BY <1>10, <2>3, <4>2
      <4> QED BY <4>1, <4>2
    <3>2. ASSUME NEW j \in 1 .. l PROVE q[j] \in T
      <4>1. l - j + 1 \in 1 .. l /\ l - (l - j + 1) + 1 = j /\ l - j + 1 \in 1 .. m /\ l - j + 1 <= l
        BY <2>2
      <4> QED BY <1>1, <1>10, <4>1
    <3>3. ASSUME NEW t \in n .. n + (m - l) - 1 PROVE t \in T
      <4>1. PICK i \in 1 .. m : ~(i <= l) /\ n + (i - l) - 1 = t
        BY <2>4
      <4>2. NextTag(s, i) = t
        BY <1>10, <4>1
      <4> QED BY <1>1, <4>2
    <3> QED BY <1>1, <3>1, <3>2, <3>3
  <2>6. (0 .. n - 1) \cup (n .. n + (m - l) - 1) = 0 .. n + (m - l) - 1
    BY <1>8, <1>12
  <2>7. DOMAIN buf = 0 .. n + (m - l) - 1
    <3>1. {q[j] : j \in 1 .. l} \subseteq 0 .. n - 1
      BY <1>9
    <3> QED BY <1>2, <1>6, <2>5, <2>6, <3>1
  <2>8. buf \in [0 .. n + (m - l) - 1 -> Seq(Byte)]
    <3>1. <<>> \in Seq(Byte)
      OBVIOUS
    <3> QED BY <1>2, <1>6, <2>7, <3>1
  <2>9. n + (m - l) \in Nat
    BY <1>8, <1>12
  <2>10. buf \in Buffers
    <3>1. PICK k \in Nat : k = n + (m - l)
      BY <2>9
    <3>2. buf \in [0 .. k - 1 -> Seq(Byte)]
      BY <2>8, <3>1
    <3> QED BY <3>2 DEF Buffers
  <2>11. IsInjective(free) /\ ToSet(free) = {} /\ free \in Seq(Nat)
    BY <2>1, NoElements
  <2>12. DOMAIN buf = Used(s) \cup T
    BY <1>9, <2>5, <2>6, <2>7
  <2> QED BY <2>10, <2>11, <2>12
<1> QED BY <1>8, <1>11, <1>12

\* Where a read may go.
Span == [off : Nat, len : Nat]

\* submit() queues each read under a tag of its own.
LEMMA ReadsQueued ==
    ASSUME NEW s, NEW o, NEW c, NEW W, Flow(s, o, c, W), NEW fh \in Opened(s),
           NEW reads \in Seq(Span), NEW V,
           \A t \in Busy(s, o, c) : V[t] = W[t],
           \A i \in DOMAIN reads : LET w == V[NextTag(s, i)] IN
               /\ w.off = reads[i].off /\ w.len = reads[i].len
               /\ w.handle = fh /\ w.file = s.fds[s.files[fh]]
    PROVE  LET r == Submit(s, fh, reads) T == {NextTag(s, i) : i \in DOMAIN reads} IN
           /\ Flow(r, o, c, V) /\ SameHandles(s, r)
           /\ r.io = s.io /\ r.held = s.held /\ r.event = s.event /\ r.waiting = s.waiting
           /\ Used(r) = Used(s) \cup T /\ Busy(r, o, c) = Busy(s, o, c) \cup T
           /\ \A t \in DOMAIN s.buf : r.buf[t] = s.buf[t]
           /\ Used(s) \cap T = {} /\ T \subseteq Nat
<1> DEFINE r == Submit(s, fh, reads)
           T == {NextTag(s, i) : i \in DOMAIN reads}
<1>1. /\ Sound(s) /\ o \in SUBSET Accept /\ IsFiniteSet(o) /\ c \in Seq(Completion)
      /\ TagsOnce(s, o, c)
      /\ s.pending = Len(s.sq) /\ s.inflight = Cardinality(o) + Len(c)
      /\ Busy(s, o, c) \subseteq Used(s)
      /\ Asked(s, o, c, W)
  BY DEF Flow
<1>2. s \in RingRecord /\ FreeOnce(s) /\ HandlesPaired(s)
  BY <1>1 DEF Sound
<1>3. PICK m \in Nat : m = Len(reads) /\ DOMAIN reads = 1 .. m
  OBVIOUS
<1>4. PICK q \in Seq(Read) : q = s.sq
  BY <1>2, RingFields
<1>5. PICK n \in Nat : n = Len(q) /\ DOMAIN q = 1 .. n
  BY <1>4
<1>6. /\ \A i \in 1 .. m : NextTag(s, i) \in Nat /\ NextTag(s, i) \notin Used(s)
      /\ \A i, j \in 1 .. m : NextTag(s, i) = NextTag(s, j) => i = j
  <2>1. \A i \in 1 .. m : i \in Nat \ {0}
    OBVIOUS
  <2> QED BY <1>1, <2>1, FreshTags
<1>7. PICK fd \in Nat : fd = s.files[fh] /\ fd \in DOMAIN s.fds
  <2>1. s.files[fh] \in DOMAIN s.fds
    BY <1>2 DEF HandlesPaired
  <2>2. DOMAIN s.fds \subseteq Nat
    BY <1>2, RingFields
  <2> QED BY <2>1, <2>2
<1>8. s.fds[fd] \in File
  BY <1>2, <1>7, RingFields
<1>9. PICK new : new = [i \in 1 .. m |-> [tag |-> NextTag(s, i), fd |-> fd,
                                         off |-> reads[i].off, len |-> reads[i].len]]
  OBVIOUS
<1>10. /\ new \in Seq(Read) /\ Len(new) = m /\ DOMAIN new = 1 .. m
       /\ \A i \in 1 .. m : /\ new[i].tag = NextTag(s, i) /\ new[i].fd = fd
                            /\ new[i].off = reads[i].off /\ new[i].len = reads[i].len
  <2>1. \A i \in 1 .. m : [tag |-> NextTag(s, i), fd |-> fd, off |-> reads[i].off, len |-> reads[i].len] \in Read
    <3>1. TAKE i \in 1 .. m
    <3>2. reads[i] \in Span
      BY <1>3
    <3> QED BY <1>6, <3>2 DEF Span, Read
  <2>2. new \in [1 .. m -> Read]
    BY <1>9, <2>1
  <2> QED BY <1>9, <2>2
<1>11. PICK X, buf, free :
              /\ X = {NextTag(s, i) : i \in 1 .. m}
              /\ buf = [t \in DOMAIN s.buf \cup X |-> IF t \in DOMAIN s.buf THEN s.buf[t] ELSE <<>>]
              /\ free = SubSeq(s.free_slots, 1, Len(s.free_slots) - m)
              /\ buf \in Buffers /\ free \in Seq(Nat) /\ IsInjective(free)
              /\ ToSet(free) \subseteq DOMAIN buf
              /\ DOMAIN buf \ ToSet(free) = Used(s) \cup X
  <2>1. Sound(s)
    BY <1>1
  <2> QED BY <2>1, SlotsTaken
<1>12. X = T
  BY <1>3, <1>11
<1>13. /\ buf \in Buffers /\ free \in Seq(Nat) /\ IsInjective(free)
       /\ ToSet(free) \subseteq DOMAIN buf
       /\ DOMAIN buf \ ToSet(free) = Used(s) \cup T
  BY <1>11, <1>12
<1>14. PICK pending \in Int : pending = s.pending + m
  BY <1>2, RingFields
<1>15. r = [s EXCEPT !.buf = buf, !.free_slots = free, !.sq = q \o new, !.pending = pending]
  <2>1. ToSet([i \in DOMAIN reads |-> NextTag(s, i)]) = T
    BY DEF ToSet
  <2>2. [i \in DOMAIN reads |-> [tag |-> [j \in DOMAIN reads |-> NextTag(s, j)][i], fd |-> s.files[fh],
                                 off |-> reads[i].off, len |-> reads[i].len]] = new
    BY <1>3, <1>7, <1>9
  <2> HIDE DEF T
  <2> QED BY <1>3, <1>4, <1>11, <1>12, <1>14, <2>1, <2>2 DEF Submit
<1> HIDE DEF r
<1>16. PICK q2 : q2 = q \o new
  OBVIOUS
<1>17. /\ q2 \in Seq(Read) /\ Len(q2) = n + m /\ DOMAIN q2 = 1 .. n + m
       /\ \A i \in 1 .. n : q2[i] = q[i]
       /\ \A i \in 1 .. m : q2[n + i] = new[i] /\ n + i \in 1 .. n + m
       /\ \A i \in 1 .. n + m : i \in 1 .. n \/ (i - n \in 1 .. m /\ q2[i] = new[i - n])
  <2>1. q2 \in Seq(Read) /\ DOMAIN q2 = 1 .. Len(q) + Len(new)
    <3>1. PICK p \in Seq(Read) : p = new
      BY <1>10
    <3>2. q \o p \in Seq(Read) /\ DOMAIN (q \o p) = 1 .. Len(q) + Len(p)
      BY Joined
    <3> QED BY <1>16, <3>1, <3>2
  <2>2. \A i \in 1 .. n + m : q2[i] = IF i <= n THEN q[i] ELSE new[i - n]
    BY <1>4, <1>5, <1>10, <1>16
  <2>3. Len(q2) = n + m /\ DOMAIN q2 = 1 .. n + m
    BY <1>4, <1>5, <1>10, <1>16, <2>1
  <2>4. /\ \A i \in 1 .. n : i \in 1 .. n + m /\ i <= n
        /\ \A i \in 1 .. m : n + i \in 1 .. n + m /\ ~(n + i <= n) /\ (n + i) - n = i
        /\ \A i \in 1 .. n + m : i \in 1 .. n \/ (~(i <= n) /\ i - n \in 1 .. m)
    OBVIOUS
  <2> QED BY <2>1, <2>2, <2>3, <2>4, ZenonT(60)
<1>18. /\ r \in RingRecord /\ r.buf = buf /\ r.free_slots = free /\ r.sq = q2 /\ r.pending = s.pending + m
       /\ r.inflight = s.inflight /\ SameHandles(s, r)
       /\ r.io = s.io /\ r.held = s.held /\ r.event = s.event /\ r.waiting = s.waiting
  BY <1>2, <1>13, <1>14, <1>15, <1>16, <1>17 DEF RingRecord, SameHandles
<1>19. Used(r) = Used(s) \cup T /\ Opened(r) = Opened(s) /\ r.files = s.files /\ r.fds = s.fds
  BY <1>13, <1>18 DEF Used, Opened, SameHandles
<1>20. Sound(r)
  <2>1. FreeOnce(r)
    BY <1>13, <1>18 DEF FreeOnce
  <2>2. HandlesPaired(r)
    BY <1>2, <1>18, <1>19 DEF HandlesPaired, SameHandles
  <2> QED BY <1>18, <2>1, <2>2 DEF Sound
<1>21. \A t \in DOMAIN s.buf : r.buf[t] = s.buf[t]
  BY <1>11, <1>18
<1>22. /\ \A i \in 1 .. n : q[i].tag \in Busy(s, o, c) /\ q[i].tag \in Used(s)
       /\ \A a \in o : a.tag \in Busy(s, o, c) /\ a.tag \in Used(s)
       /\ \A i \in DOMAIN c : c[i].tag \in Busy(s, o, c) /\ c[i].tag \in Used(s)
  BY <1>1, <1>4, <1>5, SMTT(30) DEF Busy, ToSet
<1>23. TagsOnce(r, o, c)
  <2>1. \A i \in 1 .. m : new[i].tag \notin Used(s)
    BY <1>6, <1>10
  <2>2. \A i, j \in 1 .. n : q[i].tag = q[j].tag => i = j
    BY <1>1, <1>4, <1>5 DEF TagsOnce
  <2>3. \A i, j \in 1 .. m : new[i].tag = new[j].tag => i = j
    BY <1>6, <1>10
  <2>8. \A i \in 1 .. n : q2[i].tag = q[i].tag /\ q2[i].tag \in Used(s)
    BY <1>17, <1>22
  <2>9. \A i \in 1 .. n + m : i \in 1 .. n \/ (/\ i - n \in 1 .. m /\ q2[i].tag = new[i - n].tag
                                              /\ q2[i].tag \notin Used(s))
    BY <1>17, <2>1
  <2>4. \A i, j \in 1 .. n + m : q2[i].tag = q2[j].tag => i = j
    <3>1. TAKE i, j \in 1 .. n + m
    <3>2. HAVE q2[i].tag = q2[j].tag
    <3>3. CASE i \in 1 .. n /\ j \in 1 .. n
      BY <2>2, <2>8, <3>2, <3>3
    <3>4. CASE i \notin 1 .. n /\ j \notin 1 .. n
      <4>1. i - n = j - n
        BY <2>3, <2>9, <3>2, <3>4
      <4> QED BY <4>1
    <3> QED BY <2>8, <2>9, <3>2, <3>3, <3>4
  <2>5. \A i \in 1 .. n + m, a \in o : q2[i].tag # a.tag
    <3>1. \A i \in 1 .. n, a \in o : q[i].tag # a.tag
      BY <1>1, <1>4, <1>5 DEF TagsOnce
    <3> QED BY <1>22, <2>8, <2>9, <3>1
  <2>6. \A i \in 1 .. n + m, j \in DOMAIN c : q2[i].tag # c[j].tag
    <3>1. \A i \in DOMAIN s.sq, j \in DOMAIN c : s.sq[i].tag # c[j].tag
      BY <1>1 DEF TagsOnce
    <3>2. \A i \in 1 .. n, j \in DOMAIN c : q[i].tag # c[j].tag
      BY <1>4, <1>5, <3>1
    <3> QED BY <1>22, <2>8, <2>9, <3>2
  <2>7. /\ \A a, b \in o : a.tag = b.tag => a = b
        /\ \A i, j \in DOMAIN c : c[i].tag = c[j].tag => i = j
        /\ \A a \in o, j \in DOMAIN c : a.tag # c[j].tag
    BY <1>1 DEF TagsOnce
  <2> QED BY <1>17, <1>18, <2>4, <2>5, <2>6, <2>7, SMTT(30) DEF TagsOnce
<1>24. Busy(r, o, c) = Busy(s, o, c) \cup T
  <2>1. ToSet(q2) = ToSet(q) \cup ToSet(new)
    BY <1>4, <1>10, <1>16, Joined
  <2>2. {e.tag : e \in ToSet(new)} = T
    <3>1. ToSet(new) = {new[i] : i \in 1 .. m}
      BY <1>10 DEF ToSet
    <3> QED BY <1>3, <1>10, <3>1
  <2>3. {e.tag : e \in ToSet(q2)} = {e.tag : e \in ToSet(q)} \cup T
    BY <2>1, <2>2
  <2> QED BY <1>4, <1>18, <2>3 DEF Busy
<1>25. Asked(r, o, c, V)
  <2>1. ASSUME NEW i \in 1 .. n + m
        PROVE  LET e == q2[i] v == V[e.tag] IN
               /\ e.off = v.off /\ e.len = v.len
               /\ v.handle \in Opened(s) /\ e.fd = s.files[v.handle] /\ s.fds[e.fd] = v.file
    <3>1. CASE i \in 1 .. n
      <4>1. q2[i] = s.sq[i] /\ i \in DOMAIN s.sq /\ V[q2[i].tag] = W[q2[i].tag]
        BY <1>4, <1>5, <1>17, <1>22, <3>1
      <4> QED BY <1>1, <4>1 DEF Asked
    <3>2. CASE i - n \in 1 .. m /\ q2[i] = new[i - n]
      <4>1. PICK j \in 1 .. m : q2[i] = new[j]
        BY <3>2
      <4>2. LET v == V[NextTag(s, j)] IN /\ v.off = reads[j].off /\ v.len = reads[j].len
                                         /\ v.handle = fh /\ v.file = s.fds[s.files[fh]]
        BY <1>3
      <4>3. new[j].tag = NextTag(s, j) /\ new[j].fd = fd /\ new[j].off = reads[j].off /\ new[j].len = reads[j].len
        BY <1>10
      <4> QED BY <1>7, <4>1, <4>2, <4>3
    <3> QED BY <1>17, <3>1, <3>2
  <2>2. \A a \in o : LET v == V[a.tag] IN a.off = v.off /\ a.len = v.len /\ a.file = v.file
    BY <1>1, <1>22 DEF Asked
  <2>3. \A i \in DOMAIN c : Served(r, V[c[i].tag], c[i])
    <3>1. TAKE i \in DOMAIN c
    <3>2. Served(s, V[c[i].tag], c[i])
      BY <1>1, <1>22 DEF Asked
    <3>3. r.buf[c[i].tag] = s.buf[c[i].tag]
      BY <1>21, <1>22 DEF Used
    <3> QED BY <3>2, <3>3 DEF Served
  <2>4. \A t \in Busy(s, o, c) : V[t].file \in File /\ V[t].off \in Nat /\ V[t].len \in Nat
    BY <1>1 DEF Asked
  <2>5. \A i \in 1 .. m : LET v == V[NextTag(s, i)] IN v.file \in File /\ v.off \in Nat /\ v.len \in Nat
    <3>1. TAKE i \in 1 .. m
    <3>2. reads[i] \in Span
      BY <1>3
    <3> QED BY <1>3, <1>7, <1>8, <3>2 DEF Span
  <2>6. \A t \in T : V[t].file \in File /\ V[t].off \in Nat /\ V[t].len \in Nat
    BY <1>3, <2>5
  <2> QED BY <1>17, <1>18, <1>19, <1>24, <2>1, <2>2, <2>3, <2>4, <2>6 DEF Asked
<1>26. r.pending = Len(r.sq)
  BY <1>1, <1>4, <1>5, <1>17, <1>18
<1>27. Flow(r, o, c, V)
  BY <1>1, <1>18, <1>19, <1>20, <1>23, <1>24, <1>25, <1>26 DEF Flow
<1>28. Used(s) \cap T = {} /\ T \subseteq Nat
  BY <1>3, <1>6
<1> QED BY <1>18, <1>19, <1>21, <1>24, <1>27, <1>28 DEF r

\* release() of tags that nobody reads into any more.
LEMMA TagsReleased ==
    ASSUME NEW s, NEW o, NEW c, NEW W, Flow(s, o, c, W), NEW tags \in Seq(Nat), IsInjective(tags),
           ToSet(tags) \subseteq Used(s), ToSet(tags) \cap Busy(s, o, c) = {}
    PROVE  LET r == Release(s, tags) IN
           /\ Flow(r, o, c, W) /\ SameHandles(s, r) /\ r.buf = s.buf /\ SameQueues(s, r)
           /\ Used(r) = Used(s) \ ToSet(tags) /\ Busy(r, o, c) = Busy(s, o, c)
<1> DEFINE r == Release(s, tags)
<1>1. /\ Sound(s) /\ o \in SUBSET Accept /\ IsFiniteSet(o) /\ c \in Seq(Completion)
      /\ TagsOnce(s, o, c)
      /\ s.pending = Len(s.sq) /\ s.inflight = Cardinality(o) + Len(c)
      /\ Busy(s, o, c) \subseteq Used(s)
      /\ Asked(s, o, c, W)
  BY DEF Flow
<1>2. s \in RingRecord /\ FreeOnce(s) /\ HandlesPaired(s)
  BY <1>1 DEF Sound
<1>3. PICK q \in Seq(Nat) : q = s.free_slots
  BY <1>2, RingFields
<1>4. PICK free : free = q \o tags
  OBVIOUS
<1>5. IsInjective(q) /\ ToSet(q) \cap ToSet(tags) = {}
  BY <1>2, <1>3 DEF FreeOnce, Used
<1>6. free \in Seq(Nat) /\ ToSet(free) = ToSet(q) \cup ToSet(tags) /\ IsInjective(free)
  BY <1>4, <1>5, Joined
<1>7. r = [s EXCEPT !.free_slots = free]
  BY <1>3, <1>4 DEF Release
<1> HIDE DEF r
<1>8. /\ r \in RingRecord /\ r.free_slots = free /\ r.buf = s.buf /\ SameHandles(s, r)
      /\ SameQueues(s, r)
  BY <1>2, <1>6, <1>7 DEF RingRecord, SameHandles, SameQueues
<1>9. /\ Opened(r) = Opened(s) /\ Used(r) = Used(s) \ ToSet(tags) /\ r.files = s.files /\ r.fds = s.fds
      /\ r.sq = s.sq
  BY <1>3, <1>6, <1>8 DEF Opened, Used, SameHandles, SameQueues
<1>10. Sound(r)
  <2>1. FreeOnce(r)
    BY <1>2, <1>3, <1>6, <1>8 DEF FreeOnce, Used
  <2>2. HandlesPaired(r)
    BY <1>2, <1>8, <1>9 DEF HandlesPaired, SameHandles
  <2> QED BY <1>8, <2>1, <2>2 DEF Sound
<1>11. TagsOnce(r, o, c)
  BY <1>1, <1>9 DEF TagsOnce
<1>12. Busy(r, o, c) = Busy(s, o, c)
  BY <1>9 DEF Busy
<1>13. Asked(r, o, c, W)
  BY <1>1, <1>8, <1>9, <1>12 DEF Asked, Served
<1>14. r.pending = Len(r.sq) /\ r.inflight = Cardinality(o) + Len(c)
  BY <1>1, <1>8 DEF SameQueues
<1>15. Busy(r, o, c) \subseteq Used(r)
  BY <1>1, <1>9, <1>12
<1>16. Flow(r, o, c, W)
  BY <1>1, <1>10, <1>11, <1>13, <1>14, <1>15 DEF Flow
<1> QED BY <1>8, <1>9, <1>12, <1>16 DEF r

\* open() disturbs no read.
LEMMA OpenedFlow ==
    ASSUME NEW s, NEW o, NEW c, NEW W, Flow(s, o, c, W), NEW f \in File
    PROVE  LET r == OpenFile(s, f) IN
           /\ Flow(r, o, c, W) /\ SameQueues(s, r) /\ SameSlots(s, r)
           /\ Opened(r) = Opened(s) \cup {NewHandle(s)} /\ NewHandle(s) \notin Opened(s)
           /\ NewHandle(s) \in Nat
           /\ r.fds[r.files[NewHandle(s)]] = f
           /\ \A h \in Opened(s) : r.fds[r.files[h]] = s.fds[s.files[h]]
           /\ Used(r) = Used(s) /\ Busy(r, o, c) = Busy(s, o, c)
<1> DEFINE r == OpenFile(s, f)
<1>1. /\ Sound(s) /\ o \in SUBSET Accept /\ IsFiniteSet(o) /\ c \in Seq(Completion)
      /\ TagsOnce(s, o, c)
      /\ s.pending = Len(s.sq) /\ s.inflight = Cardinality(o) + Len(c)
      /\ Busy(s, o, c) \subseteq Used(s)
      /\ Asked(s, o, c, W)
  BY DEF Flow
<1>2. /\ Sound(r) /\ SameQueues(s, r) /\ SameSlots(s, r)
      /\ Opened(r) = Opened(s) \cup {NewHandle(s)}
      /\ r.files[NewHandle(s)] \in DOMAIN r.fds /\ r.fds[r.files[NewHandle(s)]] = f
      /\ \A h \in Opened(s) : r.files[h] = s.files[h] /\ r.fds[r.files[h]] = s.fds[s.files[h]]
  BY <1>1, FileOpened
<1>3. NewHandle(s) \notin Opened(s) /\ NewHandle(s) \in Nat
  BY <1>1, NewNames
<1> HIDE DEF r
<1>4. Used(r) = Used(s) /\ Busy(r, o, c) = Busy(s, o, c)
  BY <1>2 DEF SameQueues, SameSlots, Used, Busy
<1>5. TagsOnce(r, o, c)
  BY <1>1, <1>2 DEF TagsOnce, SameQueues
<1>6. Asked(r, o, c, W)
  <2>1. \A i \in DOMAIN r.sq : LET e == r.sq[i] v == W[e.tag] IN
          /\ e.off = v.off /\ e.len = v.len
          /\ v.handle \in Opened(r) /\ e.fd = r.files[v.handle] /\ r.fds[e.fd] = v.file
    BY <1>1, <1>2 DEF Asked, SameQueues
  <2>2. \A i \in DOMAIN c : Served(r, W[c[i].tag], c[i])
    BY <1>1, <1>2 DEF Asked, Served, SameSlots
  <2> QED BY <1>1, <1>4, <2>1, <2>2 DEF Asked
<1>7. Flow(r, o, c, W)
  BY <1>1, <1>2, <1>4, <1>5, <1>6 DEF Flow, SameQueues
<1> QED BY <1>2, <1>3, <1>4, <1>7 DEF r

\* close_file() disturbs no read, if no read that is queued goes to the file.
LEMMA ClosedFlow ==
    ASSUME NEW s, NEW o, NEW c, NEW W, Flow(s, o, c, W), NEW h0 \in Opened(s),
           \A t \in Busy(s, o, c) : W[t].handle # h0
    PROVE  LET r == CloseFile(s, h0) IN
           /\ Flow(r, o, c, W) /\ SameQueues(s, r) /\ SameSlots(s, r)
           /\ Opened(r) = Opened(s) \ {h0}
           /\ \A h \in Opened(r) : r.fds[r.files[h]] = s.fds[s.files[h]]
           /\ Used(r) = Used(s) /\ Busy(r, o, c) = Busy(s, o, c)
<1> DEFINE r == CloseFile(s, h0)
<1>1. /\ Sound(s) /\ o \in SUBSET Accept /\ IsFiniteSet(o) /\ c \in Seq(Completion)
      /\ TagsOnce(s, o, c)
      /\ s.pending = Len(s.sq) /\ s.inflight = Cardinality(o) + Len(c)
      /\ Busy(s, o, c) \subseteq Used(s)
      /\ Asked(s, o, c, W)
  BY DEF Flow
<1>2. /\ Sound(r) /\ SameQueues(s, r) /\ SameSlots(s, r)
      /\ Opened(r) = Opened(s) \ {h0}
      /\ \A h \in Opened(r) : r.files[h] = s.files[h] /\ r.fds[r.files[h]] = s.fds[s.files[h]]
  BY <1>1, FileClosed
<1> HIDE DEF r
<1>3. Used(r) = Used(s) /\ Busy(r, o, c) = Busy(s, o, c)
  BY <1>2 DEF SameQueues, SameSlots, Used, Busy
<1>4. TagsOnce(r, o, c)
  BY <1>1, <1>2 DEF TagsOnce, SameQueues
<1>5. Asked(r, o, c, W)
  <2>1. \A i \in DOMAIN r.sq : LET e == r.sq[i] v == W[e.tag] IN
          /\ e.off = v.off /\ e.len = v.len
          /\ v.handle \in Opened(r) /\ e.fd = r.files[v.handle] /\ r.fds[e.fd] = v.file
    <3>1. TAKE i \in DOMAIN r.sq
    <3>2. i \in DOMAIN s.sq /\ r.sq[i] = s.sq[i]
      BY <1>2 DEF SameQueues
    <3>3. s.sq[i].tag \in Busy(s, o, c)
      BY <3>2 DEF Busy, ToSet
    <3>4. W[s.sq[i].tag].handle \in Opened(r)
      BY <1>1, <1>2, <3>2, <3>3 DEF Asked
    <3> QED BY <1>1, <1>2, <3>2, <3>4 DEF Asked
  <2>2. \A i \in DOMAIN c : Served(r, W[c[i].tag], c[i])
    BY <1>1, <1>2 DEF Asked, Served, SameSlots
  <2> QED BY <1>1, <1>3, <2>1, <2>2 DEF Asked
<1>6. Flow(r, o, c, W)
  BY <1>1, <1>2, <1>3, <1>4, <1>5 DEF Flow, SameQueues
<1> QED BY <1>2, <1>3, <1>6 DEF r

\* Nothing is outstanding, and no file is open.
Quiet(s, o, c) == /\ s.sq = <<>> /\ o = {} /\ c = <<>> /\ s.pending = 0 /\ s.inflight = 0
                  /\ s.fds = <<>> /\ Opened(s) = {} /\ Used(s) = {}

\* With nothing used and nothing open there is nothing outstanding.
LEMMA QuietRing ==
    ASSUME NEW s, NEW o, NEW c, NEW W, Flow(s, o, c, W), Used(s) = {}, Opened(s) = {}
    PROVE  Quiet(s, o, c)
<1>1. /\ Sound(s) /\ o \in SUBSET Accept /\ IsFiniteSet(o) /\ c \in Seq(Completion)
      /\ s.pending = Len(s.sq) /\ s.inflight = Cardinality(o) + Len(c)
      /\ Busy(s, o, c) = {}
  BY DEF Flow
<1>2. s \in RingRecord /\ HandlesPaired(s)
  BY <1>1 DEF Sound
<1>3. s.sq \in Seq(Read) /\ s.fds \in [DOMAIN s.fds -> File]
  BY <1>2, RingFields
<1>4. ToSet(s.sq) = {} /\ o = {} /\ ToSet(c) = {}
  BY <1>1 DEF Busy
<1>5. s.sq = <<>>
  <2>1. PICK q \in Seq(Read) : q = s.sq
    BY <1>3
  <2>2. 1 \notin DOMAIN q
    BY <1>4, <2>1 DEF ToSet
  <2> QED BY <2>1, <2>2
<1>6. c = <<>>
  <2>1. 1 \notin DOMAIN c
    BY <1>4 DEF ToSet
  <2> QED BY <1>1, <2>1
<1>7. DOMAIN s.fds = {}
  BY <1>2 DEF HandlesPaired
<1>8. s.fds = <<>>
  BY <1>3, <1>7, NoElements
<1>9. Cardinality(o) = 0 /\ Len(s.sq) = 0 /\ Len(c) = 0
  BY <1>4, <1>5, <1>6, FS_EmptySet, NoElements
<1> QED BY <1>1, <1>4, <1>5, <1>6, <1>8, <1>9 DEF Quiet

\* A quiet ring reads what anyone asked for.
LEMMA QuietFlow ==
    ASSUME NEW s, NEW o, NEW c, NEW W, Sound(s), Quiet(s, o, c)
    PROVE  Flow(s, o, c, W) /\ Busy(s, o, c) = {}
<1>1. Busy(s, o, c) = {}
  BY NoElements DEF Busy, Quiet
<1>2. TagsOnce(s, o, c) /\ Asked(s, o, c, W)
  BY <1>1, NoElements DEF TagsOnce, Asked, Quiet
<1>3. o \in SUBSET Accept /\ IsFiniteSet(o) /\ Cardinality(o) = 0 /\ c \in Seq(Completion)
  BY FS_EmptySet, NoElements DEF Quiet
<1>4. s.pending = Len(s.sq) /\ s.inflight = Cardinality(o) + Len(c)
  BY <1>3, NoElements DEF Quiet
<1> QED BY <1>1, <1>2, <1>3, <1>4 DEF Flow

\* A new ring is quiet.
LEMMA RingFresh ==
    ASSUME NEW io \in {"io_uring", "IoRing"}
    PROVE  LET r == FreshRing(io) IN
           Sound(r) /\ Quiet(r, {}, <<>>) /\ r.held = {} /\ r.buf = <<>> /\ ~r.waiting
<1> DEFINE r == FreshRing(io)
<1>1. <<>> \in Buffers /\ <<>> \in HandleTable /\ <<>> \in Descriptors
  <2>1. <<>> \in [{} -> Seq(Byte)] /\ <<>> \in [{} -> Nat \cup {-1}] /\ <<>> \in [{} -> File]
    BY NoElements
  <2>2. 0 .. 0 - 1 = {} /\ 0 \in Nat /\ {} \in SUBSET Nat
    OBVIOUS
  <2> QED BY <2>1, <2>2 DEF Buffers, HandleTable, Descriptors
<1>2. /\ r.io = io /\ r.held = {} /\ r.buf = <<>> /\ r.free_slots = <<>> /\ r.files = <<>>
      /\ r.free_files = <<>> /\ r.fds = <<>> /\ r.sq = <<>> /\ r.pending = 0
      /\ r.inflight = 0 /\ r.event = FALSE /\ r.waiting = FALSE
  BY DEF FreshRing
<1>3. r \in RingRecord
  BY <1>1, NoElements DEF FreshRing, RingRecord
<1> HIDE DEF r
<1>4. Opened(r) = {} /\ Used(r) = {}
  BY <1>2, NoElements DEF Opened, Used
<1>5. FreeOnce(r)
  BY <1>2, NoElements DEF FreeOnce
<1>6. HandlesPaired(r)
  <2>1. IsFiniteSet({}) /\ IsInjective(<<>>) /\ ToSet(<<>>) = {} /\ DOMAIN <<>> = {}
    BY NoElements, FS_EmptySet
  <2> QED BY <1>2, <1>4, <2>1 DEF HandlesPaired
<1> QED BY <1>2, <1>3, <1>4, <1>5, <1>6 DEF Sound, Quiet, r

\* teardown() of a quiet ring leaves nothing.
LEMMA RingGone ==
    ASSUME NEW s, NEW o, NEW c, Sound(s), Quiet(s, o, c)
    PROVE  LET r == Teardown(s) IN
           Sound(r) /\ Quiet(r, o, c) /\ r.held = {} /\ r.buf = <<>> /\ ~r.waiting
<1>1. s.io \in {"io_uring", "IoRing"}
  BY RingFields DEF Sound
<1>2. [fd \in DOMAIN s.fds \ {s.files[h] : h \in DOMAIN s.files} |-> s.fds[fd]] = <<>>
  <2>1. PICK f : f = [fd \in DOMAIN s.fds \ {s.files[h] : h \in DOMAIN s.files} |-> s.fds[fd]]
    OBVIOUS
  <2>2. DOMAIN f = {} /\ f = [x \in DOMAIN f |-> f[x]]
    BY <2>1, NoElements DEF Quiet
  <2> QED BY <2>1, <2>2, NoElements
<1>3. Teardown(s) = FreshRing(s.io)
  <2>1. Teardown(s) = [FreshRing(s.io) EXCEPT !.fds = <<>>]
    BY <1>2 DEF Teardown
  <2> QED BY <2>1 DEF FreshRing
<1>4. o = {} /\ c = <<>>
  BY DEF Quiet
<1> QED BY <1>1, <1>3, <1>4, RingFresh

\* reset() of a quiet ring leaves its slots free and its handles forgotten.
LEMMA RingReset ==
    ASSUME NEW s, NEW o, NEW c, Sound(s), Quiet(s, o, c)
    PROVE  LET r == Reset(s) IN Sound(r) /\ Quiet(r, o, c) /\ SameQueues(s, r)
<1> DEFINE r == Reset(s)
<1>1. s \in RingRecord
  BY DEF Sound
<1>2. PICK n \in Nat : /\ DOMAIN s.buf = 0 .. n - 1 /\ Cardinality(DOMAIN s.buf) = n
                       /\ s.buf \in [0 .. n - 1 -> Seq(Byte)]
  BY <1>1, RingFields
<1>3. PICK buf : buf = [tag \in DOMAIN s.buf |-> <<>>]
  OBVIOUS
<1>4. PICK free : free = [i \in 1 .. n |-> i - 1]
  OBVIOUS
<1>5. [fd \in DOMAIN s.fds \ {s.files[h] : h \in DOMAIN s.files} |-> s.fds[fd]] = <<>>
  <2>1. PICK f : f = [fd \in DOMAIN s.fds \ {s.files[h] : h \in DOMAIN s.files} |-> s.fds[fd]]
    OBVIOUS
  <2>2. DOMAIN f = {} /\ f = [x \in DOMAIN f |-> f[x]]
    BY <2>1, NoElements DEF Quiet
  <2> QED BY <2>1, <2>2, NoElements
<1>6. r = [s EXCEPT !.fds = <<>>, !.buf = buf, !.free_slots = free, !.files = <<>>, !.free_files = <<>>]
  BY <1>2, <1>3, <1>4, <1>5 DEF Reset
<1> HIDE DEF r
<1>7. buf \in Buffers /\ DOMAIN buf = 0 .. n - 1
  <2>1. buf \in [0 .. n - 1 -> Seq(Byte)]
    BY <1>2, <1>3, NoElements
  <2> QED BY <2>1 DEF Buffers
<1>8. free \in Seq(Nat) /\ IsInjective(free) /\ ToSet(free) = 0 .. n - 1
  <2>1. free \in Seq(Nat) /\ DOMAIN free = 1 .. n /\ \A i \in 1 .. n : free[i] = i - 1
    BY <1>4
  <2>2. \A t \in 0 .. n - 1 : t + 1 \in 1 .. n /\ (t + 1) - 1 = t
    OBVIOUS
  <2>3. \A i \in 1 .. n : i - 1 \in 0 .. n - 1
    OBVIOUS
  <2>4. ToSet(free) \subseteq 0 .. n - 1 /\ 0 .. n - 1 \subseteq ToSet(free)
    <3>1. ToSet(free) = {free[i] : i \in 1 .. n}
      BY <2>1 DEF ToSet
    <3>2. \A t \in 0 .. n - 1 : t \in ToSet(free)
      BY <2>1, <2>2, <3>1
    <3>3. \A t \in ToSet(free) : t \in 0 .. n - 1
      BY <2>1, <2>3, <3>1
    <3> QED BY <3>2, <3>3
  <2>5. IsInjective(free)
    BY <2>1 DEF IsInjective
  <2> QED BY <2>1, <2>4, <2>5
<1>9. <<>> \in HandleTable /\ <<>> \in Descriptors
  <2>1. <<>> \in [{} -> Nat \cup {-1}] /\ <<>> \in [{} -> File]
    BY NoElements
  <2>2. 0 .. 0 - 1 = {} /\ 0 \in Nat /\ {} \in SUBSET Nat
    OBVIOUS
  <2> QED BY <2>1, <2>2 DEF HandleTable, Descriptors
<1>10. /\ r \in RingRecord /\ r.fds = <<>> /\ r.files = <<>> /\ r.free_files = <<>>
       /\ r.buf = buf /\ r.free_slots = free /\ SameQueues(s, r)
  BY <1>1, <1>6, <1>7, <1>8, <1>9, NoElements DEF RingRecord, SameQueues
<1>11. Opened(r) = {} /\ Used(r) = {}
  BY <1>7, <1>8, <1>10, NoElements DEF Opened, Used
<1>12. FreeOnce(r)
  BY <1>7, <1>8, <1>10 DEF FreeOnce
<1>13. HandlesPaired(r)
  <2>1. IsFiniteSet({}) /\ IsInjective(<<>>) /\ ToSet(<<>>) = {} /\ DOMAIN <<>> = {}
    BY NoElements, FS_EmptySet
  <2> QED BY <1>10, <1>11, <2>1 DEF HandlesPaired
<1>14. Quiet(r, o, c)
  BY <1>10, <1>11 DEF Quiet, SameQueues
<1> QED BY <1>10, <1>12, <1>13, <1>14 DEF Sound, r

\* init() of a quiet ring.
LEMMA RingSetUp ==
    ASSUME NEW s, NEW o, NEW c, Sound(s), Quiet(s, o, c),
           NEW held \in SUBSET {"ring", "sq", "cq", "sqes", "event"}
    PROVE  LET r == [s EXCEPT !.held = held] IN
           Sound(r) /\ Quiet(r, o, c) /\ r.waiting = s.waiting /\ r.held = held
<1> DEFINE r == [s EXCEPT !.held = held]
<1>1. s \in RingRecord /\ FreeOnce(s) /\ HandlesPaired(s)
  BY DEF Sound
<1>2. /\ r \in RingRecord /\ r.held = held /\ r.waiting = s.waiting /\ SameSlots(s, r)
      /\ SameHandles(s, r) /\ r.sq = s.sq /\ r.pending = s.pending /\ r.inflight = s.inflight
  BY <1>1 DEF RingRecord, SameSlots, SameHandles
<1> HIDE DEF r
<1>3. Opened(r) = Opened(s) /\ Used(r) = Used(s)
  BY <1>2 DEF Opened, Used, SameSlots, SameHandles
<1>4. FreeOnce(r) /\ HandlesPaired(r)
  BY <1>1, <1>2, <1>3 DEF FreeOnce, HandlesPaired, SameSlots, SameHandles
<1>5. Quiet(r, o, c)
  BY <1>2, <1>3 DEF Quiet, SameHandles
<1> QED BY <1>2, <1>4, <1>5 DEF Sound, r

-----------------------------------------------------------------------------
(* Sampling *)

Regs == ToSet(Applicable)

\* The regions of a file: as many as there are samples, each within the file.
LEMMA RegionFacts ==
    /\ Applicable \in Seq(Region) /\ IsInjective(Applicable) /\ Len(Applicable) = Expected
    /\ DOMAIN Applicable = 1 .. Expected /\ Expected \in 1 .. 3
    /\ Regs \subseteq Region /\ 0 \in Regs /\ IsFiniteSet(Regs) /\ Cardinality(Regs) = Expected
    /\ \A r \in Regs : Offset(r) \in Nat
    /\ SAMPLE \in Nat
    /\ \A i \in DOMAIN Applicable : Applicable[i] \in Regs
<1>1. SAMPLE \in Nat \ {0} /\ Size \in Nat \ {0}
  BY PrefilterAssumption
<1>2. PICK q : q = Applicable
  OBVIOUS
<1>3. /\ q \in Seq(Region) /\ IsInjective(q) /\ Len(q) \in 1 .. 3 /\ 0 \in ToSet(q)
      /\ \A i \in DOMAIN q : \/ q[i] = 0
                             \/ q[i] = 1 /\ Size > 3 * SAMPLE
                             \/ q[i] = 2 /\ Size > 2 * SAMPLE
  <2>1. CASE Size > 3 * SAMPLE
    <3>1. Size > 2 * SAMPLE
      BY <1>1, <2>1
    <3>2. q = <<0>> \o <<1>> \o <<2>>
      BY <1>2, <2>1, <3>1 DEF Applicable
    <3>3. q \in Seq(Region) /\ Len(q) = 3 /\ q[1] = 0 /\ q[2] = 1 /\ q[3] = 2
      BY <3>2 DEF Region
    <3>4. DOMAIN q = {1, 2, 3}
      BY <3>3
    <3> QED BY <2>1, <3>1, <3>3, <3>4 DEF IsInjective, ToSet
  <2>2. CASE ~(Size > 3 * SAMPLE) /\ Size > 2 * SAMPLE
    <3>1. q = <<0>> \o <<>> \o <<2>>
      BY <1>2, <2>2 DEF Applicable
    <3>2. q \in Seq(Region) /\ Len(q) = 2 /\ q[1] = 0 /\ q[2] = 2
      BY <3>1 DEF Region
    <3>3. DOMAIN q = {1, 2}
      BY <3>2
    <3> QED BY <2>2, <3>2, <3>3 DEF IsInjective, ToSet
  <2>3. CASE ~(Size > 3 * SAMPLE) /\ ~(Size > 2 * SAMPLE)
    <3>1. q = <<0>>
      BY <1>1, <1>2, <2>3 DEF Applicable
    <3> QED BY <2>3, <3>1 DEF Region, IsInjective, ToSet
  <2> QED BY <2>1, <2>2, <2>3
<1>4. PICK n \in Nat : n = Len(q) /\ DOMAIN q = 1 .. n /\ n \in 1 .. 3
  <2>1. q \in Seq(Region) /\ Len(q) \in 1 .. 3
    BY <1>3
  <2>2. PICK n : n = Len(q)
    OBVIOUS
  <2>3. n \in 1 .. 3 /\ n \in Nat
    BY <2>1, <2>2
  <2>4. DOMAIN q = 1 .. n
    BY <2>1, <2>2
  <2> QED BY <2>2, <2>3, <2>4
<1>5. \A r \in ToSet(q) : Offset(r) \in Nat
  <2>1. Offset(0) \in Nat
    BY DEF Offset
  <2>2. Size > 3 * SAMPLE => Offset(1) \in Nat
    <3>1. SUFFICES ASSUME Size > 3 * SAMPLE PROVE (Size \div 2) - (SAMPLE \div 2) \in Nat
      BY DEF Offset
    <3>2. Size >= SAMPLE
      BY <1>1, <3>1
    <3> QED BY <1>1, <3>2
  <2>3. Size > 2 * SAMPLE => Offset(2) \in Nat
    BY <1>1 DEF Offset
  <2>4. \A i \in DOMAIN q : Offset(q[i]) \in Nat
    BY <1>3, <2>1, <2>2, <2>3
  <2> QED BY <2>4 DEF ToSet
<1>6. IsFiniteSet(ToSet(q)) /\ Cardinality(ToSet(q)) = n
  <2>1. ToSet(q) = {q[i] : i \in 1 .. n}
    BY <1>4 DEF ToSet
  <2>2. \A i, j \in 1 .. n : q[i] = q[j] => i = j
    BY <1>3, <1>4 DEF IsInjective
  <2>3. q = [i \in 1 .. n |-> q[i]]
    BY <1>3, <1>4
  <2>4. /\ IsFiniteSet({q[i] : i \in 1 .. n}) /\ Cardinality({q[i] : i \in 1 .. n}) = n
    <3>1. DOMAIN q = 1 .. n
      BY <1>4
    <3> QED BY <2>2, <2>3, <3>1, Numbered
  <2> QED BY <2>1, <2>4
<1>7. /\ \A i \in DOMAIN q : q[i] \in ToSet(q)
      /\ ToSet(q) \subseteq Region
  BY <1>3 DEF ToSet
<1> QED BY <1>1, <1>2, <1>3, <1>4, <1>5, <1>6, <1>7 DEF Regs, Expected

\* What each tag was given out for while files are sampled.
Asks == [t \in Nat |-> [file |-> Group[meta[t].file_idx], off |-> Offset(meta[t].region),
                        len |-> SAMPLE, handle |-> acc[meta[t].file_idx].handle]]

\* A file waits for reads.
Live(i) == acc[i].arrived < acc[i].submitted

AccRec == [submitted : {0, Expected}, arrived : Nat, handle : Nat,
           got : UNION {[R -> Completion] : R \in SUBSET Regs}]

\* A file has asked for all of its samples or for none, and counts what is back.
FilesInv ==
    /\ next_file \in 1 .. Len(Group) + 1
    /\ acc \in [Index -> AccRec]
    /\ \A i \in Index : /\ acc[i].arrived = Cardinality(DOMAIN acc[i].got)
                        /\ acc[i].submitted = 0 => DOMAIN acc[i].got = {}
                        /\ i >= next_file => acc[i].submitted = 0

\* The tags in use are those of the samples of the files that wait: either the
\* read is outstanding, or it is back and its bytes are held.
TagsInv ==
    /\ \A t \in DOMAIN meta : meta[t] \in [file_idx : Index, region : Regs]
    /\ \A t \in Used(ring) : t \in DOMAIN meta /\ Live(meta[t].file_idx)
    /\ \A t, u \in Used(ring) : meta[t] = meta[u] => t = u
    /\ \A i \in Index : Live(i) => \A r \in Regs :
          \E t \in Used(ring) : meta[t].file_idx = i /\ meta[t].region = r
    /\ \A t \in Used(ring) : LET got == acc[meta[t].file_idx].got r == meta[t].region IN
          /\ r \in DOMAIN got => /\ got[r].tag = t /\ t \notin BusyTags
                                 /\ Served(ring, Asks[t], got[r])
          /\ r \notin DOMAIN got => t \in BusyTags
    /\ IsFiniteSet(Used(ring)) /\ in_flight = Cardinality(Used(ring)) /\ in_flight <= WINDOW

\* The files that are open are those that wait.
HandlesInv ==
    /\ \A i \in Index : Live(i) => /\ acc[i].handle \in Opened(ring)
                                   /\ ring.fds[ring.files[acc[i].handle]] = Group[i]
    /\ \A i, j \in Index : Live(i) /\ Live(j) /\ acc[i].handle = acc[j].handle => i = j
    /\ \A h \in Opened(ring) : \E i \in Index : Live(i) /\ acc[i].handle = h

SampleInv == Flow(ring, ops, cq, Asks) /\ FilesInv /\ TagsInv /\ HandlesInv

-----------------------------------------------------------------------------
(* Steps of the sampling *)

\* The event and the wait are no part of what the reads are.
LEMMA FlowSame ==
    ASSUME NEW s, NEW o, NEW c, NEW W, Flow(s, o, c, W), NEW r, r \in RingRecord,
           SameSlots(s, r), SameHandles(s, r), r.sq = s.sq, r.pending = s.pending,
           r.inflight = s.inflight
    PROVE  Flow(r, o, c, W) /\ Used(r) = Used(s) /\ Opened(r) = Opened(s)
           /\ Busy(r, o, c) = Busy(s, o, c)
<1>1. /\ Sound(s) /\ o \in SUBSET Accept /\ IsFiniteSet(o) /\ c \in Seq(Completion)
      /\ TagsOnce(s, o, c)
      /\ s.pending = Len(s.sq) /\ s.inflight = Cardinality(o) + Len(c)
      /\ Busy(s, o, c) \subseteq Used(s)
      /\ Asked(s, o, c, W)
  BY DEF Flow
<1>2. s \in RingRecord /\ FreeOnce(s) /\ HandlesPaired(s)
  BY <1>1 DEF Sound
<1>3. /\ r.buf = s.buf /\ r.free_slots = s.free_slots /\ r.files = s.files
      /\ r.free_files = s.free_files /\ r.fds = s.fds
  BY DEF SameSlots, SameHandles
<1>4. Used(r) = Used(s) /\ Opened(r) = Opened(s) /\ Busy(r, o, c) = Busy(s, o, c)
  BY <1>3 DEF Used, Opened, Busy
<1>5. Sound(r)
  <2>1. FreeOnce(r) /\ HandlesPaired(r)
    BY <1>2, <1>3, <1>4 DEF FreeOnce, HandlesPaired
  <2> QED BY <2>1 DEF Sound
<1>6. TagsOnce(r, o, c)
  BY <1>1 DEF TagsOnce
<1>7. Asked(r, o, c, W)
  BY <1>1, <1>3, <1>4, SMTT(30), ZenonT(120) DEF Asked, Served
<1> QED BY <1>1, <1>4, <1>5, <1>6, <1>7 DEF Flow

\* Tags are numbers, and few enough reads leave room in the queue.
LEMMA FlowFacts ==
    ASSUME NEW s, NEW o, NEW c, NEW W, Flow(s, o, c, W)
    PROVE  /\ Used(s) \subseteq DOMAIN s.buf /\ DOMAIN s.buf \subseteq Nat
           /\ Busy(s, o, c) \subseteq Used(s)
           /\ s \in RingRecord /\ s.pending \in Nat
           /\ SqRoom(s) \in Int
           /\ IsFiniteSet(Busy(s, o, c)) /\ Cardinality(Busy(s, o, c)) \in Nat
           /\ SqRoom(s) >= SqEntries - Cardinality(Busy(s, o, c))
           /\ s.pending = Len(s.sq) /\ s.inflight = Cardinality(o) + Len(c)
           /\ Cardinality(Busy(s, o, c)) = Len(s.sq) + Cardinality(o) + Len(c)
<1>1. /\ Sound(s) /\ o \in SUBSET Accept /\ IsFiniteSet(o) /\ c \in Seq(Completion)
      /\ TagsOnce(s, o, c)
      /\ s.pending = Len(s.sq) /\ s.inflight = Cardinality(o) + Len(c)
      /\ Busy(s, o, c) \subseteq Used(s)
  BY DEF Flow
<1>2. s \in RingRecord
  BY <1>1 DEF Sound
<1>3. PICK n \in Nat : DOMAIN s.buf = 0 .. n - 1
  BY <1>2, RingFields
<1>4. Used(s) \subseteq DOMAIN s.buf /\ DOMAIN s.buf \subseteq Nat
  BY <1>3 DEF Used
<1>5. s.sq \in Seq(Read)
  BY <1>2, RingFields
<1>6. /\ IsFiniteSet(Busy(s, o, c))
      /\ Cardinality(Busy(s, o, c)) = Len(s.sq) + Cardinality(o) + Len(c)
      /\ Len(s.sq) \in Nat /\ Cardinality(o) \in Nat /\ Len(c) \in Nat
  <2>1. IsFiniteSet(o) /\ o \in SUBSET Accept /\ c \in Seq(Completion) /\ TagsOnce(s, o, c)
    BY <1>1
  <2> QED BY <1>5, <2>1, BusyCounted
<1>7. SqRoom(s) = SqEntries - Len(s.sq)
  BY <1>1 DEF SqRoom
<1>8. SqEntries \in Nat
  BY RingAssumption
<1>9. /\ SqRoom(s) \in Int /\ SqRoom(s) >= SqEntries - Cardinality(Busy(s, o, c))
      /\ Cardinality(Busy(s, o, c)) \in Nat
  BY <1>6, <1>7, <1>8
<1> QED BY <1>1, <1>2, <1>4, <1>6, <1>9

\* What everyone holds while the ring's own tables stay as they are.
LEMMA SampleKept ==
    ASSUME SampleInv, UNCHANGED <<meta, acc, next_file, in_flight>>,
           Flow(ring', ops', cq', Asks), Used(ring') = Used(ring), BusyTags' = BusyTags,
           SameHandles(ring, ring'),
           \A t \in Used(ring) \ BusyTags : ring.buf[t] = ring'.buf[t]
    PROVE  SampleInv'
<1>1. Flow(ring, ops, cq, Asks) /\ FilesInv /\ TagsInv /\ HandlesInv
  BY DEF SampleInv
<1>2. Asks' = Asks
  BY DEF Asks
<1>3. FilesInv'
  BY <1>1 DEF FilesInv
<1>4. \A i \in Index : Live(i)' <=> Live(i)
  BY DEF Live
<1>5. Opened(ring') = Opened(ring) /\ ring'.files = ring.files /\ ring'.fds = ring.fds
  BY DEF SameHandles, Opened
<1>6. HandlesInv'
  BY <1>1, <1>4, <1>5 DEF HandlesInv
<1>7. TagsInv'
  <2>1. ASSUME NEW t \in Used(ring)
        PROVE  LET got == acc[meta[t].file_idx].got r == meta[t].region IN
               /\ r \in DOMAIN got => /\ got[r].tag = t /\ t \notin BusyTags
                                      /\ Served(ring', Asks[t], got[r])
               /\ r \notin DOMAIN got => t \in BusyTags
    BY <1>1 DEF TagsInv, Served
  <2>2. \A t \in Used(ring) : Live(meta[t].file_idx) /\ t \in DOMAIN meta /\ meta[t].file_idx \in Index
    BY <1>1 DEF TagsInv
  <2> QED BY <1>1, <1>2, <1>4, <2>1, <2>2 DEF TagsInv
<1> QED BY <1>2, <1>3, <1>6, <1>7 DEF SampleInv

\* What is so when the kernel has ended the read op.
OneEnded(s, o, c, W, op, r, p, d) ==
    /\ Flow(r, p, d, W) /\ Busy(r, p, d) = Busy(s, o, c)
    /\ SameHandles(s, r) /\ r.free_slots = s.free_slots /\ DOMAIN r.buf = DOMAIN s.buf
    /\ \A t \in DOMAIN s.buf \ {op.tag} : r.buf[t] = s.buf[t]
    /\ op.tag \in Busy(s, o, c)
    /\ r.io = s.io /\ r.held = s.held /\ r.waiting = s.waiting
    /\ r.event = (s.event \/ ("event" \in s.held /\ c = <<>>))

\* ReadEnded in one word.
LEMMA EndedOnce ==
    ASSUME NEW s, NEW o, NEW c, NEW W, Flow(s, o, c, W), NEW op, op \in o,
           NEW res, res \in Outcomes(op)
    PROVE  OneEnded(s, o, c, W, op, Ended(s, c, op, res), o \ {op}, Append(c, [tag |-> op.tag, res |-> res]))
BY ReadEnded, SMTT(30) DEF OneEnded

\* Whatever reads were asked for, the kernel ends one of them, and that is all.
LEMMA KernelFlow ==
    ASSUME NEW W, Flow(ring, ops, cq, W), KernelStep
    PROVE  /\ Flow(ring', ops', cq', W) /\ SameHandles(ring, ring') /\ Used(ring') = Used(ring)
           /\ BusyTags' = BusyTags
           /\ \A t \in Used(ring) \ BusyTags : ring.buf[t] = ring'.buf[t]
           /\ ring'.waiting = ring.waiting /\ ring'.held = ring.held
           /\ cq' # <<>> /\ ring'.event = (ring.event \/ ("event" \in ring.held /\ cq = <<>>))
<1>1. PICK s, o, c : s = ring /\ o = ops /\ c = cq
  OBVIOUS
<1>2. PICK op \in ops : Complete(op)
  BY DEF KernelStep
<1>3. PICK res \in Outcomes(op) :
          /\ cq' = Append(cq, [tag |-> op.tag, res |-> res])
          /\ ring' = [ring EXCEPT
                         !.event = @ \/ ("event" \in ring.held /\ cq = <<>>),
                         !.buf = IF res <= 0 THEN @
                                 ELSE [@ EXCEPT ![op.tag] =
                                     SubSeq(Content[op.file], op.off + 1, op.off + res)]]
          /\ ops' = ops \ {op}
  BY <1>2 DEF Complete
<1>4. Flow(s, o, c, W) /\ op \in o /\ res \in Outcomes(op)
  BY <1>1
<1>5. PICK r : r = Ended(s, c, op, res)
  OBVIOUS
<1>6. PICK p : p = o \ {op}
  OBVIOUS
<1>7. PICK d : d = Append(c, [tag |-> op.tag, res |-> res])
  OBVIOUS
<1>8. OneEnded(s, o, c, W, op, r, p, d)
  <2>1. OneEnded(s, o, c, W, op, Ended(s, c, op, res), o \ {op}, Append(c, [tag |-> op.tag, res |-> res]))
    BY <1>4, EndedOnce
  <2> QED BY <1>5, <1>6, <1>7, <2>1
<1>9. ring' = r /\ ops' = p /\ cq' = d
  BY <1>1, <1>3, <1>5, <1>6, <1>7 DEF Ended
<1>10. d # <<>>
  <2>1. c \in Seq(Completion)
    BY <1>4 DEF Flow
  <2>2. Len(d) # 0
    BY <1>7, <2>1
  <2> QED BY <2>2, NoElements
<1>11. Used(r) = Used(s) /\ Used(s) \subseteq DOMAIN s.buf
  BY <1>4, <1>8 DEF Used, OneEnded
<1>12. BusyTags' = Busy(r, p, d) /\ BusyTags = Busy(s, o, c)
  BY <1>1, <1>9 DEF BusyTags, Busy
<1>13. \A t \in Used(s) \ Busy(s, o, c) : s.buf[t] = r.buf[t]
  BY <1>4, <1>8, <1>11 DEF OneEnded
<1> QED BY <1>1, <1>4, <1>8, <1>9, <1>10, <1>11, <1>12, <1>13 DEF OneEnded

\* The kernel ends a read while files are sampled.
LEMMA KernelSample ==
    SampleInv /\ KernelStep /\ UNCHANGED <<meta, acc, next_file, in_flight>> => SampleInv'
<1> SUFFICES ASSUME SampleInv, KernelStep, UNCHANGED <<meta, acc, next_file, in_flight>>
             PROVE  SampleInv'
  OBVIOUS
<1>1. Flow(ring, ops, cq, Asks)
  BY DEF SampleInv
<1>2. /\ Flow(ring', ops', cq', Asks) /\ SameHandles(ring, ring') /\ Used(ring') = Used(ring)
      /\ BusyTags' = BusyTags
      /\ \A t \in Used(ring) \ BusyTags : ring.buf[t] = ring'.buf[t]
  BY <1>1, KernelFlow
<1> QED BY <1>2, SampleKept

\* What is so when reads have been handed over, and when a completion has been
\* taken as well.
Passing(s, o, c, W, r, p) ==
    Flow(r, p, c, W) /\ SameTables(s, r) /\ Busy(r, p, c) = Busy(s, o, c)
Taking(s, o, c, W, r, p) ==
    /\ Flow(r, p, Tail(c), W) /\ SameTables(s, r)
    /\ Busy(r, p, Tail(c)) = Busy(s, o, c) \ {Head(c).tag}
    /\ Head(c) \in Completion /\ Head(c).tag \in Busy(s, o, c)
    /\ Served(r, W[Head(c).tag], Head(c))
    /\ W[Head(c).tag].file \in File /\ W[Head(c).tag].off \in Nat /\ W[Head(c).tag].len \in Nat

\* HandedOver in one word.
LEMMA PassedOnce ==
    ASSUME NEW s, NEW o, NEW c, NEW W, Flow(s, o, c, W), NEW k \in 0 .. s.pending
    PROVE  Passing(s, o, c, W, Entered(s, k), o \cup Accepted(s, k))
BY HandedOver DEF Passing

\* CompletionTaken in one word.
LEMMA TakenOnce ==
    ASSUME NEW s, NEW o, NEW c, NEW W, Flow(s, o, c, W), c # <<>>, NEW k \in 0 .. s.pending
    PROVE  Taking(s, o, c, W, Taken(s, k), o \cup Accepted(s, k))
BY CompletionTaken, ZenonT(60) DEF Taking

\* Entering the kernel, waiting and waking change nothing about the reads.
LEMMA EnterFlow ==
    ASSUME NEW W, Flow(ring, ops, cq, W), NextEnter \/ NextWait \/ NextWoken
    PROVE  /\ Flow(ring', ops', cq', W) /\ SameHandles(ring, ring') /\ Used(ring') = Used(ring)
           /\ BusyTags' = BusyTags /\ ring'.buf = ring.buf
<1>1. PICK s, o, c : s = ring /\ o = ops /\ c = cq
  OBVIOUS
<1>2. Flow(s, o, c, W)
  BY <1>1
<1>3. s \in RingRecord
  BY <1>2 DEF Flow, Sound
<1>4. CASE NextEnter
  <2>1. PICK k \in 1 .. ring.pending : ring' = Entered(ring, k) /\ ops' = ops \cup Accepted(ring, k) /\ cq' = cq
    BY <1>4 DEF NextEnter
  <2>2. k \in 0 .. s.pending
    BY <1>1, <1>3, <2>1, RingFields
  <2>3. Passing(s, o, c, W, Entered(s, k), o \cup Accepted(s, k))
    BY <1>2, <2>2, PassedOnce
  <2>4. PICK r : r = Entered(s, k)
    OBVIOUS
  <2>5. PICK p : p = o \cup Accepted(s, k)
    OBVIOUS
  <2>6. Passing(s, o, c, W, r, p) /\ ring' = r /\ ops' = p /\ cq' = c
    BY <1>1, <2>1, <2>3, <2>4, <2>5
  <2>7. Used(r) = Used(s) /\ SameHandles(s, r) /\ r.buf = s.buf /\ Busy(r, p, c) = Busy(s, o, c)
    BY <2>6 DEF Passing, Used, SameTables, SameSlots
  <2>8. BusyTags' = Busy(r, p, c) /\ BusyTags = Busy(s, o, c)
    BY <1>1, <2>6 DEF BusyTags, Busy
  <2> QED BY <1>1, <2>6, <2>7, <2>8 DEF Passing
<1>5. CASE NextWait \/ NextWoken
  <2>1. PICK r : r = ring'
    OBVIOUS
  <2>2. /\ r \in RingRecord /\ SameSlots(s, r) /\ SameHandles(s, r) /\ r.sq = s.sq
        /\ r.pending = s.pending /\ r.inflight = s.inflight /\ ops' = o /\ cq' = c
    BY <1>1, <1>3, <1>5, <2>1 DEF NextWait, NextWoken, RingRecord, SameSlots, SameHandles
  <2>3. Flow(r, o, c, W) /\ Used(r) = Used(s) /\ Busy(r, o, c) = Busy(s, o, c)
    BY <1>2, <2>2, FlowSame
  <2>4. BusyTags' = Busy(r, o, c) /\ BusyTags = Busy(s, o, c)
    BY <1>1, <2>1, <2>2 DEF BusyTags, Busy
  <2> QED BY <1>1, <2>1, <2>2, <2>3, <2>4 DEF SameSlots
<1> QED BY <1>4, <1>5

\* A step of the worker that takes a completion.
LEMMA TakeFlow ==
    ASSUME NEW W, Flow(ring, ops, cq, W), NEW k \in Passed, NextTake(k)
    PROVE  /\ Taking(ring, ops, cq, W, Taken(ring, k), ops')
           /\ cq' = Tail(cq) /\ Done = Head(cq)
<1>1. PICK s, o, c : s = ring /\ o = ops /\ c = cq
  OBVIOUS
<1>2. Flow(s, o, c, W)
  BY <1>1
<1>3. s.pending \in Nat
  BY <1>2, FlowFacts
<1>4. k \in 0 .. s.pending
  BY <1>1, <1>3 DEF Passed
<1>5. c # <<>> /\ ops' = o \cup Accepted(s, k) /\ cq' = Tail(c)
  BY <1>1 DEF NextTake
<1>6. Taking(s, o, c, W, Taken(s, k), o \cup Accepted(s, k))
  BY <1>2, <1>4, <1>5, TakenOnce
<1> QED BY <1>1, <1>5, <1>6 DEF Done

\* The worker enters the kernel for a sample, or waits for one.
LEMMA EnterSample ==
    SampleInv /\ EnterForSample => SampleInv'
<1> SUFFICES ASSUME SampleInv, EnterForSample PROVE SampleInv'
  OBVIOUS
<1>1. Flow(ring, ops, cq, Asks)
  BY DEF SampleInv
<1>2. (NextEnter \/ NextWait \/ NextWoken) /\ UNCHANGED <<meta, acc, next_file, in_flight>>
  BY DEF EnterForSample, sample_vars
<1>3. /\ Flow(ring', ops', cq', Asks) /\ SameHandles(ring, ring') /\ Used(ring') = Used(ring)
      /\ BusyTags' = BusyTags /\ ring'.buf = ring.buf
  BY <1>1, <1>2, EnterFlow
<1> QED BY <1>2, <1>3, SampleKept

\* The window leaves room in the queue for every read of the next file.
LEMMA PumpRoom ==
    ASSUME SampleInv, Room
    PROVE  /\ Queued = Applicable /\ Len(Queued) = Expected
           /\ Reads \in Seq(Span) /\ DOMAIN Reads = 1 .. Expected
           /\ \A i \in 1 .. Expected : Reads[i].off = Offset(Applicable[i]) /\ Reads[i].len = SAMPLE
<1>1. Flow(ring, ops, cq, Asks) /\ TagsInv
  BY DEF SampleInv
<1>2. PICK b : b = Busy(ring, ops, cq)
  OBVIOUS
<1>3. /\ SqRoom(ring) \in Int /\ SqRoom(ring) >= SqEntries - Cardinality(b)
      /\ b \subseteq Used(ring) /\ Cardinality(b) \in Nat
  BY <1>1, <1>2, FlowFacts
<1>4. IsFiniteSet(Used(ring)) /\ in_flight = Cardinality(Used(ring))
  BY <1>1 DEF TagsInv
<1>5. Cardinality(b) <= in_flight /\ in_flight \in Nat
  BY <1>3, <1>4, FS_Subset, FS_CardinalityType
<1>6. PICK room : room = SqRoom(ring)
  OBVIOUS
<1>7. PICK n : n = Expected
  OBVIOUS
<1>8. n \in 1 .. 3 /\ Applicable \in Seq(Region) /\ Len(Applicable) = n /\ DOMAIN Applicable = 1 .. n
  BY <1>7, RegionFacts
<1>9. room >= n /\ room \in Int
  <2>1. in_flight + n <= WINDOW /\ WINDOW <= SqEntries /\ WINDOW \in Nat /\ SqEntries \in Nat
    BY <1>7, RingAssumption, PrefilterAssumption DEF Room
  <2>2. n \in Nat
    BY <1>8
  <2>3. room \in Int /\ room >= SqEntries - Cardinality(b) /\ Cardinality(b) \in Nat
    BY <1>3, <1>6
  <2> QED BY <1>5, <2>1, <2>2, <2>3
<1>10. Queued = Applicable
  <2>1. Smaller(n, room) = n
    BY <1>8, <1>9 DEF Smaller
  <2>2. PICK q : q = Applicable
    OBVIOUS
  <2>3. q \in Seq(Region) /\ Len(q) = n
    BY <1>8, <2>2
  <2>4. SubSeq(q, 1, n) = q
    BY <2>3
  <2> QED BY <1>6, <1>7, <2>1, <2>2, <2>4 DEF Queued
<1>11. /\ Reads = [i \in 1 .. n |-> [off |-> Offset(Applicable[i]), len |-> SAMPLE]]
  BY <1>8, <1>10 DEF Reads
<1>12. \A i \in 1 .. n : Offset(Applicable[i]) \in Nat /\ SAMPLE \in Nat
  BY <1>8, RegionFacts
<1>13. \A i \in 1 .. n : Reads[i] \in Span /\ Reads[i].off = Offset(Applicable[i]) /\ Reads[i].len = SAMPLE
  BY <1>11, <1>12 DEF Span
<1>14. Reads \in Seq(Span) /\ DOMAIN Reads = 1 .. n
  BY <1>8, <1>11, <1>13
<1> QED BY <1>7, <1>8, <1>10, <1>13, <1>14

\* What the tags of the file that is taken in are given out for.
LEMMA PumpTags ==
    ASSUME SampleInv, PumpFile
    PROVE  /\ \A i \in 1 .. Expected :
                 /\ NextTag(ring, i) \in DOMAIN meta'
                 /\ meta'[NextTag(ring, i)] = [file_idx |-> next_file, region |-> Applicable[i]]
                 /\ NextTag(ring, i) \in Nat /\ NextTag(ring, i) \notin Used(ring)
           /\ \A i, j \in 1 .. Expected : NextTag(ring, i) = NextTag(ring, j) => i = j
           /\ \A t \in DOMAIN meta :
                 t \in DOMAIN meta' /\ (meta'[t] = meta[t] \/ \E i \in 1 .. Expected : t = NextTag(ring, i))
           /\ \A t \in DOMAIN meta' : t \in DOMAIN meta \/ \E i \in 1 .. Expected : t = NextTag(ring, i)
<1>1. Flow(ring, ops, cq, Asks) /\ Room
  BY DEF SampleInv, PumpFile
<1>2. PICK n : n = Expected
  OBVIOUS
<1>3. n \in 1 .. 3 /\ Queued = Applicable /\ Len(Queued) = n
  BY <1>1, <1>2, RegionFacts, PumpRoom
<1>4. Sound(ring)
  BY <1>1 DEF Flow
<1>5. \A i \in 1 .. Len(Queued) : /\ NextTag(ring, i) \in Nat /\ NextTag(ring, i) \notin Used(ring)
  BY <1>3, <1>4, FreshTags
<1>6. \A i, j \in 1 .. Len(Queued) : NextTag(ring, i) = NextTag(ring, j) => i = j
  <2>1. \A i \in 1 .. n : i \in Nat \ {0}
    BY <1>3
  <2> QED BY <1>3, <1>4, <2>1, FreshTags
<1>7. meta' = [tag \in DOMAIN meta \cup {NextTag(ring, i) : i \in 1 .. Len(Queued)} |->
                 IF \E i \in 1 .. Len(Queued) : NextTag(ring, i) = tag
                 THEN [file_idx |-> next_file,
                       region |-> Queued[CHOOSE i \in 1 .. Len(Queued) : NextTag(ring, i) = tag]]
                 ELSE meta[tag]]
  BY DEF PumpFile
<1>8. \A i \in 1 .. Len(Queued) : (CHOOSE j \in 1 .. Len(Queued) : NextTag(ring, j) = NextTag(ring, i)) = i
  BY <1>6
<1>9. DOMAIN meta' = DOMAIN meta \cup {NextTag(ring, i) : i \in 1 .. Len(Queued)}
  BY <1>7
<1>10. \A i \in 1 .. Len(Queued) :
          /\ NextTag(ring, i) \in DOMAIN meta'
          /\ meta'[NextTag(ring, i)] = [file_idx |-> next_file, region |-> Queued[i]]
  BY <1>7, <1>8
<1>11. \A t \in DOMAIN meta :
          t \in DOMAIN meta' /\ (meta'[t] = meta[t] \/ \E i \in 1 .. Len(Queued) : t = NextTag(ring, i))
  BY <1>7
<1>12. \A t \in DOMAIN meta' : t \in DOMAIN meta \/ \E i \in 1 .. Len(Queued) : t = NextTag(ring, i)
  BY <1>9
<1> QED BY <1>2, <1>3, <1>5, <1>6, <1>10, <1>11, <1>12

\* What is so when a file has been opened, reads have been queued, tags have
\* been released, and a file has been closed.
Opening(s, o, c, W, f, r) ==
    /\ Flow(r, o, c, W) /\ SameQueues(s, r) /\ SameSlots(s, r)
    /\ Opened(r) = Opened(s) \cup {NewHandle(s)} /\ NewHandle(s) \notin Opened(s)
    /\ NewHandle(s) \in Nat
    /\ r.fds[r.files[NewHandle(s)]] = f
    /\ \A h \in Opened(s) : r.fds[r.files[h]] = s.fds[s.files[h]]
    /\ Used(r) = Used(s) /\ Busy(r, o, c) = Busy(s, o, c)
Queueing(s, o, c, V, T, r) ==
    /\ Flow(r, o, c, V) /\ SameHandles(s, r)
    /\ r.io = s.io /\ r.held = s.held /\ r.event = s.event /\ r.waiting = s.waiting
    /\ Used(r) = Used(s) \cup T /\ Busy(r, o, c) = Busy(s, o, c) \cup T
    /\ \A t \in DOMAIN s.buf : r.buf[t] = s.buf[t]
    /\ Used(s) \cap T = {} /\ T \subseteq Nat
Releasing(s, o, c, W, T, r) ==
    /\ Flow(r, o, c, W) /\ SameHandles(s, r) /\ r.buf = s.buf /\ SameQueues(s, r)
    /\ Used(r) = Used(s) \ T /\ Busy(r, o, c) = Busy(s, o, c)
Closing(s, o, c, W, h0, r) ==
    /\ Flow(r, o, c, W) /\ SameQueues(s, r) /\ SameSlots(s, r)
    /\ Opened(r) = Opened(s) \ {h0}
    /\ \A h \in Opened(r) : r.fds[r.files[h]] = s.fds[s.files[h]]
    /\ Used(r) = Used(s) /\ Busy(r, o, c) = Busy(s, o, c)

\* OpenedFlow in one word.
LEMMA OpenedOnce ==
    ASSUME NEW s, NEW o, NEW c, NEW W, Flow(s, o, c, W), NEW f \in File
    PROVE  Opening(s, o, c, W, f, OpenFile(s, f))
BY OpenedFlow DEF Opening

\* ReadsQueued in one word.
LEMMA QueuedOnce ==
    ASSUME NEW s, NEW o, NEW c, NEW W, Flow(s, o, c, W), NEW fh \in Opened(s),
           NEW reads \in Seq(Span), NEW V,
           \A t \in Busy(s, o, c) : V[t] = W[t],
           \A i \in DOMAIN reads : LET w == V[NextTag(s, i)] IN
               /\ w.off = reads[i].off /\ w.len = reads[i].len
               /\ w.handle = fh /\ w.file = s.fds[s.files[fh]]
    PROVE  Queueing(s, o, c, V, {NextTag(s, i) : i \in DOMAIN reads}, Submit(s, fh, reads))
BY ReadsQueued DEF Queueing

\* TagsReleased in one word.
LEMMA ReleasedOnce ==
    ASSUME NEW s, NEW o, NEW c, NEW W, Flow(s, o, c, W), NEW tags \in Seq(Nat), IsInjective(tags),
           ToSet(tags) \subseteq Used(s), ToSet(tags) \cap Busy(s, o, c) = {}
    PROVE  Releasing(s, o, c, W, ToSet(tags), Release(s, tags))
BY TagsReleased DEF Releasing

\* ClosedFlow in one word.
LEMMA ClosedOnce ==
    ASSUME NEW s, NEW o, NEW c, NEW W, Flow(s, o, c, W), NEW h0 \in Opened(s),
           \A t \in Busy(s, o, c) : W[t].handle # h0
    PROVE  Closing(s, o, c, W, h0, CloseFile(s, h0))
BY ClosedFlow DEF Closing

\* The next file of the group is in a place of its own, and nothing has been
\* asked of it.
LEMMA NextFileFacts ==
    ASSUME SampleInv, next_file <= Len(Group)
    PROVE  /\ next_file \in Index /\ next_file \in Nat /\ Group[next_file] \in File
           /\ acc[next_file] \in AccRec /\ acc[next_file].submitted = 0
           /\ acc[next_file].arrived = 0 /\ DOMAIN acc[next_file].got = {}
           /\ ~Live(next_file)
           /\ \A t \in Used(ring) : /\ t \in DOMAIN meta /\ meta[t].file_idx \in Index
                                    /\ meta[t].file_idx # next_file
<1>1. FilesInv /\ TagsInv
  BY DEF SampleInv
<1>2. PICK len \in Nat : len = Len(Group) /\ Index = 1 .. len
  BY PrefilterAssumption DEF Index
<1>3. next_file \in 1 .. len /\ next_file \in Nat
  BY <1>1, <1>2 DEF FilesInv
<1>4. Group[next_file] \in File
  BY <1>2, <1>3, PrefilterAssumption
<1>5. acc[next_file] \in AccRec /\ acc[next_file].submitted = 0 /\ DOMAIN acc[next_file].got = {}
      /\ acc[next_file].arrived = Cardinality(DOMAIN acc[next_file].got)
  BY <1>1, <1>2, <1>3 DEF FilesInv
<1>6. acc[next_file].arrived = 0
  BY <1>5, FS_EmptySet
<1>7. ~Live(next_file)
  BY <1>5, <1>6 DEF Live
<1>8. \A t \in Used(ring) : t \in DOMAIN meta /\ Live(meta[t].file_idx) /\ meta[t].file_idx \in Index
  BY <1>1 DEF TagsInv
<1> QED BY <1>2, <1>3, <1>4, <1>5, <1>6, <1>7, <1>8

\* The file is opened and its reads are queued.
LEMMA PumpFlow ==
    ASSUME SampleInv, PumpFile
    PROVE  /\ Flow(ring', ops', cq', Asks')
           /\ \A t \in Used(ring) : Asks'[t] = Asks[t]
           /\ Used(ring') = Used(ring) \cup {NextTag(ring, i) : i \in 1 .. Expected}
           /\ BusyTags' = BusyTags \cup {NextTag(ring, i) : i \in 1 .. Expected}
           /\ Used(ring) \cap {NextTag(ring, i) : i \in 1 .. Expected} = {}
           /\ Opened(ring') = Opened(ring) \cup {NewHandle(ring)}
           /\ NewHandle(ring) \notin Opened(ring) /\ NewHandle(ring) \in Nat
           /\ ring'.fds[ring'.files[NewHandle(ring)]] = Group[next_file]
           /\ \A h \in Opened(ring) : ring'.fds[ring'.files[h]] = ring.fds[ring.files[h]]
           /\ \A t \in DOMAIN ring.buf : ring'.buf[t] = ring.buf[t]
           /\ acc' = [acc EXCEPT ![next_file].handle = NewHandle(ring), ![next_file].submitted = Expected]
           /\ in_flight' = in_flight + Expected
<1>1. Flow(ring, ops, cq, Asks) /\ Room /\ next_file <= Len(Group) /\ FilesInv
  BY DEF SampleInv, PumpFile
<1>2. PICK s0, o, c : s0 = ring /\ o = ops /\ c = cq
  OBVIOUS
<1>3. PICK f \in File : f = Group[next_file]
  BY <1>1, NextFileFacts
<1>4. PICK fh : fh = NewHandle(s0)
  OBVIOUS
<1>5. PICK n : n = Expected
  OBVIOUS
<1>6. /\ Len(Queued) = n /\ Reads \in Seq(Span) /\ DOMAIN Reads = 1 .. n /\ n \in 1 .. 3
      /\ \A i \in 1 .. n : Reads[i].off = Offset(Applicable[i]) /\ Reads[i].len = SAMPLE
  BY <1>1, <1>5, PumpRoom, RegionFacts
<1>7. PICK s : s = OpenFile(s0, f)
  OBVIOUS
<1>8. PICK W, V : W = Asks /\ V = Asks'
  OBVIOUS
<1>9. Opening(s0, o, c, W, f, s)
  <2>1. Flow(s0, o, c, W)
    BY <1>1, <1>2, <1>8
  <2>2. Opening(s0, o, c, W, f, OpenFile(s0, f))
    BY <2>1, OpenedOnce
  <2> QED BY <1>7, <2>2
<1>10. \A i \in 1 .. n : NextTag(s, i) = NextTag(ring, i)
  BY <1>2, <1>9 DEF Opening, SameSlots, NextTag
<1>11. ring' = Submit(s, fh, Reads) /\ ops' = o /\ cq' = c
  <2>1. ring' = IF n = 0 THEN CloseFile(Submit(s, fh, Reads), fh) ELSE Submit(s, fh, Reads)
    BY <1>2, <1>3, <1>4, <1>6, <1>7 DEF PumpFile
  <2>2. n # 0
    BY <1>6
  <2> QED BY <1>2, <2>1, <2>2 DEF PumpFile
<1>12. acc' = [acc EXCEPT ![next_file].handle = fh, ![next_file].submitted = n] /\ in_flight' = in_flight + n
  BY <1>2, <1>4, <1>6 DEF PumpFile
<1>13. /\ next_file \in Index /\ acc[next_file] \in AccRec
       /\ \A t \in Used(ring) : /\ t \in DOMAIN meta /\ meta[t].file_idx \in Index
                                /\ meta[t].file_idx # next_file
  BY <1>1, NextFileFacts
<1>14. acc \in [Index -> AccRec]
  BY <1>1 DEF FilesInv
<1>15. /\ acc'[next_file].handle = fh
       /\ \A i \in Index \ {next_file} : acc'[i] = acc[i]
  BY <1>12, <1>13, <1>14 DEF AccRec
<1>16. Used(ring) \subseteq Nat /\ Busy(s0, o, c) \subseteq Used(ring)
  BY <1>1, <1>2, FlowFacts
<1>17. \A t \in Used(ring) : V[t] = W[t]
  <2>1. TAKE t \in Used(ring)
  <2>2. t \in Nat /\ t \in DOMAIN meta /\ meta[t].file_idx \in Index \ {next_file}
    BY <1>13, <1>16
  <2>3. meta'[t] = meta[t]
    <3>1. meta'[t] = meta[t] \/ \E i \in 1 .. Expected : t = NextTag(ring, i)
      BY <2>2, PumpTags
    <3>2. \A i \in 1 .. Expected : NextTag(ring, i) \notin Used(ring)
      BY PumpTags
    <3> QED BY <3>1, <3>2
  <2>4. acc'[meta[t].file_idx] = acc[meta[t].file_idx]
    BY <1>15, <2>2
  <2> QED BY <1>8, <2>2, <2>3, <2>4 DEF Asks
<1>18. \A i \in 1 .. n : /\ V[NextTag(s, i)].off = Reads[i].off /\ V[NextTag(s, i)].len = Reads[i].len
                         /\ V[NextTag(s, i)].handle = fh /\ V[NextTag(s, i)].file = f
  <2>1. TAKE i \in 1 .. n
  <2>2. PICK t : t = NextTag(ring, i)
    OBVIOUS
  <2>3. t \in Nat /\ meta'[t] = [file_idx |-> next_file, region |-> Applicable[i]]
    BY <1>5, <2>2, PumpTags
  <2>4. V[t] = [file |-> Group[next_file], off |-> Offset(Applicable[i]), len |-> SAMPLE,
                handle |-> acc'[next_file].handle]
    BY <1>8, <2>3 DEF Asks
  <2> QED BY <1>3, <1>6, <1>10, <1>15, <2>2, <2>4
<1>19. fh \in Opened(s) /\ f = s.fds[s.files[fh]]
  BY <1>4, <1>9 DEF Opening
<1>20. PICK T : T = {NextTag(ring, i) : i \in 1 .. n}
  OBVIOUS
<1>21. Queueing(s, o, c, V, T, ring')
  <2>1. Flow(s, o, c, W) /\ Busy(s, o, c) = Busy(s0, o, c)
    BY <1>9 DEF Opening
  <2>2. \A t \in Busy(s, o, c) : V[t] = W[t]
    BY <1>16, <1>17, <2>1
  <2>3. PICK reads \in Seq(Span) : reads = Reads
    BY <1>6
  <2>4. \A i \in DOMAIN reads : LET w == V[NextTag(s, i)] IN
               /\ w.off = reads[i].off /\ w.len = reads[i].len
               /\ w.handle = fh /\ w.file = s.fds[s.files[fh]]
    BY <1>6, <1>18, <1>19, <2>3
  <2>5. Queueing(s, o, c, V, {NextTag(s, i) : i \in DOMAIN reads}, Submit(s, fh, reads))
    BY <1>19, <2>1, <2>2, <2>4, QueuedOnce
  <2>6. {NextTag(s, i) : i \in DOMAIN reads} = T
    BY <1>6, <1>10, <1>20, <2>3
  <2> QED BY <1>11, <2>3, <2>5, <2>6
<1>22. BusyTags' = Busy(ring', o, c) /\ BusyTags = Busy(s0, o, c)
  BY <1>2, <1>11 DEF BusyTags, Busy
<1>23. /\ Flow(ring', ops', cq', Asks') /\ Used(ring') = Used(ring) \cup T
       /\ Busy(ring', o, c) = Busy(s0, o, c) \cup T /\ Used(ring) \cap T = {}
  BY <1>2, <1>8, <1>9, <1>11, <1>21 DEF Opening, Queueing
<1>24. /\ Opened(ring') = Opened(ring) \cup {fh} /\ fh \notin Opened(ring) /\ fh \in Nat
       /\ ring'.files = s.files /\ ring'.fds = s.fds
  BY <1>2, <1>4, <1>9, <1>21 DEF Opening, Queueing, SameHandles, Opened
<1>25. \A h \in Opened(ring) : ring'.fds[ring'.files[h]] = ring.fds[ring.files[h]]
  BY <1>2, <1>9, <1>24 DEF Opening
<1>26. \A t \in DOMAIN ring.buf : ring'.buf[t] = ring.buf[t]
  BY <1>2, <1>9, <1>21 DEF Opening, Queueing, SameSlots
<1> QED BY <1>2, <1>3, <1>4, <1>5, <1>8, <1>12, <1>17, <1>19, <1>20, <1>22, <1>23, <1>24, <1>25, <1>26

\* The next file is taken in.
LEMMA PumpSample ==
    SampleInv /\ PumpFile => SampleInv'
<1> SUFFICES ASSUME SampleInv, PumpFile PROVE SampleInv'
  OBVIOUS
<1>1. Flow(ring, ops, cq, Asks) /\ FilesInv /\ TagsInv /\ HandlesInv /\ next_file <= Len(Group) /\ Room
  BY DEF SampleInv, PumpFile
<1>2. PICK n : n = Expected
  OBVIOUS
<1>3. n \in 1 .. 3 /\ n \in Nat /\ Cardinality(Regs) = n /\ DOMAIN Applicable = 1 .. n
  BY <1>2, RegionFacts
<1>4. PICK x : x = next_file
  OBVIOUS
<1>5. /\ x \in Index /\ x \in Nat /\ acc[x] \in AccRec /\ acc[x].submitted = 0
      /\ acc[x].arrived = 0 /\ DOMAIN acc[x].got = {} /\ ~Live(x)
      /\ \A t \in Used(ring) : t \in DOMAIN meta /\ meta[t].file_idx \in Index /\ meta[t].file_idx # x
  BY <1>1, <1>4, NextFileFacts
<1>6. PICK fh : fh = NewHandle(ring)
  OBVIOUS
<1>7. PICK T : T = {NextTag(ring, i) : i \in 1 .. n}
  OBVIOUS
<1>8. /\ Flow(ring', ops', cq', Asks')
      /\ \A t \in Used(ring) : Asks'[t] = Asks[t]
      /\ Used(ring') = Used(ring) \cup T /\ BusyTags' = BusyTags \cup T /\ Used(ring) \cap T = {}
      /\ Opened(ring') = Opened(ring) \cup {fh} /\ fh \notin Opened(ring) /\ fh \in Nat
      /\ ring'.fds[ring'.files[fh]] = Group[x]
      /\ \A h \in Opened(ring) : ring'.fds[ring'.files[h]] = ring.fds[ring.files[h]]
      /\ \A t \in DOMAIN ring.buf : ring'.buf[t] = ring.buf[t]
      /\ acc' = [acc EXCEPT ![x].handle = fh, ![x].submitted = n]
      /\ in_flight' = in_flight + n
  BY <1>2, <1>4, <1>6, <1>7, PumpFlow
<1>9. acc \in [Index -> AccRec]
  BY <1>1 DEF FilesInv
<1>10. /\ acc'[x].submitted = n /\ acc'[x].arrived = 0 /\ acc'[x].handle = fh
       /\ acc'[x].got = acc[x].got /\ acc'[x] \in AccRec
       /\ \A i \in Index \ {x} : acc'[i] = acc[i]
       /\ acc' \in [Index -> AccRec]
  BY <1>2, <1>5, <1>8, <1>9, ZenonT(60) DEF AccRec
<1>11. \A i \in Index \ {x} : Live(i)' <=> Live(i)
  BY <1>10 DEF Live
<1>12. Live(x)'
  BY <1>3, <1>10 DEF Live
<1>13. FilesInv'
  <2>1. next_file' = x + 1
    BY <1>4 DEF PumpFile
  <2>2. next_file' \in 1 .. Len(Group) + 1
    <3>1. PICK len \in Nat : len = Len(Group)
      BY PrefilterAssumption
    <3>2. x \in 1 .. len + 1 /\ x <= len
      BY <1>1, <1>4, <3>1 DEF FilesInv
    <3> QED BY <2>1, <3>1, <3>2
  <2>3. \A i \in Index : /\ acc'[i].arrived = Cardinality(DOMAIN acc'[i].got)
                         /\ acc'[i].submitted = 0 => DOMAIN acc'[i].got = {}
                         /\ i >= next_file' => acc'[i].submitted = 0
    <3>1. TAKE i \in Index
    <3>2. i \in Nat
      BY PrefilterAssumption DEF Index
    <3>3. CASE i = x
      <4>1. DOMAIN acc'[i].got = {} /\ acc'[i].arrived = 0
        BY <1>5, <1>10, <3>3
      <4>2. Cardinality(DOMAIN acc'[i].got) = 0
        BY <4>1, FS_EmptySet
      <4> QED BY <1>5, <2>1, <3>2, <3>3, <4>1, <4>2
    <3>4. CASE i # x
      <4>1. acc'[i] = acc[i] /\ (i >= next_file' => i >= next_file)
        BY <1>4, <1>5, <1>10, <2>1, <3>2, <3>4
      <4> QED BY <1>1, <4>1 DEF FilesInv
    <3> QED BY <3>3, <3>4
  <2> QED BY <1>10, <2>2, <2>3 DEF FilesInv
<1>14. /\ \A i \in 1 .. n : NextTag(ring, i) \in T /\ NextTag(ring, i) \in DOMAIN meta'
                            /\ meta'[NextTag(ring, i)] = [file_idx |-> x, region |-> Applicable[i]]
       /\ \A t \in T : \E i \in 1 .. n : t = NextTag(ring, i)
  <2>1. \A i \in 1 .. n : /\ NextTag(ring, i) \in DOMAIN meta'
                          /\ meta'[NextTag(ring, i)] = [file_idx |-> next_file, region |-> Applicable[i]]
    BY <1>2, PumpTags
  <2> QED BY <1>4, <1>7, <2>1
<1>15. \A t \in T : /\ t \in DOMAIN meta' /\ meta'[t].file_idx = x
                    /\ \E i \in 1 .. n : t = NextTag(ring, i) /\ meta'[t].region = Applicable[i]
  <2>1. TAKE t \in T
  <2>2. PICK i \in 1 .. n : t = NextTag(ring, i)
    BY <1>14
  <2>3. t \in DOMAIN meta' /\ meta'[t] = [file_idx |-> x, region |-> Applicable[i]]
    BY <1>14, <2>2
  <2> QED BY <2>2, <2>3
<1>16. \A t \in DOMAIN meta : t \in DOMAIN meta' /\ (meta'[t] = meta[t] \/ t \in T)
  <2>1. \A t \in DOMAIN meta : t \in DOMAIN meta' /\ (meta'[t] = meta[t] \/ \E i \in 1 .. n : t = NextTag(ring, i))
    BY <1>2, PumpTags
  <2> QED BY <1>14, <2>1
<1>17. \A t \in DOMAIN meta' : t \in DOMAIN meta \/ t \in T
  <2>1. \A t \in DOMAIN meta' : t \in DOMAIN meta \/ \E i \in 1 .. n : t = NextTag(ring, i)
    BY <1>2, PumpTags
  <2> QED BY <1>14, <2>1
<1>18. \A t \in Used(ring) : t \in DOMAIN meta /\ t \in DOMAIN meta' /\ meta'[t] = meta[t] /\ t \notin T
  BY <1>5, <1>8, <1>16
<1>19. HandlesInv'
  <2>1. \A i \in Index : Live(i)' => /\ acc'[i].handle \in Opened(ring')
                                     /\ ring'.fds[ring'.files[acc'[i].handle]] = Group[i]
    BY <1>1, <1>8, <1>10, <1>11 DEF HandlesInv
  <2>2. \A i \in Index \ {x} : Live(i)' => acc'[i].handle # fh
    BY <1>1, <1>8, <1>10, <1>11 DEF HandlesInv
  <2>3. \A i, j \in Index : Live(i)' /\ Live(j)' /\ acc'[i].handle = acc'[j].handle => i = j
    BY <1>1, <1>10, <1>11, <2>2 DEF HandlesInv
  <2>4. \A h \in Opened(ring') : \E i \in Index : Live(i)' /\ acc'[i].handle = h
    <3>1. TAKE h \in Opened(ring')
    <3>2. CASE h = fh
      BY <1>5, <1>10, <1>12, <3>2
    <3>3. CASE h \in Opened(ring)
      <4>1. PICK i \in Index : Live(i) /\ acc[i].handle = h
        BY <1>1, <3>3 DEF HandlesInv
      <4>2. i # x
        BY <1>5, <4>1
      <4> QED BY <1>10, <1>11, <4>1, <4>2
    <3> QED BY <1>8, <3>2, <3>3
  <2> QED BY <2>1, <2>3, <2>4 DEF HandlesInv
<1>20. \A t \in DOMAIN meta' : meta'[t] \in [file_idx : Index, region : Regs]
  <2>1. TAKE t \in DOMAIN meta'
  <2>2. CASE t \in T
    <3>1. PICK i \in 1 .. n : t = NextTag(ring, i)
      BY <1>14, <2>2
    <3>2. meta'[t] = [file_idx |-> x, region |-> Applicable[i]] /\ Applicable[i] \in Regs
      BY <1>3, <1>14, <3>1, RegionFacts
    <3> QED BY <1>5, <3>2
  <2>3. CASE t \notin T
    <3>1. t \in DOMAIN meta /\ meta'[t] = meta[t]
      BY <1>16, <1>17, <2>3
    <3> QED BY <1>1, <3>1 DEF TagsInv
  <2> QED BY <2>2, <2>3
<1>21. \A t \in Used(ring') : t \in DOMAIN meta' /\ Live(meta[t].file_idx)'
  <2>1. TAKE t \in Used(ring')
  <2>2. CASE t \in T
    <3>1. meta'[t].file_idx = x
      BY <1>15, <2>2
    <3>2. acc'[meta'[t].file_idx].arrived < acc'[meta'[t].file_idx].submitted
      BY <1>3, <1>10, <3>1
    <3> QED BY <1>15, <2>2, <3>2 DEF Live
  <2>3. CASE t \in Used(ring)
    <3>1. meta'[t] = meta[t] /\ meta[t].file_idx \in Index \ {x} /\ Live(meta[t].file_idx) /\ t \in DOMAIN meta'
      BY <1>1, <1>5, <1>18, <2>3 DEF TagsInv
    <3>2. acc'[meta'[t].file_idx] = acc[meta[t].file_idx]
      BY <1>10, <3>1
    <3> QED BY <3>1, <3>2 DEF Live
  <2> QED BY <1>8, <2>2, <2>3
<1>22. \A t, u \in Used(ring') : meta'[t] = meta'[u] => t = u
  <2>1. TAKE t, u \in Used(ring')
  <2>2. HAVE meta'[t] = meta'[u]
  <2>3. CASE t \in T /\ u \in T
    <3>1. PICK i, j \in 1 .. n : /\ t = NextTag(ring, i) /\ meta'[t].region = Applicable[i]
                                 /\ u = NextTag(ring, j) /\ meta'[u].region = Applicable[j]
      BY <1>15, <2>3
    <3>2. Applicable[i] = Applicable[j]
      BY <2>2, <3>1
    <3>3. i = j
      BY <1>3, <3>2, RegionFacts DEF IsInjective
    <3> QED BY <3>1, <3>3
  <2>4. ASSUME NEW a \in T, NEW b \in Used(ring) PROVE meta'[a] # meta'[b]
    BY <1>5, <1>15, <1>18
  <2>5. CASE t \in Used(ring) /\ u \in Used(ring)
    BY <1>1, <1>18, <2>2, <2>5 DEF TagsInv
  <2> QED BY <1>8, <2>2, <2>3, <2>4, <2>5
<1>23. \A i \in Index : Live(i)' => \A r \in Regs :
          \E t \in Used(ring') : meta'[t].file_idx = i /\ meta'[t].region = r
  <2>1. TAKE i \in Index
  <2>2. HAVE Live(i)'
  <2>3. TAKE r \in Regs
  <2>4. CASE i = x
    <3>1. PICK j \in 1 .. n : r = Applicable[j]
      BY <1>3 DEF Regs, ToSet
    <3>2. /\ NextTag(ring, j) \in Used(ring') /\ meta'[NextTag(ring, j)].file_idx = x
          /\ meta'[NextTag(ring, j)].region = r
      <4>1. PICK t \in T : t = NextTag(ring, j)
        BY <1>14
      <4>2. meta'[t] = [file_idx |-> x, region |-> Applicable[j]] /\ t \in Used(ring')
        BY <1>8, <1>14, <4>1
      <4> QED BY <3>1, <4>1, <4>2
    <3> QED BY <2>4, <3>2
  <2>5. CASE i # x
    <3>1. Live(i)
      BY <1>11, <2>2, <2>5
    <3>2. PICK t \in Used(ring) : meta[t].file_idx = i /\ meta[t].region = r
      BY <1>1, <3>1 DEF TagsInv
    <3> QED BY <1>8, <1>18, <3>2
  <2> QED BY <2>4, <2>5
<1>24. \A t \in Used(ring') : LET got == acc'[meta'[t].file_idx].got r == meta'[t].region IN
          /\ r \in DOMAIN got => /\ got[r].tag = t /\ t \notin BusyTags'
                                 /\ Served(ring', Asks'[t], got[r])
          /\ r \notin DOMAIN got => t \in BusyTags'
  <2>1. TAKE t \in Used(ring')
  <2>2. CASE t \in T
    <3>1. meta'[t].file_idx = x /\ t \in BusyTags' /\ DOMAIN acc'[x].got = {}
      BY <1>5, <1>8, <1>10, <1>15, <2>2
    <3> QED BY <3>1
  <2>3. CASE t \in Used(ring)
    <3>1. PICK i, r : i = meta[t].file_idx /\ r = meta[t].region
      OBVIOUS
    <3>2. meta'[t] = meta[t] /\ i \in Index \ {x} /\ t \notin T
      BY <1>5, <1>18, <2>3, <3>1
    <3>3. acc'[i] = acc[i] /\ Asks'[t] = Asks[t]
      BY <1>8, <1>10, <2>3, <3>2
    <3>4. /\ r \in DOMAIN acc[i].got => /\ acc[i].got[r].tag = t /\ t \notin BusyTags
                                        /\ Served(ring, Asks[t], acc[i].got[r])
          /\ r \notin DOMAIN acc[i].got => t \in BusyTags
      BY <1>1, <2>3, <3>1 DEF TagsInv
    <3>5. t \in DOMAIN ring.buf /\ ring'.buf[t] = ring.buf[t]
      BY <1>8, <2>3 DEF Used
    <3>6. r \in DOMAIN acc[i].got => Served(ring', Asks[t], acc[i].got[r])
      BY <3>4, <3>5 DEF Served
    <3>7. t \in BusyTags' <=> t \in BusyTags
      BY <1>8, <3>2
    <3> QED BY <3>1, <3>2, <3>3, <3>4, <3>6, <3>7
  <2> QED BY <1>8, <2>2, <2>3
<1>25. IsFiniteSet(T) /\ Cardinality(T) = n
  <2>1. PICK g : g = [i \in 1 .. n |-> NextTag(ring, i)]
    OBVIOUS
  <2>2. \A i, j \in 1 .. n : NextTag(ring, i) = NextTag(ring, j) => i = j
    BY <1>2, PumpTags
  <2>3. DOMAIN g = 1 .. n /\ g = [i \in 1 .. n |-> g[i]] /\ \A i, j \in 1 .. n : g[i] = g[j] => i = j
    BY <2>1, <2>2
  <2>4. IsFiniteSet({g[i] : i \in 1 .. n}) /\ Cardinality({g[i] : i \in 1 .. n}) = n
    BY <1>3, <2>3, Numbered
  <2> QED BY <1>7, <2>1, <2>4
<1>26. IsFiniteSet(Used(ring')) /\ in_flight' = Cardinality(Used(ring')) /\ in_flight' <= WINDOW
  <2>1. IsFiniteSet(Used(ring)) /\ in_flight = Cardinality(Used(ring))
    BY <1>1 DEF TagsInv
  <2>2. /\ IsFiniteSet(Used(ring) \cup T)
        /\ Cardinality(Used(ring) \cup T) = Cardinality(Used(ring)) + Cardinality(T)
    BY <1>8, <1>25, <2>1, ApartCounted
  <2>3. in_flight + n <= WINDOW
    BY <1>1, <1>2 DEF Room
  <2> QED BY <1>8, <1>25, <2>1, <2>2, <2>3
<1>27. TagsInv'
  BY <1>20, <1>21, <1>22, <1>23, <1>24, <1>26 DEF TagsInv
<1> QED BY <1>8, <1>13, <1>19, <1>27 DEF SampleInv

\* A file that cannot be opened is passed over.
LEMMA SkipSample ==
    SampleInv /\ PumpUnopenable => SampleInv'
<1> SUFFICES ASSUME SampleInv, PumpUnopenable PROVE SampleInv'
  OBVIOUS
<1>1. Flow(ring, ops, cq, Asks) /\ FilesInv /\ TagsInv /\ HandlesInv /\ next_file <= Len(Group)
  BY DEF SampleInv, PumpUnopenable
<1>2. next_file \in Index /\ acc[next_file] \in AccRec /\ acc[next_file].submitted = 0
  BY <1>1, NextFileFacts
<1>3. acc \in [Index -> AccRec]
  BY <1>1 DEF FilesInv
<1>4. acc' = acc
  <2>1. acc' = [acc EXCEPT ![next_file].submitted = 0]
    BY DEF PumpUnopenable
  <2>2. PICK a \in AccRec : a = acc[next_file] /\ a.submitted = 0
    BY <1>2
  <2>3. [a EXCEPT !.submitted = 0] = a
    BY <2>2 DEF AccRec
  <2>4. acc' = [acc EXCEPT ![next_file] = a]
    BY <2>1, <2>2, <2>3
  <2> QED BY <1>2, <1>3, <2>2, <2>4
<1>5. UNCHANGED <<ring, ops, cq, meta, in_flight>> /\ next_file' = next_file + 1
  BY DEF PumpUnopenable, ring_vars
<1>6. FilesInv'
  <2>1. PICK len \in Nat : len = Len(Group) /\ Index = 1 .. len
    BY PrefilterAssumption DEF Index
  <2>2. next_file' \in 1 .. Len(Group) + 1
    BY <1>1, <1>5, <2>1 DEF FilesInv
  <2>3. \A i \in Index : i >= next_file' => i >= next_file
    BY <1>2, <1>5, <2>1
  <2> QED BY <1>1, <1>4, <2>2, <2>3 DEF FilesInv
<1>7. Asks' = Asks /\ BusyTags' = BusyTags
  BY <1>4, <1>5 DEF Asks, BusyTags
<1>8. \A i \in Index : Live(i)' <=> Live(i)
  BY <1>4 DEF Live
<1>9. HandlesInv'
  BY <1>1, <1>4, <1>5, <1>8 DEF HandlesInv
<1>10. TagsInv'
  <2>1. \A t \in Used(ring) : meta[t].file_idx \in Index
    BY <1>1 DEF TagsInv
  <2> QED BY <1>1, <1>4, <1>5, <1>7, <1>8, <2>1 DEF TagsInv
<1> QED BY <1>1, <1>5, <1>6, <1>7, <1>9, <1>10 DEF SampleInv

\* Nothing of it changes.
LEMMA SampleSame ==
    SampleInv /\ UNCHANGED <<ring_vars, meta, acc, next_file, in_flight>> => SampleInv'
<1> SUFFICES ASSUME SampleInv, UNCHANGED <<ring_vars, meta, acc, next_file, in_flight>>
             PROVE  SampleInv'
  OBVIOUS
<1>1. Flow(ring, ops, cq, Asks) /\ UNCHANGED <<ring, ops, cq>>
  BY DEF SampleInv, ring_vars
<1>2. /\ Flow(ring', ops', cq', Asks) /\ Used(ring') = Used(ring) /\ BusyTags' = BusyTags
      /\ SameHandles(ring, ring')
      /\ \A t \in Used(ring) \ BusyTags : ring.buf[t] = ring'.buf[t]
  BY <1>1 DEF BusyTags, SameHandles
<1> QED BY <1>2, SampleKept

\* A sample that is back: it was asked for, and its file waits for it.
LEMMA SampleBack ==
    ASSUME SampleInv, NEW k \in Passed, NextTake(k)
    PROVE  /\ Taking(ring, ops, cq, Asks, Taken(ring, k), ops') /\ cq' = Tail(cq) /\ Done = Head(cq)
           /\ Done \in Completion /\ Done.tag \in BusyTags /\ Done.tag \in Used(ring)
           /\ Done.tag \in DOMAIN meta
           /\ Fid \in Index /\ Live(Fid) /\ meta[Done.tag].region \in Regs
           /\ meta[Done.tag].region \notin DOMAIN acc[Fid].got
           /\ Gathered \in AccRec /\ Gathered.submitted = acc[Fid].submitted
           /\ acc[Fid].submitted = Expected /\ acc[Fid].arrived \in Nat
           /\ Gathered.handle = acc[Fid].handle /\ Gathered.arrived = acc[Fid].arrived + 1
           /\ DOMAIN Gathered.got = DOMAIN acc[Fid].got \cup {meta[Done.tag].region}
           /\ Gathered.got[meta[Done.tag].region] = Done
           /\ \A r \in DOMAIN acc[Fid].got : Gathered.got[r] = acc[Fid].got[r]
           /\ Gathered.arrived = Cardinality(DOMAIN Gathered.got)
<1>1. Flow(ring, ops, cq, Asks) /\ FilesInv /\ TagsInv
  BY DEF SampleInv
<1>2. Taking(ring, ops, cq, Asks, Taken(ring, k), ops') /\ cq' = Tail(cq) /\ Done = Head(cq)
  BY <1>1, TakeFlow
<1>3. Done \in Completion /\ Done.tag \in Busy(ring, ops, cq)
  BY <1>2 DEF Taking
<1>4. Busy(ring, ops, cq) \subseteq Used(ring) /\ BusyTags = Busy(ring, ops, cq)
  BY <1>1, FlowFacts DEF BusyTags, Busy
<1>5. PICK t : t = Done.tag
  OBVIOUS
<1>6. PICK i, r0 : i = meta[t].file_idx /\ r0 = meta[t].region
  OBVIOUS
<1>7. t \in BusyTags /\ t \in Used(ring) /\ t \in DOMAIN meta /\ i \in Index /\ Live(i) /\ r0 \in Regs
  BY <1>1, <1>3, <1>4, <1>5, <1>6 DEF TagsInv
<1>8. r0 \notin DOMAIN acc[i].got
  BY <1>1, <1>6, <1>7 DEF TagsInv
<1>9. PICK a \in AccRec : a = acc[i] /\ a.arrived = Cardinality(DOMAIN a.got)
  BY <1>1, <1>7 DEF FilesInv
<1>10. PICK R \in SUBSET Regs : a.got \in [R -> Completion]
  BY <1>9 DEF AccRec
<1>11. PICK d \in Completion : d = Done /\ d = [tag |-> Done.tag, res |-> Done.res]
  BY <1>3 DEF Completion
<1>12. PICK got : got = With(a.got, r0, d)
  OBVIOUS
<1>13. /\ DOMAIN got = R \cup {r0} /\ got[r0] = d /\ \A r \in R : got[r] = a.got[r]
       /\ got \in [R \cup {r0} -> Completion]
  BY <1>8, <1>9, <1>10, <1>12 DEF With
<1>14. Gathered = [a EXCEPT !.got = got, !.arrived = @ + 1]
  BY <1>5, <1>6, <1>9, <1>11, <1>12 DEF Gathered, Fid
<1>15. a.arrived \in Nat /\ a.submitted \in {0, Expected} /\ a.handle \in Nat
  BY <1>9 DEF AccRec
<1>16. got \in UNION {[Q -> Completion] : Q \in SUBSET Regs}
  BY <1>7, <1>13
<1>17. /\ Gathered \in AccRec /\ Gathered.submitted = a.submitted /\ Gathered.handle = a.handle
       /\ Gathered.arrived = a.arrived + 1 /\ Gathered.got = got
  <2>1. PICK m \in Nat : m = a.arrived + 1
    BY <1>15
  <2>2. Gathered = [a EXCEPT !.got = got, !.arrived = m]
    BY <1>14, <2>1
  <2> QED BY <1>9, <1>16, <2>1, <2>2 DEF AccRec
<1>18. a.submitted = Expected
  <2>1. a.arrived < a.submitted
    BY <1>7, <1>9 DEF Live
  <2> QED BY <1>15, <2>1
<1>19. Cardinality(R \cup {r0}) = a.arrived + 1
  <2>1. IsFiniteSet(R)
    BY RegionFacts, FS_Subset
  <2>2. r0 \notin R /\ a.arrived = Cardinality(R)
    BY <1>8, <1>9, <1>10
  <2> QED BY <2>1, <2>2, FS_AddElement
<1> QED BY <1>2, <1>3, <1>5, <1>6, <1>7, <1>8, <1>9, <1>10, <1>11, <1>13, <1>15, <1>17, <1>18, <1>19 DEF Fid

\* What is held and what is outstanding of each file, once a sample is back.
LEMMA GatheredTags ==
    ASSUME SampleInv, NEW k \in Passed, NextTake(k), acc' = [acc EXCEPT ![Fid] = Gathered]
    PROVE  /\ \A i \in Index \ {Fid} : acc'[i] = acc[i]
           /\ acc'[Fid] = Gathered /\ acc' \in [Index -> AccRec]
           /\ \A t \in Used(ring) :
                 LET got == acc'[meta[t].file_idx].got r == meta[t].region IN
                 /\ r \in DOMAIN got => /\ got[r].tag = t /\ t \notin BusyTags \ {Done.tag}
                                        /\ Served(Taken(ring, k), Asks[t], got[r])
                 /\ r \notin DOMAIN got => t \in BusyTags \ {Done.tag}
           /\ \A i \in Index : /\ acc'[i].handle = acc[i].handle
                               /\ acc'[i].arrived = Cardinality(DOMAIN acc'[i].got)
                               /\ acc'[i].submitted = 0 => DOMAIN acc'[i].got = {}
                               /\ i >= next_file => acc'[i].submitted = 0
<1>1. FilesInv /\ TagsInv
  BY DEF SampleInv
<1>2. PICK x, g, d : x = Fid /\ g = Gathered /\ d = Done
  OBVIOUS
<1>3. PICK r0 : r0 = meta[d.tag].region
  OBVIOUS
<1>4. /\ d \in Completion /\ d.tag \in BusyTags /\ d.tag \in Used(ring) /\ d.tag \in DOMAIN meta
      /\ x \in Index /\ Live(x) /\ r0 \in Regs /\ r0 \notin DOMAIN acc[x].got
      /\ g \in AccRec /\ g.submitted = acc[x].submitted /\ acc[x].submitted = Expected
      /\ g.handle = acc[x].handle
      /\ DOMAIN g.got = DOMAIN acc[x].got \cup {r0} /\ g.got[r0] = d
      /\ \A r \in DOMAIN acc[x].got : g.got[r] = acc[x].got[r]
      /\ g.arrived = Cardinality(DOMAIN g.got)
  BY <1>2, <1>3, SampleBack
<1>5. PICK W, s : W = Asks /\ s = Taken(ring, k)
  OBVIOUS
<1>6. Served(s, W[d.tag], d) /\ s.buf = ring.buf
  <2>1. Taking(ring, ops, cq, W, s, ops') /\ d = Head(cq)
    BY <1>2, <1>5, SampleBack
  <2> QED BY <2>1 DEF Taking, SameTables, SameSlots
<1>7. acc \in [Index -> AccRec] /\ x = meta[d.tag].file_idx
  BY <1>1, <1>2 DEF FilesInv, Fid
<1>8. /\ \A i \in Index \ {x} : acc'[i] = acc[i]
      /\ acc'[x] = g /\ acc' \in [Index -> AccRec]
  BY <1>2, <1>4, <1>7
<1>9. \A t \in Used(ring) :
         LET got == acc'[meta[t].file_idx].got r == meta[t].region IN
         /\ r \in DOMAIN got => got[r].tag = t /\ t \notin BusyTags \ {d.tag} /\ Served(s, W[t], got[r])
         /\ r \notin DOMAIN got => t \in BusyTags \ {d.tag}
  <2>1. TAKE t \in Used(ring)
  <2>2. PICK i, r : i = meta[t].file_idx /\ r = meta[t].region
    OBVIOUS
  <2>3. /\ r \in DOMAIN acc[i].got => /\ acc[i].got[r].tag = t /\ t \notin BusyTags
                                      /\ Served(ring, W[t], acc[i].got[r])
        /\ r \notin DOMAIN acc[i].got => t \in BusyTags
        /\ i \in Index
    BY <1>1, <1>5, <2>2 DEF TagsInv
  <2>4. r \in DOMAIN acc[i].got => Served(s, W[t], acc[i].got[r])
    BY <1>6, <2>3 DEF Served
  <2>5. CASE i # x
    <3>1. acc'[i] = acc[i] /\ t # d.tag
      BY <1>7, <1>8, <2>2, <2>3, <2>5
    <3> QED BY <2>2, <2>3, <2>4, <3>1
  <2>6. CASE i = x /\ r = r0
    <3>1. t = d.tag
      <4>1. meta[t] \in [file_idx : Index, region : Regs] /\ meta[d.tag] \in [file_idx : Index, region : Regs]
        BY <1>1, <1>4, <2>1 DEF TagsInv
      <4>2. meta[t] = meta[d.tag]
        <5>1. PICK m, w \in [file_idx : Index, region : Regs] : m = meta[t] /\ w = meta[d.tag]
          BY <4>1
        <5>2. m.file_idx = w.file_idx /\ m.region = w.region
          BY <1>3, <1>7, <2>2, <2>6, <5>1
        <5> QED BY <5>1, <5>2
      <4> QED BY <1>1, <1>4, <4>2 DEF TagsInv
    <3>2. acc'[i].got = g.got /\ r \in DOMAIN g.got /\ g.got[r] = d
      BY <1>4, <1>8, <2>6
    <3> QED BY <1>6, <2>2, <3>1, <3>2
  <2>7. CASE i = x /\ r # r0
    <3>1. t # d.tag
      BY <1>3, <2>2, <2>7
    <3>2. acc'[i].got = g.got
      BY <1>8, <2>7
    <3>3. (r \in DOMAIN g.got <=> r \in DOMAIN acc[i].got) /\ (r \in DOMAIN g.got => g.got[r] = acc[i].got[r])
      BY <1>4, <2>7
    <3> QED BY <2>2, <2>3, <2>4, <3>1, <3>2, <3>3
  <2> QED BY <2>5, <2>6, <2>7
<1>10. \A i \in Index : /\ acc'[i].handle = acc[i].handle
                        /\ acc'[i].arrived = Cardinality(DOMAIN acc'[i].got)
                        /\ acc'[i].submitted = 0 => DOMAIN acc'[i].got = {}
                        /\ i >= next_file => acc'[i].submitted = 0
  <2>1. TAKE i \in Index
  <2>2. CASE i # x
    BY <1>1, <1>8, <2>2 DEF FilesInv
  <2>3. CASE i = x
    <3>1. Expected # 0
      BY RegionFacts
    <3>2. i >= next_file => acc[i].submitted = 0
      BY <1>1 DEF FilesInv
    <3> QED BY <1>4, <1>8, <2>3, <3>1, <3>2
  <2> QED BY <2>2, <2>3
<1> QED BY <1>2, <1>5, <1>8, <1>9, <1>10

\* A sample comes back and its file waits for more.
LEMMA TakeSampleKept ==
    SampleInv /\ TakeSample => SampleInv'
<1> SUFFICES ASSUME SampleInv, TakeSample PROVE SampleInv'
  OBVIOUS
<1>1. Flow(ring, ops, cq, Asks) /\ FilesInv /\ TagsInv /\ HandlesInv
  BY DEF SampleInv
<1>2. PICK k \in Passed : NextTake(k) /\ ~AllBack(Gathered) /\ ring' = Taken(ring, k)
  BY DEF TakeSample
<1>3. /\ acc' = [acc EXCEPT ![Fid] = Gathered]
      /\ meta' = meta /\ next_file' = next_file /\ in_flight' = in_flight
  BY DEF TakeSample
<1>4. PICK x, t0 : x = Fid /\ t0 = Done.tag
  OBVIOUS
<1>5. /\ Taking(ring, ops, cq, Asks, ring', ops') /\ cq' = Tail(cq) /\ Done = Head(cq)
      /\ x \in Index /\ Live(x) /\ Gathered.submitted = acc[x].submitted /\ acc[x].submitted = Expected
      /\ acc[x].arrived \in Nat /\ Gathered.arrived = acc[x].arrived + 1
  BY <1>2, <1>4, SampleBack
<1>6. /\ \A i \in Index \ {x} : acc'[i] = acc[i]
      /\ acc'[x] = Gathered /\ acc' \in [Index -> AccRec]
      /\ \A t \in Used(ring) :
            LET got == acc'[meta[t].file_idx].got r == meta[t].region IN
            /\ r \in DOMAIN got => /\ got[r].tag = t /\ t \notin BusyTags \ {t0}
                                   /\ Served(ring', Asks[t], got[r])
            /\ r \notin DOMAIN got => t \in BusyTags \ {t0}
      /\ \A i \in Index : /\ acc'[i].handle = acc[i].handle
                          /\ acc'[i].arrived = Cardinality(DOMAIN acc'[i].got)
                          /\ acc'[i].submitted = 0 => DOMAIN acc'[i].got = {}
                          /\ i >= next_file => acc'[i].submitted = 0
  BY <1>2, <1>3, <1>4, GatheredTags
<1>7. /\ Flow(ring', ops', cq', Asks) /\ Used(ring') = Used(ring) /\ Opened(ring') = Opened(ring)
      /\ ring'.fds = ring.fds /\ ring'.files = ring.files
      /\ Busy(ring', ops', cq') = Busy(ring, ops, cq) \ {t0}
  BY <1>4, <1>5 DEF Taking, SameTables, SameSlots, SameHandles, Used, Opened
<1>8. BusyTags' = BusyTags \ {t0} /\ BusyTags = Busy(ring, ops, cq)
  BY <1>7 DEF BusyTags, Busy
<1>9. \A i \in Index : Live(i)' <=> Live(i)
  <2>1. Live(x)' <=> Live(x)
    <3>1. acc[x].arrived + 1 < acc[x].submitted
      <4>1. acc[x].arrived + 1 # acc[x].submitted /\ acc[x].arrived < acc[x].submitted
        BY <1>2, <1>5 DEF AllBack, Live
      <4>2. acc[x].submitted \in Nat
        BY <1>5, RegionFacts
      <4> QED BY <1>5, <4>1, <4>2
    <3> QED BY <1>5, <1>6, <3>1 DEF Live
  <2> QED BY <1>6, <2>1 DEF Live
<1>10. \A t \in Used(ring) : t \in Nat /\ meta[t].file_idx \in Index /\ Asks'[t] = Asks[t]
  <2>1. Used(ring) \subseteq Nat
    BY <1>1, FlowFacts
  <2>2. \A t \in Used(ring) : meta[t].file_idx \in Index
    BY <1>1 DEF TagsInv
  <2> QED BY <1>3, <1>6, <2>1, <2>2 DEF Asks
<1>11. Flow(ring', ops', cq', Asks')
  <2>1. \A t \in Busy(ring', ops', cq') : Asks'[t] = Asks[t]
    BY <1>1, <1>7, <1>10, FlowFacts
  <2> QED BY <1>7, <2>1, Agreed
<1>12. FilesInv'
  BY <1>1, <1>3, <1>6 DEF FilesInv
<1>13. HandlesInv'
  BY <1>1, <1>6, <1>7, <1>9 DEF HandlesInv
<1>14. TagsInv'
  <2>1. \A t \in DOMAIN meta : meta[t] \in [file_idx : Index, region : Regs]
    BY <1>1 DEF TagsInv
  <2>2. \A t \in Used(ring) : t \in DOMAIN meta /\ Live(meta[t].file_idx)'
    <3>1. TAKE t \in Used(ring)
    <3>2. PICK i \in Index : i = meta[t].file_idx /\ t \in DOMAIN meta /\ Live(i)
      BY <1>1, <1>10 DEF TagsInv
    <3>3. acc'[i].arrived < acc'[i].submitted /\ meta'[t].file_idx = i
      BY <1>3, <1>9, <3>2 DEF Live
    <3> QED BY <3>2, <3>3 DEF Live
  <2>3. \A t, u \in Used(ring) : meta[t] = meta[u] => t = u
    BY <1>1 DEF TagsInv
  <2>4. \A i \in Index : Live(i)' => \A r \in Regs : \E t \in Used(ring) : meta[t].file_idx = i /\ meta[t].region = r
    BY <1>1, <1>9 DEF TagsInv
  <2>5. \A t \in Used(ring) :
            LET got == acc'[meta[t].file_idx].got r == meta[t].region IN
            /\ r \in DOMAIN got => got[r].tag = t /\ t \notin BusyTags' /\ Served(ring', Asks'[t], got[r])
            /\ r \notin DOMAIN got => t \in BusyTags'
    BY <1>6, <1>8, <1>10
  <2>6. IsFiniteSet(Used(ring)) /\ in_flight = Cardinality(Used(ring)) /\ in_flight <= WINDOW
    BY <1>1 DEF TagsInv
  <2> QED BY <1>3, <1>7, <2>1, <2>2, <2>3, <2>4, <2>5, <2>6 DEF TagsInv
<1> QED BY <1>11, <1>12, <1>13, <1>14 DEF SampleInv

\* A sequence without repetition is as long as it has elements.
LEMMA OnceEach ==
    ASSUME NEW S, NEW u, u \in Seq(S), IsInjective(u)
    PROVE  IsFiniteSet(ToSet(u)) /\ Cardinality(ToSet(u)) = Len(u)
<1>1. PICK n \in Nat : n = Len(u) /\ DOMAIN u = 1 .. n
  OBVIOUS
<1>2. PICK f : f = [i \in 1 .. n |-> u[i]]
  OBVIOUS
<1>3. \A i, j \in 1 .. n : f[i] = f[j] => i = j
  BY <1>1, <1>2 DEF IsInjective
<1>4. DOMAIN f = 1 .. n /\ f = [i \in 1 .. n |-> f[i]]
  BY <1>2
<1>5. IsFiniteSet({f[i] : i \in 1 .. n}) /\ Cardinality({f[i] : i \in 1 .. n}) = n
  BY <1>3, <1>4, Numbered
<1>6. ToSet(u) = {f[i] : i \in 1 .. n}
  BY <1>1, <1>2 DEF ToSet
<1> QED BY <1>1, <1>5, <1>6

\* Three sequences one after another.
LEMMA JoinedApart ==
    ASSUME NEW s, NEW t, NEW u, s \in Seq(Nat), t \in Seq(Nat), u \in Seq(Nat),
           IsInjective(s), IsInjective(t), IsInjective(u),
           ToSet(s) \cap ToSet(t) = {}, (ToSet(s) \cup ToSet(t)) \cap ToSet(u) = {}
    PROVE  /\ (s \o t) \o u \in Seq(Nat) /\ IsInjective((s \o t) \o u)
           /\ ToSet((s \o t) \o u) = (ToSet(s) \cup ToSet(t)) \cup ToSet(u)
<1>1. PICK v : v = s \o t
  OBVIOUS
<1>2. v \in Seq(Nat) /\ ToSet(v) = ToSet(s) \cup ToSet(t)
  BY <1>1, Joined
<1>3. IsInjective(v)
  BY <1>1, Joined
<1>4. ToSet(v) \cap ToSet(u) = {}
  BY <1>2
<1>5. v \o u \in Seq(Nat) /\ ToSet(v \o u) = ToSet(v) \cup ToSet(u)
  BY <1>2, Joined
<1>6. IsInjective(v \o u)
  BY <1>2, <1>3, <1>4, Joined
<1> QED BY <1>1, <1>2, <1>5, <1>6

\* The tags of a file are released once each.
LEMMA HeldFacts ==
    ASSUME NEW a, NEW R \in SUBSET Region, a.got \in [R -> Completion],
           \A r, q \in R : a.got[r].tag = a.got[q].tag => r = q
    PROVE  /\ HeldTags(a) \in Seq(Nat) /\ IsInjective(HeldTags(a))
           /\ ToSet(HeldTags(a)) = {a.got[r].tag : r \in R}
           /\ Len(HeldTags(a)) = Cardinality(ToSet(HeldTags(a)))
<1>1. PICK f : f = [r \in R |-> a.got[r].tag]
  OBVIOUS
<1>2. \A r \in R : f[r] \in Nat /\ f[r] = a.got[r].tag
  BY <1>1 DEF Completion
<1>3. \A r, q \in R : f[r] = f[q] => r = q
  BY <1>2
<1> DEFINE t(r) == HeldTag(a, r)
<1>4. ASSUME NEW r \in Region
      PROVE  /\ t(r) \in Seq(Nat) /\ IsInjective(t(r))
             /\ r \in R => ToSet(t(r)) = {f[r]}
             /\ r \notin R => ToSet(t(r)) = {}
  <2>1. CASE r \in R
    <3>1. PICK n \in Nat : n = a.got[r].tag /\ n = f[r]
      BY <1>2, <2>1
    <3>2. t(r) = <<n>>
      BY <2>1, <3>1 DEF HeldTag
    <3>3. DOMAIN <<n>> = {1} /\ <<n>>[1] = n /\ <<n>> \in Seq(Nat)
      OBVIOUS
    <3>4. ToSet(<<n>>) = {n} /\ IsInjective(<<n>>)
      BY <3>3 DEF ToSet, IsInjective
    <3> HIDE DEF t
    <3> QED BY <2>1, <3>1, <3>2, <3>3, <3>4
  <2>2. CASE r \notin R
    <3>1. t(r) = <<>>
      BY <2>2 DEF HeldTag
    <3> HIDE DEF t
    <3> QED BY <2>2, <3>1, NoElements
  <2> QED BY <2>1, <2>2
<1>5. HeldTags(a) = (t(0) \o t(1)) \o t(2)
  BY DEF HeldTags
<1> HIDE DEF t
<1>6. 0 \in Region /\ 1 \in Region /\ 2 \in Region /\ Region = {0, 1, 2}
  BY DEF Region
<1>7. ToSet(t(0)) \cap ToSet(t(1)) = {} /\ (ToSet(t(0)) \cup ToSet(t(1))) \cap ToSet(t(2)) = {}
  <2>1. ASSUME NEW r \in Region, NEW q \in Region, r # q
        PROVE  ToSet(t(r)) \cap ToSet(t(q)) = {}
    <3>1. CASE r \in R /\ q \in R
      BY <1>3, <1>4, <2>1, <3>1
    <3>2. CASE r \notin R
      BY <1>4, <3>2
    <3>3. CASE q \notin R
      BY <1>4, <3>3
    <3> QED BY <3>1, <3>2, <3>3
  <2>2. /\ ToSet(t(0)) \cap ToSet(t(1)) = {} /\ ToSet(t(0)) \cap ToSet(t(2)) = {}
        /\ ToSet(t(1)) \cap ToSet(t(2)) = {}
    BY <1>6, <2>1
  <2> QED BY <2>2
<1>8. PICK t0, t1, t2 : t0 = t(0) /\ t1 = t(1) /\ t2 = t(2)
  OBVIOUS
<1>9. /\ t0 \in Seq(Nat) /\ t1 \in Seq(Nat) /\ t2 \in Seq(Nat)
      /\ IsInjective(t0) /\ IsInjective(t1) /\ IsInjective(t2)
      /\ ToSet(t0) \cap ToSet(t1) = {} /\ (ToSet(t0) \cup ToSet(t1)) \cap ToSet(t2) = {}
  BY <1>4, <1>6, <1>7, <1>8
<1>10. PICK u : u = (t0 \o t1) \o t2
  OBVIOUS
<1>11. u \in Seq(Nat) /\ IsInjective(u) /\ ToSet(u) = (ToSet(t0) \cup ToSet(t1)) \cup ToSet(t2)
  <2>1. t0 \in Seq(Nat) /\ t1 \in Seq(Nat) /\ t2 \in Seq(Nat)
    BY <1>9
  <2>2. IsInjective(t0) /\ IsInjective(t1) /\ IsInjective(t2)
    BY <1>9
  <2>3. ToSet(t0) \cap ToSet(t1) = {} /\ (ToSet(t0) \cup ToSet(t1)) \cap ToSet(t2) = {}
    BY <1>9
  <2>4. (t0 \o t1) \o t2 \in Seq(Nat)
    BY <2>1, <2>2, <2>3, JoinedApart
  <2>5. IsInjective((t0 \o t1) \o t2)
    BY <2>1, <2>2, <2>3, JoinedApart
  <2>6. ToSet((t0 \o t1) \o t2) = (ToSet(t0) \cup ToSet(t1)) \cup ToSet(t2)
    BY <2>1, <2>2, <2>3, JoinedApart
  <2> QED BY <1>10, <2>4, <2>5, <2>6
<1>12. ToSet(u) = {f[r] : r \in R}
  <2>1. \A x \in ToSet(u) : \E r \in R : x = f[r]
    BY <1>4, <1>6, <1>8, <1>11
  <2>2. \A r \in R : f[r] \in ToSet(u)
    <3>1. TAKE r \in R
    <3>2. r = 0 \/ r = 1 \/ r = 2
      BY <1>6
    <3>3. f[r] \in ToSet(t(r))
      BY <1>4
    <3> QED BY <1>8, <1>11, <3>2, <3>3
  <2> QED BY <2>1, <2>2
<1>13. {f[r] : r \in R} = {a.got[r].tag : r \in R}
  <2>1. \A r \in R : f[r] = a.got[r].tag
    BY <1>2
  <2> QED BY <2>1
<1>14. Cardinality(ToSet(u)) = Len(u)
  BY <1>11, OnceEach
<1>15. HeldTags(a) = u
  BY <1>5, <1>8, <1>10
<1> QED BY <1>11, <1>12, <1>13, <1>14, <1>15

\* The tags of a file whose last sample is back are the ones it was given.
LEMMA LastTags ==
    ASSUME SampleInv, NEW k \in Passed, NextTake(k), AllBack(Gathered),
           acc' = [acc EXCEPT ![Fid] = Gathered]
    PROVE  /\ HeldTags(Gathered) \in Seq(Nat) /\ IsInjective(HeldTags(Gathered))
           /\ ToSet(HeldTags(Gathered)) = {t \in Used(ring) : meta[t].file_idx = Fid}
           /\ Len(HeldTags(Gathered)) = Cardinality(ToSet(HeldTags(Gathered)))
           /\ ToSet(HeldTags(Gathered)) \cap (BusyTags \ {Done.tag}) = {}
           /\ DOMAIN Gathered.got = Regs
<1>1. TagsInv
  BY DEF SampleInv
<1>2. PICK x, g, d : x = Fid /\ g = Gathered /\ d = Done
  OBVIOUS
<1>3. /\ x \in Index /\ Live(x) /\ g \in AccRec /\ g.submitted = Expected
      /\ g.arrived = Cardinality(DOMAIN g.got)
  <2>1. Fid \in Index /\ Live(Fid)
    BY SampleBack
  <2>2. Gathered \in AccRec /\ Gathered.submitted = acc[Fid].submitted /\ acc[Fid].submitted = Expected
    BY SampleBack
  <2>3. Gathered.arrived = Cardinality(DOMAIN Gathered.got)
    BY SampleBack
  <2> QED BY <1>2, <2>1, <2>2, <2>3
<1>4. PICK R \in SUBSET Regs : g.got \in [R -> Completion] /\ DOMAIN g.got = R
  BY <1>3 DEF AccRec
<1>5. R = Regs
  <2>1. Cardinality(R) = Expected
    BY <1>2, <1>3, <1>4 DEF AllBack
  <2>2. IsFiniteSet(Regs) /\ Cardinality(Regs) = Expected
    BY RegionFacts
  <2> QED BY <2>1, <2>2, FS_Subset
<1>6. \A t \in Used(ring) : meta[t].file_idx = x =>
          g.got[meta[t].region].tag = t /\ t \notin BusyTags \ {d.tag} /\ meta[t].region \in Regs
  <2>1. TAKE t \in Used(ring)
  <2>2. HAVE meta[t].file_idx = x
  <2>3. PICK r : r = meta[t].region
    OBVIOUS
  <2>4. r \in Regs
    BY <1>1, <2>3 DEF TagsInv
  <2>5. acc'[x] = g
    BY <1>2, GatheredTags
  <2>6. r \in DOMAIN acc'[x].got
    BY <1>4, <1>5, <2>4, <2>5
  <2>7. r \in DOMAIN acc'[meta[t].file_idx].got =>
            acc'[meta[t].file_idx].got[r].tag = t /\ t \notin BusyTags \ {d.tag}
    BY <1>2, <2>3, GatheredTags
  <2> QED BY <2>2, <2>3, <2>4, <2>5, <2>6, <2>7
<1>7. \A r \in R : \E t \in Used(ring) : meta[t].file_idx = x /\ meta[t].region = r /\ g.got[r].tag = t
  <2>1. TAKE r \in R
  <2>2. PICK t \in Used(ring) : meta[t].file_idx = x /\ meta[t].region = r
    BY <1>1, <1>3, <1>5 DEF TagsInv
  <2> QED BY <1>6, <2>2
<1>8. \A r, q \in R : g.got[r].tag = g.got[q].tag => r = q
  BY <1>7
<1>9. R \in SUBSET Region
  BY RegionFacts
<1>10. /\ HeldTags(g) \in Seq(Nat) /\ IsInjective(HeldTags(g))
       /\ ToSet(HeldTags(g)) = {g.got[r].tag : r \in R}
       /\ Len(HeldTags(g)) = Cardinality(ToSet(HeldTags(g)))
  <2>1. g.got \in [R -> Completion]
    BY <1>4
  <2> QED BY <1>8, <1>9, <2>1, HeldFacts
<1>11. {g.got[r].tag : r \in R} = {t \in Used(ring) : meta[t].file_idx = x}
  BY <1>5, <1>6, <1>7
<1>12. {t \in Used(ring) : meta[t].file_idx = x} \cap (BusyTags \ {d.tag}) = {}
  BY <1>6
<1> QED BY <1>2, <1>4, <1>5, <1>10, <1>11, <1>12

\* The last sample of a file: its tags are free again and it is closed.
LEMMA LastSampleFlow ==
    ASSUME SampleInv, NEW k \in Passed, NextTake(k), AllBack(Gathered),
           acc' = [acc EXCEPT ![Fid] = Gathered],
           ring' = CloseFile(Release(Taken(ring, k), HeldTags(Gathered)), Gathered.handle)
    PROVE  /\ Flow(ring', ops', cq', Asks)
           /\ Used(ring') = {t \in Used(ring) : meta[t].file_idx # Fid}
           /\ BusyTags' = BusyTags \ {Done.tag}
           /\ Opened(ring') = Opened(ring) \ {acc[Fid].handle}
           /\ \A h \in Opened(ring') : ring'.fds[ring'.files[h]] = ring.fds[ring.files[h]]
           /\ ring'.buf = ring.buf
<1>1. TagsInv /\ HandlesInv
  BY DEF SampleInv
<1>2. PICK s0, o, c, W : s0 = ring /\ o = ops' /\ c = Tail(cq) /\ W = Asks
  OBVIOUS
<1>3. PICK x, g, d : x = Fid /\ g = Gathered /\ d = Done
  OBVIOUS
<1>4. PICK s1 : s1 = Taken(ring, k)
  OBVIOUS
<1>5. Taking(s0, ops, cq, W, s1, o) /\ cq' = c /\ d = Head(cq)
  BY <1>2, <1>3, <1>4, SampleBack
<1>6. /\ Flow(s1, o, c, W) /\ Used(s1) = Used(s0) /\ Opened(s1) = Opened(s0)
      /\ s1.buf = s0.buf /\ s1.fds = s0.fds /\ s1.files = s0.files
      /\ Busy(s1, o, c) = BusyTags \ {d.tag}
  BY <1>2, <1>5 DEF Taking, SameTables, SameSlots, SameHandles, Used, Opened, BusyTags, Busy
<1>7. PICK T : T = {t \in Used(ring) : meta[t].file_idx = x}
  OBVIOUS
<1>8. PICK tags : tags = HeldTags(g)
  OBVIOUS
<1>9. tags \in Seq(Nat) /\ IsInjective(tags) /\ ToSet(tags) = T /\ T \cap (BusyTags \ {d.tag}) = {}
  BY <1>3, <1>7, <1>8, LastTags
<1>10. PICK s2 : s2 = Release(s1, tags)
  OBVIOUS
<1>11. Releasing(s1, o, c, W, T, s2)
  <2>1. ToSet(tags) \subseteq Used(s1) /\ ToSet(tags) \cap Busy(s1, o, c) = {}
    BY <1>2, <1>6, <1>7, <1>9
  <2>2. tags \in Seq(Nat) /\ IsInjective(tags) /\ Flow(s1, o, c, W)
    BY <1>6, <1>9
  <2>3. Releasing(s1, o, c, W, ToSet(tags), Release(s1, tags))
    BY <2>1, <2>2, ReleasedOnce
  <2> QED BY <1>9, <1>10, <2>3
<1>12. PICK h0 : h0 = acc[x].handle
  OBVIOUS
<1>13. x \in Index /\ Live(x) /\ g.handle = h0
  BY <1>3, <1>12, SampleBack
<1>14. /\ Flow(s2, o, c, W) /\ Used(s2) = Used(s0) \ T /\ Opened(s2) = Opened(s0)
       /\ s2.buf = s0.buf /\ s2.fds = s0.fds /\ s2.files = s0.files
       /\ Busy(s2, o, c) = BusyTags \ {d.tag}
  BY <1>6, <1>11 DEF Releasing, SameHandles, Opened
<1>15. h0 \in Opened(s2)
  BY <1>1, <1>2, <1>12, <1>13, <1>14 DEF HandlesInv
<1>16. \A t \in Busy(s2, o, c) : W[t].handle # h0
  <2>1. TAKE t \in Busy(s2, o, c)
  <2>2. t \in BusyTags \ {d.tag} /\ t \in Used(ring) /\ t \in Nat
    <3>1. Busy(s2, o, c) \subseteq Used(s2) /\ Used(s2) \subseteq DOMAIN s2.buf /\ DOMAIN s2.buf \subseteq Nat
      BY <1>14, FlowFacts
    <3> QED BY <1>2, <1>14, <2>1, <3>1
  <2>3. PICK i : i = meta[t].file_idx
    OBVIOUS
  <2>4. i # x /\ i \in Index /\ Live(i)
    BY <1>1, <1>7, <1>9, <2>2, <2>3 DEF TagsInv
  <2>5. acc[i].handle # h0
    BY <1>1, <1>12, <1>13, <2>4 DEF HandlesInv
  <2> QED BY <1>2, <2>2, <2>3, <2>5 DEF Asks
<1>17. PICK s3 : s3 = CloseFile(s2, h0)
  OBVIOUS
<1>18. Closing(s2, o, c, W, h0, s3)
  BY <1>14, <1>15, <1>16, <1>17, ClosedOnce
<1>19. ring' = s3
  BY <1>3, <1>4, <1>8, <1>10, <1>13, <1>17
<1>20. /\ Flow(s3, o, c, W) /\ Used(s3) = Used(s0) \ T /\ Busy(s3, o, c) = BusyTags \ {d.tag}
       /\ Opened(s3) = Opened(s0) \ {h0} /\ s3.buf = s0.buf
       /\ \A h \in Opened(s3) : s3.fds[s3.files[h]] = s0.fds[s0.files[h]]
  BY <1>14, <1>18 DEF Closing, SameSlots
<1>21. BusyTags' = Busy(s3, o, c)
  BY <1>2, <1>5, <1>19 DEF BusyTags, Busy
<1>22. Used(s0) \ T = {t \in Used(ring) : meta[t].file_idx # x}
  BY <1>2, <1>7
<1> QED BY <1>2, <1>3, <1>5, <1>12, <1>19, <1>20, <1>21, <1>22

\* A file is settled.
LEMMA LastSampleKept ==
    SampleInv /\ TakeLastSample => SampleInv'
<1> SUFFICES ASSUME SampleInv, TakeLastSample PROVE SampleInv'
  OBVIOUS
<1>1. Flow(ring, ops, cq, Asks) /\ FilesInv /\ TagsInv /\ HandlesInv
  BY DEF SampleInv
<1>2. PICK k \in Passed :
          /\ NextTake(k) /\ AllBack(Gathered)
          /\ ring' = CloseFile(Release(Taken(ring, k), HeldTags(Gathered)), Gathered.handle)
  BY DEF TakeLastSample
<1>3. /\ acc' = [acc EXCEPT ![Fid] = Gathered]
      /\ meta' = meta /\ next_file' = next_file /\ in_flight' = in_flight - Len(HeldTags(Gathered))
  BY DEF TakeLastSample
<1>4. PICK x, t0 : x = Fid /\ t0 = Done.tag
  OBVIOUS
<1>5. /\ x \in Index /\ Live(x) /\ Gathered.submitted = acc[x].submitted
      /\ BusyTags \subseteq Used(ring)
  <2>1. BusyTags = Busy(ring, ops, cq)
    BY DEF BusyTags, Busy
  <2>2. BusyTags \subseteq Used(ring)
    BY <1>1, <2>1, FlowFacts
  <2> QED BY <1>2, <1>4, <2>2, SampleBack
<1>6. /\ \A i \in Index \ {x} : acc'[i] = acc[i]
      /\ acc'[x] = Gathered /\ acc' \in [Index -> AccRec]
      /\ \A t \in Used(ring) :
            LET got == acc'[meta[t].file_idx].got r == meta[t].region IN
            /\ r \in DOMAIN got => /\ got[r].tag = t /\ t \notin BusyTags \ {t0}
                                   /\ Served(Taken(ring, k), Asks[t], got[r])
            /\ r \notin DOMAIN got => t \in BusyTags \ {t0}
      /\ \A i \in Index : /\ acc'[i].handle = acc[i].handle
                          /\ acc'[i].arrived = Cardinality(DOMAIN acc'[i].got)
                          /\ acc'[i].submitted = 0 => DOMAIN acc'[i].got = {}
                          /\ i >= next_file => acc'[i].submitted = 0
  BY <1>2, <1>3, <1>4, GatheredTags
<1>7. PICK U : U = {t \in Used(ring) : meta[t].file_idx # x}
  OBVIOUS
<1>8. /\ Flow(ring', ops', cq', Asks) /\ Used(ring') = U
      /\ BusyTags' = BusyTags \ {t0}
      /\ Opened(ring') = Opened(ring) \ {acc[x].handle}
      /\ \A h \in Opened(ring') : ring'.fds[ring'.files[h]] = ring.fds[ring.files[h]]
      /\ ring'.buf = ring.buf
  BY <1>2, <1>3, <1>4, <1>7, LastSampleFlow
<1>9. \A i \in Index : Live(i)' <=> Live(i) /\ i # x
  <2>1. ~Live(x)'
    <3>1. PICK m \in Nat : m = Gathered.submitted
      BY <1>1, <1>2, <1>4, RegionFacts, SampleBack
    <3>2. acc'[x].arrived = m /\ acc'[x].submitted = m
      BY <1>2, <1>6, <3>1 DEF AllBack
    <3>3. ~(acc'[x].arrived < acc'[x].submitted)
      BY <3>2
    <3> QED BY <3>3 DEF Live
  <2> QED BY <1>6, <2>1 DEF Live
<1>10. \A t \in Used(ring) : t \in Nat /\ meta[t].file_idx \in Index /\ Asks'[t] = Asks[t]
  <2>1. Used(ring) \subseteq Nat
    BY <1>1, FlowFacts
  <2>2. \A t \in Used(ring) : meta[t].file_idx \in Index
    BY <1>1 DEF TagsInv
  <2> QED BY <1>3, <1>6, <2>1, <2>2 DEF Asks
<1>11. Flow(ring', ops', cq', Asks')
  <2>1. Busy(ring', ops', cq') = BusyTags'
    BY DEF Busy, BusyTags
  <2>2. \A t \in Busy(ring', ops', cq') : Asks'[t] = Asks[t]
    BY <1>5, <1>8, <1>10, <2>1
  <2> QED BY <1>8, <2>2, Agreed
<1>12. FilesInv'
  BY <1>1, <1>3, <1>6 DEF FilesInv
<1>13. HandlesInv'
  <2>1. \A i \in Index : Live(i)' => acc[i].handle # acc[x].handle
    BY <1>1, <1>5, <1>9 DEF HandlesInv
  <2>2. \A i \in Index : Live(i)' => /\ acc'[i].handle \in Opened(ring')
                                     /\ ring'.fds[ring'.files[acc'[i].handle]] = Group[i]
    BY <1>1, <1>6, <1>8, <1>9, <2>1 DEF HandlesInv
  <2>3. \A i, j \in Index : Live(i)' /\ Live(j)' /\ acc'[i].handle = acc'[j].handle => i = j
    BY <1>1, <1>6, <1>9 DEF HandlesInv
  <2>4. \A h \in Opened(ring') : \E i \in Index : Live(i)' /\ acc'[i].handle = h
    BY <1>1, <1>6, <1>8, <1>9 DEF HandlesInv
  <2> QED BY <2>2, <2>3, <2>4 DEF HandlesInv
<1>14. TagsInv'
  <2>1. \A t \in DOMAIN meta : meta[t] \in [file_idx : Index, region : Regs]
    BY <1>1 DEF TagsInv
  <2>2. \A t \in U : t \in DOMAIN meta /\ Live(meta[t].file_idx)'
    <3>1. TAKE t \in U
    <3>2. PICK i \in Index : i = meta[t].file_idx /\ t \in DOMAIN meta /\ Live(i) /\ i # x
      BY <1>1, <1>7, <1>10 DEF TagsInv
    <3>3. acc'[i].arrived < acc'[i].submitted /\ meta'[t].file_idx = i
      BY <1>3, <1>9, <3>2 DEF Live
    <3> QED BY <3>2, <3>3 DEF Live
  <2>3. \A t, u \in U : meta[t] = meta[u] => t = u
    BY <1>1, <1>7 DEF TagsInv
  <2>4. \A i \in Index : Live(i)' => \A r \in Regs : \E t \in U : meta[t].file_idx = i /\ meta[t].region = r
    BY <1>1, <1>7, <1>9 DEF TagsInv
  <2>5. \A t \in U :
            LET got == acc'[meta[t].file_idx].got r == meta[t].region IN
            /\ r \in DOMAIN got => got[r].tag = t /\ t \notin BusyTags' /\ Served(ring', Asks'[t], got[r])
            /\ r \notin DOMAIN got => t \in BusyTags'
    <3>1. PICK s : s = Taken(ring, k)
      OBVIOUS
    <3>2. s.buf = ring.buf
      <4>1. Taking(ring, ops, cq, Asks, s, ops')
        BY <1>2, <3>1, SampleBack
      <4> QED BY <4>1 DEF Taking, SameTables, SameSlots
    <3>3. \A w, e : Served(s, w, e) => Served(ring', w, e)
      BY <1>8, <3>2 DEF Served
    <3>4. U \subseteq Used(ring)
      BY <1>7
    <3> QED BY <1>6, <1>8, <1>10, <3>1, <3>3, <3>4
  <2>6. IsFiniteSet(U) /\ in_flight' = Cardinality(U) /\ in_flight' <= WINDOW
    <3>1. PICK T : T = {t \in Used(ring) : meta[t].file_idx = x}
      OBVIOUS
    <3>2. Len(HeldTags(Gathered)) = Cardinality(T)
      BY <1>2, <1>3, <1>4, <3>1, LastTags
    <3>3. IsFiniteSet(Used(ring)) /\ in_flight = Cardinality(Used(ring)) /\ in_flight <= WINDOW
      BY <1>1 DEF TagsInv
    <3>4. T \in SUBSET Used(ring) /\ U \in SUBSET Used(ring) /\ T \cap U = {} /\ Used(ring) = T \cup U
      BY <1>7, <3>1
    <3>5. IsFiniteSet(T) /\ IsFiniteSet(U)
      BY <3>3, <3>4, FS_Subset
    <3>6. /\ Cardinality(T \cup U) = Cardinality(T) + Cardinality(U)
          /\ Cardinality(T) \in Nat /\ Cardinality(U) \in Nat
      BY <3>4, <3>5, ApartCounted
    <3>7. WINDOW \in Nat
      BY PrefilterAssumption, RingAssumption
    <3> QED BY <1>3, <3>2, <3>3, <3>4, <3>5, <3>6, <3>7
  <2> QED BY <1>3, <1>8, <2>1, <2>2, <2>3, <2>4, <2>5, <2>6 DEF TagsInv
<1> QED BY <1>11, <1>12, <1>13, <1>14 DEF SampleInv

-----------------------------------------------------------------------------
(* Hashing *)

\* What each tag was given out for while files are read whole.
ChunkOf(act, tta) ==
    [t \in Nat |-> [file |-> act[tta[t]].id, off |-> act[tta[t]].offset,
                    len |-> NextLen(act[tta[t]]), handle |-> act[tta[t]].handle]]

Active == [id : File, offset : Nat, handle : Nat, state : Seq(Byte)]

\* The tags in use are those of the chunks asked for, one for a file at most, and
\* n in all.
Places(s, o, c, act, tta, n) ==
    /\ act \in Seq(Active)
    /\ Flow(s, o, c, ChunkOf(act, tta))
    /\ Used(s) = Busy(s, o, c)
    /\ \A t \in Busy(s, o, c) : t \in DOMAIN tta
    /\ \A t \in DOMAIN tta : tta[t] \in DOMAIN act
    /\ \A t, u \in Busy(s, o, c) : tta[t] = tta[u] => t = u
    /\ IsFiniteSet(Busy(s, o, c)) /\ n = Cardinality(Busy(s, o, c))
    /\ \A t \in Busy(s, o, c) : act[tta[t]].offset < Size

\* The files that are open are those with a chunk to come, and those of X.
OpenFor(s, o, c, act, tta, X) ==
    /\ \A t \in Busy(s, o, c) :
          LET a == act[tta[t]] IN
          /\ a.handle \in Opened(s) /\ a.handle \notin X
          /\ s.fds[s.files[a.handle]] = a.id
    /\ \A t, u \in Busy(s, o, c) : act[tta[t]].handle = act[tta[u]].handle => t = u
    /\ X \subseteq Opened(s)
    /\ \A h \in Opened(s) \ X : \E t \in Busy(s, o, c) : act[tta[t]].handle = h

Chunked(s, o, c, act, tta, n, X) ==
    Places(s, o, c, act, tta, n) /\ OpenFor(s, o, c, act, tta, X)

\* What the tags in use were given out for.
LEMMA ChunkFacts ==
    ASSUME NEW s, NEW o, NEW c, NEW act, NEW tta, NEW n, NEW X, Chunked(s, o, c, act, tta, n, X)
    PROVE  /\ Busy(s, o, c) \subseteq Nat /\ Used(s) = Busy(s, o, c) /\ n \in Nat
           /\ Flow(s, o, c, ChunkOf(act, tta))
           /\ \A t \in Busy(s, o, c) :
                 /\ t \in DOMAIN tta /\ tta[t] \in DOMAIN act /\ act[tta[t]] \in Active
                 /\ ChunkOf(act, tta)[t] =
                       [file |-> act[tta[t]].id, off |-> act[tta[t]].offset,
                        len |-> NextLen(act[tta[t]]), handle |-> act[tta[t]].handle]
           /\ SqRoom(s) \in Int /\ SqRoom(s) >= SqEntries - n
<1>1. PICK b : b = Busy(s, o, c)
  OBVIOUS
<1>2. /\ act \in Seq(Active) /\ Flow(s, o, c, ChunkOf(act, tta)) /\ Used(s) = b /\ n = Cardinality(b)
      /\ \A t \in b : t \in DOMAIN tta
      /\ \A t \in DOMAIN tta : tta[t] \in DOMAIN act
  BY <1>1 DEF Chunked, Places
<1>3. b \subseteq Nat /\ n \in Nat /\ SqRoom(s) \in Int /\ SqRoom(s) >= SqEntries - n
  BY <1>1, <1>2, FlowFacts
<1>4. \A t \in b : t \in Nat /\ t \in DOMAIN tta /\ tta[t] \in DOMAIN act /\ act[tta[t]] \in Active
  BY <1>2, <1>3
<1>5. \A t \in b : ChunkOf(act, tta)[t] =
                       [file |-> act[tta[t]].id, off |-> act[tta[t]].offset,
                        len |-> NextLen(act[tta[t]]), handle |-> act[tta[t]].handle]
  BY <1>4 DEF ChunkOf
<1> QED BY <1>1, <1>2, <1>3, <1>4, <1>5

\* A file is opened, and nothing has been asked of it yet.
LEMMA ChunkOpened ==
    ASSUME NEW s, NEW o, NEW c, NEW act, NEW tta, NEW n, NEW X, Chunked(s, o, c, act, tta, n, X),
           NEW f, f \in File
    PROVE  /\ Chunked(OpenFile(s, f), o, c, act, tta, n, X \cup {NewHandle(s)})
           /\ Opening(s, o, c, ChunkOf(act, tta), f, OpenFile(s, f))
           /\ NewHandle(s) \notin X
<1>1. PICK W : W = ChunkOf(act, tta)
  OBVIOUS
<1>2. PICK r : r = OpenFile(s, f)
  OBVIOUS
<1>3. PICK h0 : h0 = NewHandle(s)
  OBVIOUS
<1>4. Places(s, o, c, act, tta, n) /\ OpenFor(s, o, c, act, tta, X)
  BY DEF Chunked
<1>5. Flow(s, o, c, W)
  BY <1>1, <1>4 DEF Places
<1>6. Opening(s, o, c, W, f, r)
  BY <1>2, <1>5, OpenedOnce
<1>7. /\ Flow(r, o, c, W) /\ Opened(r) = Opened(s) \cup {h0} /\ h0 \notin Opened(s)
      /\ \A h \in Opened(s) : r.fds[r.files[h]] = s.fds[s.files[h]]
      /\ Used(r) = Used(s) /\ Busy(r, o, c) = Busy(s, o, c)
  BY <1>3, <1>6 DEF Opening
<1>8. Places(r, o, c, act, tta, n)
  BY <1>1, <1>4, <1>7 DEF Places
<1>9. h0 \notin X
  BY <1>4, <1>7 DEF OpenFor
<1>10. OpenFor(r, o, c, act, tta, X \cup {h0})
  <2>1. \A t \in Busy(s, o, c) : /\ act[tta[t]].handle \in Opened(s) /\ act[tta[t]].handle \notin X
                                 /\ s.fds[s.files[act[tta[t]].handle]] = act[tta[t]].id
    BY <1>4 DEF OpenFor
  <2>2. \A t \in Busy(s, o, c) : /\ act[tta[t]].handle \in Opened(r) /\ act[tta[t]].handle \notin X \cup {h0}
                                 /\ r.fds[r.files[act[tta[t]].handle]] = act[tta[t]].id
    BY <1>7, <2>1
  <2>3. /\ \A t, u \in Busy(s, o, c) : act[tta[t]].handle = act[tta[u]].handle => t = u
        /\ X \subseteq Opened(s)
        /\ \A h \in Opened(s) \ X : \E t \in Busy(s, o, c) : act[tta[t]].handle = h
    BY <1>4 DEF OpenFor
  <2>4. X \cup {h0} \subseteq Opened(r) /\ Opened(r) \ (X \cup {h0}) \subseteq Opened(s) \ X
    BY <1>7, <2>3
  <2> QED BY <1>7, <2>2, <2>3, <2>4 DEF OpenFor
<1> QED BY <1>1, <1>2, <1>3, <1>6, <1>8, <1>9, <1>10 DEF Chunked

\* A file is closed of which nothing is asked.
LEMMA ChunkClosed ==
    ASSUME NEW s, NEW o, NEW c, NEW act, NEW tta, NEW n, NEW X, Chunked(s, o, c, act, tta, n, X),
           NEW h0, h0 \in X
    PROVE  /\ Chunked(CloseFile(s, h0), o, c, act, tta, n, X \ {h0})
           /\ CloseFile(s, h0).buf = s.buf
<1>1. PICK W : W = ChunkOf(act, tta)
  OBVIOUS
<1>2. PICK r : r = CloseFile(s, h0)
  OBVIOUS
<1>3. Places(s, o, c, act, tta, n) /\ OpenFor(s, o, c, act, tta, X)
  BY DEF Chunked
<1>4. Flow(s, o, c, W)
  BY <1>1, <1>3 DEF Places
<1>5. h0 \in Opened(s)
  BY <1>3 DEF OpenFor
<1>6. \A t \in Busy(s, o, c) : W[t].handle = act[tta[t]].handle
  <2>1. Busy(s, o, c) \subseteq Nat
    BY ChunkFacts
  <2> QED BY <1>1, <2>1 DEF ChunkOf
<1>7. \A t \in Busy(s, o, c) : W[t].handle # h0
  BY <1>3, <1>6 DEF OpenFor
<1>8. Closing(s, o, c, W, h0, r)
  BY <1>2, <1>4, <1>5, <1>7, ClosedOnce
<1>9. /\ Flow(r, o, c, W) /\ Opened(r) = Opened(s) \ {h0} /\ r.buf = s.buf
      /\ \A h \in Opened(r) : r.fds[r.files[h]] = s.fds[s.files[h]]
      /\ Used(r) = Used(s) /\ Busy(r, o, c) = Busy(s, o, c)
  BY <1>8 DEF Closing, SameSlots
<1>10. Places(r, o, c, act, tta, n)
  BY <1>1, <1>3, <1>9 DEF Places
<1>11. OpenFor(r, o, c, act, tta, X \ {h0})
  <2>1. \A t \in Busy(s, o, c) : /\ act[tta[t]].handle \in Opened(s) /\ act[tta[t]].handle \notin X
                                 /\ s.fds[s.files[act[tta[t]].handle]] = act[tta[t]].id
    BY <1>3 DEF OpenFor
  <2>2. \A t \in Busy(s, o, c) : /\ act[tta[t]].handle \in Opened(r) /\ act[tta[t]].handle \notin X \ {h0}
                                 /\ r.fds[r.files[act[tta[t]].handle]] = act[tta[t]].id
    BY <1>9, <2>1
  <2>3. /\ \A t, u \in Busy(s, o, c) : act[tta[t]].handle = act[tta[u]].handle => t = u
        /\ X \subseteq Opened(s)
        /\ \A h \in Opened(s) \ X : \E t \in Busy(s, o, c) : act[tta[t]].handle = h
    BY <1>3 DEF OpenFor
  <2>4. X \ {h0} \subseteq Opened(r) /\ Opened(r) \ (X \ {h0}) \subseteq Opened(s) \ X
    BY <1>9, <2>3
  <2> QED BY <1>9, <2>2, <2>3, <2>4 DEF OpenFor
<1> QED BY <1>2, <1>9, <1>10, <1>11 DEF Chunked

\* Release() and close_file() may be called in either order.
LEMMA ClosedReleased ==
    ASSUME NEW s, s \in RingRecord, NEW h0, NEW tags
    PROVE  Release(CloseFile(s, h0), tags) = CloseFile(Release(s, tags), h0)
<1>1. CASE h0 \notin DOMAIN s.files \/ s.files[h0] < 0
  BY <1>1 DEF Release, CloseFile, RingRecord
<1>2. CASE ~(h0 \notin DOMAIN s.files \/ s.files[h0] < 0)
  BY <1>2 DEF Release, CloseFile, RingRecord
<1> QED BY <1>1, <1>2

\* What is so when a chunk is back.
Returned(s, o, c, act, tta, n, X, r1, p) ==
    LET t0 == Head(c).tag a == act[tta[t0]] r == Release(r1, <<t0>>) IN
    /\ Chunked(r, p, Tail(c), act, tta, n - 1, X \cup {a.handle})
    /\ t0 \in Busy(s, o, c) /\ t0 \in DOMAIN tta /\ tta[t0] \in DOMAIN act
    /\ a \in Active /\ a.offset < Size /\ a.handle \notin X
    /\ r.fds[r.files[a.handle]] = a.id
    /\ Busy(r, p, Tail(c)) = Busy(s, o, c) \ {t0}
    /\ \A t \in Busy(r, p, Tail(c)) : tta[t] # tta[t0]
    /\ Head(c) \in Completion
    /\ Served(s, ChunkOf(act, tta)[t0], Head(c))
    /\ ChunkOf(act, tta)[t0] = [file |-> a.id, off |-> a.offset, len |-> NextLen(a),
                                handle |-> a.handle]
    /\ NextLen(a) \in Nat
    /\ r.buf = s.buf /\ r1 \in RingRecord

\* A chunk is back: its tag is free again, and its file is open with nothing
\* asked of it.
LEMMA ChunkTaken ==
    ASSUME NEW s, NEW o, NEW c, NEW act, NEW tta, NEW n, NEW X, Chunked(s, o, c, act, tta, n, X),
           c # <<>>, NEW r1, NEW p, Taking(s, o, c, ChunkOf(act, tta), r1, p)
    PROVE  Returned(s, o, c, act, tta, n, X, r1, p)
<1>1. PICK W : W = ChunkOf(act, tta)
  OBVIOUS
<1>2. PICK t0 : t0 = Head(c).tag
  OBVIOUS
<1>3. PICK d : d = Tail(c)
  OBVIOUS
<1>4. PICK r : r = Release(r1, <<t0>>)
  OBVIOUS
<1>5. PICK a : a = act[tta[t0]]
  OBVIOUS
<1>6. PICK b : b = Busy(s, o, c)
  OBVIOUS
<1>7. Places(s, o, c, act, tta, n) /\ OpenFor(s, o, c, act, tta, X)
  BY DEF Chunked
<1>8. /\ Flow(r1, p, d, W) /\ Busy(r1, p, d) = b \ {t0}
      /\ Head(c) \in Completion /\ t0 \in b /\ Served(r1, W[t0], Head(c)) /\ W[t0].len \in Nat
      /\ Used(r1) = Used(s) /\ Opened(r1) = Opened(s)
      /\ r1.fds = s.fds /\ r1.files = s.files /\ r1.buf = s.buf
  BY <1>1, <1>2, <1>3, <1>6 DEF Taking, SameTables, SameSlots, SameHandles, Used, Opened
<1>9. /\ b \subseteq Nat /\ Used(s) = b /\ n \in Nat
      /\ t0 \in DOMAIN tta /\ tta[t0] \in DOMAIN act /\ a \in Active
      /\ W[t0] = [file |-> a.id, off |-> a.offset, len |-> NextLen(a), handle |-> a.handle]
  BY <1>1, <1>5, <1>6, <1>8, ChunkFacts
<1>10. Releasing(r1, p, d, W, {t0}, r)
  <2>1. PICK tags \in Seq(Nat) : tags = <<t0>> /\ ToSet(tags) = {t0} /\ IsInjective(tags)
    <3>1. t0 \in Nat
      BY <1>8, <1>9
    <3>2. DOMAIN <<t0>> = {1} /\ <<t0>>[1] = t0 /\ <<t0>> \in Seq(Nat)
      BY <3>1
    <3> QED BY <3>2 DEF ToSet, IsInjective
  <2>2. Flow(r1, p, d, W) /\ tags \in Seq(Nat) /\ IsInjective(tags)
    BY <1>8, <2>1
  <2>3. ToSet(tags) \subseteq Used(r1) /\ ToSet(tags) \cap Busy(r1, p, d) = {}
    BY <1>8, <1>9, <2>1
  <2>4. Releasing(r1, p, d, W, ToSet(tags), Release(r1, tags))
    BY <2>2, <2>3, ReleasedOnce
  <2> QED BY <1>4, <2>1, <2>4
<1>11. /\ Flow(r, p, d, W) /\ Used(r) = b \ {t0} /\ Busy(r, p, d) = b \ {t0}
       /\ Opened(r) = Opened(s) /\ r.fds = s.fds /\ r.files = s.files /\ r.buf = s.buf
  BY <1>8, <1>9, <1>10 DEF Releasing, SameHandles, Opened
<1>12. \A t, u \in b : tta[t] = tta[u] => t = u
  BY <1>6, <1>7 DEF Places
<1>13. Places(r, p, d, act, tta, n - 1)
  <2>1. /\ act \in Seq(Active)
        /\ \A t \in b \ {t0} : t \in DOMAIN tta
        /\ \A t \in DOMAIN tta : tta[t] \in DOMAIN act
        /\ \A t \in b \ {t0} : act[tta[t]].offset < Size
    BY <1>6, <1>7 DEF Places
  <2>2. IsFiniteSet(b \ {t0}) /\ n - 1 = Cardinality(b \ {t0})
    <3>1. IsFiniteSet(b) /\ n = Cardinality(b)
      BY <1>6, <1>7 DEF Places
    <3> QED BY <1>8, <3>1, FS_RemoveElement
  <2> QED BY <1>1, <1>11, <1>12, <2>1, <2>2 DEF Places
<1>14. OpenFor(r, p, d, act, tta, X \cup {a.handle})
  <2>1. \A t \in b : /\ act[tta[t]].handle \in Opened(s) /\ act[tta[t]].handle \notin X
                     /\ s.fds[s.files[act[tta[t]].handle]] = act[tta[t]].id
    BY <1>6, <1>7 DEF OpenFor
  <2>2. \A t, u \in b : act[tta[t]].handle = act[tta[u]].handle => t = u
    BY <1>6, <1>7 DEF OpenFor
  <2>3. \A t \in b \ {t0} : act[tta[t]].handle # a.handle
    BY <1>5, <1>8, <2>2
  <2>4. X \cup {a.handle} \subseteq Opened(s)
    BY <1>5, <1>7, <1>8, <2>1 DEF OpenFor
  <2>5. \A h \in Opened(s) \ (X \cup {a.handle}) : \E t \in b \ {t0} : act[tta[t]].handle = h
    BY <1>5, <1>6, <1>7 DEF OpenFor
  <2> QED BY <1>11, <2>1, <2>2, <2>3, <2>4, <2>5 DEF OpenFor
<1>15. a.offset < Size /\ a.handle \notin X /\ s.fds[s.files[a.handle]] = a.id
  BY <1>5, <1>6, <1>7, <1>8 DEF Places, OpenFor
<1>16. Served(s, W[t0], Head(c))
  BY <1>8 DEF Served
<1>17. r1 \in RingRecord
  BY <1>8 DEF Flow, Sound
<1>18. Chunked(r, p, d, act, tta, n - 1, X \cup {a.handle})
  BY <1>13, <1>14 DEF Chunked
<1>19. \A t \in b \ {t0} : tta[t] # tta[t0]
  BY <1>8, <1>12
<1>20. /\ Head(c) \in Completion /\ t0 \in b /\ NextLen(a) \in Nat
       /\ t0 \in DOMAIN tta /\ tta[t0] \in DOMAIN act /\ a \in Active
  BY <1>8, <1>9
<1>21. W[t0] = [file |-> a.id, off |-> a.offset, len |-> NextLen(a), handle |-> a.handle]
  BY <1>9
<1>22. /\ Busy(r, p, d) = b \ {t0} /\ r.fds = s.fds /\ r.files = s.files /\ r.buf = s.buf
  BY <1>11
<1> DEFINE Back(t1, x, q, y, B, V) ==
      /\ Chunked(q, p, y, act, tta, n - 1, X \cup {x.handle})
      /\ t1 \in B /\ t1 \in DOMAIN tta /\ tta[t1] \in DOMAIN act
      /\ x \in Active /\ x.offset < Size /\ x.handle \notin X
      /\ q.fds[q.files[x.handle]] = x.id
      /\ Busy(q, p, y) = B \ {t1}
      /\ \A t \in Busy(q, p, y) : tta[t] # tta[t1]
      /\ Head(c) \in Completion
      /\ Served(s, V[t1], Head(c))
      /\ V[t1] = [file |-> x.id, off |-> x.offset, len |-> NextLen(x), handle |-> x.handle]
      /\ NextLen(x) \in Nat
      /\ q.buf = s.buf /\ r1 \in RingRecord
<1>23. Back(t0, a, r, d, b, W)
  BY <1>15, <1>16, <1>17, <1>18, <1>19, <1>20, <1>21, <1>22
<1> HIDE DEF Back
<1>24. Back(Head(c).tag, act[tta[Head(c).tag]], Release(r1, <<Head(c).tag>>), Tail(c), Busy(s, o, c),
            ChunkOf(act, tta))
  BY <1>1, <1>2, <1>3, <1>4, <1>5, <1>6, <1>23
<1> QED BY <1>24 DEF Back, Returned

\* What is asked of a file that has not all been read.
LEMMA NextReadFacts ==
    ASSUME NEW a, a \in Active, a.offset < Size
    PROVE  /\ NextLen(a) \in Nat \ {0} /\ a.offset + NextLen(a) <= Size
           /\ NextRead(a) \in Seq(Span) /\ DOMAIN NextRead(a) = {1}
           /\ NextRead(a)[1].off = a.offset /\ NextRead(a)[1].len = NextLen(a)
<1>1. a.offset \in Nat /\ Size \in Nat /\ CHUNK \in Nat \ {0}
  BY PrefilterAssumption, HashFileAssumption DEF Active
<1>2. NextLen(a) \in Nat \ {0} /\ a.offset + NextLen(a) <= Size
  BY <1>1 DEF NextLen, Smaller
<1>3. PICK e : e = [off |-> a.offset, len |-> NextLen(a)]
  OBVIOUS
<1>4. e \in Span /\ NextRead(a) = <<e>>
  BY <1>1, <1>2, <1>3 DEF Span, NextRead
<1>5. <<e>> \in Seq(Span) /\ DOMAIN <<e>> = {1} /\ <<e>>[1] = e
  BY <1>4
<1> QED BY <1>2, <1>3, <1>4, <1>5

\* What is so when the next chunk of a file has been asked for.
Asking(s, o, c, act, tta, n, X, a, index, act2) ==
    LET r == Submit(s, a.handle, NextRead(a)) tta2 == With(tta, NextTag(s, 1), index) IN
    /\ Chunked(r, o, c, act2, tta2, n + 1, X \ {a.handle})
    /\ Busy(r, o, c) = Busy(s, o, c) \cup {NextTag(s, 1)}
    /\ NextTag(s, 1) \notin Busy(s, o, c)
    /\ \A t \in Busy(s, o, c) : tta2[t] = tta[t] /\ act2[tta2[t]] = act[tta[t]]
    /\ tta2[NextTag(s, 1)] = index

\* The next chunk of a file is asked for, in a place that no other read has.
LEMMA ChunkQueued ==
    ASSUME NEW s, NEW o, NEW c, NEW act, NEW tta, NEW n, NEW X, Chunked(s, o, c, act, tta, n, X),
           NEW a, a \in Active, a.handle \in X, s.fds[s.files[a.handle]] = a.id, a.offset < Size,
           NEW index, NEW act2, act2 \in Seq(Active), index \in DOMAIN act2, act2[index] = a,
           DOMAIN act \subseteq DOMAIN act2,
           \A j \in DOMAIN act \ {index} : act2[j] = act[j],
           \A t \in Busy(s, o, c) : tta[t] # index
    PROVE  Asking(s, o, c, act, tta, n, X, a, index, act2)
<1>1. PICK b : b = Busy(s, o, c)
  OBVIOUS
<1>2. PICK u : u = NextTag(s, 1)
  OBVIOUS
<1>3. PICK tta2 : tta2 = With(tta, u, index)
  OBVIOUS
<1>4. PICK W, V : W = ChunkOf(act, tta) /\ V = ChunkOf(act2, tta2)
  OBVIOUS
<1>5. PICK fh : fh = a.handle
  OBVIOUS
<1>6. PICK r : r = Submit(s, fh, NextRead(a))
  OBVIOUS
<1>7. Places(s, o, c, act, tta, n) /\ OpenFor(s, o, c, act, tta, X)
  BY DEF Chunked
<1>8. Flow(s, o, c, W) /\ Used(s) = b /\ b \subseteq Nat /\ n \in Nat
  BY <1>1, <1>4, ChunkFacts
<1>9. u \in Nat /\ u \notin b
  <2>1. Sound(s) /\ 1 \in Nat \ {0}
    BY <1>8 DEF Flow
  <2> QED BY <1>2, <1>8, <2>1, FreshTags
<1>10. /\ DOMAIN tta2 = DOMAIN tta \cup {u} /\ tta2[u] = index
       /\ \A t \in DOMAIN tta \ {u} : tta2[t] = tta[t]
  BY <1>3 DEF With
<1>11. \A t \in b : /\ t \in DOMAIN tta /\ tta[t] \in DOMAIN act /\ tta[t] # index
                    /\ tta2[t] = tta[t] /\ act2[tta2[t]] = act[tta[t]]
  BY <1>1, <1>7, <1>9, <1>10 DEF Places
<1>12. \A t \in b : V[t] = W[t]
  BY <1>4, <1>8, <1>11 DEF ChunkOf
<1>13. V[u] = [file |-> a.id, off |-> a.offset, len |-> NextLen(a), handle |-> fh]
  BY <1>4, <1>5, <1>9, <1>10 DEF ChunkOf
<1>14. Queueing(s, o, c, V, {u}, r)
  <2>1. PICK reads : reads = NextRead(a)
    OBVIOUS
  <2>2. reads \in Seq(Span) /\ DOMAIN reads = {1} /\ reads[1].off = a.offset /\ reads[1].len = NextLen(a)
    BY <2>1, NextReadFacts
  <2>3. fh \in Opened(s) /\ s.fds[s.files[fh]] = a.id
    BY <1>5, <1>7 DEF OpenFor
  <2>4. \A i \in DOMAIN reads : LET w == V[NextTag(s, i)] IN
               /\ w.off = reads[i].off /\ w.len = reads[i].len
               /\ w.handle = fh /\ w.file = s.fds[s.files[fh]]
    BY <1>2, <1>13, <2>2, <2>3
  <2>5. \A t \in Busy(s, o, c) : V[t] = W[t]
    BY <1>1, <1>12
  <2>6. reads \in Seq(Span) /\ fh \in Opened(s)
    BY <2>2, <2>3
  <2>7. Queueing(s, o, c, V, {NextTag(s, i) : i \in DOMAIN reads}, Submit(s, fh, reads))
    BY <1>8, <2>4, <2>5, <2>6, QueuedOnce
  <2>8. {NextTag(s, i) : i \in DOMAIN reads} = {u}
    BY <1>2, <2>2
  <2> QED BY <1>6, <2>1, <2>7, <2>8
<1>15. /\ Flow(r, o, c, V) /\ Used(r) = b \cup {u} /\ Busy(r, o, c) = b \cup {u}
       /\ r.files = s.files /\ r.fds = s.fds /\ Opened(r) = Opened(s)
  BY <1>1, <1>8, <1>14 DEF Queueing, SameHandles, Opened
<1>16. Places(r, o, c, act2, tta2, n + 1)
  <2>1. IsFiniteSet(b \cup {u}) /\ n + 1 = Cardinality(b \cup {u})
    <3>1. IsFiniteSet(b) /\ n = Cardinality(b)
      BY <1>1, <1>7 DEF Places
    <3> QED BY <1>9, <3>1, FS_AddElement
  <2>2. \A t \in DOMAIN tta2 : tta2[t] \in DOMAIN act2
    BY <1>7, <1>10 DEF Places
  <2>3. \A t, v \in b \cup {u} : tta2[t] = tta2[v] => t = v
    BY <1>1, <1>7, <1>10, <1>11 DEF Places
  <2>4. \A t \in b \cup {u} : t \in DOMAIN tta2 /\ act2[tta2[t]].offset < Size
    BY <1>1, <1>7, <1>10, <1>11 DEF Places
  <2> QED BY <1>4, <1>15, <2>1, <2>2, <2>3, <2>4 DEF Places
<1>17. OpenFor(r, o, c, act2, tta2, X \ {fh})
  <2>1. \A t \in b : /\ act[tta[t]].handle \in Opened(s) /\ act[tta[t]].handle \notin X
                     /\ s.fds[s.files[act[tta[t]].handle]] = act[tta[t]].id
    BY <1>1, <1>7 DEF OpenFor
  <2>2. fh \in X /\ fh \in Opened(s) /\ s.fds[s.files[fh]] = a.id /\ act2[tta2[u]] = a
    BY <1>5, <1>7, <1>10 DEF OpenFor
  <2>3. \A t \in b \cup {u} : /\ act2[tta2[t]].handle \in Opened(s)
                              /\ act2[tta2[t]].handle \notin X \ {fh}
                              /\ s.fds[s.files[act2[tta2[t]].handle]] = act2[tta2[t]].id
    BY <1>5, <1>11, <2>1, <2>2
  <2>4. \A t, v \in b \cup {u} : act2[tta2[t]].handle = act2[tta2[v]].handle => t = v
    <3>1. \A t, v \in b : act2[tta2[t]].handle = act2[tta2[v]].handle => t = v
      BY <1>1, <1>7, <1>11 DEF OpenFor
    <3>2. \A t \in b : act2[tta2[t]].handle # act2[tta2[u]].handle
      BY <1>5, <1>11, <2>1, <2>2
    <3> QED BY <3>1, <3>2
  <2>5. X \ {fh} \subseteq Opened(s)
    BY <1>7 DEF OpenFor
  <2>6. \A h \in Opened(s) \ (X \ {fh}) : \E t \in b \cup {u} : act2[tta2[t]].handle = h
    <3>1. TAKE h \in Opened(s) \ (X \ {fh})
    <3>2. CASE h = fh
      BY <1>5, <2>2, <3>2
    <3>3. CASE h # fh
      <4>1. PICK t \in b : act[tta[t]].handle = h
        BY <1>1, <1>7, <3>3 DEF OpenFor
      <4> QED BY <1>11, <4>1
    <3> QED BY <3>2, <3>3
  <2> QED BY <1>15, <2>3, <2>4, <2>5, <2>6 DEF OpenFor
<1> QED BY <1>1, <1>2, <1>3, <1>5, <1>6, <1>9, <1>10, <1>11, <1>15, <1>16, <1>17 DEF Chunked, Asking

\* What is in a place that no read has does not matter.
LEMMA ChunkReplaced ==
    ASSUME NEW s, NEW o, NEW c, NEW act, NEW tta, NEW n, NEW X, Chunked(s, o, c, act, tta, n, X),
           NEW act2, act2 \in Seq(Active), DOMAIN act2 = DOMAIN act, NEW index,
           \A j \in DOMAIN act \ {index} : act2[j] = act[j],
           \A t \in Busy(s, o, c) : tta[t] # index
    PROVE  Chunked(s, o, c, act2, tta, n, X)
<1>1. PICK b : b = Busy(s, o, c)
  OBVIOUS
<1>2. PICK W, V : W = ChunkOf(act, tta) /\ V = ChunkOf(act2, tta)
  OBVIOUS
<1>3. Places(s, o, c, act, tta, n) /\ OpenFor(s, o, c, act, tta, X)
  BY DEF Chunked
<1>4. Flow(s, o, c, W) /\ b \subseteq Nat
  BY <1>1, <1>2, ChunkFacts
<1>5. \A t \in b : t \in DOMAIN tta /\ tta[t] \in DOMAIN act /\ act2[tta[t]] = act[tta[t]]
  BY <1>1, <1>3 DEF Places
<1>6. \A t \in Busy(s, o, c) : V[t] = W[t]
  BY <1>1, <1>2, <1>4, <1>5 DEF ChunkOf
<1>7. Flow(s, o, c, V)
  BY <1>4, <1>6, Agreed
<1>8. Places(s, o, c, act2, tta, n)
  <2>1. \A t \in b : act2[tta[t]].offset < Size
    BY <1>1, <1>3, <1>5 DEF Places
  <2> QED BY <1>1, <1>2, <1>3, <1>7, <2>1 DEF Places
<1>9. OpenFor(s, o, c, act2, tta, X)
  <2>1. \A t \in b : /\ act[tta[t]].handle \in Opened(s) /\ act[tta[t]].handle \notin X
                     /\ s.fds[s.files[act[tta[t]].handle]] = act[tta[t]].id
    BY <1>1, <1>3 DEF OpenFor
  <2>2. \A t \in b : /\ act2[tta[t]].handle \in Opened(s) /\ act2[tta[t]].handle \notin X
                     /\ s.fds[s.files[act2[tta[t]].handle]] = act2[tta[t]].id
    BY <1>5, <2>1
  <2>3. \A t, u \in b : act2[tta[t]].handle = act2[tta[u]].handle => t = u
    BY <1>1, <1>3, <1>5 DEF OpenFor
  <2>4. \A h \in Opened(s) \ X : \E t \in b : act2[tta[t]].handle = h
    BY <1>1, <1>3, <1>5 DEF OpenFor
  <2> QED BY <1>1, <1>3, <2>2, <2>3, <2>4 DEF OpenFor
<1> QED BY <1>8, <1>9 DEF Chunked

\* What has been hashed of a file is its beginning.
Beginning(a) == /\ a.offset <= Size /\ a.offset <= Len(Content[a.id])
                /\ a.state = SubSeq(Content[a.id], 1, a.offset)

\* The files of the list are distinct files of the group; what has been read of
\* each is its beginning, and what is in a bucket has been read to its end.
HashData ==
    /\ worklist \in Seq(File) /\ IsInjective(worklist) /\ ToSet(worklist) \subseteq Files
    /\ active \in Seq(Active) /\ Len(active) <= FILES
    /\ \A i \in DOMAIN active : Beginning(active[i]) /\ active[i].id \in ToSet(worklist)
    /\ \A t \in DOMAIN tag_to_active : tag_to_active[t] \in DOMAIN active
    /\ \A h \in DOMAIN by_full : /\ by_full[h] \in Seq(File) /\ IsInjective(by_full[h])
                                 /\ \A f \in ToSet(by_full[h]) : h = Bytes(f)
    /\ failed \subseteq Faulty

\* Those a list has passed when it is about to go on at n.
Begun(list, n) == {list[i] : i \in 1 .. n - 1}

\* A file is lost, or read, or in a bucket.
Accounted(f, B, act, tta, full, lost) ==
    \/ f \in lost
    \/ \E t \in B : act[tta[t]].id = f
    \/ \E h \in DOMAIN full : f \in ToSet(full[h])

\* No file has two chunks outstanding, and none in a bucket or lost has one: a
\* file is read once.  And none that has begun is forgotten.
Named(B, act, tta, begun, full, lost) ==
    /\ \A t \in B : act[tta[t]].id \in begun \ lost
    /\ \A t, u \in B : act[tta[t]].id = act[tta[u]].id => t = u
    /\ \A h \in DOMAIN full : \A f \in ToSet(full[h]) :
          f \in begun /\ \A t \in B : act[tta[t]].id # f
    /\ lost \subseteq begun
    /\ \A f \in begun : Accounted(f, B, act, tta, full, lost)

\* Each of the FILES places has a read out, or was lost with a file that failed,
\* or there is no file left for it.
Manned(list, m, n, lost) == m > Len(list) \/ n + Cardinality(lost) >= FILES

HashInv ==
    /\ Chunked(ring, ops, cq, active, tag_to_active, in_flight, {})
    /\ in_flight <= FILES
    /\ pc = "fill" => Len(active) = in_flight
    /\ next_file \in 1 .. Len(worklist) + 1
    /\ Named(BusyTags, active, tag_to_active, Begun(worklist, next_file), by_full, failed)
    /\ IsFiniteSet(failed)
    /\ pc = "chunk" => Manned(worklist, next_file, in_flight, failed)

\* Two pieces of a sequence that follow each other.
LEMMA PiecesJoined ==
    ASSUME NEW C, C \in Seq(Byte), NEW n \in Nat, NEW m \in Nat, n + m <= Len(C)
    PROVE  /\ SubSeq(C, 1, n) \o SubSeq(C, n + 1, n + m) = SubSeq(C, 1, n + m)
           /\ SubSeq(SubSeq(C, n + 1, n + m), 1, m) = SubSeq(C, n + 1, n + m)
<1>1. PICK L \in Nat : L = Len(C) /\ DOMAIN C = 1 .. L
  OBVIOUS
<1>2. PICK a, b, z : a = SubSeq(C, 1, n) /\ b = SubSeq(C, n + 1, n + m) /\ z = SubSeq(C, 1, n + m)
  OBVIOUS
<1>3. /\ a \in Seq(Byte) /\ Len(a) = n /\ DOMAIN a = 1 .. n /\ \A i \in 1 .. n : a[i] = C[i]
      /\ b \in Seq(Byte) /\ Len(b) = m /\ DOMAIN b = 1 .. m /\ \A i \in 1 .. m : b[i] = C[n + i]
      /\ z \in Seq(Byte) /\ Len(z) = n + m /\ DOMAIN z = 1 .. n + m /\ \A i \in 1 .. n + m : z[i] = C[i]
  <2>1. a \in Seq(Byte) /\ Len(a) = n /\ DOMAIN a = 1 .. n /\ \A i \in 1 .. n : a[i] = C[i]
    BY <1>1, <1>2
  <2>2. b \in Seq(Byte) /\ Len(b) = m /\ DOMAIN b = 1 .. m /\ \A i \in 1 .. m : b[i] = C[n + i]
    BY <1>1, <1>2
  <2>3. z \in Seq(Byte) /\ Len(z) = n + m /\ DOMAIN z = 1 .. n + m /\ \A i \in 1 .. n + m : z[i] = C[i]
    BY <1>1, <1>2
  <2> QED BY <2>1, <2>2, <2>3
<1>4. PICK y : y = a \o b
  OBVIOUS
<1>5. /\ y \in Seq(Byte) /\ Len(y) = n + m /\ DOMAIN y = 1 .. n + m
      /\ \A i \in 1 .. n : y[i] = a[i]
      /\ \A i \in 1 .. m : y[n + i] = b[i]
  <2>1. a \in Seq(Byte) /\ b \in Seq(Byte) /\ Len(a) = n /\ Len(b) = m
    BY <1>3
  <2>2. y \in Seq(Byte) /\ Len(y) = n + m /\ \A i \in 1 .. Len(y) : y[i] = IF i <= n THEN a[i] ELSE b[i - n]
    BY <2>1, <1>4, ConcatProperties, ZenonT(60)
  <2>3. DOMAIN y = 1 .. n + m
    BY <2>2, LenProperties
  <2>4. ASSUME NEW i \in 1 .. m
        PROVE  y[n + i] = b[i]
    <3>1. PICK k \in Nat : k = n + i
      OBVIOUS
    <3>2. k \in 1 .. n + m /\ ~(k <= n) /\ k - n = i
      BY <3>1
    <3>3. y[k] = b[i]
      BY <2>2, <3>2
    <3> QED BY <3>1, <3>3
  <2>5. ASSUME NEW i \in 1 .. n
        PROVE  y[i] = a[i]
    BY <2>2
  <2> QED BY <2>2, <2>3, <2>4, <2>5
<1>6. \A i \in 1 .. n + m : y[i] = z[i]
  <2>1. TAKE i \in 1 .. n + m
  <2>2. CASE i <= n
    <3>1. i \in 1 .. n
      BY <2>2
    <3>2. y[i] = a[i] /\ a[i] = C[i] /\ z[i] = C[i]
      BY <1>3, <1>5, <3>1
    <3> QED BY <3>2
  <2>3. CASE i > n
    <3>1. PICK j \in 1 .. m : n + j = i
      BY <2>3
    <3>2. y[n + j] = b[j] /\ b[j] = C[n + j] /\ z[i] = C[i]
      BY <1>3, <1>5, <3>1
    <3> QED BY <3>1, <3>2
  <2> QED BY <2>2, <2>3
<1>7. y = z
  BY <1>3, <1>5, <1>6
<1>8. SubSeq(b, 1, m) = b
  BY <1>3
<1> QED BY <1>2, <1>4, <1>7, <1>8

\* What the bytes that are back make of a file.
Carried(a, s, d) ==
    /\ d.res < 0 => a.id \in Faulty
    /\ d.res \in Int
    /\ d.res >= 0 =>
         LET b == [a EXCEPT !.state = @ \o SubSeq(s.buf[d.tag], 1, d.res),
                            !.offset = @ + d.res]
         IN  b \in Active /\ Beginning(b) /\ b.id = a.id /\ b.handle = a.handle
             /\ b.offset = a.offset + d.res

\* The bytes that are back carry the file on from where it was.
LEMMA FedOn ==
    ASSUME NEW a, a \in Active, Beginning(a), a.offset < Size, NEW d, d \in Completion,
           NEW s, s \in RingRecord, d.tag \in DOMAIN s.buf,
           NEW w, w = [file |-> a.id, off |-> a.offset, len |-> NextLen(a), handle |-> a.handle],
           Served(s, w, d)
    PROVE  Carried(a, s, d)
<1>1. PICK off, len : off = a.offset /\ len = NextLen(a)
  OBVIOUS
<1>2. off \in Nat /\ len \in Nat /\ off + len <= Size /\ a.id \in File /\ a.handle \in Nat /\ a.state \in Seq(Byte)
  BY <1>1, NextReadFacts DEF Active
<1>3. w.file = a.id /\ w.off = off /\ w.len = len
  BY <1>1
<1>4. PICK res : res = d.res
  OBVIOUS
<1>5. res \in Outcomes(w)
  BY <1>4 DEF Served
<1>6. PICK C : C = Content[a.id]
  OBVIOUS
<1>7. C \in Seq(Byte)
  BY <1>2, <1>6, RingAssumption
<1>8. /\ res \in Int /\ res <= len
      /\ res > 0 => off + res <= Len(C)
      /\ a.id \notin Faulty => res >= 0
  <2>1. w.file \in File /\ w.off \in Nat /\ w.len \in Nat
    BY <1>2, <1>3
  <2>2. res \in Int /\ res <= w.len
    BY <1>5, <2>1, OutcomeFacts
  <2>3. res > 0 => w.off + res <= Len(Content[w.file])
    BY <1>5, <2>1, OutcomeFacts
  <2>4. w.file \notin Faulty => res >= 0
    BY <1>5, <2>1, OutcomeFacts
  <2> QED BY <1>3, <1>6, <2>2, <2>3, <2>4
<1>9. ASSUME res >= 0
      PROVE  LET b == [a EXCEPT !.state = @ \o SubSeq(s.buf[d.tag], 1, res), !.offset = @ + res]
             IN  b \in Active /\ Beginning(b) /\ b.id = a.id /\ b.handle = a.handle
                 /\ b.offset = a.offset + res
  <2>1. PICK bytes : bytes = SubSeq(s.buf[d.tag], 1, res)
    OBVIOUS
  <2>2. PICK state : state = a.state \o bytes
    OBVIOUS
  <2>3. PICK m \in Nat : m = off + res
    BY <1>2, <1>8, <1>9
  <2>4. PICK b : b = [a EXCEPT !.state = state, !.offset = m]
    OBVIOUS
  <2>5. [a EXCEPT !.state = @ \o SubSeq(s.buf[d.tag], 1, res), !.offset = @ + res] = b
    BY <1>1, <2>1, <2>2, <2>3, <2>4
  <2>6. a.state = SubSeq(C, 1, off) /\ off <= Len(C) /\ off <= Size
    BY <1>1, <1>6 DEF Beginning
  <2>7. m <= Size /\ m <= Len(C)
    <3>1. PICK L \in Nat : L = Len(C)
      BY <1>7
    <3>2. Size \in Nat
      BY PrefilterAssumption
    <3>3. off <= L /\ off <= Size
      BY <2>6, <3>1
    <3>4. res > 0 => m <= L
      BY <1>8, <2>3, <3>1
    <3>5. m <= L
      BY <1>2, <1>8, <1>9, <2>3, <3>3, <3>4
    <3>6. m <= Size
      BY <1>2, <1>8, <2>3, <3>2
    <3> QED BY <3>1, <3>5, <3>6
  <2>8. state = SubSeq(C, 1, m)
    <3>1. CASE res = 0
      <4>1. s.buf[d.tag] \in Seq(Byte)
        BY RingFields
      <4>2. bytes = <<>>
        BY <2>1, <3>1, <4>1
      <4>3. state = a.state
        BY <1>2, <2>2, <4>2
      <4> QED BY <1>2, <2>3, <2>6, <3>1, <4>3
    <3>2. CASE res > 0
      <4>1. s.buf[d.tag] = SubSeq(C, off + 1, off + res)
        BY <1>3, <1>4, <1>6, <3>2 DEF Served
      <4>2. PICK j \in Nat : j = res
        BY <1>8, <3>2
      <4>3. off + j <= Len(C)
        BY <2>3, <2>7, <4>2
      <4>4. /\ SubSeq(C, 1, off) \o SubSeq(C, off + 1, off + j) = SubSeq(C, 1, off + j)
            /\ SubSeq(SubSeq(C, off + 1, off + j), 1, j) = SubSeq(C, off + 1, off + j)
        BY <1>2, <1>7, <4>3, PiecesJoined
      <4> QED BY <2>1, <2>2, <2>3, <2>6, <4>1, <4>2, <4>4
    <3> QED BY <1>8, <1>9, <3>1, <3>2
  <2>9. state \in Seq(Byte)
    BY <1>7, <2>7, <2>8
  <2>10. b \in Active /\ b.id = a.id /\ b.handle = a.handle /\ b.offset = m /\ b.state = state
    BY <2>4, <2>9 DEF Active
  <2>11. Beginning(b)
    BY <1>6, <2>7, <2>8, <2>10 DEF Beginning
  <2> QED BY <1>1, <2>3, <2>5, <2>10, <2>11
<1> QED BY <1>4, <1>8, <1>9 DEF Carried

\* One more file of the list has begun.
LEMMA BegunMore ==
    ASSUME NEW list, list \in Seq(File), IsInjective(list), NEW n \in 1 .. Len(list)
    PROVE  /\ Begun(list, n + 1) = Begun(list, n) \cup {list[n]}
           /\ list[n] \notin Begun(list, n) /\ list[n] \in File /\ list[n] \in ToSet(list)
<1>1. PICK L \in Nat : L = Len(list) /\ DOMAIN list = 1 .. L /\ \A i \in 1 .. L : list[i] \in File
  OBVIOUS
<1>2. n \in Nat /\ n \in 1 .. L /\ n >= 1
  BY <1>1
<1>3. 1 .. (n + 1) - 1 = (1 .. n - 1) \cup {n}
  BY <1>2
<1>4. \A i \in 1 .. n - 1 : i \in 1 .. L /\ i # n
  BY <1>1, <1>2
<1>5. \A i, j \in 1 .. L : list[i] = list[j] => i = j
  BY <1>1 DEF IsInjective
<1>6. list[n] \in ToSet(list)
  BY <1>1, <1>2 DEF ToSet
<1> QED BY <1>1, <1>2, <1>3, <1>4, <1>5, <1>6 DEF Begun

\* A file that has not begun begins.
LEMMA NamedMore ==
    ASSUME NEW B, NEW act, NEW tta, NEW begun, NEW full, NEW lost,
           Named(B, act, tta, begun, full, lost),
           NEW f, f \notin begun, NEW t0, NEW act2, NEW tta2,
           \A t \in B : act2[tta2[t]].id = act[tta[t]].id, act2[tta2[t0]].id = f,
           NEW B2, B2 = B \cup {t0}, NEW begun2, begun2 = begun \cup {f}
    PROVE  Named(B2, act2, tta2, begun2, full, lost)
<1>1. \A t \in B : act[tta[t]].id # f
  BY DEF Named
<1>2. f \notin lost
  BY DEF Named
<1>3. /\ \A t \in B2 : act2[tta2[t]].id \in begun2 \ lost
      /\ \A t, u \in B2 : act2[tta2[t]].id = act2[tta2[u]].id => t = u
      /\ \A h \in DOMAIN full : \A x \in ToSet(full[h]) :
            x \in begun2 /\ \A t \in B2 : act2[tta2[t]].id # x
      /\ lost \subseteq begun2
  BY <1>1, <1>2 DEF Named
<1>4. ASSUME NEW x \in begun
      PROVE  Accounted(x, B2, act2, tta2, full, lost)
  BY DEF Named, Accounted
<1>5. Accounted(f, B2, act2, tta2, full, lost)
  BY DEF Accounted
<1> QED BY <1>3, <1>4, <1>5 DEF Named

\* Nothing that Named speaks of changes.
LEMMA NamedSame ==
    ASSUME NEW B, NEW act, NEW tta, NEW begun, NEW full, NEW lost,
           Named(B, act, tta, begun, full, lost),
           NEW act2, \A t \in B : act2[tta[t]].id = act[tta[t]].id
    PROVE  Named(B, act2, tta, begun, full, lost)
BY DEF Named, Accounted

\* A file is passed over.
LEMMA NamedPassed ==
    ASSUME NEW B, NEW act, NEW tta, NEW begun, NEW full, NEW lost,
           Named(B, act, tta, begun, full, lost), NEW f, f \notin begun,
           NEW begun2, begun2 = begun \cup {f}, NEW lost2, lost2 = lost \cup {f}
    PROVE  Named(B, act, tta, begun2, full, lost2)
<1>1. \A t \in B : act[tta[t]].id # f
  BY DEF Named
<1>2. /\ \A t \in B : act[tta[t]].id \in begun2 \ lost2
      /\ \A t, u \in B : act[tta[t]].id = act[tta[u]].id => t = u
      /\ \A h \in DOMAIN full : \A x \in ToSet(full[h]) :
            x \in begun2 /\ \A t \in B : act[tta[t]].id # x
      /\ lost2 \subseteq begun2
  BY <1>1 DEF Named
<1>3. ASSUME NEW x \in begun
      PROVE  Accounted(x, B, act, tta, full, lost2)
  BY DEF Named, Accounted
<1>4. Accounted(f, B, act, tta, full, lost2)
  BY DEF Accounted
<1> QED BY <1>2, <1>3, <1>4 DEF Named

\* The file of tag t0 is lost.
LEMMA NamedLost ==
    ASSUME NEW B, NEW act, NEW tta, NEW begun, NEW full, NEW lost,
           Named(B, act, tta, begun, full, lost), NEW t0 \in B,
           NEW B2, B2 = B \ {t0}, NEW lost2, lost2 = lost \cup {act[tta[t0]].id}
    PROVE  Named(B2, act, tta, begun, full, lost2) /\ act[tta[t0]].id \notin lost
<1>1. \A t \in B2 : act[tta[t]].id # act[tta[t0]].id
  BY DEF Named
<1>2. /\ \A t \in B2 : act[tta[t]].id \in begun \ lost2
      /\ \A t, u \in B2 : act[tta[t]].id = act[tta[u]].id => t = u
      /\ \A h \in DOMAIN full : \A x \in ToSet(full[h]) :
            x \in begun /\ \A t \in B2 : act[tta[t]].id # x
      /\ lost2 \subseteq begun
  BY <1>1 DEF Named
<1>3. ASSUME NEW x \in begun
      PROVE  Accounted(x, B2, act, tta, full, lost2)
  BY DEF Named, Accounted
<1>4. act[tta[t0]].id \notin lost
  BY DEF Named
<1>5. Named(B2, act, tta, begun, full, lost2)
  BY <1>2, <1>3 DEF Named
<1> QED BY <1>4, <1>5

\* The next read of the same file takes the place of the one that is back.
LEMMA NamedAgain ==
    ASSUME NEW B, NEW act, NEW tta, NEW begun, NEW full, NEW lost,
           Named(B, act, tta, begun, full, lost),
           NEW t0 \in B, NEW t1, NEW act2, NEW tta2,
           \A t \in B \ {t0} : act2[tta2[t]].id = act[tta[t]].id,
           act2[tta2[t1]].id = act[tta[t0]].id,
           NEW B2, B2 = (B \ {t0}) \cup {t1}
    PROVE  Named(B2, act2, tta2, begun, full, lost)
<1>1. \A t \in B \ {t0} : act[tta[t]].id # act[tta[t0]].id
  BY DEF Named
<1>2. /\ \A t \in B2 : act2[tta2[t]].id \in begun \ lost
      /\ \A t, u \in B2 : act2[tta2[t]].id = act2[tta2[u]].id => t = u
      /\ \A h \in DOMAIN full : \A x \in ToSet(full[h]) :
            x \in begun /\ \A t \in B2 : act2[tta2[t]].id # x
      /\ lost \subseteq begun
  BY <1>1 DEF Named
<1>3. ASSUME NEW x \in begun
      PROVE  Accounted(x, B2, act2, tta2, full, lost)
  <2>1. CASE \E t \in B : act[tta[t]].id = x
    BY <2>1 DEF Accounted
  <2> QED BY <2>1 DEF Named, Accounted
<1> QED BY <1>2, <1>3 DEF Named

\* What is so when the file of tag t0 has gone into the bucket h.
OneMore(B, act, tta, begun, full, lost, t0, h) ==
    LET full2 == AddTo(full, h, act[tta[t0]].id) IN
    /\ Named(B \ {t0}, act, tta, begun, full2, lost)
    /\ DOMAIN full2 = DOMAIN full \cup {h}
    /\ \A g \in DOMAIN full2 : full2[g] \in Seq(File) /\ IsInjective(full2[g])
    /\ \A g \in DOMAIN full \ {h} : full2[g] = full[g]
    /\ \A g \in DOMAIN full2 : \A f \in ToSet(full2[g]) :
          \/ f = act[tta[t0]].id /\ g = h
          \/ g \in DOMAIN full /\ f \in ToSet(full[g])

\* A file that is done goes into its bucket.
LEMMA NamedDone ==
    ASSUME NEW B, NEW act, NEW tta, NEW begun, NEW full, NEW lost,
           Named(B, act, tta, begun, full, lost),
           NEW t0 \in B, NEW h,
           \A g \in DOMAIN full : full[g] \in Seq(File) /\ IsInjective(full[g]),
           act[tta[t0]].id \in File
    PROVE  OneMore(B, act, tta, begun, full, lost, t0, h)
<1>1. PICK f0, full2 : f0 = act[tta[t0]].id /\ full2 = AddTo(full, h, f0)
  OBVIOUS
<1>2. PICK old : old = IF h \in DOMAIN full THEN full[h] ELSE <<>>
  OBVIOUS
<1>3. old \in Seq(File) /\ IsInjective(old)
  BY <1>2, NoElements
<1>4. f0 \notin ToSet(old)
  BY <1>1, <1>2, NoElements DEF Named
<1>5. /\ DOMAIN full2 = DOMAIN full \cup {h} /\ full2[h] = Append(old, f0)
      /\ \A g \in DOMAIN full \ {h} : full2[g] = full[g]
  BY <1>1, <1>2 DEF AddTo, With
<1>6. f0 \in File
  BY <1>1
<1>7. /\ Append(old, f0) \in Seq(File) /\ IsInjective(Append(old, f0))
      /\ ToSet(Append(old, f0)) = ToSet(old) \cup {f0}
  <2>1. PICK L \in Nat : L = Len(old) /\ DOMAIN old = 1 .. L /\ \A i \in 1 .. L : old[i] \in File
    BY <1>3
  <2>2. PICK y : y = Append(old, f0)
    OBVIOUS
  <2>3. /\ y \in Seq(File) /\ Len(y) = L + 1 /\ DOMAIN y = 1 .. L + 1
        /\ \A i \in 1 .. L : y[i] = old[i]
        /\ y[L + 1] = f0
    BY <1>3, <1>6, <2>1, <2>2
  <2>4. \A i \in 1 .. L : old[i] # f0
    BY <1>4, <2>1 DEF ToSet
  <2>5. \A i, j \in 1 .. L : old[i] = old[j] => i = j
    BY <1>3, <2>1 DEF IsInjective
  <2>6. 1 .. L + 1 = (1 .. L) \cup {L + 1}
    BY <2>1
  <2>7. IsInjective(y)
    BY <2>3, <2>4, <2>5, <2>6 DEF IsInjective
  <2>8. ToSet(y) = ToSet(old) \cup {f0}
    <3>1. PICK M : M = L + 1
      OBVIOUS
    <3> QED BY <2>1, <2>3, <2>6, <3>1 DEF ToSet
  <2> QED BY <2>2, <2>3, <2>7, <2>8
<1>8. \A g \in DOMAIN full2 : full2[g] \in Seq(File) /\ IsInjective(full2[g])
  BY <1>5, <1>7
<1>9. \A g \in DOMAIN full2 : \A f \in ToSet(full2[g]) :
          (f = f0 /\ g = h) \/ (g \in DOMAIN full /\ f \in ToSet(full[g]))
  <2>1. \A f \in ToSet(old) : h \in DOMAIN full /\ f \in ToSet(full[h])
    BY <1>2, NoElements
  <2>2. ASSUME NEW f \in ToSet(full2[h])
        PROVE  f = f0 \/ (h \in DOMAIN full /\ f \in ToSet(full[h]))
    BY <1>5, <1>7, <2>1
  <2>3. ASSUME NEW g \in DOMAIN full2, g # h
        PROVE  g \in DOMAIN full /\ full2[g] = full[g]
    BY <1>5, <2>3
  <2> QED BY <2>2, <2>3
<1>10. Named(B \ {t0}, act, tta, begun, full2, lost)
  <2>1. \A t \in B \ {t0} : act[tta[t]].id # f0
    BY <1>1 DEF Named
  <2>2. f0 \in begun
    BY <1>1 DEF Named
  <2>3. \A g \in DOMAIN full2 : \A f \in ToSet(full2[g]) :
            f \in begun /\ \A t \in B \ {t0} : act[tta[t]].id # f
    BY <1>9, <2>1, <2>2 DEF Named
  <2>4. /\ \A t \in B \ {t0} : act[tta[t]].id \in begun \ lost
        /\ \A t, u \in B \ {t0} : act[tta[t]].id = act[tta[u]].id => t = u
        /\ lost \subseteq begun
    BY DEF Named
  <2>5. h \in DOMAIN full2 /\ f0 \in ToSet(full2[h])
    BY <1>5, <1>7
  <2>6. ASSUME NEW g \in DOMAIN full, NEW f \in ToSet(full[g])
        PROVE  g \in DOMAIN full2 /\ f \in ToSet(full2[g])
    <3>1. CASE g = h
      BY <1>2, <1>5, <1>7, <3>1
    <3> QED BY <1>5, <3>1
  <2>7. ASSUME NEW f \in begun
        PROVE  Accounted(f, B \ {t0}, act, tta, full2, lost)
    <3>1. CASE \E t \in B : act[tta[t]].id = f
      BY <1>1, <2>5, <3>1 DEF Accounted
    <3>2. CASE \E g \in DOMAIN full : f \in ToSet(full[g])
      BY <2>6, <3>2 DEF Accounted
    <3>3. Accounted(f, B, act, tta, full, lost)
      BY DEF Named
    <3> QED BY <3>1, <3>2, <3>3 DEF Accounted
  <2> QED BY <2>3, <2>4, <2>7 DEF Named
<1> QED BY <1>1, <1>5, <1>8, <1>9, <1>10 DEF OneMore

\* A read more or less, and a file more that is lost.
LEMMA MannedFacts ==
    ASSUME NEW lost, IsFiniteSet(lost), NEW x, NEW lost2, lost2 = lost \cup {x}
    PROVE  /\ IsFiniteSet(lost2)
           /\ x \notin lost => Cardinality(lost2) = Cardinality(lost) + 1
           /\ Cardinality(lost) \in Nat
<1>1. /\ IsFiniteSet(lost \cup {x})
      /\ Cardinality(lost \cup {x}) = IF x \in lost THEN Cardinality(lost) ELSE Cardinality(lost) + 1
  BY FS_AddElement
<1>2. Cardinality(lost) \in Nat
  BY FS_CardinalityType
<1> QED BY <1>1, <1>2

\* With fewer than FILES reads in flight the queue has room for one more.
LEMMA ChunkAsked ==
    ASSUME NEW s, NEW o, NEW c, NEW act, NEW tta, NEW n, NEW X, Chunked(s, o, c, act, tta, n, X),
           n < FILES, NEW a, NEW index
    PROVE  /\ SqRoom(s) # 0
           /\ QueueChunk(s, a, index, n) =>
                 /\ ring' = Submit(s, a.handle, NextRead(a)) /\ in_flight' = n + 1
                 /\ tag_to_active' = With(tag_to_active, NextTag(s, 1), index)
<1>1. SqRoom(s) \in Int /\ SqRoom(s) >= SqEntries - n /\ n \in Nat
  BY ChunkFacts
<1>2. FILES \in 1 .. SqEntries /\ SqEntries \in Nat
  BY HashFileAssumption, RingAssumption
<1>3. SqRoom(s) # 0
  BY <1>1, <1>2
<1> QED BY <1>3 DEF QueueChunk

\* The next file of the list is opened and its first chunk asked for.
LEMMA FillHash ==
    HashInv /\ HashData /\ FillFile => HashInv' /\ HashData'
<1> SUFFICES ASSUME HashInv, HashData, FillFile
             PROVE  HashInv' /\ HashData'
  OBVIOUS
<1>1. PICK s, o, c, act, tta, n, list, m, full :
         /\ s = ring /\ o = ops /\ c = cq /\ act = active /\ tta = tag_to_active
         /\ n = in_flight /\ list = worklist /\ m = next_file /\ full = by_full
  OBVIOUS
<1>2. PICK lost : lost = failed
  OBVIOUS
<1>3. Chunked(s, o, c, act, tta, n, {})
  BY <1>1 DEF HashInv
<1>4. /\ list \in Seq(File) /\ IsInjective(list) /\ ToSet(list) \subseteq Files
      /\ act \in Seq(Active) /\ Len(act) <= FILES
      /\ \A i \in DOMAIN act : Beginning(act[i]) /\ act[i].id \in ToSet(list)
      /\ \A t \in DOMAIN tta : tta[t] \in DOMAIN act
  BY <1>1 DEF HashData
<1>5. Len(act) = n /\ m \in 1 .. Len(list) + 1 /\ m <= Len(list) /\ n < FILES /\ pc = "fill"
  BY <1>1 DEF HashInv, FillFile
<1>6. Len(list) \in Nat /\ m \in Nat /\ m \in 1 .. Len(list) /\ n \in Nat
  BY <1>4, <1>5
<1>7. PICK f, h0 : f = list[m] /\ h0 = NewHandle(s)
  OBVIOUS
<1>8. /\ Begun(list, m + 1) = Begun(list, m) \cup {f}
      /\ f \notin Begun(list, m) /\ f \in File /\ f \in ToSet(list)
  BY <1>4, <1>6, <1>7, BegunMore
<1>9. PICK r : r = OpenFile(s, f)
  OBVIOUS
<1>10. /\ Chunked(r, o, c, act, tta, n, {} \cup {h0})
       /\ Opening(s, o, c, ChunkOf(act, tta), f, r)
  BY <1>3, <1>7, <1>8, <1>9, ChunkOpened
<1>11. Chunked(r, o, c, act, tta, n, {h0})
  BY <1>10
<1>12. r.fds[r.files[h0]] = f /\ h0 \in Nat /\ Busy(r, o, c) = Busy(s, o, c)
  BY <1>7, <1>10 DEF Opening
<1>13. PICK a : a = Started(f, h0)
  OBVIOUS
<1>14. /\ a \in Active /\ a.handle = h0 /\ a.id = f /\ a.offset = 0 /\ a.state = <<>>
       /\ a.offset < Size
  BY <1>8, <1>12, <1>13, NoElements, PrefilterAssumption DEF Started, Active
<1>15. PICK index, act2 : index = Len(act) + 1 /\ act2 = Append(act, a)
  OBVIOUS
<1>16. /\ act2 \in Seq(Active) /\ index \in DOMAIN act2 /\ act2[index] = a
       /\ DOMAIN act \subseteq DOMAIN act2 /\ index \notin DOMAIN act
       /\ \A j \in DOMAIN act : act2[j] = act[j]
       /\ \A j \in DOMAIN act2 : j \in DOMAIN act \/ j = index
       /\ Len(act2) = n + 1
  BY <1>4, <1>5, <1>14, <1>15
<1>17. \A t \in Busy(r, o, c) : t \in DOMAIN tta /\ tta[t] \in DOMAIN act /\ tta[t] # index
  BY <1>11, <1>16 DEF Chunked, Places
<1>18. PICK r2, tta2, t1 : /\ r2 = Submit(r, a.handle, NextRead(a)) /\ t1 = NextTag(r, 1)
                           /\ tta2 = With(tta, NextTag(r, 1), index)
  OBVIOUS
<1>19. /\ Chunked(r2, o, c, act2, tta2, n + 1, {h0} \ {h0})
       /\ Busy(r2, o, c) = Busy(r, o, c) \cup {t1}
       /\ t1 \notin Busy(r, o, c)
       /\ \A t \in Busy(r, o, c) : tta2[t] = tta[t] /\ act2[tta2[t]] = act[tta[t]]
       /\ tta2[t1] = index
  <2>1. /\ a.handle \in {h0} /\ r.fds[r.files[a.handle]] = a.id
        /\ \A j \in DOMAIN act \ {index} : act2[j] = act[j]
        /\ \A t \in Busy(r, o, c) : tta[t] # index
    BY <1>12, <1>14, <1>16, <1>17
  <2>2. a \in Active /\ a.offset < Size
    BY <1>14
  <2>3. act2 \in Seq(Active) /\ index \in DOMAIN act2 /\ act2[index] = a /\ DOMAIN act \subseteq DOMAIN act2
    BY <1>16
  <2>4. Asking(r, o, c, act, tta, n, {h0}, a, index, act2)
    BY <1>11, <2>1, <2>2, <2>3, ChunkQueued
  <2>5. a.handle = h0
    BY <1>14
  <2> QED BY <1>18, <2>4, <2>5 DEF Asking
<1>20. SqRoom(ring) # 0
  BY <1>1, <1>3, <1>5, ChunkAsked
<1>21. QueueChunk(r, a, index, n)
  BY <1>1, <1>7, <1>9, <1>13, <1>15 DEF FillFile
<1>22. /\ ring' = r2 /\ in_flight' = n + 1 /\ tag_to_active' = tta2 /\ active' = act2
       /\ ops' = o /\ cq' = c /\ worklist' = list /\ by_full' = full /\ failed' = failed
       /\ next_file' = m + 1 /\ pc' = pc
  <2>1. ring' = r2 /\ in_flight' = n + 1 /\ tag_to_active' = tta2
    BY <1>1, <1>5, <1>11, <1>18, <1>21, ChunkAsked
  <2>2. active' = act2
    BY <1>1, <1>7, <1>13, <1>15, <1>20 DEF FillFile
  <2> QED BY <1>1, <2>1, <2>2 DEF FillFile
<1>23. Chunked(ring', ops', cq', active', tag_to_active', in_flight', {})
  BY <1>19, <1>22
<1>24. Named(Busy(r2, o, c), act2, tta2, Begun(list, m + 1), full, lost)
  <2>1. Named(BusyTags, active, tag_to_active, Begun(worklist, next_file), by_full, failed)
    BY DEF HashInv
  <2>2. Named(Busy(r, o, c), act, tta, Begun(list, m), full, lost)
    BY <1>1, <1>2, <1>12, <2>1 DEF BusyTags, Busy
  <2>3. Named(Busy(r, o, c) \cup {t1}, act2, tta2, Begun(list, m) \cup {f}, full, lost)
    <3>1. f \notin Begun(list, m) /\ t1 \notin Busy(r, o, c)
      BY <1>8, <1>19
    <3>2. /\ \A t \in Busy(r, o, c) : act2[tta2[t]].id = act[tta[t]].id
          /\ act2[tta2[t1]].id = f
      BY <1>14, <1>16, <1>19
    <3>3. PICK B, begun, B2, begun2 : /\ B = Busy(r, o, c) /\ begun = Begun(list, m)
                                      /\ B2 = B \cup {t1} /\ begun2 = begun \cup {f}
      OBVIOUS
    <3>4. /\ Named(B, act, tta, begun, full, lost) /\ f \notin begun
          /\ \A t \in B : act2[tta2[t]].id = act[tta[t]].id
      BY <2>2, <3>1, <3>2, <3>3
    <3>5. Named(B2, act2, tta2, begun2, full, lost)
      BY <3>2, <3>3, <3>4, NamedMore
    <3> QED BY <3>3, <3>5
  <2> QED BY <1>8, <1>19, <2>3
<1>25. BusyTags' = Busy(r2, o, c)
  BY <1>22 DEF BusyTags, Busy
<1>26. HashInv'
  <2>1. in_flight' <= FILES /\ Len(active') = in_flight'
    BY <1>5, <1>6, <1>16, <1>22, HashFileAssumption
  <2>2. next_file' \in 1 .. Len(worklist') + 1
    BY <1>6, <1>22
  <2>3. Named(BusyTags', active', tag_to_active', Begun(worklist', next_file'), by_full', failed')
    BY <1>2, <1>22, <1>24, <1>25
  <2>4. IsFiniteSet(failed') /\ pc' = "fill"
    BY <1>5, <1>22 DEF HashInv
  <2> QED BY <1>23, <2>1, <2>2, <2>3, <2>4 DEF HashInv
<1>27. HashData'
  <2>1. Len(act2) <= FILES
    BY <1>5, <1>6, <1>16, HashFileAssumption
  <2>2. Beginning(a)
    BY <1>8, <1>14, RingAssumption, PrefilterAssumption DEF Beginning
  <2>3. \A i \in DOMAIN act2 : Beginning(act2[i]) /\ act2[i].id \in ToSet(list)
    BY <1>4, <1>8, <1>14, <1>16, <2>2
  <2>4. \A t \in DOMAIN tta2 : tta2[t] \in DOMAIN act2
    BY <1>4, <1>16, <1>18 DEF With
  <2>5. /\ \A h \in DOMAIN by_full : /\ by_full[h] \in Seq(File) /\ IsInjective(by_full[h])
                                     /\ \A x \in ToSet(by_full[h]) : h = Bytes(x)
        /\ failed \subseteq Faulty
    BY DEF HashData
  <2>6. \A h \in DOMAIN full : /\ full[h] \in Seq(File) /\ IsInjective(full[h])
                               /\ \A x \in ToSet(full[h]) : h = Bytes(x)
    BY <1>1, <2>5
  <2> QED BY <1>4, <1>16, <1>22, <2>1, <2>3, <2>4, <2>5, <2>6 DEF HashData
<1> QED BY <1>26, <1>27

\* A file that cannot be opened is passed over.
LEMMA SkipHash ==
    HashInv /\ HashData /\ FillUnopenable => HashInv' /\ HashData'
<1> SUFFICES ASSUME HashInv, HashData, FillUnopenable
             PROVE  HashInv' /\ HashData'
  OBVIOUS
<1>1. PICK s, o, c, act, tta, n, list, m, full :
         /\ s = ring /\ o = ops /\ c = cq /\ act = active /\ tta = tag_to_active
         /\ n = in_flight /\ list = worklist /\ m = next_file /\ full = by_full
  OBVIOUS
<1>2. /\ ring' = s /\ ops' = o /\ cq' = c /\ active' = act /\ tag_to_active' = tta
      /\ in_flight' = n /\ worklist' = list /\ next_file' = m + 1 /\ by_full' = full /\ pc' = pc
  BY <1>1 DEF FillUnopenable, ring_vars
<1>3. /\ list \in Seq(File) /\ IsInjective(list) /\ m \in 1 .. Len(list) + 1 /\ m <= Len(list)
  BY <1>1 DEF HashInv, HashData, FillUnopenable
<1>4. Len(list) \in Nat /\ m \in 1 .. Len(list)
  BY <1>3
<1>5. PICK f, begun, begun2, lost, lost2 :
         /\ f = list[m] /\ begun = Begun(list, m) /\ begun2 = Begun(list, m + 1)
         /\ lost = failed /\ lost2 = lost \cup {f}
  OBVIOUS
<1>6. begun2 = begun \cup {f} /\ f \notin begun
  BY <1>3, <1>4, <1>5, BegunMore
<1>7. HashInv'
  <2>1. PICK B : B = BusyTags
    OBVIOUS
  <2>2. Named(B, act, tta, begun, full, lost) /\ IsFiniteSet(lost)
    BY <1>1, <1>5, <2>1 DEF HashInv
  <2>3. Named(B, act, tta, begun2, full, lost2)
    BY <1>5, <1>6, <2>2, NamedPassed
  <2>9. failed' = lost2 /\ pc' = "fill"
    BY <1>1, <1>5 DEF FillUnopenable
  <2>10. IsFiniteSet(failed')
    BY <1>5, <2>2, <2>9, MannedFacts
  <2>4. BusyTags' = B
    BY <1>1, <1>2, <2>1 DEF BusyTags
  <2>5. Named(BusyTags', active', tag_to_active', Begun(worklist', next_file'), by_full', failed')
    BY <1>2, <1>5, <2>3, <2>4, <2>9
  <2>6. Chunked(ring', ops', cq', active', tag_to_active', in_flight', {})
    BY <1>1, <1>2 DEF HashInv
  <2>7. in_flight' <= FILES /\ (pc' = "fill" => Len(active') = in_flight')
    BY <1>1, <1>2 DEF HashInv
  <2>8. next_file' \in 1 .. Len(worklist') + 1
    BY <1>2, <1>4
  <2> QED BY <2>5, <2>6, <2>7, <2>8, <2>9, <2>10 DEF HashInv
<1>8. HashData'
  <2>1. failed' \subseteq Faulty
    BY DEF HashData, FillUnopenable
  <2> QED BY <1>1, <1>2, <2>1 DEF HashData
<1> QED BY <1>7, <1>8

\* Nothing of it changes but, perhaps, from filling to chunks.
LEMMA HashSame ==
    HashInv /\ HashData /\ UNCHANGED <<ring_vars, next_file, in_flight, hash_vars>>
    /\ (pc' = "fill" => pc = "fill")
    /\ (pc' = "chunk" => pc = "chunk" \/ Manned(worklist, next_file, in_flight, failed))
    => HashInv' /\ HashData'
<1> SUFFICES ASSUME HashInv, HashData, UNCHANGED <<ring_vars, next_file, in_flight, hash_vars>>,
                    pc' = "fill" => pc = "fill",
                    pc' = "chunk" => pc = "chunk" \/ Manned(worklist, next_file, in_flight, failed)
             PROVE  HashInv' /\ HashData'
  OBVIOUS
<1>1. /\ ring' = ring /\ ops' = ops /\ cq' = cq /\ active' = active
      /\ tag_to_active' = tag_to_active /\ failed' = failed
      /\ in_flight' = in_flight /\ worklist' = worklist /\ next_file' = next_file /\ by_full' = by_full
  BY DEF ring_vars, hash_vars
<1>2. BusyTags' = BusyTags
  BY <1>1 DEF BusyTags
<1>3. HashInv'
  BY <1>1, <1>2 DEF HashInv
<1> QED BY <1>1, <1>3 DEF HashData

\* The reads stay what they are when the ring's other fields change.
LEMMA HashKept ==
    ASSUME HashInv, HashData, UNCHANGED <<pc, next_file, in_flight, hash_vars>>,
           Flow(ring', ops', cq', ChunkOf(active, tag_to_active)), SameHandles(ring, ring'),
           Used(ring') = Used(ring), BusyTags' = BusyTags
    PROVE  HashInv' /\ HashData'
<1>1. PICK s, o, c, r, p, d, act, tta, n, B :
         /\ s = ring /\ o = ops /\ c = cq /\ act = active /\ tta = tag_to_active
         /\ r = ring' /\ p = ops' /\ d = cq' /\ n = in_flight /\ B = BusyTags
  OBVIOUS
<1>2. /\ active' = act /\ tag_to_active' = tta /\ failed' = failed /\ pc' = pc
      /\ in_flight' = n /\ worklist' = worklist /\ next_file' = next_file /\ by_full' = by_full
  BY <1>1 DEF hash_vars
<1>3. Busy(s, o, c) = B /\ Busy(r, p, d) = B
  BY <1>1 DEF BusyTags, Busy
<1>4. Chunked(s, o, c, act, tta, n, {})
  BY <1>1 DEF HashInv
<1>5. /\ Flow(r, p, d, ChunkOf(act, tta)) /\ Used(r) = Used(s)
      /\ r.files = s.files /\ r.fds = s.fds
  BY <1>1 DEF SameHandles
<1>6. Opened(r) = Opened(s)
  BY <1>5 DEF Opened
<1>7. Places(r, p, d, act, tta, n)
  BY <1>3, <1>4, <1>5 DEF Places, Chunked
<1>8. OpenFor(r, p, d, act, tta, {})
  BY <1>3, <1>4, <1>5, <1>6 DEF OpenFor, Chunked
<1>9. Chunked(ring', ops', cq', active', tag_to_active', in_flight', {})
  BY <1>1, <1>2, <1>7, <1>8 DEF Chunked
<1>10. HashInv'
  <2>1. Named(BusyTags', active', tag_to_active', Begun(worklist', next_file'), by_full', failed')
    BY <1>1, <1>2 DEF HashInv
  <2>2. /\ in_flight' <= FILES /\ (pc' = "fill" => Len(active') = in_flight')
        /\ next_file' \in 1 .. Len(worklist') + 1 /\ IsFiniteSet(failed')
        /\ pc' = "chunk" => Manned(worklist', next_file', in_flight', failed')
    BY <1>1, <1>2 DEF HashInv
  <2> QED BY <1>9, <2>1, <2>2 DEF HashInv
<1> QED BY <1>1, <1>2, <1>10 DEF HashData

\* The worker enters the kernel for a chunk, or waits for one.
LEMMA EnterHash ==
    HashInv /\ HashData /\ EnterForChunk => HashInv' /\ HashData'
<1> SUFFICES ASSUME HashInv, HashData, EnterForChunk
             PROVE  HashInv' /\ HashData'
  OBVIOUS
<1>1. PICK W : W = ChunkOf(active, tag_to_active)
  OBVIOUS
<1>2. Flow(ring, ops, cq, W)
  BY <1>1, ChunkFacts DEF HashInv
<1>3. NextEnter \/ NextWait \/ NextWoken
  BY DEF EnterForChunk
<1>4. /\ Flow(ring', ops', cq', W) /\ SameHandles(ring, ring') /\ Used(ring') = Used(ring)
      /\ BusyTags' = BusyTags
  BY <1>2, <1>3, EnterFlow
<1>5. UNCHANGED <<pc, next_file, in_flight, hash_vars>>
  BY DEF EnterForChunk
<1> QED BY <1>1, <1>4, <1>5, HashKept
\* The kernel ends a read while files are hashed.
LEMMA KernelHash ==
    HashInv /\ HashData /\ Kernel => HashInv' /\ HashData'
<1> SUFFICES ASSUME HashInv, HashData, Kernel
             PROVE  HashInv' /\ HashData'
  OBVIOUS
<1>1. PICK W : W = ChunkOf(active, tag_to_active)
  OBVIOUS
<1>2. Flow(ring, ops, cq, W)
  BY <1>1, ChunkFacts DEF HashInv
<1>3. KernelStep
  BY DEF Kernel
<1>4. /\ Flow(ring', ops', cq', W) /\ SameHandles(ring, ring') /\ Used(ring') = Used(ring)
      /\ BusyTags' = BusyTags
  BY <1>2, <1>3, KernelFlow
<1>5. UNCHANGED <<pc, next_file, in_flight, hash_vars>>
  BY DEF Kernel
<1> QED BY <1>1, <1>4, <1>5, HashKept

\* next() has returned a chunk (k: NextTake) and its slot has been released: the
\* ring before and after that, the places, the reads that were outstanding, the
\* chunk's tag and place, its file as it was and as it will be.
ChunkIsBack(k, s, r, p, d, act, tta, n, B, t0, j, a0, b0) ==
    /\ s = Taken(ring, k) /\ s \in RingRecord
    /\ r = Release(s, <<t0>>) /\ act = active
    /\ tta = tag_to_active /\ n = in_flight - 1 /\ B = BusyTags /\ t0 = Done.tag
    /\ j = At /\ a0 = act[j] /\ b0 = Fed
    /\ Chunked(r, p, d, act, tta, n, {a0.handle})
    /\ t0 \in B /\ Busy(r, p, d) = B \ {t0} /\ j = tta[t0]
    /\ \A t \in B \ {t0} : tta[t] # j /\ tta[t] \in DOMAIN act
    /\ j \in DOMAIN act /\ a0 \in Active /\ r.fds[r.files[a0.handle]] = a0.id
    /\ n \in Nat /\ n < FILES /\ in_flight = n + 1
    /\ Done.res \in Int /\ (Done.res < 0 => a0.id \in Faulty)
    /\ Done.res >= 0 => /\ b0 \in Active /\ Beginning(b0) /\ b0.id = a0.id
                        /\ b0.handle = a0.handle

\* A chunk that is back: its file, its place, and what the file has become.
LEMMA ChunkBack ==
    ASSUME HashInv, HashData, NEW k \in Passed, NextTake(k)
    PROVE  \E s, r, act, tta, n, B, t0, j, a0, b0 :
              ChunkIsBack(k, s, r, ops', cq', act, tta, n, B, t0, j, a0, b0)
<1>1. PICK s, o, c, W, r, p, d, act, tta, m, B, t0, j, a0, b0 :
         /\ s = ring /\ o = ops /\ c = cq /\ W = ChunkOf(act, tta) /\ r = Taken(ring, k)
         /\ p = ops' /\ d = cq' /\ act = active /\ tta = tag_to_active /\ m = in_flight
         /\ B = BusyTags /\ t0 = Done.tag /\ j = At /\ a0 = act[j] /\ b0 = Fed
  OBVIOUS
<1>2. Chunked(s, o, c, act, tta, m, {})
  BY <1>1 DEF HashInv
<1>3. Flow(s, o, c, W)
  BY <1>1, <1>2, ChunkFacts
<1>4. /\ Taking(s, o, c, W, r, p) /\ d = Tail(c) /\ Done = Head(c)
  BY <1>1, <1>3, TakeFlow
<1>5. c # <<>>
  BY <1>1 DEF NextTake
<1>6. Returned(s, o, c, act, tta, m, {}, r, p)
  BY <1>1, <1>2, <1>4, <1>5, ChunkTaken
<1>7. t0 = Head(c).tag /\ j = tta[t0]
  BY <1>1, <1>4 DEF At
<1>8. PICK q : q = Release(r, <<t0>>)
  OBVIOUS
<1>9. /\ Chunked(q, p, d, act, tta, m - 1, {} \cup {a0.handle})
      /\ t0 \in Busy(s, o, c) /\ j \in DOMAIN act /\ a0 \in Active /\ a0.offset < Size
      /\ q.fds[q.files[a0.handle]] = a0.id
      /\ Busy(q, p, d) = Busy(s, o, c) \ {t0}
      /\ \A t \in Busy(q, p, d) : tta[t] # j
      /\ Head(c) \in Completion
      /\ Served(s, W[t0], Head(c))
      /\ W[t0] = [file |-> a0.id, off |-> a0.offset, len |-> NextLen(a0), handle |-> a0.handle]
      /\ r \in RingRecord
  BY <1>1, <1>4, <1>6, <1>7, <1>8, SMTT(30), ZenonT(120) DEF Returned
<1>10. Chunked(q, p, d, act, tta, m - 1, {a0.handle})
  BY <1>9
<1>11. B = Busy(s, o, c)
  BY <1>1 DEF BusyTags, Busy
<1>12. \A t \in B \ {t0} : tta[t] # j /\ tta[t] \in DOMAIN act
  BY <1>2, <1>9, <1>11 DEF Chunked, Places
<1>13. m - 1 \in Nat /\ m - 1 < FILES /\ in_flight = (m - 1) + 1
  <2>1. m - 1 \in Nat
    BY <1>10, ChunkFacts
  <2>2. m \in Nat
    BY <1>2, ChunkFacts
  <2>3. m <= FILES
    BY <1>1 DEF HashInv
  <2> QED BY <1>1, <2>1, <2>2, <2>3, HashFileAssumption
<1>14. Beginning(a0)
  BY <1>1, <1>9 DEF HashData
<1>15. t0 \in DOMAIN s.buf /\ s \in RingRecord
  BY <1>3, <1>9, FlowFacts
<1>16. PICK w, e : w = W[t0] /\ e = Head(c)
  OBVIOUS
<1>17. PICK res : res = e.res
  OBVIOUS
<1>18. Carried(a0, s, e)
  <2>1. w = [file |-> a0.id, off |-> a0.offset, len |-> NextLen(a0), handle |-> a0.handle]
        /\ Served(s, w, e) /\ e \in Completion /\ e.tag \in DOMAIN s.buf
    BY <1>1, <1>4, <1>9, <1>15, <1>16
  <2>2. a0 \in Active /\ a0.offset < Size
    BY <1>9
  <2> QED BY <1>14, <1>15, <1>17, <2>1, <2>2, FedOn
<1>19. Done.res = res
  BY <1>4, <1>16, <1>17
<1>20. res >= 0 => b0 \in Active /\ Beginning(b0) /\ b0.id = a0.id /\ b0.handle = a0.handle
  <2>1. b0 = [a0 EXCEPT !.state = @ \o SubSeq(s.buf[e.tag], 1, e.res), !.offset = @ + e.res]
    BY <1>1, <1>4, <1>16 DEF Fed
  <2> QED BY <1>17, <1>18, <2>1 DEF Carried
<1>21. ChunkIsBack(k, r, q, ops', cq', act, tta, m - 1, B, t0, j, a0, b0)
  <2>1. Done.res \in Int /\ (Done.res < 0 => a0.id \in Faulty)
    BY <1>17, <1>18, <1>19 DEF Carried
  <2>2. /\ Done.res >= 0 => b0 \in Active /\ Beginning(b0) /\ b0.id = a0.id /\ b0.handle = a0.handle
    BY <1>19, <1>20
  <2>3. Chunked(q, ops', cq', act, tta, m - 1, {a0.handle})
    BY <1>1, <1>10
  <2>4. t0 \in B /\ Busy(q, ops', cq') = B \ {t0}
    BY <1>1, <1>9, <1>11
  <2>5. r = Taken(ring, k) /\ r \in RingRecord /\ q = Release(r, <<t0>>)
    BY <1>1, <1>8, <1>9
  <2>6. j \in DOMAIN act /\ a0 \in Active /\ q.fds[q.files[a0.handle]] = a0.id
    BY <1>9
  <2>7. /\ act = active /\ tta = tag_to_active /\ m - 1 = in_flight - 1 /\ B = BusyTags /\ t0 = Done.tag
        /\ j = At /\ a0 = act[j] /\ b0 = Fed
    BY <1>1
  <2> QED BY <1>7, <1>12, <1>13, <2>1, <2>2, <2>3, <2>4, <2>5, <2>6, <2>7 DEF ChunkIsBack
<1> QED BY <1>21

\* A read fails: its file leaves.
LEMMA ErrorHash ==
    HashInv /\ HashData /\ TakeError => HashInv' /\ HashData'
<1> SUFFICES ASSUME HashInv, HashData, TakeError
             PROVE  HashInv' /\ HashData'
  OBVIOUS
<1>1. PICK k \in Passed :
         /\ NextTake(k) /\ Done.res < 0
         /\ ring' = Release(CloseFile(Taken(ring, k), active[At].handle), <<Done.tag>>)
  BY DEF TakeError
<1>2. PICK s, r, act, tta, n, B, t0, j, a0, b0 :
         ChunkIsBack(k, s, r, ops', cq', act, tta, n, B, t0, j, a0, b0)
  BY <1>1, ChunkBack
<1>3. PICK p, d, q, list, m, full : /\ p = ops' /\ d = cq' /\ q = CloseFile(r, a0.handle)
                                    /\ list = worklist /\ m = next_file /\ full = by_full
  OBVIOUS
<1>4. /\ Chunked(r, p, d, act, tta, n, {a0.handle})
      /\ t0 \in B /\ Busy(r, p, d) = B \ {t0} /\ n \in Nat /\ n < FILES
      /\ a0.id \in Faulty /\ act = active /\ tta = tag_to_active /\ a0 = active[At] /\ B = BusyTags
      /\ n = in_flight - 1 /\ in_flight = n + 1
  BY <1>1, <1>2, <1>3 DEF ChunkIsBack
<1>5. /\ Chunked(q, p, d, act, tta, n, {a0.handle} \ {a0.handle})
  BY <1>3, <1>4, ChunkClosed
<1>6. ring' = q
  <2>1. /\ s \in RingRecord /\ s = Taken(ring, k) /\ r = Release(s, <<t0>>) /\ t0 = Done.tag
    BY <1>2 DEF ChunkIsBack
  <2>2. Release(CloseFile(s, a0.handle), <<t0>>) = CloseFile(Release(s, <<t0>>), a0.handle)
    BY <2>1, ClosedReleased
  <2> QED BY <1>1, <1>3, <1>4, <2>1, <2>2
<1>7. /\ active' = act /\ tag_to_active' = tta /\ in_flight' = n /\ worklist' = list
      /\ next_file' = m /\ by_full' = full /\ failed' = failed \cup {a0.id} /\ pc' = pc /\ pc = "chunk"
  BY <1>3, <1>4 DEF TakeError
<1>8. BusyTags' = B \ {t0}
  <2>1. Busy(q, p, d) = Busy(r, p, d)
    <3>1. q.sq = r.sq
      BY <1>3 DEF CloseFile
    <3> QED BY <3>1 DEF Busy
  <2>2. BusyTags' = Busy(q, p, d)
    BY <1>3, <1>6 DEF BusyTags, Busy
  <2> QED BY <1>4, <2>1, <2>2
<1>9. PICK begun, B2, id, lost, lost2 :
          /\ begun = Begun(list, m) /\ B2 = B \ {t0} /\ id = act[tta[t0]].id
          /\ lost = failed /\ lost2 = lost \cup {id}
  OBVIOUS
<1>10. id = a0.id
  BY <1>2, <1>9 DEF ChunkIsBack
<1>11. Named(B2, act, tta, begun, full, lost2) /\ id \notin lost
  <2>2. Named(B, act, tta, begun, full, lost)
    BY <1>3, <1>4, <1>9 DEF HashInv
  <2>3. t0 \in B
    BY <1>4
  <2>4. B2 = B \ {t0} /\ lost2 = lost \cup {act[tta[t0]].id}
    BY <1>9
  <2>5. Named(B2, act, tta, begun, full, lost2) /\ act[tta[t0]].id \notin lost
    BY <2>2, <2>3, <2>4, NamedLost
  <2> QED BY <1>9, <2>5
<1>12. failed' = lost2 /\ in_flight = n + 1 /\ in_flight' = n
  BY <1>4, <1>7, <1>9, <1>10
<1>13. IsFiniteSet(lost2) /\ Manned(list, m, n, lost2)
  <2>1. IsFiniteSet(lost) /\ Manned(list, m, n + 1, lost)
    BY <1>3, <1>7, <1>9, <1>12 DEF HashInv
  <2>2. /\ IsFiniteSet(lost2) /\ Cardinality(lost2) = Cardinality(lost) + 1
        /\ Cardinality(lost) \in Nat
    BY <1>11, <1>9, <2>1, MannedFacts
  <2>3. FILES \in Nat
    BY HashFileAssumption, RingAssumption
  <2> QED BY <1>4, <2>1, <2>2, <2>3 DEF Manned
<1>14. HashInv'
  <2>1. Chunked(ring', ops', cq', active', tag_to_active', in_flight', {})
    BY <1>3, <1>5, <1>6, <1>7
  <2>2. Named(BusyTags', active', tag_to_active', Begun(worklist', next_file'), by_full', failed')
    BY <1>7, <1>8, <1>11, <1>9, <1>12
  <2>3. in_flight' <= FILES
    BY <1>4, <1>7, HashFileAssumption
  <2>4. next_file' \in 1 .. Len(worklist') + 1
    BY <1>3, <1>7 DEF HashInv
  <2>5. IsFiniteSet(failed') /\ Manned(worklist', next_file', in_flight', failed')
    BY <1>7, <1>12, <1>13
  <2> QED BY <1>7, <2>1, <2>2, <2>3, <2>4, <2>5 DEF HashInv
<1>15. HashData'
  <2>1. failed' \subseteq Faulty
    BY <1>4, <1>7 DEF HashData
  <2> QED BY <1>3, <1>4, <1>7, <2>1 DEF HashData
<1> QED BY <1>14, <1>15

\* More of the file is to come: its next chunk is asked for.
LEMMA ChunkHash ==
    HashInv /\ HashData /\ TakeChunk => HashInv' /\ HashData'
<1> SUFFICES ASSUME HashInv, HashData, TakeChunk
             PROVE  HashInv' /\ HashData'
  OBVIOUS
<1>1. PICK k \in Passed :
         /\ NextTake(k) /\ Done.res >= 0 /\ Fed.offset < Size
         /\ QueueChunk(Release(Taken(ring, k), <<Done.tag>>), Fed, At, in_flight - 1)
  BY DEF TakeChunk
<1>2. PICK s, r, act, tta, n, B, t0, j, a0, b0 :
         ChunkIsBack(k, s, r, ops', cq', act, tta, n, B, t0, j, a0, b0)
  BY <1>1, ChunkBack
<1>3. PICK p, d, list, m, full, h0 : /\ p = ops' /\ d = cq' /\ h0 = a0.handle
                                     /\ list = worklist /\ m = next_file /\ full = by_full
  OBVIOUS
<1>4. /\ Chunked(r, p, d, act, tta, n, {h0})
      /\ t0 \in B /\ Busy(r, p, d) = B \ {t0} /\ n \in Nat /\ n < FILES
      /\ act = active /\ tta = tag_to_active /\ B = BusyTags
      /\ n = in_flight - 1 /\ in_flight = n + 1 /\ j = tta[t0] /\ a0 = act[j] /\ j \in DOMAIN act
      /\ \A t \in B \ {t0} : tta[t] # j /\ tta[t] \in DOMAIN act
      /\ b0 \in Active /\ Beginning(b0) /\ b0.id = a0.id /\ b0.handle = h0
      /\ r.fds[r.files[h0]] = a0.id /\ b0.offset < Size /\ b0 = Fed /\ j = At
  BY <1>1, <1>2, <1>3 DEF ChunkIsBack
<1>5. act \in Seq(Active) /\ DOMAIN act = 1 .. Len(act)
  BY <1>4 DEF HashData
<1>6. PICK act2 : act2 = [act EXCEPT ![j] = b0]
  OBVIOUS
<1>7. /\ act2 \in Seq(Active) /\ DOMAIN act2 = DOMAIN act /\ act2[j] = b0 /\ Len(act2) = Len(act)
      /\ \A i \in DOMAIN act \ {j} : act2[i] = act[i]
  <2>1. j \in 1 .. Len(act) /\ b0 \in Active
    BY <1>4, <1>5
  <2>2. /\ [act EXCEPT ![j] = b0] \in Seq(Active) /\ Len([act EXCEPT ![j] = b0]) = Len(act)
    BY <1>5, <2>1, ExceptSeq
  <2>3. DOMAIN act2 = DOMAIN act /\ act2[j] = b0 /\ \A i \in DOMAIN act \ {j} : act2[i] = act[i]
    BY <1>5, <1>6, <2>1
  <2> QED BY <1>6, <2>2, <2>3
<1>8. PICK q, tta2, t1 : /\ q = Submit(r, b0.handle, NextRead(b0)) /\ t1 = NextTag(r, 1)
                         /\ tta2 = With(tta, NextTag(r, 1), j)
  OBVIOUS
<1>9. /\ Chunked(q, p, d, act2, tta2, n + 1, {h0} \ {h0})
      /\ Busy(q, p, d) = Busy(r, p, d) \cup {t1}
      /\ t1 \notin Busy(r, p, d)
      /\ \A t \in Busy(r, p, d) : tta2[t] = tta[t] /\ act2[tta2[t]] = act[tta[t]]
      /\ tta2[t1] = j
  <2>1. /\ b0.handle \in {h0} /\ r.fds[r.files[b0.handle]] = b0.id
        /\ b0 \in Active /\ b0.offset < Size
    BY <1>4
  <2>2. /\ act2 \in Seq(Active) /\ j \in DOMAIN act2 /\ act2[j] = b0 /\ DOMAIN act \subseteq DOMAIN act2
        /\ \A i \in DOMAIN act \ {j} : act2[i] = act[i]
    BY <1>4, <1>7
  <2>3. \A t \in Busy(r, p, d) : tta[t] # j
    BY <1>4
  <2>4. Asking(r, p, d, act, tta, n, {h0}, b0, j, act2)
    BY <1>4, <2>1, <2>2, <2>3, ChunkQueued
  <2> QED BY <1>4, <1>8, <2>4 DEF Asking
<1>10. QueueChunk(r, b0, j, n)
  <2>1. r = Release(Taken(ring, k), <<Done.tag>>)
    BY <1>2 DEF ChunkIsBack
  <2> QED BY <1>1, <1>4, <2>1
<1>11. /\ ring' = q /\ in_flight' = n + 1 /\ tag_to_active' = tta2
  BY <1>4, <1>8, <1>10, ChunkAsked
<1>12. /\ active' = act2 /\ worklist' = list /\ next_file' = m /\ by_full' = full /\ failed' = failed
       /\ pc' = pc /\ pc = "chunk"
  BY <1>3, <1>4, <1>6 DEF TakeChunk
<1>13. PICK B2, begun : B2 = (B \ {t0}) \cup {t1} /\ begun = Begun(list, m)
  OBVIOUS
<1>14. BusyTags' = B2
  <2>1. BusyTags' = Busy(q, p, d)
    BY <1>3, <1>11 DEF BusyTags, Busy
  <2> QED BY <1>4, <1>9, <1>13, <2>1
<1>15. Named(B2, act2, tta2, begun, full, failed)
  <2>1. Named(B, act, tta, begun, full, failed)
    BY <1>3, <1>4, <1>13 DEF HashInv
  <2>2. \A t \in B \ {t0} : act2[tta2[t]].id = act[tta[t]].id
    BY <1>4, <1>9
  <2>3. act2[tta2[t1]].id = act[tta[t0]].id
    BY <1>4, <1>7, <1>9
  <2>4. t0 \in B /\ B2 = (B \ {t0}) \cup {t1}
    BY <1>4, <1>13
  <2> QED BY <2>1, <2>2, <2>3, <2>4, NamedAgain
<1>16. HashInv'
  <2>1. Chunked(ring', ops', cq', active', tag_to_active', in_flight', {})
    BY <1>3, <1>9, <1>11, <1>12
  <2>2. Named(BusyTags', active', tag_to_active', Begun(worklist', next_file'), by_full', failed')
    BY <1>11, <1>12, <1>13, <1>14, <1>15
  <2>3. in_flight' <= FILES
    BY <1>4, <1>11, HashFileAssumption
  <2>4. next_file' \in 1 .. Len(worklist') + 1
    BY <1>3, <1>12 DEF HashInv
  <2>5. in_flight' = in_flight /\ worklist' = worklist /\ next_file' = next_file
    BY <1>3, <1>4, <1>11, <1>12
  <2>6. IsFiniteSet(failed') /\ Manned(worklist', next_file', in_flight', failed')
    BY <1>12, <2>5 DEF HashInv
  <2> QED BY <1>12, <2>1, <2>2, <2>3, <2>4, <2>6 DEF HashInv
<1>17. HashData'
  <2>1. Len(act2) <= FILES
    BY <1>4, <1>7 DEF HashData
  <2>2. \A i \in DOMAIN act2 : Beginning(act2[i]) /\ act2[i].id \in ToSet(list)
    <3>1. \A i \in DOMAIN act : Beginning(act[i]) /\ act[i].id \in ToSet(list)
      BY <1>3, <1>4 DEF HashData
    <3> QED BY <1>4, <1>7, <3>1
  <2>3. \A t \in DOMAIN tta2 : tta2[t] \in DOMAIN act2
    <3>1. \A t \in DOMAIN tta : tta[t] \in DOMAIN act
      BY <1>4 DEF HashData
    <3> QED BY <1>4, <1>7, <1>8, <3>1 DEF With
  <2>4. /\ list \in Seq(File) /\ IsInjective(list) /\ ToSet(list) \subseteq Files /\ failed \subseteq Faulty
    BY <1>3 DEF HashData
  <2>5. \A h \in DOMAIN full : /\ full[h] \in Seq(File) /\ IsInjective(full[h])
                               /\ \A x \in ToSet(full[h]) : h = Bytes(x)
    BY <1>3 DEF HashData
  <2> QED BY <1>7, <1>11, <1>12, <2>1, <2>2, <2>3, <2>4, <2>5 DEF HashData
<1> QED BY <1>16, <1>17

\* The last chunk of a file is back (k: FileDone): the ring with the file closed,
\* the places, the reads that were outstanding, the chunk's tag and place, the
\* file as it is now, and the buckets with it.
LastIsBack(k, q, p, d, act, tta, n, B, t0, j, b0, full2) ==
    /\ q = Freed(k) /\ act = active /\ tta = tag_to_active /\ n = in_flight - 1
    /\ B = BusyTags /\ j = At /\ b0 = Fed
    /\ Chunked(q, p, d, act, tta, n, {})
    /\ Busy(q, p, d) = B \ {t0} /\ n \in Nat /\ n < FILES /\ in_flight = n + 1
    /\ j \in DOMAIN act /\ \A t \in B \ {t0} : tta[t] # j /\ tta[t] \in DOMAIN act
    /\ b0 \in Active /\ Beginning(b0) /\ b0.id \in ToSet(worklist)
    /\ Named(B \ {t0}, act, tta, Begun(worklist, next_file), full2, failed)
    /\ \A g \in DOMAIN full2 : /\ full2[g] \in Seq(File) /\ IsInjective(full2[g])
                               /\ \A f \in ToSet(full2[g]) : g = Bytes(f)

\* The last chunk of a file is back: what has been hashed is the whole of it.
LEMMA LastChunkBack ==
    ASSUME HashInv, HashData, NEW k \in Passed, FileDone(k)
    PROVE  \E q, act, tta, n, B, t0, j, b0 :
              LastIsBack(k, q, ops', cq', act, tta, n, B, t0, j, b0, by_full')
<1>1. NextTake(k) /\ Done.res >= 0 /\ Fed.offset >= Size
  BY DEF FileDone
<1>2. PICK s, r, act, tta, n, B, t0, j, a0, b0 :
         ChunkIsBack(k, s, r, ops', cq', act, tta, n, B, t0, j, a0, b0)
  BY <1>1, ChunkBack
<1>3. PICK p, d, q, full, full2, h0, h : /\ p = ops' /\ d = cq' /\ h0 = a0.handle
                                  /\ q = CloseFile(r, h0) /\ full = by_full /\ h = b0.state
                                  /\ full2 = AddTo(full, h, a0.id)
  OBVIOUS
<1>4. /\ Chunked(r, p, d, act, tta, n, {h0})
      /\ t0 \in B /\ Busy(r, p, d) = B \ {t0} /\ n \in Nat /\ n < FILES
      /\ act = active /\ tta = tag_to_active /\ B = BusyTags
      /\ n = in_flight - 1 /\ in_flight = n + 1 /\ j = tta[t0] /\ a0 = act[j] /\ j \in DOMAIN act
      /\ \A t \in B \ {t0} : tta[t] # j /\ tta[t] \in DOMAIN act
      /\ b0 \in Active /\ Beginning(b0) /\ b0.id = a0.id /\ b0.handle = h0
      /\ b0 = Fed /\ j = At /\ r = Release(Taken(ring, k), <<Done.tag>>)
  BY <1>1, <1>2, <1>3 DEF ChunkIsBack
<1>5. Chunked(q, p, d, act, tta, n, {h0} \ {h0})
  BY <1>3, <1>4, ChunkClosed
<1>6. Chunked(q, p, d, act, tta, n, {})
  BY <1>5
<1>7. q = Freed(k)
  BY <1>3, <1>4 DEF Freed
<1>8. Busy(q, p, d) = B \ {t0}
  <2>1. q.sq = r.sq
    BY <1>3 DEF CloseFile
  <2>2. Busy(q, p, d) = Busy(r, p, d)
    BY <2>1 DEF Busy
  <2> QED BY <1>4, <2>2
<1>9. b0.id \in ToSet(worklist) /\ b0.id \in File
  BY <1>4 DEF HashData, Active
<1>10. by_full' = full2
  BY <1>3, <1>4 DEF FileDone
<1>11. PICK begun : begun = Begun(worklist, next_file)
  OBVIOUS
<1>12. Named(B, act, tta, begun, full, failed)
  BY <1>3, <1>4, <1>11 DEF HashInv
<1>13. \A g \in DOMAIN full : /\ full[g] \in Seq(File) /\ IsInjective(full[g])
                              /\ \A f \in ToSet(full[g]) : g = Bytes(f)
  BY <1>3 DEF HashData
<1>14. /\ Named(B \ {t0}, act, tta, begun, full2, failed)
       /\ DOMAIN full2 = DOMAIN full \cup {h}
       /\ \A g \in DOMAIN full2 : full2[g] \in Seq(File) /\ IsInjective(full2[g])
       /\ \A g \in DOMAIN full2 : \A f \in ToSet(full2[g]) :
             \/ f = a0.id /\ g = h
             \/ g \in DOMAIN full /\ f \in ToSet(full[g])
  <2>1. PICK id : id = act[tta[t0]].id
    OBVIOUS
  <2>2. id = a0.id /\ id \in File /\ t0 \in B
    BY <1>4, <1>9, <2>1
  <2>3. \A g \in DOMAIN full : full[g] \in Seq(File) /\ IsInjective(full[g])
    BY <1>13
  <2>4. act[tta[t0]].id \in File
    BY <2>1, <2>2
  <2>5. OneMore(B, act, tta, begun, full, failed, t0, h)
    BY <1>12, <2>2, <2>3, <2>4, NamedDone
  <2> QED BY <1>3, <2>1, <2>2, <2>5 DEF OneMore
<1>15. h = Bytes(a0.id)
  <2>1. b0.offset <= Size /\ b0.offset \in Nat /\ h = SubSeq(Content[b0.id], 1, b0.offset)
    BY <1>3, <1>4 DEF Beginning, Active
  <2>2. b0.offset = Size
    BY <1>1, <1>4, <2>1, PrefilterAssumption
  <2> QED BY <1>4, <2>1, <2>2 DEF Bytes
<1>16. \A g \in DOMAIN full2 : \A f \in ToSet(full2[g]) : g = Bytes(f)
  BY <1>13, <1>14, <1>15
<1>17. LastIsBack(k, q, ops', cq', act, tta, n, B, t0, j, b0, by_full')
  <2>1. Chunked(q, ops', cq', act, tta, n, {}) /\ Busy(q, ops', cq') = B \ {t0}
    BY <1>3, <1>6, <1>8
  <2>2. Named(B \ {t0}, act, tta, Begun(worklist, next_file), by_full', failed)
    BY <1>10, <1>11, <1>14
  <2>3. \A g \in DOMAIN by_full' : /\ by_full'[g] \in Seq(File) /\ IsInjective(by_full'[g])
                               /\ \A f \in ToSet(by_full'[g]) : g = Bytes(f)
    BY <1>10, <1>14, <1>16
  <2>4. /\ q = Freed(k) /\ act = active /\ tta = tag_to_active /\ n = in_flight - 1 /\ in_flight = n + 1
        /\ B = BusyTags /\ j = At /\ b0 = Fed /\ n \in Nat /\ n < FILES
        /\ j \in DOMAIN act /\ \A t \in B \ {t0} : tta[t] # j /\ tta[t] \in DOMAIN act
        /\ b0 \in Active /\ Beginning(b0) /\ b0.id \in ToSet(worklist)
    BY <1>4, <1>7, <1>9
  <2> QED BY <2>1, <2>2, <2>3, <2>4 DEF LastIsBack
<1> QED BY <1>17

\* A file is done and its place stays empty.
LEMMA LastChunkHash ==
    HashInv /\ HashData /\ TakeLastChunk => HashInv' /\ HashData'
<1> SUFFICES ASSUME HashInv, HashData, TakeLastChunk
             PROVE  HashInv' /\ HashData'
  OBVIOUS
<1>1. PICK k \in Passed : FileDone(k) /\ ring' = Freed(k)
  BY DEF TakeLastChunk
<1>2. PICK q, act, tta, n, B, t0, j, b0 :
         LastIsBack(k, q, ops', cq', act, tta, n, B, t0, j, b0, by_full')
  BY <1>1, LastChunkBack
<1>3. PICK p, d, list, m, full2 : /\ p = ops' /\ d = cq' /\ full2 = by_full'
                                  /\ list = worklist /\ m = next_file
  OBVIOUS
<1>4. /\ q = Freed(k) /\ act = active /\ tta = tag_to_active /\ n = in_flight - 1 /\ in_flight = n + 1
      /\ B = BusyTags /\ j = At /\ b0 = Fed
      /\ Chunked(q, p, d, act, tta, n, {})
      /\ Busy(q, p, d) = B \ {t0} /\ n \in Nat /\ n < FILES
      /\ j \in DOMAIN act /\ \A t \in B \ {t0} : tta[t] # j /\ tta[t] \in DOMAIN act
      /\ b0 \in Active /\ Beginning(b0) /\ b0.id \in ToSet(list)
  BY <1>2, <1>3 DEF LastIsBack
<1>5. /\ Named(B \ {t0}, act, tta, Begun(list, m), full2, failed)
      /\ \A g \in DOMAIN full2 : /\ full2[g] \in Seq(File) /\ IsInjective(full2[g])
                                 /\ \A f \in ToSet(full2[g]) : g = Bytes(f)
  BY <1>2, <1>3 DEF LastIsBack
<1>6. act \in Seq(Active) /\ DOMAIN act = 1 .. Len(act)
  BY <1>4 DEF HashData
<1>7. PICK act2 : act2 = [act EXCEPT ![j] = b0]
  OBVIOUS
<1>8. /\ act2 \in Seq(Active) /\ DOMAIN act2 = DOMAIN act /\ act2[j] = b0 /\ Len(act2) = Len(act)
      /\ \A i \in DOMAIN act \ {j} : act2[i] = act[i]
  <2>1. j \in 1 .. Len(act) /\ b0 \in Active
    BY <1>4, <1>6
  <2>2. /\ [act EXCEPT ![j] = b0] \in Seq(Active) /\ Len([act EXCEPT ![j] = b0]) = Len(act)
    BY <1>6, <2>1, ExceptSeq
  <2>3. DOMAIN act2 = DOMAIN act /\ act2[j] = b0 /\ \A i \in DOMAIN act \ {j} : act2[i] = act[i]
    BY <1>6, <1>7, <2>1
  <2> QED BY <1>7, <2>2, <2>3
<1>9. Chunked(q, p, d, act2, tta, n, {})
  <2>1. \A t \in Busy(q, p, d) : tta[t] # j
    BY <1>4
  <2>2. Chunked(q, p, d, act, tta, n, {})
    BY <1>4
  <2>3. act2 \in Seq(Active) /\ DOMAIN act2 = DOMAIN act /\ \A i \in DOMAIN act \ {j} : act2[i] = act[i]
    BY <1>8
  <2> QED BY <2>1, <2>2, <2>3, ChunkReplaced
<1>10. PICK m2 : m2 = NextOfList
  OBVIOUS
<1>11. /\ list \in Seq(File) /\ IsInjective(list) /\ m \in 1 .. Len(list) + 1 /\ Len(list) \in Nat
       /\ ToSet(list) \subseteq Files
  BY <1>3 DEF HashInv, HashData
<1>12. PICK begun, begun2, lost, lost2 :
          begun = Begun(list, m) /\ begun2 = Begun(list, m2) /\ lost = failed /\ lost2 = failed'
  OBVIOUS
<1>13. /\ m2 \in 1 .. Len(list) + 1
       /\ \/ m = Len(list) + 1 /\ m2 = m /\ begun2 = begun /\ lost2 = lost
          \/ m2 = m + 1 /\ \E f : /\ f \notin begun /\ begun2 = begun \cup {f}
                                   /\ lost2 = lost \cup {f}
  <2>1. CASE m = Len(list) + 1
    <3>1. m2 = m
      BY <1>3, <1>10, <1>11, <2>1 DEF NextOfList, Smaller
    <3>2. failed' = failed
      BY <1>3, <1>11, <2>1 DEF TakeLastChunk
    <3> QED BY <1>11, <1>12, <2>1, <3>1, <3>2
  <2>2. CASE m \in 1 .. Len(list)
    <3>1. m2 = m + 1
      BY <1>3, <1>10, <1>11, <2>2 DEF NextOfList, Smaller
    <3>2. PICK f : f = list[m]
      OBVIOUS
    <3>3. begun2 = begun \cup {f} /\ f \notin begun
      BY <1>11, <1>12, <2>2, <3>1, <3>2, BegunMore
    <3>4. failed' = failed \cup {f}
      BY <1>3, <1>11, <2>2, <3>2 DEF TakeLastChunk
    <3> QED BY <1>11, <1>12, <2>2, <3>1, <3>3, <3>4
  <2> QED BY <1>11, <2>1, <2>2
<1>14. /\ ring' = q /\ active' = act2 /\ tag_to_active' = tta /\ in_flight' = n /\ worklist' = list
       /\ next_file' = m2 /\ pc' = pc /\ pc = "chunk"
  BY <1>1, <1>3, <1>4, <1>7, <1>10 DEF TakeLastChunk, FileDone
<1>15. BusyTags' = B \ {t0}
  <2>1. BusyTags' = Busy(q, p, d)
    BY <1>3, <1>14 DEF BusyTags, Busy
  <2> QED BY <1>4, <2>1
<1>16. PICK B2 : B2 = B \ {t0}
  OBVIOUS
<1>17. Named(B2, act2, tta, begun, full2, lost)
  <2>1. Named(B2, act, tta, begun, full2, lost)
    BY <1>5, <1>12, <1>16
  <2>2. \A t \in B2 : act2[tta[t]].id = act[tta[t]].id
    BY <1>4, <1>8, <1>16
  <2> QED BY <2>1, <2>2, NamedSame
<1>18. Named(B2, act2, tta, begun2, full2, lost2)
  <2>1. CASE begun2 = begun /\ lost2 = lost
    BY <1>17, <2>1
  <2>2. CASE \E f : f \notin begun /\ begun2 = begun \cup {f} /\ lost2 = lost \cup {f}
    <3>1. PICK f : f \notin begun /\ begun2 = begun \cup {f} /\ lost2 = lost \cup {f}
      BY <2>2
    <3> QED BY <1>17, <3>1, NamedPassed
  <2> QED BY <1>13, <2>1, <2>2
<1>19. IsFiniteSet(lost2) /\ Manned(list, m2, n, lost2)
  <2>1. IsFiniteSet(lost) /\ Manned(list, m, n + 1, lost) /\ FILES \in Nat
    BY <1>3, <1>4, <1>12, <1>14, HashFileAssumption, RingAssumption DEF HashInv
  <2>2. CASE m = Len(list) + 1 /\ m2 = m /\ lost2 = lost
    BY <1>11, <2>1, <2>2 DEF Manned
  <2>3. ASSUME m2 = m + 1, NEW f, f \notin begun, lost2 = lost \cup {f}
        PROVE  IsFiniteSet(lost2) /\ Manned(list, m2, n, lost2)
    <3>1. f \notin lost
      BY <1>17, <2>3 DEF Named
    <3>2. /\ IsFiniteSet(lost2) /\ Cardinality(lost2) = Cardinality(lost) + 1
          /\ Cardinality(lost) \in Nat
      BY <2>1, <2>3, <3>1, MannedFacts
    <3>3. m \in Nat /\ Len(list) \in Nat /\ n \in Nat
      BY <1>4, <1>11
    <3> QED BY <2>1, <2>3, <3>2, <3>3 DEF Manned
  <2> QED BY <1>13, <2>2, <2>3
<1>20. HashInv'
  <2>1. Chunked(ring', ops', cq', active', tag_to_active', in_flight', {})
    BY <1>3, <1>9, <1>14
  <2>2. Named(BusyTags', active', tag_to_active', Begun(worklist', next_file'), by_full', failed')
    BY <1>3, <1>12, <1>14, <1>15, <1>18, <1>16
  <2>3. in_flight' <= FILES
    BY <1>4, <1>14, HashFileAssumption
  <2>4. next_file' \in 1 .. Len(worklist') + 1
    BY <1>14, <1>13
  <2>5. IsFiniteSet(failed') /\ Manned(worklist', next_file', in_flight', failed')
    BY <1>12, <1>14, <1>19
  <2> QED BY <1>14, <2>1, <2>2, <2>3, <2>4, <2>5 DEF HashInv
<1>21. HashData'
  <2>1. Len(act2) <= FILES
    BY <1>4, <1>8 DEF HashData
  <2>2. \A i \in DOMAIN act2 : Beginning(act2[i]) /\ act2[i].id \in ToSet(list)
    <3>1. \A i \in DOMAIN act : Beginning(act[i]) /\ act[i].id \in ToSet(list)
      BY <1>3, <1>4 DEF HashData
    <3> QED BY <1>4, <1>8, <3>1
  <2>3. \A t \in DOMAIN tta : tta[t] \in DOMAIN act2
    <3>1. \A t \in DOMAIN tta : tta[t] \in DOMAIN act
      BY <1>4 DEF HashData
    <3> QED BY <1>8, <3>1
  <2>4. failed' \subseteq Faulty
    BY DEF TakeLastChunk
  <2> QED BY <1>3, <1>5, <1>8, <1>11, <1>14, <2>1, <2>2, <2>3, <2>4 DEF HashData
<1> QED BY <1>20, <1>21

\* A file is done and the next one takes its place.
LEMMA ReuseHash ==
    HashInv /\ HashData /\ TakeLastChunkReuse => HashInv' /\ HashData'
<1> SUFFICES ASSUME HashInv, HashData, TakeLastChunkReuse
             PROVE  HashInv' /\ HashData'
  OBVIOUS
<1>1. PICK k \in Passed :
         /\ FileDone(k)
         /\ LET a == Started(worklist[next_file], NewHandle(Freed(k)))
            IN  /\ active' = [active EXCEPT ![At] = a]
                /\ QueueChunk(OpenFile(Freed(k), a.id), a, At, in_flight - 1)
  BY DEF TakeLastChunkReuse
<1>2. PICK q, act, tta, n, B, t0, j, b0 :
         LastIsBack(k, q, ops', cq', act, tta, n, B, t0, j, b0, by_full')
  BY <1>1, LastChunkBack
<1>3. PICK p, d, list, m, full2, f, h0 : /\ p = ops' /\ d = cq' /\ full2 = by_full'
                                  /\ list = worklist /\ m = next_file
                                  /\ f = list[m] /\ h0 = NewHandle(q)
  OBVIOUS
<1>4. /\ q = Freed(k) /\ act = active /\ tta = tag_to_active /\ n = in_flight - 1 /\ in_flight = n + 1
      /\ B = BusyTags /\ j = At
      /\ Chunked(q, p, d, act, tta, n, {})
      /\ Busy(q, p, d) = B \ {t0} /\ n \in Nat /\ n < FILES
      /\ j \in DOMAIN act /\ \A t \in B \ {t0} : tta[t] # j /\ tta[t] \in DOMAIN act
  BY <1>2, <1>3 DEF LastIsBack
<1>5. /\ Named(B \ {t0}, act, tta, Begun(list, m), full2, failed)
      /\ \A g \in DOMAIN full2 : /\ full2[g] \in Seq(File) /\ IsInjective(full2[g])
                                 /\ \A x \in ToSet(full2[g]) : g = Bytes(x)
  BY <1>2, <1>3 DEF LastIsBack
<1>6. act \in Seq(Active) /\ DOMAIN act = 1 .. Len(act)
  BY <1>4 DEF HashData
<1>7. /\ list \in Seq(File) /\ IsInjective(list) /\ Len(list) \in Nat /\ m \in 1 .. Len(list)
      /\ ToSet(list) \subseteq Files
  BY <1>3 DEF HashInv, HashData, TakeLastChunkReuse
<1>8. /\ Begun(list, m + 1) = Begun(list, m) \cup {f}
      /\ f \notin Begun(list, m) /\ f \in File /\ f \in ToSet(list)
  BY <1>3, <1>7, BegunMore
<1>9. PICK r, a : r = OpenFile(q, f) /\ a = Started(f, h0)
  OBVIOUS
<1>10. /\ Chunked(r, p, d, act, tta, n, {} \cup {h0})
       /\ Opening(q, p, d, ChunkOf(act, tta), f, r)
  BY <1>3, <1>4, <1>8, <1>9, ChunkOpened
<1>11. Chunked(r, p, d, act, tta, n, {h0})
  BY <1>10
<1>12. r.fds[r.files[h0]] = f /\ h0 \in Nat /\ Busy(r, p, d) = B \ {t0}
  BY <1>3, <1>4, <1>10 DEF Opening
<1>13. /\ a \in Active /\ a.handle = h0 /\ a.id = f /\ a.offset = 0 /\ a.state = <<>>
       /\ a.offset < Size
  BY <1>8, <1>9, <1>12, NoElements, PrefilterAssumption DEF Started, Active
<1>14. PICK act2 : act2 = [act EXCEPT ![j] = a]
  OBVIOUS
<1>15. /\ act2 \in Seq(Active) /\ DOMAIN act2 = DOMAIN act /\ act2[j] = a /\ Len(act2) = Len(act)
       /\ \A i \in DOMAIN act \ {j} : act2[i] = act[i]
  <2>1. j \in 1 .. Len(act) /\ a \in Active
    BY <1>4, <1>6, <1>13
  <2>2. /\ [act EXCEPT ![j] = a] \in Seq(Active) /\ Len([act EXCEPT ![j] = a]) = Len(act)
    BY <1>6, <2>1, ExceptSeq
  <2>3. DOMAIN act2 = DOMAIN act /\ act2[j] = a /\ \A i \in DOMAIN act \ {j} : act2[i] = act[i]
    BY <1>6, <1>14, <2>1
  <2> QED BY <1>14, <2>2, <2>3
<1>16. PICK r2, tta2, t1 : /\ r2 = Submit(r, a.handle, NextRead(a)) /\ t1 = NextTag(r, 1)
                           /\ tta2 = With(tta, NextTag(r, 1), j)
  OBVIOUS
<1>17. /\ Chunked(r2, p, d, act2, tta2, n + 1, {h0} \ {h0})
       /\ Busy(r2, p, d) = Busy(r, p, d) \cup {t1}
       /\ \A t \in Busy(r, p, d) : tta2[t] = tta[t] /\ act2[tta2[t]] = act[tta[t]]
       /\ tta2[t1] = j
  <2>1. /\ a.handle \in {h0} /\ r.fds[r.files[a.handle]] = a.id
        /\ a \in Active /\ a.offset < Size
    BY <1>12, <1>13
  <2>2. /\ act2 \in Seq(Active) /\ j \in DOMAIN act2 /\ act2[j] = a /\ DOMAIN act \subseteq DOMAIN act2
        /\ \A i \in DOMAIN act \ {j} : act2[i] = act[i]
    BY <1>4, <1>15
  <2>3. \A t \in Busy(r, p, d) : tta[t] # j
    BY <1>4, <1>12
  <2>4. Asking(r, p, d, act, tta, n, {h0}, a, j, act2)
    BY <1>11, <2>1, <2>2, <2>3, ChunkQueued
  <2> QED BY <1>13, <1>16, <2>4 DEF Asking
<1>18. QueueChunk(r, a, j, n) /\ active' = act2
  <2>1. a.id = f
    BY <1>13
  <2> QED BY <1>1, <1>3, <1>4, <1>9, <1>14, <2>1
<1>19. /\ ring' = r2 /\ in_flight' = n + 1 /\ tag_to_active' = tta2
  BY <1>4, <1>11, <1>16, <1>18, ChunkAsked
<1>20. worklist' = list /\ next_file' = m + 1 /\ failed' = failed /\ pc' = pc /\ pc = "chunk"
  <2>1. NextOfList = m + 1
    BY <1>3, <1>7 DEF NextOfList, Smaller
  <2> QED BY <1>1, <1>3, <2>1 DEF TakeLastChunkReuse, FileDone
<1>21. PICK B1, B2, begun, begun2 : /\ B1 = B \ {t0} /\ B2 = B1 \cup {t1} /\ begun = Begun(list, m)
                                    /\ begun2 = begun \cup {f}
  OBVIOUS
<1>22. BusyTags' = B2
  <2>1. BusyTags' = Busy(r2, p, d)
    BY <1>3, <1>19 DEF BusyTags, Busy
  <2> QED BY <1>12, <1>17, <1>21, <2>1
<1>23. Named(B2, act2, tta2, begun2, full2, failed)
  <2>1. Named(B1, act, tta, begun, full2, failed) /\ f \notin begun
    BY <1>5, <1>8, <1>21
  <2>2. \A t \in B1 : act2[tta2[t]].id = act[tta[t]].id
    BY <1>12, <1>17, <1>21
  <2>3. act2[tta2[t1]].id = f
    BY <1>13, <1>15, <1>17
  <2>4. B2 = B1 \cup {t1} /\ begun2 = begun \cup {f}
    BY <1>21
  <2> QED BY <2>1, <2>2, <2>3, <2>4, NamedMore
<1>24. HashInv'
  <2>1. Chunked(ring', ops', cq', active', tag_to_active', in_flight', {})
    BY <1>3, <1>17, <1>18, <1>19
  <2>2. Named(BusyTags', active', tag_to_active', Begun(worklist', next_file'), by_full', failed')
    BY <1>3, <1>8, <1>18, <1>19, <1>20, <1>21, <1>22, <1>23
  <2>3. in_flight' <= FILES
    BY <1>4, <1>19, HashFileAssumption
  <2>4. next_file' \in 1 .. Len(worklist') + 1
    BY <1>7, <1>20
  <2>5. IsFiniteSet(failed) /\ Manned(list, m, n + 1, failed) /\ FILES \in Nat
    BY <1>3, <1>4, <1>20, HashFileAssumption, RingAssumption DEF HashInv
  <2>6. IsFiniteSet(failed') /\ Manned(worklist', next_file', in_flight', failed')
    BY <1>7, <1>19, <1>20, <2>5 DEF Manned
  <2> QED BY <1>20, <2>1, <2>2, <2>3, <2>4, <2>6 DEF HashInv
<1>25. HashData'
  <2>1. Len(act2) <= FILES
    BY <1>4, <1>15 DEF HashData
  <2>2. Beginning(a)
    BY <1>8, <1>13, RingAssumption, PrefilterAssumption DEF Beginning
  <2>3. \A i \in DOMAIN act2 : Beginning(act2[i]) /\ act2[i].id \in ToSet(list)
    <3>1. \A i \in DOMAIN act : Beginning(act[i]) /\ act[i].id \in ToSet(list)
      BY <1>3, <1>4 DEF HashData
    <3> QED BY <1>4, <1>8, <1>13, <1>15, <2>2, <3>1
  <2>4. \A t \in DOMAIN tta2 : tta2[t] \in DOMAIN act2
    <3>1. \A t \in DOMAIN tta : tta[t] \in DOMAIN act
      BY <1>4 DEF HashData
    <3> QED BY <1>4, <1>15, <1>16, <3>1 DEF With
  <2>5. failed' \subseteq Faulty
    BY <1>20 DEF HashData
  <2> QED BY <1>3, <1>5, <1>7, <1>15, <1>18, <1>19, <1>20, <2>1, <2>3, <2>4, <2>5 DEF HashData
<1> QED BY <1>24, <1>25

-----------------------------------------------------------------------------
(* From buckets to the list *)

\* FlattenSeq goes through the sequences one by one.
LEMMA OneByOne ==
    ASSUME NEW q, NEW n \in Nat \ {0}, Len(q) = n
    PROVE  \E g : /\ g[1] = q[1]
                  /\ \A i \in 1 .. n : i > 1 => g[i] = g[i - 1] \o q[i]
                  /\ FlattenSeq(q) = g[n]
<1> DEFINE Is(f, m) == f = [i \in 1 .. m |-> IF i = 1 THEN q[i] ELSE f[i - 1] \o q[i]]
           Without == {m \in Nat \ {0} : ~\E f : Is(f, m)}
<1>1. Without = {}
  <2>1. SUFFICES ASSUME Without # {} PROVE FALSE
    OBVIOUS
  <2>2. PICK m \in Without : \A k \in Without : m <= k
    BY <2>1, LeastNumber
  <2>3. m \in Nat \ {0} /\ ~\E f : Is(f, m)
    OBVIOUS
  <2>4. CASE m = 1
    <3>1. PICK f : f = [i \in 1 .. 1 |-> q[i]]
      OBVIOUS
    <3>2. Is(f, 1)
      BY <3>1
    <3> QED BY <2>3, <2>4, <3>2
  <2>5. CASE m > 1
    <3>1. PICK k \in Nat \ {0} : m = k + 1
      BY <2>3, <2>5
    <3>2. k \notin Without
      <4>1. ~(m <= k)
        BY <3>1
      <4> QED BY <2>2, <4>1
    <3>3. PICK f : Is(f, k)
      BY <3>2
    <3>4. PICK g : g = [i \in 1 .. m |-> IF i = m THEN f[k] \o q[m] ELSE f[i]]
      OBVIOUS
    <3>5. ASSUME NEW i \in 1 .. m
          PROVE  g[i] = IF i = 1 THEN q[i] ELSE g[i - 1] \o q[i]
      <4>1. CASE i = m
        <5>1. i # 1 /\ i - 1 = k /\ k \in 1 .. m /\ k # m
          BY <2>5, <3>1, <4>1
        <5>2. g[k] = f[k]
          BY <3>4, <5>1
        <5>3. g[i] = f[k] \o q[m]
          BY <3>4, <4>1
        <5>4. g[i - 1] = f[k]
          BY <5>1, <5>2
        <5> QED BY <4>1, <5>1, <5>3, <5>4
      <4>2. CASE i # m
        <5>1. i \in 1 .. k /\ g[i] = f[i]
          BY <3>1, <3>4, <4>2
        <5>2. f[i] = IF i = 1 THEN q[i] ELSE f[i - 1] \o q[i]
          BY <3>3, <5>1
        <5>3. CASE i = 1
          BY <5>1, <5>2, <5>3
        <5>4. CASE i > 1
          <6>1. PICK j \in 1 .. m : j = i - 1 /\ j # m
            BY <3>1, <5>1, <5>4
          <6>2. g[j] = f[j]
            BY <3>4, <6>1
          <6> QED BY <5>1, <5>2, <5>4, <6>1, <6>2
        <5> QED BY <5>1, <5>3, <5>4
      <4> QED BY <4>1, <4>2
    <3>6. Is(g, m)
      BY <3>4, <3>5
    <3> QED BY <2>3, <3>6
  <2> QED BY <2>3, <2>4, <2>5
<1>2. \E f : Is(f, n)
  <2>1. n \notin Without
    BY <1>1
  <2> QED BY <2>1
<1>3. PICK g : g = CHOOSE f : Is(f, n)
  OBVIOUS
<1>4. Is(g, n)
  BY <1>2, <1>3
<1>5. FlattenSeq(q) = g[n]
  BY <1>3 DEF FlattenSeq
<1>6. g[1] = q[1]
  BY <1>4
<1>7. ASSUME NEW i \in 1 .. n, i > 1
      PROVE  g[i] = g[i - 1] \o q[i]
  <2>1. g[i] = IF i = 1 THEN q[i] ELSE g[i - 1] \o q[i]
    BY <1>4
  <2>2. i # 1
    BY <1>7
  <2> QED BY <2>1, <2>2
<1> QED BY <1>5, <1>6, <1>7

\* Lists of distinct elements with none in common, one after another.
LEMMA ApartFlattened ==
    ASSUME NEW S, NEW q \in Seq(Seq(S)), \A i \in DOMAIN q : IsInjective(q[i]),
           \A i, j \in DOMAIN q : i # j => ToSet(q[i]) \cap ToSet(q[j]) = {}
    PROVE  /\ FlattenSeq(q) \in Seq(S) /\ IsInjective(FlattenSeq(q))
           /\ \A x : x \in ToSet(FlattenSeq(q)) <=> \E i \in DOMAIN q : x \in ToSet(q[i])
<1>1. PICK n \in Nat : n = Len(q) /\ DOMAIN q = 1 .. n /\ \A i \in 1 .. n : q[i] \in Seq(S)
  OBVIOUS
<1>2. CASE n = 0
  <2>1. q = <<>>
    BY <1>1, <1>2
  <2>2. FlattenSeq(q) = <<>>
    BY <2>1, NoElements DEF FlattenSeq
  <2> QED BY <2>1, <2>2, NoElements
<1>3. CASE n # 0
  <2>1. PICK g : /\ g[1] = q[1]
                 /\ \A i \in 1 .. n : i > 1 => g[i] = g[i - 1] \o q[i]
                 /\ FlattenSeq(q) = g[n]
    <3>1. n \in Nat \ {0} /\ Len(q) = n
      BY <1>1, <1>3
    <3> QED BY <3>1, OneByOne
  <2> DEFINE Holds(k) == /\ g[k] \in Seq(S) /\ IsInjective(g[k])
                         /\ \A x : x \in ToSet(g[k]) <=> \E i \in 1 .. k : x \in ToSet(q[i])
             Fails == {k \in 1 .. n : ~Holds(k)}
  <2>2. Fails = {}
    <3>1. SUFFICES ASSUME Fails # {} PROVE FALSE
      OBVIOUS
    <3>2. Fails \in SUBSET Nat
      OBVIOUS
    <3>3. PICK k \in Fails : \A m \in Fails : k <= m
      BY <3>1, <3>2, LeastNumber
    <3>4. k \in 1 .. n /\ ~Holds(k)
      OBVIOUS
    <3>5. CASE k = 1
      <4>1. g[1] \in Seq(S) /\ IsInjective(g[1]) /\ 1 \in 1 .. n
        BY <1>1, <2>1, <3>4, <3>5
      <4>2. 1 .. 1 = {1}
        OBVIOUS
      <4>3. \A x : x \in ToSet(g[1]) <=> \E i \in 1 .. 1 : x \in ToSet(q[i])
        BY <2>1, <4>2
      <4> QED BY <3>4, <3>5, <4>1, <4>3
    <3>6. CASE k > 1
      <4>1. PICK m \in 1 .. n : m = k - 1 /\ m < k
        BY <3>4, <3>6
      <4>2. m \notin Fails
        <5>1. ~(k <= m)
          BY <3>4, <4>1
        <5> QED BY <3>3, <5>1
      <4>3. Holds(m)
        BY <4>2
      <4>4. PICK a, b, y : a = g[m] /\ b = q[k] /\ y = g[k]
        OBVIOUS
      <4>5. y = a \o b
        BY <2>1, <3>4, <3>6, <4>1, <4>4
      <4>6. a \in Seq(S) /\ b \in Seq(S) /\ IsInjective(a) /\ IsInjective(b)
        BY <1>1, <3>4, <4>3, <4>4
      <4>7. \A x : x \in ToSet(a) <=> \E i \in 1 .. m : x \in ToSet(q[i])
        BY <4>3, <4>4
      <4>8. ToSet(a) \cap ToSet(b) = {}
        <5>1. \A i \in 1 .. m : i \in DOMAIN q /\ k \in DOMAIN q /\ i # k
          BY <1>1, <3>4, <4>1
        <5>2. \A i \in 1 .. m : ToSet(q[i]) \cap ToSet(b) = {}
          BY <4>4, <5>1
        <5> QED BY <4>7, <5>2
      <4>9. y \in Seq(S) /\ ToSet(y) = ToSet(a) \cup ToSet(b) /\ IsInjective(y)
        BY <4>5, <4>6, <4>8, Joined
      <4>10. 1 .. k = (1 .. m) \cup {k}
        BY <3>4, <4>1
      <4>11. \A x : x \in ToSet(y) <=> \E i \in 1 .. k : x \in ToSet(q[i])
        BY <4>4, <4>7, <4>9, <4>10
      <4> QED BY <3>4, <4>4, <4>9, <4>11
    <3> QED BY <3>4, <3>5, <3>6
  <2>3. Holds(n)
    <3>1. n \in 1 .. n
      BY <1>3
    <3>2. n \notin Fails
      BY <2>2
    <3> QED BY <3>1, <3>2
  <2> QED BY <1>1, <2>1, <2>3
<1> QED BY <1>2, <1>3

\* The buckets of the samples: no file is in two, or twice in one; their files
\* are in D, and those that cannot fail are in the bucket of their own samples.
Sorted(buckets, D) ==
    /\ IsFiniteSet(DOMAIN buckets)
    /\ \A h \in DOMAIN buckets : /\ buckets[h] \in Seq(File) /\ IsInjective(buckets[h])
                                 /\ ToSet(buckets[h]) \subseteq D
                                 /\ \A f \in ToSet(buckets[h]) \ Faulty : h = SampleOf(f)
    /\ \A h, g \in DOMAIN buckets : h # g => ToSet(buckets[h]) \cap ToSet(buckets[g]) = {}

\* The list is made of files that are in buckets, each once.
LEMMA ListMade ==
    ASSUME NEW buckets, buckets = by_sample, NEW D, Sorted(buckets, D),
           NEW order \in SetToSeqs(Candidates)
    PROVE  /\ FlattenSeq(order) \in Seq(File) /\ IsInjective(FlattenSeq(order))
           /\ ToSet(FlattenSeq(order)) \subseteq D
           /\ \A h \in DOMAIN buckets :
                 Len(buckets[h]) >= 2 => ToSet(buckets[h]) \subseteq ToSet(FlattenSeq(order))
<1>1. PICK H : H = {h \in DOMAIN buckets : Len(buckets[h]) >= 2}
  OBVIOUS
<1>2. PICK C : C = Candidates
  OBVIOUS
<1>3. C = {buckets[h] : h \in H}
  BY <1>1, <1>2 DEF Candidates
<1>4. IsFiniteSet(H)
  BY <1>1, FS_Subset DEF Sorted
<1>5. IsFiniteSet(C)
  <2>1. PICK f : f = [h \in H |-> buckets[h]]
    OBVIOUS
  <2>2. f \in Surjection(H, C)
    BY <1>3, <2>1 DEF Surjection
  <2> QED BY <1>4, <2>2, FS_Surjection
<1>6. PICK n \in Nat : n = Cardinality(C)
  BY <1>5, FS_CardinalityType
<1>7. order \in [1 .. n -> C] /\ \A i, j \in 1 .. n : i # j => order[i] # order[j]
  BY <1>2, <1>6 DEF SetToSeqs
<1>8. \A b \in C : b \in Seq(File) /\ IsInjective(b) /\ ToSet(b) \subseteq D
  BY <1>1, <1>3 DEF Sorted
<1>9. \A b, d \in C : b # d => ToSet(b) \cap ToSet(d) = {}
  <2>1. SUFFICES ASSUME NEW h \in H, NEW g \in H, buckets[h] # buckets[g]
                 PROVE  ToSet(buckets[h]) \cap ToSet(buckets[g]) = {}
    BY <1>3
  <2>2. h # g /\ h \in DOMAIN buckets /\ g \in DOMAIN buckets
    BY <1>1, <2>1
  <2> QED BY <2>2 DEF Sorted
<1>10. order \in [1 .. n -> Seq(File)]
  BY <1>7, <1>8
<1>11. order \in Seq(Seq(File)) /\ DOMAIN order = 1 .. n
  BY <1>10
<1>12. \A i \in DOMAIN order : IsInjective(order[i])
  BY <1>7, <1>8, <1>11
<1>13. \A i, j \in DOMAIN order : i # j => ToSet(order[i]) \cap ToSet(order[j]) = {}
  BY <1>7, <1>9, <1>11
<1>14. /\ FlattenSeq(order) \in Seq(File) /\ IsInjective(FlattenSeq(order))
       /\ \A x : x \in ToSet(FlattenSeq(order)) <=> \E i \in DOMAIN order : x \in ToSet(order[i])
  BY <1>11, <1>12, <1>13, ApartFlattened
<1>15. \A b \in C : \E i \in 1 .. n : order[i] = b
  <2>1. Cardinality(1 .. n) = Cardinality(C)
    BY <1>6, FS_Interval
  <2>2. order \in Injection(1 .. n, C)
    BY <1>7 DEF Injection, IsInjective
  <2>3. order \in Surjection(1 .. n, C)
    BY <1>5, <2>1, <2>2, FS_Injection
  <2> QED BY <2>3 DEF Surjection
<1>16. ASSUME NEW h \in DOMAIN buckets, Len(buckets[h]) >= 2
       PROVE  ToSet(buckets[h]) \subseteq ToSet(FlattenSeq(order))
  <2>1. PICK b : b = buckets[h]
    OBVIOUS
  <2>2. b \in C
    BY <1>1, <1>3, <1>16, <2>1
  <2>3. PICK i \in 1 .. n : order[i] = b
    BY <1>15, <2>2
  <2> QED BY <1>11, <1>14, <2>1, <2>3
<1> QED BY <1>7, <1>8, <1>11, <1>14, <1>16

-----------------------------------------------------------------------------
(* The buckets of the samples *)

\* The files all of whose reads are back.
Settled == {Group[i] : i \in {i \in Index : ~Live(i) /\ acc[i].submitted = Expected}}

SortedInv == Sorted(by_sample, Settled)

\* A file goes into a bucket, having been in none.
LEMMA SortedMore ==
    ASSUME NEW buckets, NEW D, Sorted(buckets, D), NEW f, f \in File, f \notin D, NEW h,
           f \notin Faulty => h = SampleOf(f), NEW D2, D \subseteq D2, f \in D2
    PROVE  Sorted(AddTo(buckets, h, f), D2)
<1>1. PICK b2 : b2 = AddTo(buckets, h, f)
  OBVIOUS
<1>2. PICK old : old = IF h \in DOMAIN buckets THEN buckets[h] ELSE <<>>
  OBVIOUS
<1>3. /\ DOMAIN b2 = DOMAIN buckets \cup {h} /\ b2[h] = Append(old, f)
      /\ \A g \in DOMAIN buckets \ {h} : b2[g] = buckets[g]
  BY <1>1, <1>2 DEF AddTo, With
<1>4. /\ \A g \in DOMAIN buckets :
            /\ buckets[g] \in Seq(File) /\ IsInjective(buckets[g]) /\ ToSet(buckets[g]) \subseteq D
            /\ \A x \in ToSet(buckets[g]) \ Faulty : g = SampleOf(x)
      /\ \A x, g \in DOMAIN buckets : x # g => ToSet(buckets[x]) \cap ToSet(buckets[g]) = {}
      /\ IsFiniteSet(DOMAIN buckets)
  BY DEF Sorted
<1>5. /\ old \in Seq(File) /\ IsInjective(old) /\ ToSet(old) \subseteq D
      /\ \A x \in ToSet(old) \ Faulty : h = SampleOf(x)
      /\ \A g \in DOMAIN buckets \ {h} : ToSet(old) \cap ToSet(buckets[g]) = {}
  BY <1>2, <1>4, NoElements
<1>6. PICK new : new = Append(old, f)
  OBVIOUS
<1>7. new \in Seq(File) /\ IsInjective(new) /\ ToSet(new) = ToSet(old) \cup {f}
  BY <1>5, <1>6, LastAdded
<1>8. \A g \in DOMAIN b2 :
         /\ b2[g] \in Seq(File) /\ IsInjective(b2[g]) /\ ToSet(b2[g]) \subseteq D2
         /\ \A x \in ToSet(b2[g]) \ Faulty : g = SampleOf(x)
  <2>1. TAKE g \in DOMAIN b2
  <2>2. CASE g = h
    BY <1>3, <1>5, <1>6, <1>7, <2>2
  <2>3. CASE g # h
    BY <1>3, <1>4, <2>3
  <2> QED BY <2>2, <2>3
<1>9. \A x, g \in DOMAIN b2 : x # g => ToSet(b2[x]) \cap ToSet(b2[g]) = {}
  <2>1. \A g \in DOMAIN buckets \ {h} : f \notin ToSet(buckets[g])
    BY <1>4
  <2>2. \A g \in DOMAIN buckets \ {h} : ToSet(new) \cap ToSet(b2[g]) = {}
    BY <1>3, <1>5, <1>7, <2>1
  <2>3. ASSUME NEW x \in DOMAIN buckets \ {h}, NEW g \in DOMAIN buckets \ {h}, x # g
        PROVE  ToSet(b2[x]) \cap ToSet(b2[g]) = {}
    BY <1>3, <1>4, <2>3
  <2>4. b2[h] = new /\ DOMAIN b2 = (DOMAIN buckets \ {h}) \cup {h}
    BY <1>3, <1>6
  <2> QED BY <2>2, <2>3, <2>4
<1>10. IsFiniteSet(DOMAIN b2)
  BY <1>3, <1>4, FS_AddElement
<1>11. Sorted(b2, D2)
  BY <1>8, <1>9, <1>10 DEF Sorted
<1> QED BY <1>1, <1>11

\* A sample is within its file.
LEMMA OffsetInside == \A r \in Regs : Offset(r) \in Nat /\ Offset(r) < Size
<1>1. SUFFICES ASSUME NEW r \in Regs PROVE Offset(r) < Size
  BY RegionFacts
<1>2. r \in {0, 1, 2} /\ Size \in Nat \ {0} /\ SAMPLE \in Nat \ {0}
  BY RegionFacts, PrefilterAssumption DEF Region
<1>3. CASE r = 0
  BY <1>2, <1>3 DEF Offset
<1>4. CASE r = 1
  <2>1. Offset(r) = (Size \div 2) - (SAMPLE \div 2)
    BY <1>4 DEF Offset
  <2>2. Size \div 2 < Size /\ Size \div 2 \in Nat /\ SAMPLE \div 2 \in Nat
    BY <1>2
  <2> QED BY <1>2, <2>1, <2>2
<1>5. CASE r = 2
  <2>1. Offset(r) = Size - SAMPLE
    BY <1>5 DEF Offset
  <2> QED BY <1>2, <2>1
<1> QED BY <1>2, <1>3, <1>4, <1>5

\* A sample of a file that cannot fail is all there.
LEMMA SampleWhole ==
    ASSUME NEW f \in File \ Faulty, NEW r \in Regs, NEW d, d \in Completion, NEW s, NEW w,
           w.file = f, w.off = Offset(r), w.len = SAMPLE, Served(s, w, d)
    PROVE  d.res > 0 /\ SubSeq(s.buf[d.tag], 1, d.res) = SampleAt(f, r)
<1>1. PICK off, len, C, res : off = Offset(r) /\ len = SAMPLE /\ C = Content[f] /\ res = d.res
  OBVIOUS
<1>2. off \in Nat /\ off < Size /\ len \in Nat \ {0} /\ Size \in Nat /\ C \in Seq(Byte) /\ Len(C) = Size
  BY <1>1, OffsetInside, PrefilterAssumption, RingAssumption
<1>3. res \in Outcomes(w) /\ w.file \in File /\ w.off \in Nat /\ w.len \in Nat
  BY <1>1, <1>2 DEF Served
<1>4. res = Smaller(w.len, Len(Content[w.file]) - w.off)
  BY <1>1, <1>2, <1>3, OutcomeFacts
<1>5. res = IF len < Size - off THEN len ELSE Size - off
  BY <1>1, <1>2, <1>4 DEF Smaller
<1>6. res \in Nat /\ res > 0 /\ off + res <= Size
  BY <1>2, <1>5
<1>7. off + res = Smaller(off + len, Size)
  BY <1>2, <1>5 DEF Smaller
<1>8. s.buf[d.tag] = SubSeq(C, off + 1, off + res)
  BY <1>1, <1>6 DEF Served
<1>9. PICK m \in Nat : m = res
  BY <1>6
<1>10. SubSeq(SubSeq(C, off + 1, off + m), 1, m) = SubSeq(C, off + 1, off + m)
  BY <1>2, <1>6, <1>9, PiecesJoined
<1>11. SampleAt(f, r) = SubSeq(C, off + 1, off + res)
  <2>1. r \in ToSet(Applicable)
    BY DEF Regs
  <2>2. SampleAt(f, r) = SubSeq(C, off + 1, Smaller(off + len, Size))
    BY <1>1, <2>1 DEF SampleAt
  <2> QED BY <1>7, <2>2
<1> QED BY <1>1, <1>6, <1>8, <1>9, <1>10, <1>11

\* The last sample of a file that cannot fail: what is hashed is its samples.
LEMMA DigestRight ==
    ASSUME SampleInv, NEW k \in Passed, NextTake(k), AllBack(Gathered),
           acc' = [acc EXCEPT ![Fid] = Gathered], Group[Fid] \notin Faulty
    PROVE  Digest(Gathered) = SampleOf(Group[Fid])
<1>1. PICK a, i, f, buf, A, r1 : /\ a = Gathered /\ i = Fid /\ f = Group[i] /\ buf = ring.buf /\ A = Asks
                                 /\ r1 = Taken(ring, k)
  OBVIOUS
<1>2. i \in Index /\ Live(i) /\ a \in AccRec
  BY <1>1, SampleBack
<1>3. DOMAIN a.got = Regs
  BY <1>1, LastTags
<1>4. f \in File \ Faulty
  BY <1>1, <1>2, PrefilterAssumption DEF Index
<1>5. r1.buf = buf
  BY <1>1, SampleBack DEF Taking, SameTables, SameSlots
<1>6. ASSUME NEW r \in Regs
      PROVE  RegionBytes(a, r) = SampleAt(f, r)
  <2>1. PICK t \in Used(ring) : meta[t].file_idx = i /\ meta[t].region = r
    BY <1>2 DEF SampleInv, TagsInv
  <2>2. acc'[i] = a
    BY <1>1, GatheredTags
  <2>3. a.got[r].tag = t /\ Served(r1, A[t], a.got[r])
    <3>1. LET got == acc'[meta[t].file_idx].got q == meta[t].region IN
          q \in DOMAIN got => /\ got[q].tag = t /\ t \notin BusyTags \ {Done.tag}
                              /\ Served(Taken(ring, k), Asks[t], got[q])
      BY GatheredTags
    <3> QED BY <1>1, <1>3, <2>1, <2>2, <3>1
  <2>4. PICK d, w : d = a.got[r] /\ w = A[t]
    OBVIOUS
  <2>5. d \in Completion
    BY <1>2, <1>3, <2>4 DEF AccRec
  <2>6. t \in Nat
    BY FlowFacts DEF SampleInv
  <2>7. w.file = f /\ w.off = Offset(r) /\ w.len = SAMPLE
    BY <1>1, <2>1, <2>4, <2>6 DEF Asks
  <2>8. Served(r1, w, d)
    BY <2>3, <2>4
  <2>9. d.res > 0 /\ SubSeq(r1.buf[d.tag], 1, d.res) = SampleAt(f, r)
    BY <1>4, <2>5, <2>7, <2>8, SampleWhole
  <2> QED BY <1>1, <1>3, <1>5, <2>4, <2>9 DEF RegionBytes
<1>7. ASSUME NEW r, r \notin Regs
      PROVE  RegionBytes(a, r) = SampleAt(f, r)
  BY <1>3, <1>7 DEF RegionBytes, SampleAt, Regs
<1>8. /\ RegionBytes(a, 0) = SampleAt(f, 0) /\ RegionBytes(a, 1) = SampleAt(f, 1)
      /\ RegionBytes(a, 2) = SampleAt(f, 2)
  BY <1>6, <1>7
<1> QED BY <1>1, <1>8 DEF Digest, SampleOf

\* Files are settled once, and stay so.
LEMMA SettledKept ==
    ASSUME SortedInv, by_sample' = by_sample,
           \A i \in Index : ~Live(i) /\ acc[i].submitted = Expected
                               => ~Live(i)' /\ acc'[i].submitted = Expected
    PROVE  SortedInv'
<1>1. PICK b, D, D2 : b = by_sample /\ D = Settled /\ D2 = Settled'
  OBVIOUS
<1>2. D \subseteq D2
  BY <1>1 DEF Settled
<1>3. Sorted(b, D)
  BY <1>1 DEF SortedInv
<1>4. Sorted(b, D2)
  BY <1>2, <1>3 DEF Sorted
<1> QED BY <1>1, <1>4 DEF SortedInv

\* Every step of the sampling keeps the buckets right.
LEMMA SortedSample ==
    ASSUME SampleInv, SortedInv,
           \/ PumpFile \/ PumpUnopenable \/ PumpDone \/ EnterForSample \/ TakeSample \/ TakeLastSample
    PROVE  SortedInv'
<1>1. CASE PumpFile
  <2>1. next_file <= Len(Group)
    BY <1>1 DEF PumpFile
  <2>2. next_file \in Index /\ acc[next_file].submitted = 0
    BY <2>1, NextFileFacts
  <2>3. acc' = [acc EXCEPT ![next_file].handle = NewHandle(ring), ![next_file].submitted = Expected]
    BY <1>1, PumpFlow
  <2>4. Expected # 0
    BY RegionFacts
  <2>5. \A i \in Index : acc[i].submitted = Expected => acc'[i] = acc[i]
    <3>1. DOMAIN acc = Index
      BY DEF SampleInv, FilesInv
    <3> QED BY <2>2, <2>3, <2>4, <3>1
  <2>6. by_sample' = by_sample
    BY <1>1 DEF PumpFile
  <2>7. \A i \in Index : ~Live(i) /\ acc[i].submitted = Expected
                               => ~Live(i)' /\ acc'[i].submitted = Expected
    BY <2>5 DEF Live
  <2> QED BY <2>6, <2>7, SettledKept
<1>2. CASE PumpUnopenable
  <2>1. next_file <= Len(Group) /\ acc' = [acc EXCEPT ![next_file].submitted = 0] /\ by_sample' = by_sample
    BY <1>2 DEF PumpUnopenable
  <2>2. next_file \in Index /\ acc[next_file].submitted = 0
    BY <2>1, NextFileFacts
  <2>3. Expected # 0
    BY RegionFacts
  <2>4. \A i \in Index : acc[i].submitted = Expected => acc'[i] = acc[i]
    <3>1. DOMAIN acc = Index
      BY DEF SampleInv, FilesInv
    <3> QED BY <2>1, <2>2, <2>3, <3>1
  <2>5. \A i \in Index : ~Live(i) /\ acc[i].submitted = Expected
                               => ~Live(i)' /\ acc'[i].submitted = Expected
    BY <2>4 DEF Live
  <2> QED BY <2>1, <2>5, SettledKept
<1>3. CASE PumpDone \/ EnterForSample
  <2>1. acc' = acc /\ by_sample' = by_sample
    BY <1>3 DEF PumpDone, EnterForSample, sample_vars
  <2>2. \A i \in Index : ~Live(i) /\ acc[i].submitted = Expected
                               => ~Live(i)' /\ acc'[i].submitted = Expected
    BY <2>1 DEF Live
  <2> QED BY <2>1, <2>2, SettledKept
<1>4. CASE TakeSample
  <2>1. PICK k \in Passed : NextTake(k)
    BY <1>4 DEF TakeSample
  <2>2. acc' = [acc EXCEPT ![Fid] = Gathered] /\ by_sample' = by_sample
    BY <1>4 DEF TakeSample
  <2>3. Fid \in Index /\ Live(Fid)
    BY <2>1, SampleBack
  <2>4. \A i \in Index : ~Live(i) => acc'[i] = acc[i]
    <3>1. DOMAIN acc = Index
      BY DEF SampleInv, FilesInv
    <3> QED BY <2>2, <2>3, <3>1
  <2>5. \A i \in Index : ~Live(i) /\ acc[i].submitted = Expected
                               => ~Live(i)' /\ acc'[i].submitted = Expected
    BY <2>4 DEF Live
  <2> QED BY <2>2, <2>5, SettledKept
<1>5. CASE TakeLastSample
  <2>1. PICK k \in Passed : NextTake(k) /\ AllBack(Gathered)
    BY <1>5 DEF TakeLastSample
  <2>2. /\ acc' = [acc EXCEPT ![Fid] = Gathered]
        /\ by_sample' = IF Gathered.submitted = Expected
                        THEN AddTo(by_sample, Digest(Gathered), Group[Fid]) ELSE by_sample
    BY <1>5 DEF TakeLastSample
  <2>3. /\ Fid \in Index /\ Live(Fid) /\ Gathered.submitted = acc[Fid].submitted
        /\ acc[Fid].submitted = Expected
    BY <2>1, SampleBack
  <2>4. PICK i, a, f, h, b, D, D2 :
           /\ i = Fid /\ a = Gathered /\ f = Group[i] /\ h = Digest(a) /\ b = by_sample
           /\ D = Settled /\ D2 = Settled'
    OBVIOUS
  <2>5. acc' = [acc EXCEPT ![i] = a] /\ DOMAIN acc = Index
    BY <2>2, <2>4 DEF SampleInv, FilesInv
  <2>6. by_sample' = AddTo(b, h, f)
    BY <2>2, <2>3, <2>4
  <2>7. a.arrived = a.submitted /\ a.submitted = Expected
    BY <2>1, <2>3, <2>4 DEF AllBack
  <2>8. ~Live(i)' /\ acc'[i].submitted = Expected /\ i \in Index
    <3>1. acc'[i] = a
      BY <2>3, <2>4, <2>5
    <3>2. Expected \in Int
      BY RegionFacts
    <3>3. ~(a.arrived < a.submitted)
      BY <2>7, <3>2
    <3> QED BY <2>3, <2>4, <2>7, <3>1, <3>3 DEF Live
  <2>9. \A j \in Index : ~Live(j) /\ acc[j].submitted = Expected
                            => ~Live(j)' /\ acc'[j].submitted = Expected
    <3>1. \A j \in Index : ~Live(j) => acc'[j] = acc[j]
      BY <2>3, <2>4, <2>5
    <3> QED BY <3>1 DEF Live
  <2>10. D \subseteq D2 /\ f \in D2
    BY <2>4, <2>8, <2>9 DEF Settled
  <2>11. f \in File /\ f \notin D
    <3>1. \A j \in Index : Group[j] = Group[i] => j = i
      BY <2>3, <2>4, PrefilterAssumption DEF Index, IsInjective
    <3>2. f \notin D
      BY <2>3, <2>4, <3>1 DEF Settled
    <3>3. f \in File
      BY <2>3, <2>4, PrefilterAssumption DEF Index
    <3> QED BY <3>2, <3>3
  <2>12. f \notin Faulty => h = SampleOf(f)
    BY <2>1, <2>2, <2>4, DigestRight
  <2>13. Sorted(b, D)
    BY <2>4 DEF SortedInv
  <2>14. Sorted(AddTo(b, h, f), D2)
    BY <2>10, <2>11, <2>12, <2>13, SortedMore
  <2> QED BY <2>4, <2>6, <2>14 DEF SortedInv
<1> QED BY <1>1, <1>2, <1>3, <1>4, <1>5

-----------------------------------------------------------------------------
(* Between the phases *)

\* With no read in flight the sampling has left nothing behind.
LEMMA SamplingOver ==
    ASSUME SampleInv, in_flight = 0
    PROVE  Sound(ring) /\ Quiet(ring, ops, cq) /\ \A i \in Index : ~Live(i)
<1>1. PICK s, o, c, W : s = ring /\ o = ops /\ c = cq /\ W = Asks
  OBVIOUS
<1>2. Flow(s, o, c, W)
  BY <1>1 DEF SampleInv
<1>3. Used(s) = {}
  <2>1. IsFiniteSet(Used(s)) /\ Cardinality(Used(s)) = 0
    BY <1>1 DEF SampleInv, TagsInv
  <2> QED BY <2>1, FS_EmptySet
<1>4. \A i \in Index : ~Live(i)
  <2>1. \E r : r \in Regs
    BY RegionFacts
  <2> QED BY <1>1, <1>3, <2>1 DEF SampleInv, TagsInv
<1>5. Opened(s) = {}
  BY <1>1, <1>4 DEF SampleInv, HandlesInv
<1>6. Quiet(s, o, c)
  BY <1>2, <1>3, <1>5, QuietRing
<1> QED BY <1>1, <1>2, <1>4, <1>6 DEF Flow

\* A quiet ring, and nothing asked of any file: sampling can begin.
LEMMA SamplingBegins ==
    ASSUME Sound(ring'), Quiet(ring', ops', cq'), meta' = <<>>, acc' = NoAcc, next_file' = 1,
           in_flight' = 0
    PROVE  SampleInv'
<1>1. PICK s, o, c, W : s = ring' /\ o = ops' /\ c = cq' /\ W = Asks'
  OBVIOUS
<1>2. Flow(s, o, c, W) /\ Busy(s, o, c) = {}
  BY <1>1, QuietFlow
<1>3. Used(s) = {} /\ Opened(s) = {}
  BY <1>1 DEF Quiet
<1>4. Flow(ring', ops', cq', Asks')
  BY <1>1, <1>2
<1>5. \A i \in Index : /\ acc'[i].submitted = 0 /\ acc'[i].arrived = 0 /\ acc'[i].handle = 0
                       /\ acc'[i].got = <<>>
  BY DEF NoAcc
<1>6. FilesInv'
  <2>1. next_file' \in 1 .. Len(Group) + 1
    <3>1. Len(Group) \in Nat
      BY PrefilterAssumption
    <3> QED BY <3>1
  <2>2. \A i \in Index : acc'[i] \in AccRec /\ DOMAIN acc'[i].got = {}
    <3>1. TAKE i \in Index
    <3>2. acc'[i] = [submitted |-> 0, arrived |-> 0, handle |-> 0, got |-> <<>>]
      BY DEF NoAcc
    <3>3. <<>> \in UNION {[R -> Completion] : R \in SUBSET Regs}
      <4>1. <<>> \in [{} -> Completion]
        BY NoElements
      <4> QED BY <4>1
    <3> QED BY <3>2, <3>3, NoElements, SMTT(30) DEF AccRec
  <2>3. acc' \in [Index -> AccRec]
    BY <2>2 DEF NoAcc
  <2>4. Cardinality({}) = 0
    BY FS_EmptySet
  <2> QED BY <1>5, <2>1, <2>2, <2>3, <2>4 DEF FilesInv
<1>7. \A i \in Index : ~Live(i)'
  BY <1>5 DEF Live
<1>8. TagsInv'
  <2>1. DOMAIN meta' = {}
    BY NoElements
  <2>2. IsFiniteSet({}) /\ Cardinality({}) = 0 /\ 0 <= WINDOW
    BY FS_EmptySet, PrefilterAssumption
  <2>3. Used(ring') = {}
    BY <1>1, <1>3
  <2> QED BY <1>7, <2>1, <2>2, <2>3 DEF TagsInv
<1>9. HandlesInv'
  <2>1. Opened(ring') = {}
    BY <1>1, <1>3
  <2> QED BY <1>7, <2>1 DEF HandlesInv
<1> QED BY <1>4, <1>6, <1>8, <1>9 DEF SampleInv

\* With no chunk in flight hashing has left nothing behind.
LEMMA HashingOver ==
    ASSUME HashInv, in_flight = 0
    PROVE  Sound(ring) /\ Quiet(ring, ops, cq)
<1>1. PICK s, o, c, act, tta, W, n : /\ s = ring /\ o = ops /\ c = cq /\ act = active
                                     /\ tta = tag_to_active /\ W = ChunkOf(act, tta) /\ n = 0
  OBVIOUS
<1>2. Chunked(s, o, c, act, tta, n, {})
  BY <1>1 DEF HashInv
<1>3. Flow(s, o, c, W) /\ Used(s) = Busy(s, o, c) /\ IsFiniteSet(Busy(s, o, c))
      /\ Cardinality(Busy(s, o, c)) = 0
  BY <1>1, <1>2 DEF Chunked, Places
<1>4. Used(s) = {} /\ Busy(s, o, c) = {}
  BY <1>3, FS_EmptySet
<1>5. Opened(s) = {}
  BY <1>2, <1>4 DEF Chunked, OpenFor
<1>6. Quiet(s, o, c)
  BY <1>3, <1>4, <1>5, QuietRing
<1> QED BY <1>1, <1>3, <1>6 DEF Flow

\* Nothing of hash_file has begun.
HashFresh == HashInit

\* Before hashing there is no data, and what there is not is right.
LEMMA FreshData == HashFresh => HashData
<1> SUFFICES ASSUME HashFresh PROVE HashData
  OBVIOUS
<1>1. /\ worklist = <<>> /\ active = <<>> /\ tag_to_active = <<>> /\ by_full = <<>> /\ failed = {}
  BY DEF HashFresh, HashInit
<1>2. Len(<<>>) <= FILES
  BY NoElements, HashFileAssumption
<1> QED BY <1>1, <1>2, NoElements DEF HashData

\* The list is made, and hashing begins.
LEMMA HashingBegins ==
    ASSUME Sound(ring), Quiet(ring, ops, cq), HashFresh, Sorted(by_sample, Files), next_file = 1,
           in_flight = 0, StartHash
    PROVE  HashInv' /\ HashData'
<1>1. PICK order \in SetToSeqs(Candidates) : worklist' = FlattenSeq(order)
  BY DEF StartHash
<1>2. PICK b, D, list : b = by_sample /\ D = Files /\ list = worklist'
  OBVIOUS
<1>3. list \in Seq(File) /\ IsInjective(list) /\ ToSet(list) \subseteq D
  BY <1>1, <1>2, ListMade
<1>4. /\ ring' = ring /\ ops' = ops /\ cq' = cq /\ next_file' = 1 /\ in_flight' = 0
      /\ active' = <<>> /\ tag_to_active' = <<>> /\ by_full' = <<>> /\ failed' = {} /\ pc' = "fill"
  BY DEF StartHash, HashFresh, HashInit, ring_vars
<1>5. HashData'
  <2>1. Len(<<>>) <= FILES
    BY NoElements, HashFileAssumption
  <2> QED BY <1>2, <1>3, <1>4, <2>1, NoElements DEF HashData
<1>6. PICK s, o, c, W : s = ring /\ o = ops /\ c = cq /\ W = ChunkOf(<<>>, <<>>)
  OBVIOUS
<1>7. Flow(s, o, c, W) /\ Busy(s, o, c) = {}
  BY <1>6, QuietFlow
<1>8. Used(s) = {} /\ Opened(s) = {}
  BY <1>6 DEF Quiet
<1>9. Chunked(s, o, c, <<>>, <<>>, 0, {})
  <2>1. IsFiniteSet({}) /\ Cardinality({}) = 0
    BY FS_EmptySet
  <2>2. Places(s, o, c, <<>>, <<>>, 0)
    BY <1>6, <1>7, <1>8, <2>1, NoElements DEF Places
  <2>3. OpenFor(s, o, c, <<>>, <<>>, {})
    BY <1>7, <1>8 DEF OpenFor
  <2> QED BY <2>2, <2>3 DEF Chunked
<1>10. BusyTags' = {}
  BY <1>4, <1>6, <1>7 DEF BusyTags, Busy
<1>11. HashInv'
  <2>1. Named({}, <<>>, <<>>, Begun(list, 1), <<>>, {})
    <3>1. Begun(list, 1) = {}
      BY DEF Begun
    <3> QED BY <3>1, NoElements DEF Named
  <2>5. IsFiniteSet(failed')
    BY <1>4, FS_EmptySet
  <2>2. Len(<<>>) = 0 /\ 0 <= FILES /\ 1 \in 1 .. Len(list) + 1
    BY <1>3, NoElements, HashFileAssumption
  <2>3. Chunked(ring', ops', cq', active', tag_to_active', in_flight', {})
    BY <1>4, <1>6, <1>9
  <2>4. Named(BusyTags', active', tag_to_active', Begun(worklist', next_file'), by_full', failed')
    BY <1>2, <1>4, <1>10, <2>1
  <2> QED BY <1>2, <1>4, <2>2, <2>3, <2>4, <2>5 DEF HashInv
<1> QED BY <1>5, <1>11

\* The flags of a ring, which only next() and the kernel touch.
HasFlags(s) == {"io", "held", "event", "waiting"} \subseteq DOMAIN s
Alike(s, r) == /\ HasFlags(r)
               /\ r.io = s.io /\ r.held = s.held /\ r.event = s.event /\ r.waiting = s.waiting

\* What a worker does with its ring between two calls of next().
LEMMA FlagsUntouched ==
    ASSUME NEW s, HasFlags(s)
    PROVE  /\ \A f : Alike(s, OpenFile(s, f))
           /\ \A h : Alike(s, CloseFile(s, h))
           /\ \A h, reads : Alike(s, Submit(s, h, reads))
           /\ \A tags : Alike(s, Release(s, tags))
           /\ \A k : Alike(s, Entered(s, k)) /\ Alike(s, Taken(s, k))
           /\ Alike(s, Reset(s))
<1>1. \A f : Alike(s, OpenFile(s, f))
  BY DEF HasFlags, Alike, OpenFile
<1>2. \A h : Alike(s, CloseFile(s, h))
  BY DEF HasFlags, Alike, CloseFile
<1>3. \A h, reads : Alike(s, Submit(s, h, reads))
  BY DEF HasFlags, Alike, Submit
<1>4. \A tags : Alike(s, Release(s, tags))
  BY DEF HasFlags, Alike, Release
<1>5. \A k : Alike(s, Entered(s, k))
  BY DEF HasFlags, Alike, Entered
<1>6. ASSUME NEW k
      PROVE  Alike(s, Taken(s, k))
  <2>1. PICK r : r = Entered(s, k)
    OBVIOUS
  <2>2. Alike(s, r)
    BY <1>5, <2>1
  <2>3. Taken(s, k) = [r EXCEPT !.inflight = @ - 1]
    BY <2>1 DEF Taken
  <2> QED BY <2>2, <2>3 DEF HasFlags, Alike
<1>7. Alike(s, Reset(s))
  BY DEF HasFlags, Alike, Reset
<1> QED BY <1>1, <1>2, <1>3, <1>4, <1>5, <1>6, <1>7

\* A worker that waits waits on its event, which is set if there is something to
\* pop.
WaitInv == ring.waiting => "event" \in ring.held /\ (cq # <<>> => ring.event)

\* The flags are left alone, and nobody pops while it waits.
LEMMA WaitKept ==
    ASSUME WaitInv, Alike(ring, ring'), cq' = cq \/ ~ring.waiting
    PROVE  WaitInv'
BY DEF WaitInv, Alike

\* A ring has flags, and two steps that leave them alone are one.
LEMMA AlikeFacts ==
    /\ \A s \in RingRecord : HasFlags(s) /\ Alike(s, s)
    /\ \A s, r, q : Alike(s, r) /\ Alike(r, q) => Alike(s, q)
BY DEF HasFlags, Alike, RingRecord

\* next() keeps the worker from sleeping over a completion.
LEMMA EnterWait ==
    ASSUME WaitInv, ring \in RingRecord, NextEnter \/ NextWait \/ NextWoken
    PROVE  WaitInv'
<1>1. CASE NextEnter
  <2>1. PICK k : ring' = Entered(ring, k)
    BY <1>1 DEF NextEnter
  <2>2. Alike(ring, ring') /\ cq' = cq
    BY <1>1, <2>1, AlikeFacts, FlagsUntouched DEF NextEnter
  <2> QED BY <2>2, WaitKept
<1>2. CASE NextWait
  <2>1. /\ "event" \in ring.held /\ cq = <<>> /\ cq' = cq /\ ring' = [ring EXCEPT !.waiting = TRUE]
    BY <1>2 DEF NextWait, NothingPopped
  <2>2. "event" \in ring'.held
    BY <2>1 DEF RingRecord
  <2> QED BY <2>1, <2>2 DEF WaitInv
<1>3. CASE NextWoken
  <2>1. ring' = [ring EXCEPT !.waiting = FALSE, !.event = FALSE]
    BY <1>3 DEF NextWoken
  <2>2. ring'.waiting = FALSE
    BY <2>1 DEF RingRecord
  <2> QED BY <2>2 DEF WaitInv
<1> QED BY <1>1, <1>2, <1>3

\* The kernel sets the event when its completion is the first one there.
LEMMA KernelWait ==
    ASSUME NEW W, Flow(ring, ops, cq, W), WaitInv, KernelStep
    PROVE  WaitInv'
<1>1. /\ ring'.waiting = ring.waiting /\ ring'.held = ring.held
      /\ ring'.event = (ring.event \/ ("event" \in ring.held /\ cq = <<>>))
  BY KernelFlow
<1> QED BY <1>1 DEF WaitInv

\* While files are sampled the worker leaves the event alone, but for next().
LEMMA WaitSample ==
    ASSUME SampleInv, WaitInv,
           \/ PumpFile \/ PumpUnopenable \/ PumpDone \/ EnterForSample \/ TakeSample \/ TakeLastSample
    PROVE  WaitInv'
<1>1. ring \in RingRecord
  BY FlowFacts DEF SampleInv
<1>2. HasFlags(ring) /\ Alike(ring, ring)
  BY <1>1, AlikeFacts
<1>3. CASE PumpFile
  <2>1. PICK r, q : /\ r = OpenFile(ring, Group[next_file]) /\ q = Submit(r, NewHandle(ring), Reads)
                    /\ ring' = IF Len(Queued) = 0 THEN CloseFile(q, NewHandle(ring)) ELSE q
    BY <1>3 DEF PumpFile
  <2>2. Alike(ring, r)
    BY <1>2, <2>1, FlagsUntouched
  <2>3. Alike(r, q)
    BY <2>1, <2>2, FlagsUntouched DEF Alike
  <2>4. Alike(q, CloseFile(q, NewHandle(ring)))
    BY <2>3, FlagsUntouched DEF Alike
  <2>5. Alike(ring, q) /\ Alike(ring, CloseFile(q, NewHandle(ring)))
    BY <2>2, <2>3, <2>4, AlikeFacts
  <2>6. Alike(ring, ring')
    BY <2>1, <2>5
  <2>7. cq' = cq
    BY <1>3 DEF PumpFile
  <2> QED BY <2>6, <2>7, WaitKept
<1>4. CASE PumpUnopenable \/ PumpDone
  <2>1. ring' = ring /\ cq' = cq
    BY <1>4 DEF PumpUnopenable, PumpDone, ring_vars
  <2> QED BY <1>2, <2>1, WaitKept
<1>5. CASE EnterForSample
  BY <1>1, <1>5, EnterWait DEF EnterForSample
<1>6. CASE TakeSample
  <2>1. PICK k : ring' = Taken(ring, k) /\ NextTake(k)
    BY <1>6 DEF TakeSample
  <2>2. Alike(ring, ring')
    BY <1>2, <2>1, FlagsUntouched
  <2>3. ~ring.waiting
    BY <2>1 DEF NextTake
  <2> QED BY <2>2, <2>3, WaitKept
<1>7. CASE TakeLastSample
  <2>1. PICK k : /\ NextTake(k)
                 /\ ring' = CloseFile(Release(Taken(ring, k), HeldTags(Gathered)), Gathered.handle)
    BY <1>7 DEF TakeLastSample
  <2>2. PICK r, q : r = Taken(ring, k) /\ q = Release(r, HeldTags(Gathered))
    OBVIOUS
  <2>3. Alike(ring, r)
    BY <1>2, <2>2, FlagsUntouched
  <2>4. Alike(r, q)
    BY <2>2, <2>3, FlagsUntouched DEF Alike
  <2>5. Alike(q, ring')
    BY <2>1, <2>2, <2>4, FlagsUntouched DEF Alike
  <2>6. Alike(ring, ring')
    BY <2>3, <2>4, <2>5, AlikeFacts
  <2>7. ~ring.waiting
    BY <2>1 DEF NextTake
  <2> QED BY <2>6, <2>7, WaitKept
<1> QED BY <1>3, <1>4, <1>5, <1>6, <1>7

\* What is done to the ring when the next chunk is to be asked for.
LEMMA QueueAlike ==
    ASSUME NEW s, HasFlags(s), NEW a, NEW index, NEW n, QueueChunk(s, a, index, n)
    PROVE  Alike(s, ring')
<1>1. ring' = CloseFile(s, a.handle) \/ ring' = Submit(s, a.handle, NextRead(a))
  BY DEF QueueChunk
<1> QED BY <1>1, FlagsUntouched

\* While files are read whole the worker leaves the event alone, but for next().
LEMMA WaitHash ==
    ASSUME ring \in RingRecord, WaitInv,
           \/ FillFile \/ FillUnopenable \/ FillDone \/ EnterForChunk \/ TakeError \/ TakeChunk
           \/ TakeLastChunk \/ TakeLastChunkReuse
    PROVE  WaitInv'
<1>1. HasFlags(ring) /\ Alike(ring, ring)
  BY AlikeFacts
<1>2. CASE FillFile
  <2>1. PICK r, a, i, n : /\ r = OpenFile(ring, worklist[next_file]) /\ QueueChunk(r, a, i, n)
    BY <1>2 DEF FillFile
  <2>2. Alike(ring, r)
    BY <1>1, <2>1, FlagsUntouched
  <2>3. Alike(r, ring')
    BY <2>1, <2>2, QueueAlike DEF Alike
  <2>4. Alike(ring, ring') /\ cq' = cq
    BY <1>2, <2>2, <2>3, AlikeFacts DEF FillFile
  <2> QED BY <2>4, WaitKept
<1>3. CASE FillUnopenable \/ FillDone
  <2>1. ring' = ring /\ cq' = cq
    BY <1>3 DEF FillUnopenable, FillDone, ring_vars
  <2> QED BY <1>1, <2>1, WaitKept
<1>4. CASE EnterForChunk
  BY <1>4, EnterWait DEF EnterForChunk
<1>5. ASSUME NEW k, NEW tags, NextTake(k)
      PROVE  ~ring.waiting /\ Alike(ring, Taken(ring, k)) /\ Alike(ring, Release(Taken(ring, k), tags))
  <2>1. PICK r, q : r = Taken(ring, k) /\ q = Release(r, tags)
    OBVIOUS
  <2>2. Alike(ring, r)
    BY <1>1, <2>1, FlagsUntouched
  <2>3. Alike(r, q)
    BY <2>1, <2>2, FlagsUntouched DEF Alike
  <2>4. Alike(ring, q)
    BY <2>2, <2>3, AlikeFacts
  <2> QED BY <1>5, <2>1, <2>2, <2>4 DEF NextTake
<1>6. CASE TakeError
  <2>1. PICK k : /\ NextTake(k)
                 /\ ring' = Release(CloseFile(Taken(ring, k), active[At].handle), <<Done.tag>>)
    BY <1>6 DEF TakeError
  <2>2. PICK r, q : r = Taken(ring, k) /\ q = CloseFile(r, active[At].handle)
    OBVIOUS
  <2>3. ~ring.waiting /\ Alike(ring, r)
    BY <1>5, <2>1, <2>2
  <2>4. Alike(r, q)
    BY <2>2, <2>3, FlagsUntouched DEF Alike
  <2>5. Alike(q, ring')
    BY <2>1, <2>2, <2>4, FlagsUntouched DEF Alike
  <2>6. Alike(ring, ring')
    BY <2>3, <2>4, <2>5, AlikeFacts
  <2> QED BY <2>3, <2>6, WaitKept
<1>7. CASE TakeChunk
  <2>1. PICK k, q, a, i, n : /\ NextTake(k) /\ q = Release(Taken(ring, k), <<Done.tag>>)
                             /\ QueueChunk(q, a, i, n)
    BY <1>7 DEF TakeChunk
  <2>2. ~ring.waiting /\ Alike(ring, q)
    BY <1>5, <2>1
  <2>3. Alike(q, ring')
    BY <2>1, <2>2, QueueAlike DEF Alike
  <2>4. Alike(ring, ring')
    BY <2>2, <2>3, AlikeFacts
  <2> QED BY <2>2, <2>4, WaitKept
<1>8. ASSUME NEW k, NextTake(k)
      PROVE  ~ring.waiting /\ Alike(ring, Freed(k))
  <2>1. PICK r, q : r = Release(Taken(ring, k), <<Done.tag>>) /\ q = CloseFile(r, Fed.handle)
    OBVIOUS
  <2>2. ~ring.waiting /\ Alike(ring, r)
    BY <1>5, <1>8, <2>1
  <2>3. Alike(r, q)
    <3>1. HasFlags(r)
      BY <2>2 DEF Alike
    <3>2. Alike(r, CloseFile(r, Fed.handle))
      BY <3>1, FlagsUntouched
    <3> QED BY <2>1, <3>2
  <2>4. Alike(ring, q)
    BY <2>2, <2>3, AlikeFacts
  <2> QED BY <2>1, <2>2, <2>4 DEF Freed
<1>9. CASE TakeLastChunk
  <2>1. PICK k : NextTake(k) /\ ring' = Freed(k)
    BY <1>9 DEF TakeLastChunk, FileDone
  <2>2. ~ring.waiting /\ Alike(ring, ring')
    BY <1>8, <2>1
  <2> QED BY <2>2, WaitKept
<1>10. CASE TakeLastChunkReuse
  <2>1. PICK k, f, r, a, i, n : /\ NextTake(k) /\ r = OpenFile(Freed(k), f) /\ QueueChunk(r, a, i, n)
    BY <1>10 DEF TakeLastChunkReuse, FileDone
  <2>2. ~ring.waiting /\ Alike(ring, Freed(k))
    BY <1>8, <2>1
  <2>3. Alike(Freed(k), r)
    BY <2>1, <2>2, FlagsUntouched DEF Alike
  <2>4. Alike(r, ring')
    BY <2>1, <2>3, QueueAlike DEF Alike
  <2>5. Alike(ring, ring')
    BY <2>2, <2>3, <2>4, AlikeFacts
  <2> QED BY <2>2, <2>5, WaitKept
<1> QED BY <1>2, <1>3, <1>4, <1>6, <1>7, <1>9, <1>10

-----------------------------------------------------------------------------
(* The worker as a whole *)

Idle     == pc \in {"init", "sampled", "hashed", "teardown", "end"}
HashingNow == pc \in {"fill", "chunk"}

\* Between the phases nothing is outstanding and nothing open; each phase has
\* its own account of what is.
IdleInv ==
    /\ Idle => /\ Sound(ring) /\ Quiet(ring, ops, cq) /\ in_flight = 0
               /\ next_file \in 1 .. Len(Group) + 1
    /\ pc = "init" => ~ring.waiting /\ by_sample = <<>>
    /\ pc \in {"init", "sampled"} => next_file = 1
    /\ pc = "end" => ring.held = {} /\ ring.buf = <<>>
PhaseInv ==
    /\ Sampled => SampleInv /\ SortedInv
    /\ pc = "reset" => in_flight = 0
    /\ ~Sampled => meta = <<>> /\ acc = NoAcc /\ Sorted(by_sample, Files)
    /\ Sampled \/ pc \in {"init", "sampled"} => HashFresh
    /\ HashingNow => HashInv

Inv ==
    /\ Idle \/ Sampled \/ HashingNow
    /\ WaitInv /\ HashData
    /\ IdleInv
    /\ PhaseInv

\* The list is no longer than the group.
LEMMA ListShort == HashData => Len(worklist) \in Nat /\ Len(worklist) <= Len(Group)
<1> SUFFICES ASSUME HashData PROVE Len(worklist) \in Nat /\ Len(worklist) <= Len(Group)
  OBVIOUS
<1>1. PICK u : u = worklist
  OBVIOUS
<1>2. u \in Seq(File) /\ IsInjective(u) /\ ToSet(u) \subseteq ToSet(Group)
  BY <1>1 DEF HashData, Files
<1>3. Cardinality(ToSet(u)) = Len(u)
  BY <1>2, OnceEach
<1>4. Group \in Seq(File) /\ IsInjective(Group)
  BY PrefilterAssumption
<1>5. IsFiniteSet(ToSet(Group)) /\ Cardinality(ToSet(Group)) = Len(Group)
  BY <1>4, OnceEach
<1>6. Cardinality(ToSet(u)) <= Cardinality(ToSet(Group))
  BY <1>2, <1>5, FS_Subset
<1>7. Len(u) \in Nat
  BY <1>2
<1> QED BY <1>1, <1>3, <1>5, <1>6, <1>7

\* Settled files are files of the group.
LEMMA SortedFiles == SortedInv => Sorted(by_sample, Files)
<1> SUFFICES ASSUME SortedInv PROVE Sorted(by_sample, Files)
  OBVIOUS
<1>1. PICK b, D : b = by_sample /\ D = Settled
  OBVIOUS
<1>2. D \subseteq Files
  BY <1>1 DEF Settled, Files, ToSet, Index
<1>3. Sorted(b, D)
  BY <1>1 DEF SortedInv
<1>4. Sorted(b, Files)
  BY <1>2, <1>3 DEF Sorted
<1> QED BY <1>1, <1>4

\* It begins so.
LEMMA InvBegins == Init => Inv
<1> SUFFICES ASSUME Init PROVE Inv
  OBVIOUS
<1>1. PICK io \in {"io_uring", "IoRing"} : ring = FreshRing(io)
  BY DEF Init, PrefilterInit, RingInit
<1>2. /\ ops = {} /\ cq = <<>> /\ pc = "init" /\ meta = <<>> /\ acc = NoAcc /\ next_file = 1
      /\ in_flight = 0 /\ by_sample = <<>> /\ HashFresh
  BY DEF Init, PrefilterInit, RingInit, HashFresh
<1>3. Sound(ring) /\ Quiet(ring, ops, cq) /\ ~ring.waiting
  BY <1>1, <1>2, RingFresh
<1>4. Sorted(by_sample, Files)
  BY <1>2, NoElements, FS_EmptySet DEF Sorted
<1>5. next_file \in 1 .. Len(Group) + 1
  BY <1>2, PrefilterAssumption
<1>6. IdleInv
  BY <1>2, <1>3, <1>5 DEF IdleInv
<1>7. PhaseInv
  BY <1>2, <1>4 DEF PhaseInv, Sampled, HashingNow
<1>8. WaitInv
  BY <1>3 DEF WaitInv
<1> QED BY <1>2, <1>6, <1>7, <1>8, FreshData DEF Inv, Idle

\* What a step that stays in the sampling has to keep.
LEMMA StillSampling ==
    ASSUME Inv, pc' \in {"pump", "next", "reset"}, SampleInv', SortedInv', WaitInv', HashFresh,
           UNCHANGED hash_vars, pc' = "reset" => in_flight' = 0
    PROVE  Inv'
<1>1. HashFresh' /\ HashData'
  <2>1. /\ worklist' = worklist /\ active' = active /\ tag_to_active' = tag_to_active
        /\ by_full' = by_full /\ failed' = failed
    BY DEF hash_vars
  <2>2. HashFresh'
    BY <2>1 DEF HashFresh, HashInit
  <2>3. HashData'
    BY <2>1 DEF Inv, HashData
  <2> QED BY <2>2, <2>3
<1>2. IdleInv'
  BY DEF IdleInv, Idle
<1>3. PhaseInv'
  BY <1>1 DEF PhaseInv, Sampled, HashingNow
<1>4. (Idle \/ Sampled \/ HashingNow)'
  BY DEF Sampled
<1> QED BY <1>1, <1>2, <1>3, <1>4 DEF Inv

\* What a step that stays in the hashing has to keep.
LEMMA StillHashing ==
    ASSUME Inv, ~Sampled, pc' \in {"fill", "chunk"}, HashInv', HashData', WaitInv',
           UNCHANGED sample_vars
    PROVE  Inv'
<1>1. meta' = <<>> /\ acc' = NoAcc /\ Sorted(by_sample', Files)
  <2>1. meta' = meta /\ acc' = acc /\ by_sample' = by_sample
    BY DEF sample_vars
  <2> QED BY <2>1 DEF Inv, PhaseInv
<1>2. IdleInv'
  BY DEF IdleInv, Idle
<1>3. PhaseInv'
  BY <1>1 DEF PhaseInv, Sampled, HashingNow, Files
<1>4. (Idle \/ Sampled \/ HashingNow)'
  BY DEF HashingNow
<1> QED BY <1>2, <1>3, <1>4 DEF Inv

\* What a step that ends between the phases has to bring about.
LEMMA NowIdle ==
    ASSUME pc' \in {"sampled", "hashed", "teardown", "end"}, HashData', WaitInv',
           Sound(ring'), Quiet(ring', ops', cq'), in_flight' = 0,
           next_file' \in 1 .. Len(Group) + 1, meta' = <<>>, acc' = NoAcc,
           Sorted(by_sample', Files),
           pc' = "sampled" => HashFresh' /\ next_file' = 1,
           pc' = "end" => ring'.held = {} /\ ring'.buf = <<>>
    PROVE  Inv'
<1>1. IdleInv'
  BY DEF IdleInv
<1>2. PhaseInv'
  BY DEF PhaseInv, Sampled, HashingNow, Files
<1>3. (Idle \/ Sampled \/ HashingNow)'
  BY DEF Idle
<1> QED BY <1>1, <1>2, <1>3 DEF Inv

\* The ring is set up, or cannot be.
LEMMA SetUpInv == Inv /\ SetUp => Inv'
<1> SUFFICES ASSUME Inv, SetUp PROVE Inv'
  OBVIOUS
<1>1. PICK held \in InitOutcomes : /\ ring' = [ring EXCEPT !.held = held]
                                   /\ pc' = IF InitSucceeds(held) THEN "pump" ELSE "teardown"
  BY DEF SetUp
<1>2. /\ pc = "init" /\ ops' = ops /\ cq' = cq /\ meta' = meta /\ acc' = acc
      /\ by_sample' = by_sample /\ next_file' = next_file /\ in_flight' = in_flight
      /\ UNCHANGED hash_vars
  BY DEF SetUp, sample_vars
<1>3. /\ Sound(ring) /\ Quiet(ring, ops, cq) /\ in_flight = 0 /\ next_file = 1
      /\ ~ring.waiting /\ by_sample = <<>> /\ meta = <<>> /\ acc = NoAcc /\ HashFresh
      /\ Sorted(by_sample, Files) /\ HashData
  BY <1>2 DEF Inv, IdleInv, PhaseInv, Idle, Sampled
<1>4. held \in SUBSET {"ring", "sq", "cq", "sqes", "event"}
  <2>1. ASSUME NEW n \in 0 .. Len(Objects)
        PROVE  ToSet(SubSeq(Objects, 1, n)) \subseteq {"ring", "sq", "cq", "sqes", "event"}
    <3>1. Objects \in Seq({"ring", "sq", "cq", "sqes", "event"})
      BY DEF Objects
    <3>2. PICK q : q = SubSeq(Objects, 1, n)
      OBVIOUS
    <3>3. Len(Objects) \in Nat /\ n \in Nat /\ n <= Len(Objects)
      BY <3>1
    <3>4. q \in Seq({"ring", "sq", "cq", "sqes", "event"})
      BY <3>1, <3>2, <3>3
    <3> QED BY <3>2, <3>4 DEF ToSet
  <2> QED BY <2>1 DEF InitOutcomes, InitHeld, IoInitHeld
<1>5. Sound(ring') /\ Quiet(ring', ops', cq') /\ ring'.waiting = ring.waiting
  BY <1>1, <1>2, <1>3, <1>4, RingSetUp
<1>6. WaitInv'
  BY <1>3, <1>5 DEF WaitInv
<1>7. CASE pc' = "pump"
  <2>1. SampleInv'
    BY <1>2, <1>3, <1>5, SamplingBegins
  <2>2. SortedInv'
    BY <1>2, <1>3, NoElements, FS_EmptySet DEF SortedInv, Sorted
  <2>3. HashFresh /\ UNCHANGED hash_vars
    BY <1>2, <1>3
  <2> QED BY <1>6, <1>7, <2>1, <2>2, <2>3, StillSampling
<1>8. CASE pc' = "teardown"
  <2>1. HashData'
    BY <1>2, <1>3 DEF HashData, hash_vars
  <2>2. next_file' \in 1 .. Len(Group) + 1
    BY <1>2, <1>3, PrefilterAssumption
  <2>3. in_flight' = 0 /\ meta' = <<>> /\ acc' = NoAcc /\ Sorted(by_sample', Files)
    BY <1>2, <1>3
  <2> QED BY <1>5, <1>6, <1>8, <2>1, <2>2, <2>3, NowIdle
<1> QED BY <1>1, <1>7, <1>8

\* Files are sampled.
LEMMA SamplingInv == Inv /\ Sampling => Inv'
<1> SUFFICES ASSUME Inv, Sampling PROVE Inv'
  OBVIOUS
<1>1. PrefilterStep /\ UNCHANGED hash_vars
  BY DEF Sampling
<1>2. Sampled
  BY <1>1 DEF PrefilterStep, PumpFile, PumpUnopenable, PumpDone, EnterForSample, TakeSample,
              TakeLastSample, PrefilterReturn, Sampled
<1>3. SampleInv /\ SortedInv /\ HashFresh /\ WaitInv /\ HashData
  BY <1>2 DEF Inv, PhaseInv
<1>4. CASE \/ PumpFile \/ PumpUnopenable \/ PumpDone \/ EnterForSample \/ TakeSample \/ TakeLastSample
  <2>1. SampleInv'
    <3>1. CASE PumpDone
      BY <1>3, <3>1, SampleSame DEF PumpDone, sample_vars
    <3> QED BY <1>3, <1>4, <3>1, PumpSample, SkipSample, EnterSample, TakeSampleKept, LastSampleKept
  <2>2. SortedInv'
    BY <1>3, <1>4, SortedSample
  <2>3. WaitInv'
    BY <1>3, <1>4, WaitSample
  <2>4. pc' \in {"pump", "next", "reset"} /\ (pc' = "reset" => in_flight' = 0)
    <3>1. in_flight \in Nat
      <4>1. IsFiniteSet(Used(ring)) /\ in_flight = Cardinality(Used(ring))
        BY <1>3 DEF SampleInv, TagsInv
      <4> QED BY <4>1, FS_CardinalityType
    <3>2. CASE PumpDone
      BY <3>1, <3>2 DEF PumpDone
    <3>3. CASE \/ PumpFile \/ PumpUnopenable \/ EnterForSample \/ TakeSample \/ TakeLastSample
      BY <3>3 DEF PumpFile, PumpUnopenable, EnterForSample, TakeSample, TakeLastSample
    <3> QED BY <1>4, <3>2, <3>3
  <2> QED BY <1>1, <1>3, <2>1, <2>2, <2>3, <2>4, StillSampling
<1>5. CASE PrefilterReturn
  <2>1. /\ pc = "reset" /\ ring' = Reset(ring) /\ meta' = <<>> /\ acc' = NoAcc /\ next_file' = 1
        /\ in_flight' = 0 /\ pc' = "sampled" /\ ops' = ops /\ cq' = cq /\ by_sample' = by_sample
    BY <1>5 DEF PrefilterReturn
  <2>2. in_flight = 0
    BY <2>1 DEF Inv, PhaseInv
  <2>3. Sound(ring) /\ Quiet(ring, ops, cq)
    BY <1>3, <2>2, SamplingOver
  <2>4. Sound(ring') /\ Quiet(ring', ops', cq')
    BY <2>1, <2>3, RingReset
  <2>5. WaitInv'
    <3>1. ring \in RingRecord
      BY <2>3 DEF Sound
    <3>2. HasFlags(ring)
      BY <3>1, AlikeFacts
    <3>3. Alike(ring, ring')
      BY <2>1, <3>2, FlagsUntouched
    <3> QED BY <1>3, <2>1, <3>3, WaitKept
  <2>6. Sorted(by_sample', Files)
    BY <1>3, <2>1, SortedFiles
  <2>7. HashFresh' /\ HashData'
    BY <1>1, <1>3 DEF HashFresh, HashInit, HashData, hash_vars
  <2>8. next_file' \in 1 .. Len(Group) + 1
    BY <2>1, PrefilterAssumption
  <2> QED BY <2>1, <2>4, <2>5, <2>6, <2>7, <2>8, NowIdle
<1> QED BY <1>1, <1>4, <1>5 DEF PrefilterStep

\* The list is made and hashing begins.
LEMMA StartInv == Inv /\ Hashing /\ StartHash => Inv'
<1> SUFFICES ASSUME Inv, Hashing, StartHash PROVE Inv'
  OBVIOUS
<1>1. pc = "sampled" /\ pc' = "fill" /\ ring' = ring /\ ops' = ops /\ cq' = cq
  BY DEF StartHash, ring_vars
<1>2. ~Sampled /\ Idle
  BY <1>1 DEF Sampled, Idle
<1>3. /\ Sound(ring) /\ Quiet(ring, ops, cq) /\ in_flight = 0 /\ next_file = 1
      /\ Sorted(by_sample, Files) /\ HashFresh /\ WaitInv
  BY <1>1, <1>2 DEF Inv, IdleInv, PhaseInv
<1>4. HashInv' /\ HashData'
  BY <1>3, HashingBegins
<1>5. WaitInv'
  BY <1>1, <1>3 DEF WaitInv
<1>6. UNCHANGED sample_vars
  BY DEF StartHash
<1> QED BY <1>1, <1>2, <1>4, <1>5, <1>6, StillHashing

\* Files are read whole.
LEMMA ReadingInv ==
    Inv /\ (\/ FillFile \/ FillUnopenable \/ FillDone \/ EnterForChunk \/ TakeError \/ TakeChunk
            \/ TakeLastChunk \/ TakeLastChunkReuse) => Inv'
<1> SUFFICES ASSUME Inv,
                    \/ FillFile \/ FillUnopenable \/ FillDone \/ EnterForChunk \/ TakeError
                    \/ TakeChunk \/ TakeLastChunk \/ TakeLastChunkReuse
             PROVE  Inv'
  OBVIOUS
<1>1. /\ pc \in {"fill", "chunk"} /\ pc' \in {"fill", "chunk"}
      /\ UNCHANGED sample_vars
  BY DEF FillFile, FillUnopenable, FillDone, EnterForChunk, TakeError, TakeChunk, TakeLastChunk,
         TakeLastChunkReuse, FileDone
<1>2. ~Sampled /\ HashingNow
  BY <1>1 DEF Sampled, HashingNow
<1>3. HashInv /\ HashData /\ WaitInv
  BY <1>2 DEF Inv, PhaseInv
<1>4. ring \in RingRecord
  <2>1. Chunked(ring, ops, cq, active, tag_to_active, in_flight, {})
    BY <1>3 DEF HashInv
  <2>2. Flow(ring, ops, cq, ChunkOf(active, tag_to_active))
    BY <2>1, ChunkFacts
  <2> QED BY <2>2, FlowFacts
<1>5. WaitInv'
  BY <1>3, <1>4, WaitHash
<1>6. HashInv' /\ HashData'
  <2>1. CASE FillDone
    <3>1. /\ UNCHANGED <<ring_vars, next_file, in_flight, hash_vars>>
          /\ pc' = "chunk"
      BY <2>1 DEF FillDone
    <3>2. pc' = "fill" => pc = "fill"
      BY <3>1
    <3>3. Manned(worklist, next_file, in_flight, failed)
      <4>1. Cardinality(failed) \in Nat
        BY <1>3, FS_CardinalityType DEF HashInv
      <4>2. FILES \in Nat
        BY HashFileAssumption, RingAssumption
      <4> QED BY <2>1, <4>1, <4>2 DEF FillDone, Manned
    <3> QED BY <1>3, <3>1, <3>2, <3>3, HashSame
  <2>2. CASE FillFile
    BY <1>3, <2>2, FillHash
  <2>3. CASE FillUnopenable
    BY <1>3, <2>3, SkipHash
  <2>4. CASE EnterForChunk
    BY <1>3, <2>4, EnterHash
  <2>5. CASE TakeError
    BY <1>3, <2>5, ErrorHash
  <2>6. CASE TakeChunk
    BY <1>3, <2>6, ChunkHash
  <2>7. CASE TakeLastChunk
    BY <1>3, <2>7, LastChunkHash
  <2>8. CASE TakeLastChunkReuse
    BY <1>3, <2>8, ReuseHash
  <2> QED BY <2>1, <2>2, <2>3, <2>4, <2>5, <2>6, <2>7, <2>8
<1> QED BY <1>1, <1>2, <1>5, <1>6, StillHashing

\* Hashing is over.
LEMMA HashedInv == Inv /\ HashReturn => Inv'
<1> SUFFICES ASSUME Inv, HashReturn PROVE Inv'
  OBVIOUS
<1>1. /\ pc = "chunk" /\ in_flight = 0 /\ ring' = Reset(ring) /\ pc' = "hashed"
      /\ ops' = ops /\ cq' = cq /\ meta' = meta /\ acc' = acc /\ by_sample' = by_sample
      /\ next_file' = next_file /\ in_flight' = in_flight /\ UNCHANGED hash_vars
  BY DEF HashReturn, sample_vars
<1>2. ~Sampled /\ HashingNow
  BY <1>1 DEF Sampled, HashingNow
<1>3. /\ HashInv /\ HashData /\ WaitInv /\ meta = <<>> /\ acc = NoAcc
      /\ Sorted(by_sample, Files)
  BY <1>2 DEF Inv, PhaseInv
<1>4. Sound(ring) /\ Quiet(ring, ops, cq)
  BY <1>1, <1>3, HashingOver
<1>5. Sound(ring') /\ Quiet(ring', ops', cq')
  BY <1>1, <1>4, RingReset
<1>6. WaitInv'
  <2>1. ring \in RingRecord
    BY <1>4 DEF Sound
  <2>2. HasFlags(ring)
    BY <2>1, AlikeFacts
  <2>3. Alike(ring, ring')
    BY <1>1, <2>2, FlagsUntouched
  <2> QED BY <1>1, <1>3, <2>3, WaitKept
<1>7. HashData'
  BY <1>1, <1>3 DEF HashData, hash_vars
<1>8. next_file' \in 1 .. Len(Group) + 1
  <2>1. next_file \in 1 .. Len(worklist) + 1
    BY <1>3 DEF HashInv
  <2>2. Len(worklist) \in Nat /\ Len(worklist) <= Len(Group)
    BY <1>3, ListShort
  <2>3. Len(Group) \in Nat
    BY PrefilterAssumption
  <2> QED BY <1>1, <2>1, <2>2, <2>3
<1>9. in_flight' = 0 /\ meta' = <<>> /\ acc' = NoAcc /\ Sorted(by_sample', Files)
  BY <1>1, <1>3
<1> QED BY <1>1, <1>5, <1>6, <1>7, <1>8, <1>9, NowIdle

\* Files are hashed.
LEMMA HashingInv == Inv /\ Hashing => Inv'
<1> SUFFICES ASSUME Inv, Hashing PROVE Inv'
  OBVIOUS
<1>1. HashStep
  BY DEF Hashing
<1>2. CASE StartHash
  BY <1>2, StartInv
<1>3. CASE HashReturn
  BY <1>3, HashedInv
<1>4. CASE \/ FillFile \/ FillUnopenable \/ FillDone \/ EnterForChunk \/ TakeError \/ TakeChunk
           \/ TakeLastChunk \/ TakeLastChunkReuse
  BY <1>4, ReadingInv
<1> QED BY <1>1, <1>2, <1>3, <1>4 DEF HashStep

\* The buckets are reported.
LEMMA ReportInv == Inv /\ Report => Inv'
<1> SUFFICES ASSUME Inv, Report PROVE Inv'
  OBVIOUS
<1>1. /\ pc \in {"sampled", "hashed"} /\ pc' = "teardown" /\ ring' = ring /\ ops' = ops /\ cq' = cq
      /\ meta' = meta /\ acc' = acc /\ by_sample' = by_sample /\ next_file' = next_file
      /\ in_flight' = in_flight /\ UNCHANGED hash_vars
  BY DEF Report, ring_vars, sample_vars
<1>2. ~Sampled /\ Idle
  BY <1>1 DEF Sampled, Idle
<1>3. /\ Sound(ring) /\ Quiet(ring, ops, cq) /\ in_flight = 0 /\ WaitInv /\ HashData
      /\ next_file \in 1 .. Len(Group) + 1 /\ meta = <<>> /\ acc = NoAcc
      /\ Sorted(by_sample, Files)
  BY <1>2 DEF Inv, IdleInv, PhaseInv
<1>4. HashData'
  BY <1>1, <1>3 DEF HashData, hash_vars
<1>5. WaitInv'
  BY <1>1, <1>3 DEF WaitInv
<1>6. Sound(ring') /\ Quiet(ring', ops', cq')
  BY <1>1, <1>3
<1>7. next_file' \in 1 .. Len(Group) + 1
  BY <1>1, <1>3
<1>8. in_flight' = 0 /\ meta' = <<>> /\ acc' = NoAcc /\ Sorted(by_sample', Files)
  BY <1>1, <1>3
<1> QED BY <1>1, <1>4, <1>5, <1>6, <1>7, <1>8, NowIdle

\* The ring is taken down.
LEMMA TakeDownInv == Inv /\ TakeDown => Inv'
<1> SUFFICES ASSUME Inv, TakeDown PROVE Inv'
  OBVIOUS
<1>1. /\ pc = "teardown" /\ pc' = "end" /\ ring' = Teardown(ring) /\ ops' = ops /\ cq' = cq
      /\ meta' = meta /\ acc' = acc /\ by_sample' = by_sample /\ next_file' = next_file
      /\ in_flight' = in_flight /\ UNCHANGED hash_vars
  BY DEF TakeDown, sample_vars
<1>2. ~Sampled /\ Idle
  BY <1>1 DEF Sampled, Idle
<1>3. /\ Sound(ring) /\ Quiet(ring, ops, cq) /\ in_flight = 0 /\ WaitInv /\ HashData
      /\ next_file \in 1 .. Len(Group) + 1 /\ meta = <<>> /\ acc = NoAcc
      /\ Sorted(by_sample, Files)
  BY <1>2 DEF Inv, IdleInv, PhaseInv
<1>4. HashData'
  BY <1>1, <1>3 DEF HashData, hash_vars
<1>5. /\ Sound(ring') /\ Quiet(ring', ops', cq') /\ ring'.held = {} /\ ring'.buf = <<>>
      /\ ~ring'.waiting
  BY <1>1, <1>3, RingGone
<1>6. WaitInv'
  BY <1>5 DEF WaitInv
<1>7. next_file' \in 1 .. Len(Group) + 1
  BY <1>1, <1>3
<1>8. in_flight' = 0 /\ meta' = <<>> /\ acc' = NoAcc /\ Sorted(by_sample', Files)
  BY <1>1, <1>3
<1> QED BY <1>1, <1>4, <1>5, <1>6, <1>7, <1>8, NowIdle

\* The kernel ends a read, whoever asked for it.
LEMMA KernelInv == Inv /\ Kernel => Inv'
<1> SUFFICES ASSUME Inv, Kernel PROVE Inv'
  OBVIOUS
<1>1. KernelStep /\ UNCHANGED <<pc, meta, acc, by_sample, next_file, in_flight, hash_vars>>
  BY DEF Kernel, sample_vars
<1>2. CASE Idle
  <2>1. ops = {}
    BY <1>2 DEF Inv, IdleInv, Quiet
  <2> QED BY <1>1, <2>1 DEF KernelStep
<1>3. CASE Sampled
  <2>1. SampleInv /\ SortedInv /\ HashFresh /\ WaitInv /\ (pc = "reset" => in_flight = 0)
    BY <1>3 DEF Inv, PhaseInv
  <2>2. SampleInv'
    BY <1>1, <2>1, KernelSample
  <2>3. SortedInv'
    <3>1. ASSUME NEW i \in Index, ~Live(i), acc[i].submitted = Expected
          PROVE  ~Live(i)' /\ acc'[i].submitted = Expected
      BY <1>1, <3>1 DEF Live
    <3> QED BY <1>1, <2>1, <3>1, SettledKept
  <2>4. WaitInv'
    <3>1. Flow(ring, ops, cq, Asks)
      BY <2>1 DEF SampleInv
    <3> QED BY <1>1, <2>1, <3>1, KernelWait
  <2>5. pc' \in {"pump", "next", "reset"} /\ (pc' = "reset" => in_flight' = 0)
    BY <1>1, <1>3, <2>1 DEF Sampled
  <2>6. UNCHANGED hash_vars
    BY <1>1
  <2> QED BY <2>1, <2>2, <2>3, <2>4, <2>5, <2>6, StillSampling
<1>4. CASE HashingNow
  <2>1. ~Sampled
    BY <1>4 DEF Sampled, HashingNow
  <2>2. HashInv /\ HashData /\ WaitInv
    BY <1>4 DEF Inv, PhaseInv
  <2>3. HashInv' /\ HashData'
    BY <2>2, KernelHash
  <2>4. WaitInv'
    <3>1. Chunked(ring, ops, cq, active, tag_to_active, in_flight, {})
      BY <2>2 DEF HashInv
    <3>2. Flow(ring, ops, cq, ChunkOf(active, tag_to_active))
      BY <3>1, ChunkFacts
    <3> QED BY <1>1, <2>2, <3>2, KernelWait
  <2>5. pc' \in {"fill", "chunk"} /\ UNCHANGED sample_vars
    BY <1>1, <1>4 DEF HashingNow, sample_vars
  <2> QED BY <2>1, <2>3, <2>4, <2>5, StillHashing
<1> QED BY <1>2, <1>3, <1>4 DEF Inv

\* A step that changes nothing of it.
LEMMA SameInv == Inv /\ UNCHANGED vars => Inv'
<1> SUFFICES ASSUME Inv, UNCHANGED vars PROVE Inv'
  OBVIOUS
<1>1. /\ ring' = ring /\ ops' = ops /\ cq' = cq /\ pc' = pc /\ meta' = meta /\ acc' = acc
      /\ by_sample' = by_sample /\ next_file' = next_file /\ in_flight' = in_flight
      /\ UNCHANGED hash_vars
  BY DEF vars, ring_vars, sample_vars
<1>2. CASE Idle
  <2>1. IdleInv' /\ Idle' /\ ~Sampled' /\ ~Sampled /\ ~HashingNow'
    BY <1>1, <1>2 DEF Inv, IdleInv, Idle, Sampled, HashingNow
  <2>2. HashData'
    BY <1>1 DEF Inv, HashData, hash_vars
  <2>3. WaitInv'
    BY <1>1 DEF Inv, WaitInv
  <2>4. PhaseInv'
    <3>1. meta' = <<>> /\ acc' = NoAcc /\ Sorted(by_sample', Files)
      BY <1>1, <2>1 DEF Inv, PhaseInv
    <3>2. pc' \in {"init", "sampled"} => HashFresh'
      BY <1>1 DEF Inv, PhaseInv, HashFresh, HashInit, hash_vars
    <3>3. pc' # "reset"
      BY <2>1 DEF Sampled
    <3> QED BY <2>1, <3>1, <3>2, <3>3 DEF PhaseInv, Files
  <2> QED BY <2>1, <2>2, <2>3, <2>4 DEF Inv
<1>3. CASE Sampled
  <2>1. SampleInv /\ SortedInv /\ HashFresh /\ WaitInv /\ (pc = "reset" => in_flight = 0)
    BY <1>3 DEF Inv, PhaseInv
  <2>2. SampleInv'
    <3>1. UNCHANGED <<ring_vars, meta, acc, next_file, in_flight>>
      BY <1>1 DEF ring_vars
    <3> QED BY <2>1, <3>1, SampleSame
  <2>3. SortedInv'
    <3>1. ASSUME NEW i \in Index, ~Live(i), acc[i].submitted = Expected
          PROVE  ~Live(i)' /\ acc'[i].submitted = Expected
      BY <1>1, <3>1 DEF Live
    <3> QED BY <1>1, <2>1, <3>1, SettledKept
  <2>4. WaitInv'
    BY <1>1, <2>1 DEF WaitInv
  <2>5. pc' \in {"pump", "next", "reset"} /\ (pc' = "reset" => in_flight' = 0)
    BY <1>1, <1>3, <2>1 DEF Sampled
  <2> QED BY <1>1, <2>1, <2>2, <2>3, <2>4, <2>5, StillSampling
<1>4. CASE HashingNow
  <2>1. ~Sampled
    BY <1>4 DEF Sampled, HashingNow
  <2>2. HashInv /\ HashData /\ WaitInv
    BY <1>4 DEF Inv, PhaseInv
  <2>3. HashInv' /\ HashData'
    <3>1. UNCHANGED <<ring_vars, next_file, in_flight, hash_vars>> /\ pc' = pc
      BY <1>1 DEF ring_vars
    <3> QED BY <2>2, <3>1, HashSame
  <2>4. WaitInv'
    BY <1>1, <2>2 DEF WaitInv
  <2>5. pc' \in {"fill", "chunk"} /\ UNCHANGED sample_vars
    BY <1>1, <1>4 DEF HashingNow, sample_vars
  <2> QED BY <2>1, <2>3, <2>4, <2>5, StillHashing
<1> QED BY <1>2, <1>3, <1>4 DEF Inv

\* The invariant: whichever reads fail and in whatever order they come back, the
\* worker's books and its ring agree.
THEOREM Invariant == Spec => []Inv
<1>1. Init => Inv
  BY InvBegins
<1>2. Inv /\ [Next]_vars => Inv'
  <2> SUFFICES ASSUME Inv, [Next]_vars PROVE Inv'
    OBVIOUS
  <2>1. CASE SetUp
    BY <2>1, SetUpInv
  <2>2. CASE Sampling
    BY <2>2, SamplingInv
  <2>3. CASE Hashing
    BY <2>3, HashingInv
  <2>4. CASE Report
    BY <2>4, ReportInv
  <2>5. CASE TakeDown
    BY <2>5, TakeDownInv
  <2>6. CASE Kernel
    BY <2>6, KernelInv
  <2>7. CASE UNCHANGED vars
    BY <2>7, SameInv
  <2> QED BY <2>1, <2>2, <2>3, <2>4, <2>5, <2>6, <2>7 DEF Next, Worker
<1> QED BY <1>1, <1>2, PTL DEF Spec

-----------------------------------------------------------------------------
(* What the properties say follows *)

\* Whatever the worker is doing, its reads are somebody's.
LEMMA SomeFlow == Inv => \E W : Flow(ring, ops, cq, W)
<1> SUFFICES ASSUME Inv PROVE \E W : Flow(ring, ops, cq, W)
  OBVIOUS
<1>1. CASE Idle
  <2>1. Sound(ring) /\ Quiet(ring, ops, cq)
    BY <1>1 DEF Inv, IdleInv
  <2>2. Flow(ring, ops, cq, <<>>)
    BY <2>1, QuietFlow
  <2> QED BY <2>2
<1>2. CASE Sampled
  <2>1. Flow(ring, ops, cq, Asks)
    BY <1>2 DEF Inv, PhaseInv, SampleInv
  <2> QED BY <2>1
<1>3. CASE HashingNow
  <2>1. Chunked(ring, ops, cq, active, tag_to_active, in_flight, {})
    BY <1>3 DEF Inv, PhaseInv, HashInv
  <2>2. Flow(ring, ops, cq, ChunkOf(active, tag_to_active))
    BY <2>1, ChunkFacts
  <2> QED BY <2>2
<1> QED BY <1>1, <1>2, <1>3 DEF Inv

\* The tags outstanding, by either name.
LEMMA BusyIsBusy == BusyTags = Busy(ring, ops, cq)
BY DEF BusyTags, Busy

\* The counters of the ring agree with its queues.
LEMMA CountsFollow == Inv => CountsExact
<1> SUFFICES ASSUME Inv PROVE CountsExact
  OBVIOUS
<1>1. PICK W : Flow(ring, ops, cq, W)
  BY SomeFlow
<1> QED BY <1>1 DEF Flow, CountsExact

\* Buffers in use are apart, and not free.
LEMMA SlotsFollow == Inv => SlotsApart
<1> SUFFICES ASSUME Inv PROVE SlotsApart
  OBVIOUS
<1>1. PICK W : Flow(ring, ops, cq, W)
  BY SomeFlow
<1>2. IsInjective(ring.free_slots) /\ Busy(ring, ops, cq) \subseteq Used(ring)
  BY <1>1 DEF Flow, Sound, FreeOnce
<1>3. ToSet(ring.free_slots) \cap BusyTags = {}
  BY <1>2, BusyIsBusy DEF Used
<1>4. Cardinality(BusyTags) = Len(ring.sq) + Cardinality(ops) + Len(cq)
  BY <1>1, FlowFacts, BusyIsBusy
<1> QED BY <1>2, <1>3, <1>4 DEF SlotsApart

\* A worker that waits has something to wake it.
LEMMA WaiterFollows == Inv => WaiterIsSignalled
BY DEF Inv, WaitInv, WaiterIsSignalled

\* Nothing is outstanding where the worker assumes so.
LEMMA QuietFollows == Inv => QuietAtReset
<1> SUFFICES ASSUME Inv PROVE QuietAtReset
  OBVIOUS
<1>1. ASSUME \/ pc \in {"reset", "sampled", "hashed", "teardown", "end"}
             \/ pc = "chunk" /\ in_flight = 0
      PROVE  Sound(ring) /\ Quiet(ring, ops, cq)
  <2>1. CASE pc = "reset"
    <3>1. SampleInv /\ in_flight = 0
      BY <2>1 DEF Inv, PhaseInv, Sampled
    <3> QED BY <3>1, SamplingOver
  <2>2. CASE pc = "chunk" /\ in_flight = 0
    <3>1. ~Sampled /\ HashingNow
      BY <2>2 DEF Sampled, HashingNow
    <3>2. HashInv
      BY <3>1 DEF Inv, PhaseInv
    <3> QED BY <2>2, <3>2, HashingOver
  <2>3. CASE pc \in {"sampled", "hashed", "teardown", "end"}
    BY <2>3 DEF Inv, IdleInv, Idle
  <2> QED BY <1>1, <2>1, <2>2, <2>3
<1>2. ASSUME Sound(ring), Quiet(ring, ops, cq)
      PROVE  BusyTags = {} /\ Drained(ring) /\ ring.fds = <<>>
  <2>1. Busy(ring, ops, cq) = {}
    BY <1>2, QuietFlow
  <2> QED BY <1>2, <2>1, BusyIsBusy DEF Quiet, Drained
<1>3. pc = "end" => ring.held = {} /\ ring.buf = <<>>
  BY DEF Inv, IdleInv
<1> QED BY <1>1, <1>2, <1>3 DEF QuietAtReset

\* What is queued is queued for the one who asked for it.
LEMMA QueuedFor ==
    ASSUME NEW W, Flow(ring, ops, cq, W), NEW i \in DOMAIN ring.sq
    PROVE  LET e == ring.sq[i] IN
           /\ e.fd \in DOMAIN ring.fds /\ ring.fds[e.fd] = W[e.tag].file /\ e.off = W[e.tag].off
           /\ e.tag \in Busy(ring, ops, cq) /\ e.tag \in Nat
<1> DEFINE e == ring.sq[i]
           w == W[e.tag]
<1>1. /\ e.off = w.off /\ w.handle \in Opened(ring) /\ e.fd = ring.files[w.handle]
      /\ ring.fds[e.fd] = w.file
  BY DEF Flow, Asked
<1>2. e.fd \in DOMAIN ring.fds
  BY <1>1 DEF Flow, Sound, HandlesPaired
<1>3. e.tag \in Busy(ring, ops, cq)
  BY DEF Busy, ToSet
<1>4. e.tag \in Nat
  BY <1>3, FlowFacts
<1> QED BY <1>1, <1>2, <1>3, <1>4

\* Every read goes where its asker expects it to.
LEMMA ReadsFollow == Inv => ReadsItsOwnFile
<1> SUFFICES ASSUME Inv PROVE ReadsItsOwnFile
  OBVIOUS
<1>1. DescriptorsLive
  <2>1. PICK W : Flow(ring, ops, cq, W)
    BY SomeFlow
  <2> QED BY <2>1, QueuedFor DEF DescriptorsLive
<1>2. ASSUME NEW i \in DOMAIN ring.sq
      PROVE  ring.fds[ring.sq[i].fd] = Asker(ring.sq[i]) /\ ring.sq[i].off = WantedAt(ring.sq[i])
  <2>1. CASE Idle
    BY <2>1 DEF Inv, IdleInv, Quiet
  <2>2. CASE Sampled
    <3>1. Flow(ring, ops, cq, Asks)
      BY <2>2 DEF Inv, PhaseInv, SampleInv
    <3>2. PICK e : e = ring.sq[i]
      OBVIOUS
    <3>3. ring.fds[e.fd] = Asks[e.tag].file /\ e.off = Asks[e.tag].off /\ e.tag \in Nat
      BY <3>1, <3>2, QueuedFor
    <3>4. /\ Asks[e.tag].file = Group[meta[e.tag].file_idx]
          /\ Asks[e.tag].off = Offset(meta[e.tag].region)
      BY <3>3 DEF Asks
    <3> QED BY <2>2, <3>2, <3>3, <3>4 DEF Asker, WantedAt
  <2>3. CASE HashingNow
    <3>1. ~Sampled
      BY <2>3 DEF HashingNow, Sampled
    <3>2. Chunked(ring, ops, cq, active, tag_to_active, in_flight, {})
      BY <2>3 DEF Inv, PhaseInv, HashInv
    <3>3. PICK W : W = ChunkOf(active, tag_to_active)
      OBVIOUS
    <3>4. Flow(ring, ops, cq, W)
      BY <3>2, <3>3, ChunkFacts
    <3>5. PICK e : e = ring.sq[i]
      OBVIOUS
    <3>6. ring.fds[e.fd] = W[e.tag].file /\ e.off = W[e.tag].off /\ e.tag \in Nat
      BY <3>4, <3>5, QueuedFor
    <3>7. /\ W[e.tag].file = active[tag_to_active[e.tag]].id
          /\ W[e.tag].off = active[tag_to_active[e.tag]].offset
      BY <3>3, <3>6 DEF ChunkOf
    <3> QED BY <3>1, <3>5, <3>6, <3>7 DEF Asker, WantedAt
  <2> QED BY <2>1, <2>2, <2>3 DEF Inv
<1>3. ASSUME Chunking PROVE Cardinality({tag_to_active[t] : t \in BusyTags}) = Cardinality(BusyTags)
  <2>1. CASE pc = "hashed"
    <3>1. Sound(ring) /\ Quiet(ring, ops, cq)
      BY <2>1 DEF Inv, IdleInv, Idle
    <3>2. BusyTags = {}
      BY <3>1, QuietFlow, BusyIsBusy
    <3>3. {tag_to_active[t] : t \in BusyTags} = BusyTags
      BY <3>2
    <3> QED BY <3>3
  <2>2. CASE HashingNow
    <3>1. PICK B : B = BusyTags
      OBVIOUS
    <3>2. Chunked(ring, ops, cq, active, tag_to_active, in_flight, {})
      BY <2>2 DEF Inv, PhaseInv, HashInv
    <3>3. IsFiniteSet(B) /\ \A t, u \in B : tag_to_active[t] = tag_to_active[u] => t = u
      BY <3>1, <3>2, BusyIsBusy DEF Chunked, Places
    <3>4. PICK f : f = [t \in B |-> tag_to_active[t]]
      OBVIOUS
    <3>5. DOMAIN f = B /\ f = [t \in B |-> f[t]] /\ \A t, u \in B : f[t] = f[u] => t = u
      BY <3>3, <3>4
    <3>6. Cardinality({f[t] : t \in B}) = Cardinality(B)
      BY <3>3, <3>5, Counted
    <3>7. {f[t] : t \in B} = {tag_to_active[t] : t \in BusyTags}
      BY <3>1, <3>4
    <3> QED BY <3>1, <3>6, <3>7
  <2> QED BY <1>3, <2>1, <2>2 DEF Chunking, HashingNow
<1> QED BY <1>1, <1>2, <1>3 DEF ReadsItsOwnFile

\* A sample that is back is held as it was read.
LEMMA HeldFollow == Inv => HeldSamplesKept
<1> SUFFICES ASSUME Inv, Sampled, NEW i \in Index, Live(i), NEW r \in DOMAIN acc[i].got
             PROVE  /\ acc[i].got[r].tag \notin BusyTags \cup ToSet(ring.free_slots)
                    /\ acc[i].got[r].res > 0 =>
                          ring.buf[acc[i].got[r].tag] =
                              SubSeq(Content[Group[i]], Offset(r) + 1, Offset(r) + acc[i].got[r].res)
  BY DEF HeldSamplesKept, Live
<1>1. SampleInv
  BY DEF Inv, PhaseInv
<1>2. acc[i] \in AccRec
  BY <1>1 DEF SampleInv, FilesInv
<1>3. r \in Regs
  BY <1>2 DEF AccRec
<1>4. PICK t \in Used(ring) : meta[t].file_idx = i /\ meta[t].region = r
  BY <1>1, <1>3 DEF SampleInv, TagsInv
<1>5. PICK d : d = acc[i].got[r]
  OBVIOUS
<1>6. d.tag = t /\ t \notin BusyTags /\ Served(ring, Asks[t], d)
  BY <1>1, <1>4, <1>5 DEF SampleInv, TagsInv
<1>7. t \in Nat
  BY <1>1, FlowFacts DEF SampleInv
<1>8. Asks[t].file = Group[i] /\ Asks[t].off = Offset(r)
  BY <1>4, <1>7 DEF Asks
<1>9. d.res > 0 => ring.buf[d.tag] = SubSeq(Content[Group[i]], Offset(r) + 1, Offset(r) + d.res)
  BY <1>6, <1>8 DEF Served
<1>10. t \notin ToSet(ring.free_slots)
  BY DEF Used
<1> QED BY <1>5, <1>6, <1>9, <1>10

\* The buckets of the samples are right.
LEMMA BucketsFollow == Inv => BucketsAreRight
<1> SUFFICES ASSUME Inv PROVE BucketsAreRight
  OBVIOUS
<1>1. PICK D : Sorted(by_sample, D)
  BY DEF Inv, PhaseInv, SortedInv
<1> QED BY <1>1 DEF Sorted, BucketsAreRight

\* The hashes are of whole files.
LEMMA HashFollows == Inv => HashIsOfWholeFile
BY DEF Inv, HashData, HashIsOfWholeFile

\* What is counted of a file is no more than what was asked of it.
LEMMA AccShort ==
    Inv => \A i \in Index : acc[i].arrived \in 0 .. acc[i].submitted /\ acc[i].submitted <= Expected
<1> SUFFICES ASSUME Inv, NEW i \in Index
             PROVE  acc[i].arrived \in 0 .. acc[i].submitted /\ acc[i].submitted <= Expected
  OBVIOUS
<1>1. CASE ~Sampled
  <2>1. acc = NoAcc
    BY <1>1 DEF Inv, PhaseInv
  <2>2. acc[i].arrived = 0 /\ acc[i].submitted = 0
    BY <2>1 DEF NoAcc
  <2>3. Expected \in 1 .. 3
    BY RegionFacts
  <2> QED BY <2>2, <2>3
<1>2. CASE Sampled
  <2>1. FilesInv
    BY <1>2 DEF Inv, PhaseInv, SampleInv
  <2>2. PICK a : a = acc[i]
    OBVIOUS
  <2>3. /\ a \in AccRec /\ a.arrived = Cardinality(DOMAIN a.got)
        /\ (a.submitted = 0 => DOMAIN a.got = {})
    BY <2>1, <2>2 DEF FilesInv
  <2>4. DOMAIN a.got \subseteq Regs /\ a.submitted \in {0, Expected}
    BY <2>3 DEF AccRec
  <2>5. IsFiniteSet(Regs) /\ Cardinality(Regs) = Expected /\ Expected \in 1 .. 3
    BY RegionFacts
  <2>6. a.arrived <= Expected /\ a.arrived \in Nat
    BY <2>3, <2>4, <2>5, FS_Subset, FS_CardinalityType
  <2>7. CASE a.submitted = 0
    <3>1. a.arrived = 0
      BY <2>3, <2>7, FS_EmptySet
    <3> QED BY <2>2, <2>5, <2>7, <3>1
  <2>8. CASE a.submitted = Expected
    BY <2>2, <2>5, <2>6, <2>8
  <2> QED BY <2>4, <2>7, <2>8
<1> QED BY <1>1, <1>2

\* The variables have their types.
LEMMA TypeFollows == Inv => GroupTypeOK
<1> SUFFICES ASSUME Inv PROVE GroupTypeOK
  OBVIOUS
<1>1. pc \in {"init", "pump", "next", "reset", "sampled", "fill", "chunk", "hashed",
              "teardown", "end"}
  BY DEF Inv, Idle, Sampled, HashingNow
<1>2. /\ in_flight \in 0 .. (IF Sampled THEN WINDOW ELSE FILES)
      /\ next_file \in 1 .. Len(Group) + 1
  <2>1. CASE Idle
    <3>1. in_flight = 0 /\ next_file \in 1 .. Len(Group) + 1 /\ ~Sampled
      BY <2>1 DEF Inv, IdleInv, Idle, Sampled
    <3> QED BY <3>1, HashFileAssumption
  <2>2. CASE Sampled
    <3>1. FilesInv /\ TagsInv
      BY <2>2 DEF Inv, PhaseInv, SampleInv
    <3>2. in_flight \in Nat /\ in_flight <= WINDOW
      BY <3>1, FS_CardinalityType DEF TagsInv
    <3>3. next_file \in 1 .. Len(Group) + 1
      BY <3>1 DEF FilesInv
    <3>4. WINDOW \in Nat
      BY PrefilterAssumption
    <3> QED BY <2>2, <3>2, <3>3, <3>4
  <2>3. CASE HashingNow
    <3>1. ~Sampled
      BY <2>3 DEF HashingNow, Sampled
    <3>2. HashInv /\ HashData
      BY <2>3 DEF Inv, PhaseInv
    <3>3. in_flight \in Nat
      BY <3>2, ChunkFacts DEF HashInv
    <3>4. in_flight <= FILES /\ next_file \in 1 .. Len(worklist) + 1
      BY <3>2 DEF HashInv
    <3>5. Len(worklist) \in Nat /\ Len(worklist) <= Len(Group)
      BY <3>2, ListShort
    <3>6. Len(Group) \in Nat /\ FILES \in Nat
      BY PrefilterAssumption, HashFileAssumption
    <3> QED BY <3>1, <3>3, <3>4, <3>5, <3>6
  <2> QED BY <2>1, <2>2, <2>3 DEF Inv
<1>3. \A i \in Index : acc[i].arrived \in 0 .. acc[i].submitted /\ acc[i].submitted <= Expected
  BY AccShort
<1>4. \A t \in DOMAIN meta : meta[t].file_idx \in Index /\ meta[t].region \in Region
  <2>1. CASE Sampled
    <3>1. \A t \in DOMAIN meta : meta[t] \in [file_idx : Index, region : Regs]
      BY <2>1 DEF Inv, PhaseInv, SampleInv, TagsInv
    <3>2. Regs \subseteq Region
      BY RegionFacts
    <3> QED BY <3>1, <3>2
  <2>2. CASE ~Sampled
    BY <2>2, NoElements DEF Inv, PhaseInv
  <2> QED BY <2>1, <2>2
<1>5. HashData
  BY DEF Inv
<1>6. ASSUME NEW i \in DOMAIN active
      PROVE  /\ active[i].id \in ToSet(worklist) /\ active[i].offset \in 0 .. Size
             /\ Len(active[i].state) = active[i].offset
  <2>1. PICK a : a = active[i]
    OBVIOUS
  <2>2. a \in Active /\ Beginning(a) /\ a.id \in ToSet(worklist)
    BY <1>5, <1>6, <2>1 DEF HashData
  <2>3. a.offset \in Nat /\ a.offset <= Size /\ a.offset <= Len(Content[a.id])
        /\ a.state = SubSeq(Content[a.id], 1, a.offset) /\ a.id \in File
    BY <2>2 DEF Active, Beginning
  <2>4. PICK C : C = Content[a.id]
    OBVIOUS
  <2>5. C \in Seq(Byte) /\ Size \in Nat
    BY <2>3, <2>4, RingAssumption, PrefilterAssumption
  <2>6. Len(SubSeq(C, 1, a.offset)) = a.offset
    BY <2>3, <2>4, <2>5
  <2> QED BY <2>1, <2>2, <2>3, <2>4, <2>5, <2>6
<1>7. /\ ToSet(worklist) \subseteq Files /\ IsInjective(worklist) /\ Len(active) <= FILES
      /\ \A t \in DOMAIN tag_to_active : tag_to_active[t] \in DOMAIN active
      /\ failed \subseteq Faulty
  BY <1>5 DEF HashData
<1> QED BY <1>1, <1>2, <1>3, <1>4, <1>6, <1>7 DEF GroupTypeOK

\* GroupTypeOK: every variable keeps its type, the windows of prefilter_group
\* (duplicates.cpp 32) and hash_file (231) are never exceeded, and no file is read
\* past the size the tree gives it, for any group and any sizes of them all.
THEOREM GroupTypeCorrect == Spec => []GroupTypeOK
BY TypeFollows, Invariant, PTL

\* CountsExact: the ring's pending and inflight (uring.cpp) are what is queued and
\* what the kernel has, however often the two pass reads to one another.
THEOREM CountsNeverDrift == Spec => []CountsExact
BY CountsFollow, Invariant, PTL

\* SlotsApart: no two outstanding reads share a buffer, and none is free
\* (alloc_slot and release), however often buffers are reused.
THEOREM BuffersApart == Spec => []SlotsApart
BY SlotsFollow, Invariant, PTL

\* WaiterIsSignalled: a worker that waits for its ring's event (next() in
\* oring.cpp) is woken if there is a completion to pop.
THEOREM WaiterNeverMissed == Spec => []WaiterIsSignalled
BY WaiterFollows, Invariant, PTL

\* QuietAtReset: reset() and teardown() have no read to wait for, and no
\* descriptor is left open, whichever opens and reads have failed.
THEOREM NothingLeftBehind == Spec => []QuietAtReset
BY QuietFollows, Invariant, PTL

\* ReadsItsOwnFile: a queued read goes to the file it was made for and to the
\* offset its asker waits for, though descriptors, handles, slots and the places
\* of active are reused while it waits, and no file has two chunks outstanding.
THEOREM ReadsNeverStray == Spec => []ReadsItsOwnFile
BY ReadsFollow, Invariant, PTL

\* HeldSamplesKept: the buffers of the samples that are back hold their file's
\* bytes until its last sample is.
THEOREM SamplesNeverOverwritten == Spec => []HeldSamplesKept
BY HeldFollow, Invariant, PTL

\* BucketsAreRight: a file whose reads do not fail is in the bucket of its own
\* samples and in no other, in whatever order they come back.
THEOREM BucketsAlwaysRight == Spec => []BucketsAreRight
BY BucketsFollow, Invariant, PTL

\* HashIsOfWholeFile: a file is hashed at most once, and its hash is that of all
\* of its bytes in their order.
THEOREM WholeFileHashed == Spec => []HashIsOfWholeFile
BY HashFollows, Invariant, PTL

-----------------------------------------------------------------------------
(* No duplicate is missed *)

InBuckets(buckets) == UNION {ToSet(buckets[h]) : h \in DOMAIN buckets}

\* A file that the pump has passed and that cannot fail is waited for or is in a
\* bucket.
PumpedInv ==
    \A i \in Index : i < next_file /\ Group[i] \notin Faulty
                        => Live(i) \/ Group[i] \in InBuckets(by_sample)

\* The files that share their samples are on the list.
Listed == \A h \in DOMAIN by_sample :
             Len(by_sample[h]) >= 2 => ToSet(by_sample[h]) \subseteq ToSet(worklist)

\* Sampling leaves out no file that cannot fail, the list none that shares its
\* samples, and hashing none of the list, unless all of its places were lost.
FoundInv ==
    /\ Sampled => PumpedInv
    /\ pc = "reset" => next_file > Len(Group)
    /\ pc = "sampled" \/ Chunking => Files \ Faulty \subseteq InBuckets(by_sample)
    /\ Chunking => Listed
    /\ pc = "hashed" /\ Cardinality(failed) < FILES
          => ToSet(worklist) \subseteq failed \cup InBuckets(by_full)
    /\ DuplicatesFound

\* A bucket that takes a file keeps those that it has.
LEMMA InMore ==
    ASSUME NEW buckets, NEW D, Sorted(buckets, D), NEW f, f \in File, NEW h
    PROVE  InBuckets(AddTo(buckets, h, f)) = InBuckets(buckets) \cup {f}
<1>1. PICK old, b2 : /\ old = IF h \in DOMAIN buckets THEN buckets[h] ELSE <<>>
                     /\ b2 = AddTo(buckets, h, f)
  OBVIOUS
<1>2. /\ DOMAIN b2 = DOMAIN buckets \cup {h} /\ b2[h] = Append(old, f)
      /\ \A g \in DOMAIN buckets \ {h} : b2[g] = buckets[g]
  BY <1>1 DEF AddTo, With
<1>3. old \in Seq(File)
  BY <1>1, NoElements DEF Sorted
<1>4. ToSet(b2[h]) = ToSet(old) \cup {f}
  BY <1>2, <1>3, LastAdded
<1>5. ToSet(old) = IF h \in DOMAIN buckets THEN ToSet(buckets[h]) ELSE {}
  BY <1>1, NoElements
<1>6. \A x : x \in InBuckets(b2) <=> x \in InBuckets(buckets) \cup {f}
  <2>1. ASSUME NEW x \in InBuckets(b2)
        PROVE  x \in InBuckets(buckets) \cup {f}
    <3>1. PICK g \in DOMAIN b2 : x \in ToSet(b2[g])
      BY DEF InBuckets
    <3>2. CASE g = h
      BY <1>4, <1>5, <3>1, <3>2 DEF InBuckets
    <3>3. CASE g # h
      BY <1>2, <3>1, <3>3 DEF InBuckets
    <3> QED BY <3>2, <3>3
  <2>2. ASSUME NEW x \in InBuckets(buckets)
        PROVE  x \in InBuckets(b2)
    <3>1. PICK g \in DOMAIN buckets : x \in ToSet(buckets[g])
      BY DEF InBuckets
    <3>2. g \in DOMAIN b2 /\ x \in ToSet(b2[g])
      BY <1>2, <1>4, <1>5, <3>1
    <3> QED BY <3>2 DEF InBuckets
  <2>3. f \in InBuckets(b2)
    BY <1>2, <1>4 DEF InBuckets
  <2> QED BY <2>1, <2>2, <2>3
<1> QED BY <1>1, <1>6

\* Who is waited for, or in a bucket, stays so, and the pump passes no file that
\* can be read.
LEMMA PumpedMore ==
    ASSUME PumpedInv, next_file' \in Int, next_file \in Int,
           \A i \in Index : i < next_file' /\ ~(i < next_file) /\ Group[i] \notin Faulty => Live(i)',
           InBuckets(by_sample) \subseteq InBuckets(by_sample'),
           \A i \in Index : Live(i) => Live(i)' \/ Group[i] \in InBuckets(by_sample')
    PROVE  PumpedInv'
<1>1. ASSUME NEW i \in Index, i < next_file', Group[i] \notin Faulty
      PROVE  Live(i)' \/ Group[i] \in InBuckets(by_sample')
  <2>1. CASE i < next_file
    BY <1>1, <2>1 DEF PumpedInv
  <2>2. CASE ~(i < next_file)
    BY <1>1, <2>2
  <2> QED BY <2>1, <2>2
<1> QED BY <1>1 DEF PumpedInv, InBuckets

\* Every step of the sampling keeps account of all files.
LEMMA PumpedSample ==
    ASSUME SampleInv, SortedInv, PumpedInv,
           \/ PumpFile \/ PumpUnopenable \/ PumpDone \/ EnterForSample \/ TakeSample \/ TakeLastSample
    PROVE  PumpedInv'
<1>1. next_file \in Nat /\ DOMAIN acc = Index
  <2>1. Len(Group) \in Nat
    BY PrefilterAssumption
  <2> QED BY <2>1 DEF SampleInv, FilesInv
<1>2. Expected \in 1 .. 3
  BY RegionFacts
<1>3. \A i \in Index : i \in Nat
  BY PrefilterAssumption DEF Index
<1>4. CASE PumpFile
  <2>1. next_file <= Len(Group) /\ next_file' = next_file + 1 /\ by_sample' = by_sample
    BY <1>4 DEF PumpFile
  <2>2. PICK j \in Index : j = next_file
    BY <2>1, NextFileFacts
  <2>3. acc[j] \in AccRec /\ acc[j].arrived = 0 /\ ~Live(j)
    BY <2>1, <2>2, NextFileFacts
  <2>4. acc' = [acc EXCEPT ![j].handle = NewHandle(ring), ![j].submitted = Expected]
    BY <1>4, <2>2, PumpFlow
  <2>5. acc'[j].arrived = 0 /\ acc'[j].submitted = Expected
    BY <1>1, <2>2, <2>3, <2>4 DEF AccRec
  <2>6. Live(j)'
    BY <1>2, <2>5 DEF Live
  <2>7. \A i \in Index : Live(i) => Live(i)'
    <3>1. \A i \in Index \ {j} : acc'[i] = acc[i]
      BY <1>1, <2>4
    <3> QED BY <2>3, <3>1 DEF Live
  <2>8. \A i \in Index : i < next_file' /\ ~(i < next_file) => i = j
    BY <1>1, <1>3, <2>1, <2>2
  <2>9. next_file' \in Int /\ next_file \in Int
    BY <1>1, <2>1
  <2> QED BY <2>1, <2>6, <2>7, <2>8, <2>9, PumpedMore
<1>5. CASE PumpUnopenable
  <2>1. /\ next_file <= Len(Group) /\ next_file' = next_file + 1 /\ by_sample' = by_sample
        /\ Group[next_file] \in Faulty /\ acc' = [acc EXCEPT ![next_file].submitted = 0]
    BY <1>5 DEF PumpUnopenable
  <2>2. PICK j \in Index : j = next_file
    BY <2>1, NextFileFacts
  <2>3. ~Live(j)
    BY <2>1, <2>2, NextFileFacts
  <2>4. \A i \in Index : Live(i) => Live(i)'
    <3>1. \A i \in Index \ {j} : acc'[i] = acc[i]
      BY <1>1, <2>1, <2>2
    <3> QED BY <2>3, <3>1 DEF Live
  <2>5. \A i \in Index : i < next_file' /\ ~(i < next_file) => i = j
    BY <1>1, <1>3, <2>1, <2>2
  <2>6. next_file' \in Int /\ next_file \in Int /\ Group[j] \in Faulty
    BY <1>1, <2>1, <2>2
  <2> QED BY <2>1, <2>4, <2>5, <2>6, PumpedMore
<1>6. CASE PumpDone \/ EnterForSample
  <2>1. acc' = acc /\ by_sample' = by_sample /\ next_file' = next_file
    BY <1>6 DEF PumpDone, EnterForSample, sample_vars
  <2> QED BY <2>1 DEF PumpedInv, Live, InBuckets
<1>7. CASE TakeSample
  <2>1. PICK k \in Passed : NextTake(k) /\ ~AllBack(Gathered)
    BY <1>7 DEF TakeSample
  <2>2. PICK j, a : j = Fid /\ a = Gathered
    OBVIOUS
  <2>3. /\ j \in Index /\ Live(j) /\ a.submitted = acc[j].submitted /\ acc[j].submitted = Expected
        /\ acc[j].arrived \in Nat /\ a.arrived = acc[j].arrived + 1
    BY <2>1, <2>2, SampleBack
  <2>4. acc' = [acc EXCEPT ![j] = a] /\ by_sample' = by_sample /\ next_file' = next_file
    BY <1>7, <2>2 DEF TakeSample
  <2>5. a.arrived # a.submitted
    BY <2>1, <2>2 DEF AllBack
  <2>6. acc[j].arrived < acc[j].submitted
    BY <2>3 DEF Live
  <2>7. a.arrived < a.submitted
    BY <1>2, <2>3, <2>5, <2>6
  <2>8. \A i \in Index : Live(i) => Live(i)'
    <3>1. acc'[j] = a /\ \A i \in Index \ {j} : acc'[i] = acc[i]
      BY <1>1, <2>3, <2>4
    <3> QED BY <2>7, <3>1 DEF Live
  <2> QED BY <2>4, <2>8 DEF PumpedInv, InBuckets
<1>8. CASE TakeLastSample
  <2>1. PICK k \in Passed : NextTake(k)
    BY <1>8 DEF TakeLastSample
  <2>2. PICK j, a, b, h, f : j = Fid /\ a = Gathered /\ b = by_sample /\ h = Digest(a) /\ f = Group[j]
    OBVIOUS
  <2>3. j \in Index /\ a.submitted = Expected
    BY <2>1, <2>2, SampleBack
  <2>4. acc' = [acc EXCEPT ![j] = a] /\ by_sample' = AddTo(b, h, f) /\ next_file' = next_file
    BY <1>8, <2>2, <2>3 DEF TakeLastSample
  <2>5. f \in File
    BY <2>2, <2>3, PrefilterAssumption DEF Index
  <2>6. Sorted(b, Settled)
    BY <2>2 DEF SortedInv
  <2>7. InBuckets(AddTo(b, h, f)) = InBuckets(b) \cup {f}
    BY <2>5, <2>6, InMore
  <2>8. InBuckets(by_sample') = InBuckets(by_sample) \cup {Group[j]}
    BY <2>2, <2>4, <2>7
  <2>9. \A i \in Index : Live(i) => Live(i)' \/ i = j
    <3>1. \A i \in Index \ {j} : acc'[i] = acc[i]
      BY <1>1, <2>4
    <3> QED BY <3>1 DEF Live
  <2>10. next_file' \in Int /\ next_file \in Int /\ ~(next_file < next_file)
    BY <1>1, <2>4
  <2>11. \A i \in Index : Live(i) => Live(i)' \/ Group[i] \in InBuckets(by_sample')
    BY <2>8, <2>9
  <2>12. InBuckets(by_sample) \subseteq InBuckets(by_sample')
    BY <2>8
  <2> QED BY <2>4, <2>10, <2>11, <2>12, PumpedMore
<1> QED BY <1>4, <1>5, <1>6, <1>7, <1>8

\* The pump stops before the end of the group only while samples are out.
LEMMA PumpEnds ==
    ASSUME SampleInv, PumpDone, pc' = "reset"
    PROVE  next_file' > Len(Group)
<1>1. IsFiniteSet(Used(ring)) /\ in_flight = Cardinality(Used(ring))
  BY DEF SampleInv, TagsInv
<1>2. in_flight \in Nat
  BY <1>1, FS_CardinalityType
<1>3. in_flight = 0
  BY <1>2 DEF PumpDone
<1>4. Expected \in 1 .. 3 /\ WINDOW \in Int /\ WINDOW >= 3
  BY RegionFacts, PrefilterAssumption, RingAssumption
<1>5. Room
  BY <1>3, <1>4 DEF Room
<1> QED BY <1>5 DEF PumpDone

\* When nothing is waited for and the pump is through, every file that cannot
\* fail is in a bucket.
LEMMA PumpedAll ==
    ASSUME SampleInv, PumpedInv, in_flight = 0, next_file > Len(Group)
    PROVE  Files \ Faulty \subseteq InBuckets(by_sample)
<1>1. \A i \in Index : ~Live(i)
  BY SamplingOver
<1>2. \A i \in Index : i < next_file
  <2>1. Len(Group) \in Nat /\ Index = 1 .. Len(Group)
    BY PrefilterAssumption DEF Index
  <2>2. next_file \in 1 .. Len(Group) + 1
    BY DEF SampleInv, FilesInv
  <2> QED BY <2>1, <2>2
<1>3. \A i \in Index : Group[i] \notin Faulty => Group[i] \in InBuckets(by_sample)
  BY <1>1, <1>2 DEF PumpedInv
<1>4. \A f \in Files : \E i \in Index : f = Group[i]
  BY DEF Files, ToSet, Index
<1> QED BY <1>3, <1>4

\* hash_file returns with its list read, unless all of its places were lost.
LEMMA ListRead ==
    ASSUME HashInv, HashData, HashReturn, Cardinality(failed) < FILES
    PROVE  ToSet(worklist) \subseteq failed \cup InBuckets(by_full)
<1>1. pc = "chunk" /\ in_flight = 0
  BY DEF HashReturn
<1>2. PICK W : W = ChunkOf(active, tag_to_active)
  OBVIOUS
<1>3. BusyTags = {}
  <2>1. Sound(ring) /\ Quiet(ring, ops, cq)
    BY <1>1, HashingOver
  <2> QED BY <2>1, QuietFlow, BusyIsBusy
<1>4. PICK list, m, lost, full : list = worklist /\ m = next_file /\ lost = failed /\ full = by_full
  OBVIOUS
<1>5. /\ Named({}, active, tag_to_active, Begun(list, m), full, lost)
      /\ IsFiniteSet(lost) /\ Manned(list, m, 0, lost) /\ m \in 1 .. Len(list) + 1
      /\ list \in Seq(File)
  BY <1>1, <1>3, <1>4 DEF HashInv, HashData
<1>6. m = Len(list) + 1
  <2>1. Cardinality(lost) \in Nat /\ FILES \in Nat /\ Len(list) \in Nat /\ Cardinality(lost) < FILES
    BY <1>4, <1>5, FS_CardinalityType, HashFileAssumption, RingAssumption
  <2> QED BY <1>5, <2>1 DEF Manned
<1>7. ToSet(list) \subseteq Begun(list, m)
  <2>1. PICK len \in Nat : len = Len(list) /\ DOMAIN list = 1 .. len
    BY <1>5
  <2>2. m - 1 = len
    BY <1>6, <2>1
  <2> QED BY <2>1, <2>2 DEF ToSet, Begun
<1>8. \A f \in Begun(list, m) : f \in lost \/ f \in InBuckets(full)
  <2>1. \A f \in Begun(list, m) : Accounted(f, {}, active, tag_to_active, full, lost)
    BY <1>5 DEF Named
  <2> QED BY <2>1 DEF Accounted, InBuckets
<1> QED BY <1>4, <1>7, <1>8

\* Files of the same bytes have the same samples.
LEMMA SameSamples ==
    ASSUME NEW f \in File \ Faulty, NEW g \in File \ Faulty, Bytes(f) = Bytes(g)
    PROVE  SampleOf(f) = SampleOf(g)
<1>1. \A x \in File \ Faulty : Bytes(x) = Content[x]
  <2>1. TAKE x \in File \ Faulty
  <2>2. PICK C : C = Content[x]
    OBVIOUS
  <2>3. C \in Seq(Byte) /\ Len(C) = Size
    BY <2>2, RingAssumption, PrefilterAssumption
  <2>4. SubSeq(C, 1, Len(C)) = C
    BY <2>3
  <2> QED BY <2>2, <2>3, <2>4 DEF Bytes
<1>2. Content[f] = Content[g]
  BY <1>1
<1>3. \A r : SampleAt(f, r) = SampleAt(g, r)
  BY <1>2 DEF SampleAt
<1> QED BY <1>3, SMTT(30) DEF SampleOf

\* Two files are two files.
LEMMA AtLeastTwo ==
    ASSUME NEW S, NEW s \in Seq(S), NEW f \in ToSet(s), NEW g \in ToSet(s), f # g
    PROVE  Len(s) >= 2
<1>1. PICK len \in Nat : len = Len(s) /\ DOMAIN s = 1 .. len
  OBVIOUS
<1>2. PICK i \in 1 .. len : s[i] = f
  BY <1>1 DEF ToSet
<1>3. PICK j \in 1 .. len : s[j] = g
  BY <1>1 DEF ToSet
<1>4. i # j
  BY <1>2, <1>3
<1> QED BY <1>1, <1>4

\* What is reported is what is equal, and all that is.
LEMMA AllReported ==
    ASSUME Inv, FoundInv, Report
    PROVE  DuplicatesFound'
<1> SUFFICES ASSUME Size > SAMPLE, NEW f \in Files, NEW g \in Files, f # g
             PROVE  /\ Together(f, g)' => Bytes(f) = Bytes(g)
                    /\ {f, g} \cap Faulty = {} /\ Bytes(f) = Bytes(g) /\ Cardinality(failed') < FILES
                          => Together(f, g)'
  BY DEF DuplicatesFound, Files, Bytes
<1>1. pc = "hashed"
  <2>1. SAMPLE \in Nat /\ Size \in Nat
    BY PrefilterAssumption
  <2> QED BY <2>1 DEF Report
<1>2. PICK full, lost, b : full = by_full /\ lost = failed /\ b = by_sample
  OBVIOUS
<1>3. failed' = lost /\ reported' = {bucket \in {full[h] : h \in DOMAIN full} : Len(bucket) >= 2}
  <2>1. SAMPLE \in Nat /\ Size \in Nat /\ ~(Size <= SAMPLE)
    BY PrefilterAssumption
  <2> QED BY <1>2, <2>1 DEF Report, Buckets, hash_vars
<1>4. /\ \A h \in DOMAIN full : full[h] \in Seq(File) /\ \A x \in ToSet(full[h]) : h = Bytes(x)
      /\ lost \subseteq Faulty
  BY <1>2 DEF Inv, HashData
<1>5. ASSUME Together(f, g)' PROVE Bytes(f) = Bytes(g)
  <2>1. PICK bucket \in reported' : f \in ToSet(bucket) /\ g \in ToSet(bucket)
    BY <1>5 DEF Together
  <2>2. PICK h \in DOMAIN full : bucket = full[h]
    BY <1>3, <2>1
  <2> QED BY <1>4, <2>1, <2>2
<1>6. ASSUME {f, g} \cap Faulty = {}, Bytes(f) = Bytes(g), Cardinality(lost) < FILES
      PROVE  Together(f, g)'
  <2>1. f \in File \ Faulty /\ g \in File \ Faulty /\ f \in Files \ Faulty /\ g \in Files \ Faulty
    <3>1. Files \subseteq File
      BY PrefilterAssumption DEF Files, ToSet
    <3> QED BY <1>6, <3>1
  <2>2. SampleOf(f) = SampleOf(g)
    BY <1>6, <2>1, SameSamples
  <2>3. /\ Files \ Faulty \subseteq InBuckets(b)
        /\ \A h \in DOMAIN b : Len(b[h]) >= 2 => ToSet(b[h]) \subseteq ToSet(worklist)
        /\ ToSet(worklist) \subseteq lost \cup InBuckets(full)
    BY <1>1, <1>2, <1>6 DEF FoundInv, Chunking, Listed
  <2>4. \A h \in DOMAIN b : b[h] \in Seq(File) /\ \A x \in ToSet(b[h]) \ Faulty : h = SampleOf(x)
    <3>1. ~Sampled
      BY <1>1 DEF Sampled
    <3> QED BY <1>2, <3>1 DEF Inv, PhaseInv, Sorted
  <2>5. PICK h \in DOMAIN b : f \in ToSet(b[h])
    BY <2>1, <2>3 DEF InBuckets
  <2>6. PICK h2 \in DOMAIN b : g \in ToSet(b[h2])
    BY <2>1, <2>3 DEF InBuckets
  <2>7. h = h2
    BY <2>1, <2>2, <2>4, <2>5, <2>6
  <2>8. Len(b[h]) >= 2
    BY <2>4, <2>5, <2>6, <2>7, AtLeastTwo
  <2>9. f \in InBuckets(full) /\ g \in InBuckets(full)
    BY <1>4, <2>1, <2>3, <2>5, <2>6, <2>7, <2>8
  <2>10. PICK i \in DOMAIN full : f \in ToSet(full[i])
    BY <2>9 DEF InBuckets
  <2>11. PICK j \in DOMAIN full : g \in ToSet(full[j])
    BY <2>9 DEF InBuckets
  <2>12. i = j
    BY <1>4, <1>6, <2>10, <2>11
  <2>13. Len(full[i]) >= 2
    BY <1>4, <2>10, <2>11, <2>12, AtLeastTwo
  <2>14. full[i] \in reported' /\ {f, g} \subseteq ToSet(full[i])
    BY <1>3, <2>10, <2>11, <2>12, <2>13
  <2> QED BY <2>14 DEF Together
<1> QED BY <1>3, <1>5, <1>6

\* Nothing is reported before the worker is done, or without a ring.
LEMMA NothingYet ==
    ASSUME pc' # "teardown"
              \/ ~(IF ring'.io = "IoRing" THEN IoInitOk(ring'.held) ELSE InitOk(ring'.held))
    PROVE  DuplicatesFound'
BY DEF DuplicatesFound, InitSucceeds

\* It begins so.
LEMMA FoundBegins == Init => FoundInv
<1> SUFFICES ASSUME Init PROVE FoundInv
  OBVIOUS
<1>1. pc = "init"
  BY DEF Init, PrefilterInit
<1> QED BY <1>1 DEF FoundInv, Sampled, Chunking, DuplicatesFound

\* What a step has to bring about.
LEMMA FoundMade ==
    ASSUME pc' \in {"pump", "next", "reset"} => PumpedInv',
           pc' = "reset" => next_file' > Len(Group),
           pc' \in {"sampled", "fill", "chunk", "hashed"} =>
              Files \ Faulty \subseteq InBuckets(by_sample'),
           pc' \in {"fill", "chunk", "hashed"} => Listed',
           pc' = "hashed" /\ Cardinality(failed') < FILES
              => ToSet(worklist') \subseteq failed' \cup InBuckets(by_full'),
           DuplicatesFound'
    PROVE  FoundInv'
<1>1. (Sampled => PumpedInv)'
  BY DEF Sampled
<1>2. (pc = "sampled" \/ Chunking => Files \ Faulty \subseteq InBuckets(by_sample))'
  BY DEF Chunking, Files, InBuckets
<1>3. (Chunking => Listed)'
  BY DEF Chunking
<1>4. (pc = "hashed" /\ Cardinality(failed) < FILES
          => ToSet(worklist) \subseteq failed \cup InBuckets(by_full))'
  BY DEF InBuckets, ToSet
<1> QED BY <1>1, <1>2, <1>3, <1>4 DEF FoundInv

\* The ring is set up, or cannot be.
LEMMA SetUpFound == Inv /\ SetUp => FoundInv'
<1> SUFFICES ASSUME Inv, SetUp PROVE FoundInv'
  OBVIOUS
<1>1. PICK held \in InitOutcomes : /\ ring' = [ring EXCEPT !.held = held]
                                   /\ pc' = IF InitSucceeds(held) THEN "pump" ELSE "teardown"
  BY DEF SetUp
<1>2. pc = "init" /\ next_file' = next_file
  BY DEF SetUp
<1>3. next_file = 1 /\ Sound(ring)
  BY <1>2 DEF Inv, IdleInv, Idle
<1>4. \A i \in Index : ~(i < next_file')
  <2>1. Len(Group) \in Nat /\ Index = 1 .. Len(Group)
    BY PrefilterAssumption DEF Index
  <2> QED BY <1>2, <1>3, <2>1
<1>5. PumpedInv'
  BY <1>4 DEF PumpedInv
<1>6. ring'.held = held /\ ring'.io = ring.io
  <2>1. "held" \in DOMAIN ring
    BY <1>3 DEF Sound, RingRecord
  <2> QED BY <1>1, <2>1
<1>7. DuplicatesFound'
  <2>1. CASE pc' = "teardown"
    <3>1. ~(IF ring.io = "IoRing" THEN IoInitOk(held) ELSE InitOk(held))
      BY <1>1, <2>1 DEF InitSucceeds
    <3> QED BY <1>6, <3>1, NothingYet
  <2> QED BY <2>1, NothingYet
<1> QED BY <1>1, <1>5, <1>7, FoundMade

\* Files are sampled.
LEMMA SamplingFound == Inv /\ FoundInv /\ Sampling => FoundInv'
<1> SUFFICES ASSUME Inv, FoundInv, Sampling PROVE FoundInv'
  OBVIOUS
<1>1. PrefilterStep
  BY DEF Sampling
<1>2. Sampled
  BY <1>1 DEF PrefilterStep, PumpFile, PumpUnopenable, PumpDone, EnterForSample, TakeSample,
              TakeLastSample, PrefilterReturn, Sampled
<1>3. SampleInv /\ SortedInv /\ PumpedInv
  BY <1>2 DEF Inv, PhaseInv, FoundInv
<1>4. CASE \/ PumpFile \/ PumpUnopenable \/ PumpDone \/ EnterForSample \/ TakeSample \/ TakeLastSample
  <2>1. PumpedInv'
    BY <1>3, <1>4, PumpedSample
  <2>2. /\ pc' \in {"pump", "next", "reset"}
        /\ pc' = "reset" => PumpDone
    BY <1>4 DEF PumpFile, PumpUnopenable, PumpDone, EnterForSample, TakeSample, TakeLastSample
  <2>3. pc' = "reset" => next_file' > Len(Group)
    BY <1>3, <2>2, PumpEnds
  <2>4. DuplicatesFound'
    BY <2>2, NothingYet
  <2> QED BY <2>1, <2>2, <2>3, <2>4, FoundMade
<1>5. CASE PrefilterReturn
  <2>1. pc = "reset" /\ pc' = "sampled" /\ by_sample' = by_sample
    BY <1>5 DEF PrefilterReturn
  <2>2. in_flight = 0 /\ next_file > Len(Group)
    BY <2>1 DEF Inv, PhaseInv, FoundInv
  <2>3. Files \ Faulty \subseteq InBuckets(by_sample)
    BY <1>3, <2>2, PumpedAll
  <2>4. Files \ Faulty \subseteq InBuckets(by_sample')
    BY <2>1, <2>3 DEF InBuckets
  <2>5. DuplicatesFound'
    BY <2>1, NothingYet
  <2> QED BY <2>1, <2>4, <2>5, FoundMade
<1> QED BY <1>1, <1>4, <1>5 DEF PrefilterStep

\* The list is made.
LEMMA StartFound == Inv /\ FoundInv /\ StartHash => FoundInv'
<1> SUFFICES ASSUME Inv, FoundInv, StartHash PROVE FoundInv'
  OBVIOUS
<1>1. pc = "sampled" /\ pc' = "fill" /\ by_sample' = by_sample
  BY DEF StartHash, sample_vars
<1>2. PICK order \in SetToSeqs(Candidates) : worklist' = FlattenSeq(order)
  BY DEF StartHash
<1>3. PICK b : b = by_sample
  OBVIOUS
<1>4. Sorted(b, Files)
  BY <1>1, <1>3 DEF Inv, PhaseInv, Sampled
<1>5. \A h \in DOMAIN b : Len(b[h]) >= 2 => ToSet(b[h]) \subseteq ToSet(FlattenSeq(order))
  BY <1>3, <1>4, ListMade
<1>6. Listed'
  BY <1>1, <1>2, <1>3, <1>5 DEF Listed
<1>7. Files \ Faulty \subseteq InBuckets(by_sample')
  BY <1>1 DEF FoundInv, InBuckets
<1>8. DuplicatesFound'
  BY <1>1, NothingYet
<1> QED BY <1>1, <1>6, <1>7, <1>8, FoundMade

\* While files are read whole, buckets and list stay as they are.
LEMMA ListKept ==
    ASSUME FoundInv, pc \in {"fill", "chunk", "hashed"}, pc' \in {"fill", "chunk", "hashed"},
           by_sample' = by_sample, worklist' = worklist,
           pc' = "hashed" /\ Cardinality(failed') < FILES
              => ToSet(worklist') \subseteq failed' \cup InBuckets(by_full')
    PROVE  FoundInv'
<1>1. Listed /\ Files \ Faulty \subseteq InBuckets(by_sample)
  BY DEF FoundInv, Chunking
<1>2. Listed'
  BY <1>1 DEF Listed
<1>3. Files \ Faulty \subseteq InBuckets(by_sample')
  BY <1>1 DEF InBuckets
<1>4. DuplicatesFound'
  BY NothingYet
<1> QED BY <1>2, <1>3, <1>4, FoundMade

\* Files are hashed.
LEMMA HashingFound == Inv /\ FoundInv /\ Hashing => FoundInv'
<1> SUFFICES ASSUME Inv, FoundInv, Hashing PROVE FoundInv'
  OBVIOUS
<1>1. HashStep
  BY DEF Hashing
<1>2. CASE StartHash
  BY <1>2, StartFound
<1>3. CASE HashReturn
  <2>1. /\ pc = "chunk" /\ pc' = "hashed" /\ by_sample' = by_sample /\ worklist' = worklist
        /\ failed' = failed /\ by_full' = by_full
    BY <1>3 DEF HashReturn, sample_vars, hash_vars
  <2>2. HashInv /\ HashData
    BY <2>1 DEF Inv, PhaseInv, HashingNow
  <2>3. Cardinality(failed) < FILES => ToSet(worklist) \subseteq failed \cup InBuckets(by_full)
    BY <1>3, <2>2, ListRead
  <2>4. Cardinality(failed') < FILES => ToSet(worklist') \subseteq failed' \cup InBuckets(by_full')
    BY <2>1, <2>3 DEF InBuckets
  <2> QED BY <2>1, <2>4, ListKept
<1>4. CASE \/ FillFile \/ FillUnopenable \/ FillDone \/ EnterForChunk \/ TakeError \/ TakeChunk
           \/ TakeLastChunk \/ TakeLastChunkReuse
  <2>1. /\ pc \in {"fill", "chunk"} /\ pc' \in {"fill", "chunk"}
        /\ by_sample' = by_sample /\ worklist' = worklist
    BY <1>4 DEF FillFile, FillUnopenable, FillDone, EnterForChunk, TakeError, TakeChunk,
                TakeLastChunk, TakeLastChunkReuse, FileDone, sample_vars, hash_vars
  <2> QED BY <2>1, ListKept
<1> QED BY <1>1, <1>2, <1>3, <1>4 DEF HashStep

\* The buckets are reported.
LEMMA ReportFound == Inv /\ FoundInv /\ Report => FoundInv'
<1> SUFFICES ASSUME Inv, FoundInv, Report PROVE FoundInv'
  OBVIOUS
<1>1. pc' = "teardown"
  BY DEF Report
<1>2. DuplicatesFound'
  BY AllReported
<1> QED BY <1>1, <1>2, FoundMade

\* The ring is taken down.
LEMMA TakeDownFound == TakeDown => FoundInv'
<1> SUFFICES ASSUME TakeDown PROVE FoundInv'
  OBVIOUS
<1>1. pc' = "end"
  BY DEF TakeDown
<1>2. DuplicatesFound'
  BY <1>1, NothingYet
<1> QED BY <1>1, <1>2, FoundMade

\* Nothing that FoundInv speaks of changes.
LEMMA FoundKept ==
    ASSUME FoundInv, UNCHANGED <<pc, meta, acc, by_sample, next_file, in_flight, hash_vars>>,
           DuplicatesFound'
    PROVE  FoundInv'
<1>1. /\ pc' = pc /\ acc' = acc /\ by_sample' = by_sample /\ next_file' = next_file
      /\ worklist' = worklist /\ by_full' = by_full /\ failed' = failed
  BY DEF hash_vars
<1>2. pc' \in {"pump", "next", "reset"} => PumpedInv'
  BY <1>1 DEF FoundInv, Sampled, PumpedInv, Live, InBuckets
<1>3. pc' = "reset" => next_file' > Len(Group)
  BY <1>1 DEF FoundInv
<1>4. pc' \in {"sampled", "fill", "chunk", "hashed"} => Files \ Faulty \subseteq InBuckets(by_sample')
  BY <1>1 DEF FoundInv, Chunking, InBuckets
<1>5. pc' \in {"fill", "chunk", "hashed"} => Listed'
  BY <1>1 DEF FoundInv, Chunking, Listed
<1>6. pc' = "hashed" /\ Cardinality(failed') < FILES
          => ToSet(worklist') \subseteq failed' \cup InBuckets(by_full')
  BY <1>1 DEF FoundInv, InBuckets
<1> QED BY <1>2, <1>3, <1>4, <1>5, <1>6, FoundMade

\* The kernel ends a read: none is out when the worker has reported.
LEMMA KernelFound == Inv /\ FoundInv /\ Kernel => FoundInv'
<1> SUFFICES ASSUME Inv, FoundInv, Kernel PROVE FoundInv'
  OBVIOUS
<1>1. KernelStep /\ UNCHANGED <<pc, meta, acc, by_sample, next_file, in_flight, hash_vars>>
  BY DEF Kernel, sample_vars
<1>2. pc # "teardown"
  <2>1. CASE pc = "teardown"
    <3>1. ops = {}
      BY <2>1 DEF Inv, IdleInv, Idle, Quiet
    <3> QED BY <1>1, <3>1 DEF KernelStep
  <2> QED BY <2>1
<1>3. DuplicatesFound'
  BY <1>1, <1>2, NothingYet
<1> QED BY <1>1, <1>3, FoundKept

\* A step that changes nothing of it.
LEMMA SameFound == FoundInv /\ UNCHANGED vars => FoundInv'
<1> SUFFICES ASSUME FoundInv, UNCHANGED vars PROVE FoundInv'
  OBVIOUS
<1>1. /\ UNCHANGED <<pc, meta, acc, by_sample, next_file, in_flight, hash_vars>>
      /\ ring' = ring /\ reported' = reported
  BY DEF vars, ring_vars, sample_vars
<1>2. DuplicatesFound'
  <2>1. pc' = pc /\ failed' = failed
    BY <1>1 DEF hash_vars
  <2> QED BY <1>1, <2>1 DEF FoundInv, DuplicatesFound, Together, Files, Bytes, InitSucceeds
<1> QED BY <1>1, <1>2, FoundKept

\* DuplicatesFound: of the files larger than a sample, compute_duplicate_groups
\* reports together what is equal and all that is, whatever fails for other files,
\* as long as fewer of those fail in hash_file (duplicates.cpp 231) than it has
\* places, for any group, any sizes and any order of the reads.
THEOREM NoDuplicateMissed == Spec => []DuplicatesFound
<1>1. Init => FoundInv
  BY FoundBegins
<1>2. Inv /\ FoundInv /\ [Next]_vars => FoundInv'
  <2> SUFFICES ASSUME Inv, FoundInv, [Next]_vars PROVE FoundInv'
    OBVIOUS
  <2>1. CASE SetUp
    BY <2>1, SetUpFound
  <2>2. CASE Sampling
    BY <2>2, SamplingFound
  <2>3. CASE Hashing
    BY <2>3, HashingFound
  <2>4. CASE Report
    BY <2>4, ReportFound
  <2>5. CASE TakeDown
    BY <2>5, TakeDownFound
  <2>6. CASE Kernel
    BY <2>6, KernelFound
  <2>7. CASE UNCHANGED vars
    BY <2>7, SameFound
  <2> QED BY <2>1, <2>2, <2>3, <2>4, <2>5, <2>6, <2>7 DEF Next, Worker
<1>3. FoundInv => DuplicatesFound
  BY DEF FoundInv
<1> QED BY <1>1, <1>2, <1>3, Invariant, PTL DEF Spec
=============================================================================
