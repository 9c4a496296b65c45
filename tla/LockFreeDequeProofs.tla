-------------------------- MODULE LockFreeDequeProofs --------------------------
(***************************************************************************)
(* Proofs about the deque (LockFreeDeque): it implements WorkDeque, and no *)
(* buffer is freed while a thread can reach it, for every number of        *)
(* thieves, every capacity and every store buffer that does not hold two   *)
(* growths.                                                                *)
(***************************************************************************)
EXTENDS LockFreeDeque, SequenceFacts

-----------------------------------------------------------------------------
(* Memory and the stores on their way to it *)

Memory == [back : Int, buffer : Nat, global_epoch : Nat, data : Seq(Seq(Nat))]

PlainStore == {Set("back", v) : v \in Int} \cup {Set("buffer", v) : v \in Nat}
                  \cup {Set("global_epoch", v) : v \in Nat}
DataStore  == {SetData(k, j, v) : k \in Nat, j \in Nat, v \in Nat}
OwnerStore == PlainStore \cup DataStore

\* A store to a slot m has.
Fits(m, w) == w.var = "data" => w.buf \in DOMAIN m.data /\ w.at \in DOMAIN m.data[w.buf]

\* Memory with one more buffer.
Widened(m, items) == [m EXCEPT !.data = Append(@, items)]

\* h holds what m becomes as the first l of the stores s reach it.
Follows(h, m, s, l) == h = [n \in 0 .. l |-> IF n = 0 THEN m ELSE Apply(h[n - 1], s[n])]

\* The states memory goes through are what the definition says, and no others.
LEMMA ReachedExists ==
    ASSUME NEW m, NEW s, NEW k \in Nat
    PROVE  \E f : Follows(f, m, s, k)
<1> DEFINE Bad == {l \in Nat : ~\E f : Follows(f, m, s, l)}
<1>1. SUFFICES ASSUME Bad # {} PROVE FALSE
  OBVIOUS
<1>2. Bad \in SUBSET Nat
  OBVIOUS
<1>3. PICK l \in Bad : \A x \in Bad : l <= x
  BY <1>1, <1>2, LeastNumber
<1>4. l # 0
  <2>1. PICK f : f = [n \in 0 .. 0 |-> m]
    OBVIOUS
  <2>2. Follows(f, m, s, 0)
    BY <2>1 DEF Follows
  <2> QED BY <2>2
<1>5. PICK before : before = l - 1
  OBVIOUS
<1>6. before \in Nat /\ before + 1 = l /\ before \notin Bad
  <2>1. l \in Nat
    BY <1>2, <1>3
  <2>2. before \in Nat /\ before + 1 = l /\ ~(l <= before)
    BY <1>4, <1>5, <2>1
  <2> QED BY <1>3, <2>2
<1>7. PICK f : Follows(f, m, s, before)
  BY <1>6
<1>8. PICK g : g = [n \in 0 .. l |-> IF n <= before THEN f[n] ELSE Apply(f[before], s[n])]
  OBVIOUS
<1>9. ASSUME NEW n \in 0 .. l PROVE g[n] = IF n = 0 THEN m ELSE Apply(g[n - 1], s[n])
  <2>1. CASE n = 0
    BY <1>6, <1>7, <1>8, <2>1 DEF Follows
  <2>2. CASE n # 0 /\ n <= before
    <3>1. n - 1 \in 0 .. l /\ n - 1 <= before /\ n \in 0 .. before
      BY <1>6, <2>2
    <3>2. g[n] = f[n] /\ g[n - 1] = f[n - 1]
      BY <1>8, <2>2, <3>1
    <3>3. f[n] = Apply(f[n - 1], s[n])
      BY <1>7, <2>2, <3>1 DEF Follows
    <3> QED BY <2>2, <3>2, <3>3
  <2>3. CASE n = l
    <3>1. n - 1 = before /\ before \in 0 .. l /\ ~(n <= before) /\ n # 0 /\ before <= before
      BY <1>6, <2>3
    <3>2. g[n] = Apply(f[before], s[n]) /\ g[before] = f[before]
      BY <1>8, <3>1
    <3> QED BY <3>1, <3>2
  <2> QED BY <1>6, <2>1, <2>2, <2>3
<1>10. Follows(g, m, s, l)
  <2>1. g = [n \in 0 .. l |-> g[n]]
    BY <1>8
  <2> QED BY <1>9, <2>1 DEF Follows
<1> QED BY <1>3, <1>10

LEMMA ReachedFacts ==
    ASSUME NEW S, NEW m, NEW s \in Seq(S), NEW h, h = Reached(m, s)
    PROVE  /\ h = [n \in 0 .. Len(s) |-> h[n]] /\ h[0] = m
           /\ \A n \in 1 .. Len(s) : h[n] = Apply(h[n - 1], s[n])
<1>1. Len(s) \in Nat
  BY LenProperties
<1>2. \E f : Follows(f, m, s, Len(s))
  BY <1>1, ReachedExists
<1>3. Follows(h, m, s, Len(s))
  BY <1>2 DEF Reached, Follows
<1>4. h = [n \in 0 .. Len(s) |-> IF n = 0 THEN m ELSE Apply(h[n - 1], s[n])]
  BY <1>3 DEF Follows
<1> QED BY <1>1, <1>4

LEMMA ReachedOnly ==
    ASSUME NEW S, NEW m, NEW s \in Seq(S), NEW g, g = [n \in 0 .. Len(s) |-> g[n]], g[0] = m,
           \A n \in 1 .. Len(s) : g[n] = Apply(g[n - 1], s[n])
    PROVE  g = Reached(m, s)
<1>1. Len(s) \in Nat
  BY LenProperties
<1>2. PICK h : h = Reached(m, s)
  OBVIOUS
<1>3. /\ h = [n \in 0 .. Len(s) |-> h[n]] /\ h[0] = m
      /\ \A n \in 1 .. Len(s) : h[n] = Apply(h[n - 1], s[n])
  BY <1>2, ReachedFacts
<1> DEFINE Bad == {l \in 0 .. Len(s) : g[l] # h[l]}
<1>4. SUFFICES ASSUME Bad # {} PROVE FALSE
  BY <1>2, <1>3
<1>5. Bad \in SUBSET Nat
  BY <1>1
<1>6. PICK l \in Bad : \A x \in Bad : l <= x
  BY <1>4, <1>5, LeastNumber
<1>7. l # 0
  BY <1>3, <1>6
<1>8. PICK before : before = l - 1
  OBVIOUS
<1>9. before \in 0 .. Len(s) /\ l \in 1 .. Len(s) /\ before \notin Bad
  BY <1>1, <1>6, <1>7, <1>8
<1>10. g[before] = h[before]
  BY <1>9
<1>11. g[l] = Apply(g[before], s[l]) /\ h[l] = Apply(h[before], s[l])
  BY <1>3, <1>8, <1>9
<1> QED BY <1>6, <1>10, <1>11

LEMMA ReachedTail ==
    ASSUME NEW S, NEW m, NEW s \in Seq(S), s # <<>>, NEW h, h = Reached(m, s)
    PROVE  Reached(Apply(m, Head(s)), Tail(s)) = [n \in 0 .. Len(s) - 1 |-> h[n + 1]]
<1>1. /\ h[0] = m /\ \A n \in 1 .. Len(s) : h[n] = Apply(h[n - 1], s[n])
  BY ReachedFacts
<1>2. /\ Tail(s) \in Seq(S) /\ Len(s) \in Nat /\ Len(s) >= 1 /\ Len(Tail(s)) = Len(s) - 1
      /\ \A n \in 1 .. Len(Tail(s)) : Tail(s)[n] = s[n + 1]
      /\ Head(s) = s[1]
  BY EmptySeq, LenProperties, HeadTailProperties
<1>3. PICK g : g = [n \in 0 .. Len(s) - 1 |-> h[n + 1]]
  OBVIOUS
<1>4. g = [n \in 0 .. Len(Tail(s)) |-> g[n]]
  BY <1>2, <1>3
<1>5. g[0] = Apply(m, Head(s))
  <2>1. 1 \in 1 .. Len(s) /\ 0 \in 0 .. Len(s) - 1
    BY <1>2
  <2>2. h[1] = Apply(h[0], s[1])
    BY <1>1, <2>1
  <2> QED BY <1>1, <1>2, <1>3, <2>1, <2>2
<1>6. ASSUME NEW n \in 1 .. Len(Tail(s)) PROVE g[n] = Apply(g[n - 1], Tail(s)[n])
  <2>1. n \in 0 .. Len(s) - 1 /\ n - 1 \in 0 .. Len(s) - 1 /\ n + 1 \in 1 .. Len(s) /\ n \in Nat
    BY <1>2
  <2>2. PICK k : k = n + 1
    OBVIOUS
  <2>3. k \in 1 .. Len(s) /\ k - 1 = n /\ (n - 1) + 1 = n
    BY <2>1, <2>2
  <2>4. h[k] = Apply(h[n], s[k])
    BY <1>1, <2>3
  <2>5. g[n] = h[k] /\ g[n - 1] = h[n]
    BY <1>3, <2>1, <2>2, <2>3
  <2>6. Tail(s)[n] = s[k]
    BY <1>2, <2>2
  <2> QED BY <2>4, <2>5, <2>6
<1>7. PICK t : t = Tail(s)
  OBVIOUS
<1>8. PICK a : a = Apply(m, Head(s))
  OBVIOUS
<1>9. g = Reached(a, t)
  BY <1>2, <1>4, <1>5, <1>6, <1>7, <1>8, ReachedOnly
<1> QED BY <1>3, <1>7, <1>8, <1>9

LEMMA ReachedAppend ==
    ASSUME NEW S, NEW m, NEW s \in Seq(S), NEW w \in S, NEW h, h = Reached(m, s)
    PROVE  Reached(m, Append(s, w))
               = [n \in 0 .. Len(s) + 1 |-> IF n <= Len(s) THEN h[n] ELSE Apply(h[Len(s)], w)]
<1>1. /\ h[0] = m /\ \A n \in 1 .. Len(s) : h[n] = Apply(h[n - 1], s[n])
  BY ReachedFacts
<1>2. PICK t : t = Append(s, w)
  OBVIOUS
<1>3. PICK k : k = Len(s)
  OBVIOUS
<1>4. /\ t \in Seq(S) /\ k \in Nat /\ Len(t) = k + 1
      /\ t[k + 1] = w /\ \A n \in 1 .. k : t[n] = s[n]
  BY <1>2, <1>3, AppendProperties, LenProperties
<1>5. PICK g : g = [n \in 0 .. k + 1 |-> IF n <= k THEN h[n] ELSE Apply(h[k], w)]
  OBVIOUS
<1>6. g = [n \in 0 .. Len(t) |-> g[n]] /\ g[0] = m
  BY <1>1, <1>4, <1>5
<1>7. ASSUME NEW n \in 1 .. Len(t) PROVE g[n] = Apply(g[n - 1], t[n])
  <2>1. n \in Nat /\ n - 1 \in 0 .. k /\ n - 1 \in 0 .. k + 1 /\ n - 1 <= k /\ n \in 0 .. k + 1
    BY <1>4
  <2>2. g[n - 1] = h[n - 1]
    BY <1>5, <2>1
  <2>3. CASE n <= k
    <3>1. n \in 1 .. k
      BY <1>4, <2>3
    <3>2. g[n] = h[n] /\ t[n] = s[n]
      BY <1>4, <1>5, <2>1, <2>3, <3>1
    <3>3. h[n] = Apply(h[n - 1], s[n])
      BY <1>1, <1>3, <3>1
    <3> QED BY <2>2, <3>2, <3>3
  <2>4. CASE ~(n <= k)
    <3>1. n = k + 1 /\ n - 1 = k
      BY <1>4, <2>1, <2>4
    <3>2. g[n] = Apply(h[k], w)
      BY <1>5, <2>1, <2>4
    <3>3. t[n] = w
      BY <1>4, <3>1
    <3> QED BY <2>2, <3>1, <3>2, <3>3
  <2> QED BY <2>3, <2>4
<1>8. g = Reached(m, t)
  BY <1>4, <1>6, <1>7, ReachedOnly
<1> QED BY <1>2, <1>3, <1>5, <1>8

\* What a store does.
LEMMA ApplyPlain ==
    ASSUME NEW m \in Memory, NEW v
    PROVE  /\ Apply(m, Set("back", v)) = [m EXCEPT !.back = v]
           /\ Apply(m, Set("buffer", v)) = [m EXCEPT !.buffer = v]
           /\ Apply(m, Set("global_epoch", v)) = [m EXCEPT !.global_epoch = v]
BY DEF Apply, Set

LEMMA ApplyData ==
    ASSUME NEW m \in Memory, NEW k \in DOMAIN m.data, NEW j \in DOMAIN m.data[k], NEW v \in Nat
    PROVE  LET a == Apply(m, SetData(k, j, v))
           IN  /\ a \in Memory
               /\ a.back = m.back /\ a.buffer = m.buffer /\ a.global_epoch = m.global_epoch
               /\ Len(a.data) = Len(m.data)
               /\ \A q \in DOMAIN m.data :
                     /\ Len(a.data[q]) = Len(m.data[q])
                     /\ \A y \in DOMAIN m.data[q] :
                           a.data[q][y] = IF q = k /\ y = j THEN v ELSE m.data[q][y]
<1> DEFINE a == Apply(m, SetData(k, j, v))
<1>1. PICK d : d = m.data
  OBVIOUS
<1>2. d \in Seq(Seq(Nat)) /\ k \in DOMAIN d /\ j \in DOMAIN d[k]
  BY <1>1 DEF Memory
<1>3. PICK items : items = [d[k] EXCEPT ![j] = v]
  OBVIOUS
<1>4. PICK e : e = [d EXCEPT ![k] = items]
  OBVIOUS
<1>5. d[k] \in Seq(Nat) /\ k \in 1 .. Len(d) /\ j \in 1 .. Len(d[k])
  BY <1>2, ElementOfSeq, LenProperties
<1>6. /\ items \in Seq(Nat) /\ Len(items) = Len(d[k])
      /\ \A y \in DOMAIN d[k] : items[y] = IF y = j THEN v ELSE d[k][y]
  BY <1>3, <1>5, ExceptSeq, LenProperties
<1>7. e \in Seq(Seq(Nat)) /\ Len(e) = Len(d)
      /\ \A q \in DOMAIN d : e[q] = IF q = k THEN items ELSE d[q]
  BY <1>2, <1>4, <1>5, <1>6, ExceptSeq, LenProperties
<1>8. a = [m EXCEPT !.data = e]
  BY <1>1, <1>3, <1>4 DEF Apply, SetData
<1>9. a \in Memory /\ a.back = m.back /\ a.buffer = m.buffer /\ a.global_epoch = m.global_epoch
      /\ a.data = e
  BY <1>7, <1>8 DEF Memory
<1> HIDE DEF a
<1>10. ASSUME NEW q \in DOMAIN d
       PROVE  /\ Len(e[q]) = Len(d[q])
              /\ \A y \in DOMAIN d[q] : e[q][y] = IF q = k /\ y = j THEN v ELSE d[q][y]
  <2>1. CASE q = k
    BY <1>6, <1>7, <2>1
  <2>2. CASE q # k
    BY <1>7, <2>2
  <2> QED BY <2>1, <2>2
<1>11. Len(a.data) = Len(m.data)
  BY <1>1, <1>7, <1>9
<1>12. \A q \in DOMAIN m.data :
           /\ Len(a.data[q]) = Len(m.data[q])
           /\ \A y \in DOMAIN m.data[q] : a.data[q][y] = IF q = k /\ y = j THEN v ELSE m.data[q][y]
  BY <1>1, <1>9, <1>10
<1> QED BY <1>9, <1>11, <1>12 DEF a

-----------------------------------------------------------------------------
(* The invariant *)

Waiting == Len(sb[Owner])

Local == [f : Nat, epoch : Nat, buf : Nat, value : Nat]
OwnerAt == {"idle", "scan", "advance", "store", "pop", "pop_cas"}
ThiefAt == {"idle", "steal_back", "steal_epoch", "steal_pin", "steal_buffer", "steal_data",
            "steal_cas", "steal_unpin"}

StoreBuffers ==
    /\ sb \in [Thread -> Seq(OwnerStore \cup Int)]
    /\ sb[Owner] \in Seq(OwnerStore) /\ \A t \in Thief : sb[t] \in Seq(Int)
    /\ \A t \in Thread : Len(sb[t]) <= SbDepth

Places ==
    /\ pc \in [Thread -> OwnerAt \cup ThiefAt]
    /\ pc[Owner] \in OwnerAt /\ \A t \in Thief : pc[t] \in ThiefAt
    /\ loc \in [Thief -> Local]

Values ==
    /\ front \in Nat /\ slot \in Nat /\ pushed \in 0 .. MaxItems
    /\ mem \in Memory /\ own \in Memory
    /\ local_epochs \in [Thief -> Int]
    /\ retired \in [0 .. 2 -> SUBSET Nat] /\ freed \in SUBSET Nat

Types == StoreBuffers /\ Places /\ Values

\* All buffers are there, in memory as for the owner, each twice the one before.
Buffers ==
    /\ own.buffer >= 1
    /\ \A k \in 1 .. own.buffer : Capacity(k) >= Cap0
    /\ \A k \in 2 .. own.buffer : Capacity(k) = 2 * Capacity(k - 1)
    /\ \A p \in 1 .. Waiting : Fits(own, sb[Owner][p])
    /\ \A n \in 0 .. Waiting :
          /\ InMemory[n] \in Memory /\ Len(InMemory[n].data) = own.buffer
          /\ \A k \in 1 .. own.buffer : Len(InMemory[n].data[k]) = Capacity(k)

\* On its way to what the owner sees memory never goes back.
Onward ==
    /\ InMemory[Waiting] = own
    /\ InMemory[0].buffer >= 1
    /\ \A n1, n2 \in 0 .. Waiting : n1 <= n2 =>
          /\ InMemory[n1].buffer <= InMemory[n2].buffer
          /\ InMemory[n1].global_epoch <= InMemory[n2].global_epoch
    /\ \A n \in 1 .. Waiting : InMemory[n].buffer <= InMemory[n - 1].buffer + 1

MemoryInv == Types /\ Buffers /\ Onward

\* The item at index i, and whether a buffer shows it, once n stores have arrived.
Item(i) == own.data[own.buffer][At(own.buffer, i)]
Shows(n, k, i) == InMemory[n].data[k][At(k, i)] = Item(i)

\* The ends of the deque, and the items between them.
Ends ==
    /\ front <= Top /\ Top <= pushed /\ Top - front <= Capacity(own.buffer)
    /\ pc[Owner] \in {"scan", "advance", "store"} => Top - front < Capacity(own.buffer) /\ pushed < MaxItems
    /\ pc[Owner] = "pop_cas" => own.back <= front
    /\ \A i \in front .. Top - 1 : Item(i) \in 1 .. pushed
    /\ taken \in SUBSET (1 .. pushed)
    /\ \A n \in 0 .. Waiting : InMemory[n].back <= Top

\* An index that memory once shows to be inside the deque has its item in every
\* buffer memory leads to from there on.
Published ==
    \A n, n1, n2 \in 0 .. Waiting : n <= n1 /\ n <= n2 =>
        \A i \in front .. InMemory[n].back - 1 : Shows(n1, InMemory[n2].buffer, i)

\* A thief that is not too late holds, or will read, the first item of the deque.
Chosen(t) ==
    /\ pc[t] \in {"steal_epoch", "steal_pin", "steal_buffer", "steal_data", "steal_cas"}
    /\ loc[t].f = front

Theft(t) ==
    /\ pc[t] # "idle" => loc[t].f <= front
    /\ pc[t] = "steal_data" => loc[t].buf \in 1 .. own.buffer
    /\ Chosen(t) =>
          /\ front < Top
          /\ \A n1, n2 \in 0 .. Waiting : Shows(n1, InMemory[n2].buffer, front)
          /\ pc[t] = "steal_data" => \A n \in 0 .. Waiting : Shows(n, loc[t].buf, front)
          /\ pc[t] = "steal_cas" => loc[t].value = Item(front)

Thieves == \A t \in Thief : Theft(t)

DequeInv == Ends /\ Published /\ Thieves

\* The buffers retired in the last epoch and in this one; the third bucket is empty.
Now    == retired[own.global_epoch % 3]
Before == retired[TwoEpochsAgo(own.global_epoch)]

Buckets ==
    /\ retired[(own.global_epoch + 1) % 3] = {}
    /\ Now \cap Before = {} /\ (Now \cup Before) \cap freed = {}
    /\ \A k \in Now \cup Before \cup freed : k < own.buffer

\* No freed buffer can be loaded any more, nor, where an epoch may end, one that
\* its end frees.
OutOfReach ==
    /\ \A n \in 0 .. Waiting : \A k \in freed : k < InMemory[n].buffer
    /\ \A n \in 0 .. Waiting : InMemory[n].global_epoch = own.global_epoch =>
          \A k \in Before : k < InMemory[n].buffer
    /\ pc[Owner] \in {"scan", "advance"} =>
          \A n \in 0 .. Waiting : \A k \in Before : k < InMemory[n].buffer

\* While the store of the newest buffer waits, so do the stores of all the items
\* pushed since, and of the epoch if it ended.
Crowded ==
    \A n \in 0 .. Waiting, k \in Nat : k + 1 = own.buffer /\ InMemory[n].buffer <= k =>
        Waiting - n >= 1 + 2 * (Top - front - Capacity(k)) + (IF k \in Before THEN 1 ELSE 0)

\* The scan has passed the slot of thief t.
Passed(t) == pc[Owner] = "advance" \/ (pc[Owner] = "scan" /\ t < slot)

\* A thief that is about to load the pointer, or to read from what it points to,
\* has said so in its slot, or is about to, with an epoch memory has reached; what
\* it reads from is not freed, nor will be by the end of the epoch it is in.
Pin(t) ==
    /\ pc[t] \in {"steal_pin", "steal_buffer", "steal_data"} => loc[t].epoch <= mem.global_epoch
    /\ pc[t] = "steal_buffer" =>
          IF sb[t] = <<>> THEN local_epochs[t] = loc[t].epoch
                          ELSE sb[t][Len(sb[t])] = loc[t].epoch
    /\ pc[t] = "steal_data" =>
          /\ sb[t] = <<>> /\ local_epochs[t] = loc[t].epoch
          /\ loc[t].buf \notin freed
          /\ loc[t].epoch = own.global_epoch \/ Passed(t) => loc[t].buf \notin Before

Pins ==
    /\ pc[Owner] = "scan" => slot \in Thief
    /\ \A t \in Thief : Pin(t)

EpochInv == Buckets /\ OutOfReach /\ Crowded /\ Pins

-----------------------------------------------------------------------------
(* What the steps do to memory and to its way on *)

LEMMA ThreadFacts ==
    /\ Owner \notin Thief /\ Owner \in Thread /\ \A t \in Thief : t \in Thread /\ t # Owner
    /\ NumStealers \in Nat /\ MaxItems \in Nat /\ Cap0 \in Nat /\ Cap0 >= 1 /\ SbDepth \in Nat
    /\ SbDepth <= 2 * Cap0 + 2
BY ParamAssumption, StoreBufferAssumption DEF Owner, Thief, Thread

LEMMA WaitingFacts ==
    ASSUME Types
    PROVE  /\ Waiting \in Nat /\ InMemory = [n \in 0 .. Waiting |-> InMemory[n]]
           /\ InMemory[0] = mem
           /\ \A n \in 1 .. Waiting : InMemory[n] = Apply(InMemory[n - 1], sb[Owner][n])
           /\ \A p \in 1 .. Waiting : sb[Owner][p] \in OwnerStore
<1>1. sb[Owner] \in Seq(OwnerStore)
  BY DEF Types, StoreBuffers
<1>2. Waiting \in Nat /\ \A p \in 1 .. Waiting : sb[Owner][p] \in OwnerStore
  BY <1>1, LenProperties, ElementOfSeq DEF Waiting
<1> QED BY <1>1, <1>2, ReachedFacts DEF Waiting, InMemory

LEMMA NoStore ==
    ASSUME mem' = mem, sb'[Owner] = sb[Owner]
    PROVE  InMemory' = InMemory /\ Waiting' = Waiting
BY DEF InMemory, Waiting

LEMMA OldestStore ==
    ASSUME Types, Flush(Owner)
    PROVE  /\ Waiting \in Nat /\ Waiting >= 1 /\ Waiting' = Waiting - 1
           /\ \A n \in 0 .. Waiting - 1 : InMemory'[n] = InMemory[n + 1]
           /\ mem' = InMemory[1]
           /\ sb'[Owner] \in Seq(OwnerStore)
           /\ \A p \in 1 .. Waiting - 1 : sb'[Owner][p] = sb[Owner][p + 1]
<1>1. /\ sb[Owner] \in Seq(OwnerStore) /\ sb[Owner] # <<>>
      /\ mem' = Apply(mem, Head(sb[Owner])) /\ sb'[Owner] = Tail(sb[Owner])
  BY ThreadFacts DEF Flush, Types, StoreBuffers
<1>2. PICK s : s = sb[Owner]
  OBVIOUS
<1>3. /\ Tail(s) \in Seq(OwnerStore) /\ Len(s) \in Nat /\ Len(s) >= 1 /\ Len(Tail(s)) = Len(s) - 1
      /\ \A p \in 1 .. Len(s) - 1 : Tail(s)[p] = s[p + 1]
      /\ Head(s) = s[1]
  BY <1>1, <1>2, EmptySeq, LenProperties, HeadTailProperties
<1>4. PICK m : m = mem
  OBVIOUS
<1>5. Reached(Apply(m, Head(s)), Tail(s)) = [n \in 0 .. Len(s) - 1 |-> InMemory[n + 1]]
  <2>1. PICK h : h = Reached(m, s)
    OBVIOUS
  <2>2. s \in Seq(OwnerStore) /\ s # <<>>
    BY <1>1, <1>2
  <2>3. Reached(Apply(m, Head(s)), Tail(s)) = [n \in 0 .. Len(s) - 1 |-> h[n + 1]]
    BY <2>1, <2>2, ReachedTail
  <2> QED BY <1>2, <1>4, <2>1, <2>3 DEF InMemory
<1>6. InMemory' = Reached(Apply(m, Head(s)), Tail(s))
  BY <1>1, <1>2, <1>4 DEF InMemory
<1>7. Waiting = Len(s) /\ Waiting' = Len(Tail(s))
  BY <1>1, <1>2 DEF Waiting
<1>8. mem' = InMemory[1]
  <2>1. InMemory[1] = Apply(InMemory[1 - 1], sb[Owner][1])
    BY <1>3, <1>7, WaitingFacts
  <2> QED BY <1>1, <1>2, <1>3, <2>1, WaitingFacts
<1>9. \A n \in 0 .. Waiting - 1 : InMemory'[n] = InMemory[n + 1]
  BY <1>5, <1>6, <1>7
<1> QED BY <1>1, <1>2, <1>3, <1>7, <1>8, <1>9

LEMMA OneStore ==
    ASSUME Types, NEW w \in OwnerStore, Put(Owner, <<w>>), mem' = mem, InMemory[Waiting] = own
    PROVE  /\ Waiting \in Nat /\ Waiting' = Waiting + 1
           /\ \A n \in 0 .. Waiting : InMemory'[n] = InMemory[n]
           /\ InMemory'[Waiting + 1] = Apply(own, w)
           /\ sb'[Owner] \in Seq(OwnerStore) /\ sb'[Owner][Waiting + 1] = w
           /\ \A p \in 1 .. Waiting : sb'[Owner][p] = sb[Owner][p]
<1>1. sb[Owner] \in Seq(OwnerStore) /\ sb'[Owner] = sb[Owner] \o <<w>>
  BY ThreadFacts DEF Put, Types, StoreBuffers
<1>2. PICK s : s = sb[Owner]
  OBVIOUS
<1>3. PICK m : m = mem
  OBVIOUS
<1>4. /\ s \in Seq(OwnerStore) /\ s \o <<w>> = Append(s, w) /\ Append(s, w) \in Seq(OwnerStore)
      /\ Len(s) \in Nat /\ Len(Append(s, w)) = Len(s) + 1 /\ Append(s, w)[Len(s) + 1] = w
      /\ \A p \in 1 .. Len(s) : Append(s, w)[p] = s[p]
  BY <1>1, <1>2, AppendProperties, LenProperties
<1>5. Reached(m, Append(s, w))
          = [n \in 0 .. Len(s) + 1 |-> IF n <= Len(s) THEN InMemory[n] ELSE Apply(InMemory[Len(s)], w)]
  <2>1. PICK h : h = Reached(m, s)
    OBVIOUS
  <2>2. Reached(m, Append(s, w))
            = [n \in 0 .. Len(s) + 1 |-> IF n <= Len(s) THEN h[n] ELSE Apply(h[Len(s)], w)]
    BY <1>4, <2>1, ReachedAppend
  <2> QED BY <1>2, <1>3, <2>1, <2>2 DEF InMemory
<1>6. InMemory' = Reached(m, Append(s, w))
  BY <1>1, <1>2, <1>3, <1>4 DEF InMemory
<1>7. Waiting = Len(s) /\ Waiting' = Len(s) + 1
  BY <1>1, <1>2, <1>4 DEF Waiting
<1>8. /\ \A n \in 0 .. Waiting : InMemory'[n] = InMemory[n]
      /\ InMemory'[Waiting + 1] = Apply(InMemory[Waiting], w)
  BY <1>4, <1>5, <1>6, <1>7
<1> QED BY <1>1, <1>2, <1>4, <1>7, <1>8

LEMMA TwoStores ==
    ASSUME Types, NEW v \in OwnerStore, NEW w \in OwnerStore, Put(Owner, <<v, w>>), mem' = mem,
           InMemory[Waiting] = own
    PROVE  /\ Waiting \in Nat /\ Waiting' = Waiting + 2
           /\ \A n \in 0 .. Waiting : InMemory'[n] = InMemory[n]
           /\ InMemory'[Waiting + 1] = Apply(own, v)
           /\ InMemory'[Waiting + 2] = Apply(Apply(own, v), w)
           /\ sb'[Owner] \in Seq(OwnerStore)
           /\ sb'[Owner][Waiting + 1] = v /\ sb'[Owner][Waiting + 2] = w
           /\ \A p \in 1 .. Waiting : sb'[Owner][p] = sb[Owner][p]
<1>1. sb[Owner] \in Seq(OwnerStore) /\ sb'[Owner] = sb[Owner] \o <<v, w>>
  BY ThreadFacts DEF Put, Types, StoreBuffers
<1>2. PICK s : s = sb[Owner]
  OBVIOUS
<1>3. PICK m : m = mem
  OBVIOUS
<1>4. PICK t : t = Append(s, v)
  OBVIOUS
<1>5. /\ s \in Seq(OwnerStore) /\ t \in Seq(OwnerStore) /\ Len(s) \in Nat /\ Len(t) = Len(s) + 1
      /\ t[Len(s) + 1] = v /\ \A p \in 1 .. Len(s) : t[p] = s[p]
  BY <1>1, <1>2, <1>4, AppendProperties, LenProperties
<1>6. /\ s \o <<v, w>> = Append(t, w) /\ Append(t, w) \in Seq(OwnerStore)
      /\ Len(Append(t, w)) = Len(s) + 2 /\ Append(t, w)[Len(s) + 2] = w
      /\ \A p \in 1 .. Len(s) + 1 : Append(t, w)[p] = t[p]
  BY <1>4, <1>5, AppendProperties, LenProperties
<1>7. PICK g : g = Reached(m, t)
  OBVIOUS
<1>8. g = [n \in 0 .. Len(s) + 1 |-> IF n <= Len(s) THEN InMemory[n] ELSE Apply(InMemory[Len(s)], v)]
  <2>1. PICK h : h = Reached(m, s)
    OBVIOUS
  <2>2. Reached(m, Append(s, v))
            = [n \in 0 .. Len(s) + 1 |-> IF n <= Len(s) THEN h[n] ELSE Apply(h[Len(s)], v)]
    BY <1>5, <2>1, ReachedAppend
  <2> QED BY <1>2, <1>3, <1>4, <1>7, <2>1, <2>2 DEF InMemory
<1>9. Reached(m, Append(t, w))
          = [n \in 0 .. Len(t) + 1 |-> IF n <= Len(t) THEN g[n] ELSE Apply(g[Len(t)], w)]
  BY <1>5, <1>7, ReachedAppend
<1>10. InMemory' = Reached(m, Append(t, w))
  BY <1>1, <1>2, <1>3, <1>6 DEF InMemory
<1>11. Waiting = Len(s) /\ Waiting' = Len(s) + 2
  BY <1>1, <1>2, <1>6 DEF Waiting
<1>12. PICK k : k = Len(s)
  OBVIOUS
<1>13. k \in Nat /\ Len(t) = k + 1 /\ Waiting = k
  BY <1>5, <1>11, <1>12
<1>14. g[k + 1] = Apply(InMemory[k], v) /\ \A n \in 0 .. k : g[n] = InMemory[n]
  BY <1>8, <1>12, <1>13
<1>15. /\ InMemory'[k + 2] = Apply(g[k + 1], w) /\ InMemory'[k + 1] = g[k + 1]
       /\ \A n \in 0 .. k : InMemory'[n] = g[n]
  BY <1>9, <1>10, <1>13
<1>16. sb'[Owner][k + 1] = v /\ sb'[Owner][k + 2] = w /\ sb'[Owner] \in Seq(OwnerStore)
       /\ \A p \in 1 .. k : sb'[Owner][p] = sb[Owner][p]
  BY <1>1, <1>2, <1>5, <1>6, <1>12, <1>13
<1> QED BY <1>11, <1>12, <1>13, <1>14, <1>15, <1>16

\* A new buffer is filled before anybody knows of it: it makes no difference to
\* the stores that wait.
LEMMA WidenedFacts ==
    ASSUME NEW m \in Memory, NEW items \in Seq(Nat)
    PROVE  LET a == Widened(m, items)
           IN  /\ a \in Memory
               /\ a.back = m.back /\ a.buffer = m.buffer /\ a.global_epoch = m.global_epoch
               /\ Len(a.data) = Len(m.data) + 1 /\ a.data[Len(m.data) + 1] = items
               /\ \A k \in 1 .. Len(m.data) : a.data[k] = m.data[k]
<1> DEFINE a == Widened(m, items)
<1>1. PICK d : d = m.data
  OBVIOUS
<1>2. d \in Seq(Seq(Nat))
  BY <1>1 DEF Memory
<1>3. PICK e : e = Append(d, items)
  OBVIOUS
<1>4. /\ e \in Seq(Seq(Nat)) /\ Len(e) = Len(d) + 1 /\ e[Len(d) + 1] = items
      /\ \A k \in 1 .. Len(d) : e[k] = d[k]
  BY <1>2, <1>3, AppendProperties
<1>5. a = [m EXCEPT !.data = e]
  BY <1>1, <1>3 DEF Widened
<1>6. a \in Memory /\ a.back = m.back /\ a.buffer = m.buffer /\ a.global_epoch = m.global_epoch
      /\ a.data = e
  BY <1>4, <1>5 DEF Memory
<1> HIDE DEF a
<1> QED BY <1>1, <1>4, <1>6 DEF a

LEMMA AppendExcept ==
    ASSUME NEW S, NEW d \in Seq(S), NEW k \in 1 .. Len(d), NEW x \in S, NEW y \in S
    PROVE  Append([d EXCEPT ![k] = x], y) = [Append(d, y) EXCEPT ![k] = x]
<1>1. Len(d) \in Nat
  BY LenProperties
<1>2. PICK e : e = [d EXCEPT ![k] = x]
  OBVIOUS
<1>3. e \in Seq(S) /\ Len(e) = Len(d) /\ \A q \in 1 .. Len(d) : e[q] = IF q = k THEN x ELSE d[q]
  BY <1>2, ExceptSeq
<1>4. PICK a : a = Append(d, y)
  OBVIOUS
<1>5. /\ a \in Seq(S) /\ Len(a) = Len(d) + 1 /\ a[Len(d) + 1] = y
      /\ \A q \in 1 .. Len(d) : a[q] = d[q]
  BY <1>4, AppendProperties
<1>6. PICK z : z = [a EXCEPT ![k] = x]
  OBVIOUS
<1>7. k \in 1 .. Len(a)
  BY <1>1, <1>5
<1>8. z \in Seq(S) /\ Len(z) = Len(d) + 1 /\ \A q \in 1 .. Len(d) + 1 : z[q] = IF q = k THEN x ELSE a[q]
  BY <1>5, <1>6, <1>7, ExceptSeq
<1>9. PICK b : b = Append(e, y)
  OBVIOUS
<1>10. /\ b \in Seq(S) /\ Len(b) = Len(d) + 1 /\ b[Len(d) + 1] = y
       /\ \A q \in 1 .. Len(d) : b[q] = e[q]
  BY <1>3, <1>9, AppendProperties
<1>11. PICK l : l = Len(d)
  OBVIOUS
<1>12. ASSUME NEW q \in 1 .. l + 1 PROVE b[q] = z[q]
  <2>1. q \in 1 .. l \/ (q = l + 1 /\ q # k)
    BY <1>1, <1>11
  <2>2. CASE q \in 1 .. l
    <3>1. q \in 1 .. l + 1
      OBVIOUS
    <3> QED BY <1>3, <1>5, <1>8, <1>10, <1>11, <2>2, <3>1
  <2>3. CASE q = l + 1 /\ q # k
    <3>1. z[q] = a[q]
      BY <1>8, <1>11, <2>3
    <3> QED BY <1>5, <1>10, <1>11, <2>3, <3>1
  <2> QED BY <2>1, <2>2, <2>3
<1>13. b = z
  BY <1>8, <1>10, <1>11, <1>12, SeqEqual
<1> QED BY <1>2, <1>4, <1>6, <1>9, <1>13

LEMMA WidenedApply ==
    ASSUME NEW m \in Memory, NEW items \in Seq(Nat), NEW w \in OwnerStore, Fits(m, w)
    PROVE  Apply(Widened(m, items), w) = Widened(Apply(m, w), items)
<1>1. CASE w \in PlainStore
  <2>1. w.var \in {"back", "buffer", "global_epoch"}
    BY <1>1 DEF PlainStore, Set
  <2>2. \A x : Apply(x, w) = [x EXCEPT ![w.var] = w.val]
    BY <2>1 DEF Apply
  <2> QED BY <2>1, <2>2, ZenonT(40) DEF Widened, Memory
<1>2. CASE w \in DataStore
  <2>1. PICK k \in Nat, j \in Nat, v \in Nat : w = SetData(k, j, v)
    BY <1>2 DEF DataStore
  <2>2. k \in DOMAIN m.data /\ j \in DOMAIN m.data[k] /\ w.var = "data" /\ w.buf = k /\ w.at = j /\ w.val = v
    BY <2>1 DEF SetData, Fits
  <2>3. PICK d : d = m.data
    OBVIOUS
  <2>4. d \in Seq(Seq(Nat)) /\ k \in 1 .. Len(d) /\ Len(d) \in Nat
    BY <2>2, <2>3, LenProperties DEF Memory
  <2>5. PICK x : x = [d[k] EXCEPT ![j] = v]
    OBVIOUS
  <2>6. Append(d, items)[k] = d[k]
    BY <2>4
  <2>7. Append([d EXCEPT ![k] = x], items) = [Append(d, items) EXCEPT ![k] = x]
    <3>1. d[k] \in Seq(Nat)
      BY <2>4, ElementOfSeq
    <3>2. j \in 1 .. Len(d[k])
      BY <2>2, <2>3, <3>1, LenProperties
    <3>3. x \in Seq(Nat)
      BY <2>5, <3>1, <3>2, ExceptSeq
    <3> QED BY <2>4, <3>3, AppendExcept
  <2>8. Apply(m, w) = [m EXCEPT !.data = [d EXCEPT ![k] = x]]
    BY <2>2, <2>3, <2>5 DEF Apply
  <2>9. Widened(m, items) = [m EXCEPT !.data = Append(d, items)]
    BY <2>3 DEF Widened
  <2>10. Apply(Widened(m, items), w) = [Widened(m, items) EXCEPT !.data = [@ EXCEPT ![k][j] = v]]
    BY <2>2 DEF Apply
  <2>11. Apply(Widened(m, items), w) = [m EXCEPT !.data = [Append(d, items) EXCEPT ![k] = x]]
    BY <2>5, <2>6, <2>9, <2>10 DEF Memory
  <2>12. Widened(Apply(m, w), items) = [m EXCEPT !.data = Append([d EXCEPT ![k] = x], items)]
    BY <2>8 DEF Widened, Memory
  <2> QED BY <2>7, <2>11, <2>12
<1> QED BY <1>1, <1>2 DEF OwnerStore

LEMMA ReachedWidened ==
    ASSUME NEW m, NEW s \in Seq(OwnerStore), NEW items \in Seq(Nat), NEW h, h = Reached(m, s),
           \A n \in 0 .. Len(s) : h[n] \in Memory,
           \A n \in 1 .. Len(s) : Fits(h[n - 1], s[n])
    PROVE  Reached(Widened(m, items), s) = [n \in 0 .. Len(s) |-> Widened(h[n], items)]
<1>1. /\ h[0] = m /\ \A n \in 1 .. Len(s) : h[n] = Apply(h[n - 1], s[n])
  BY ReachedFacts
<1>2. Len(s) \in Nat /\ \A n \in 1 .. Len(s) : s[n] \in OwnerStore
  BY LenProperties, ElementOfSeq
<1>3. PICK g : g = [n \in 0 .. Len(s) |-> Widened(h[n], items)]
  OBVIOUS
<1>4. g = [n \in 0 .. Len(s) |-> g[n]] /\ g[0] = Widened(m, items)
  BY <1>1, <1>2, <1>3
<1>5. ASSUME NEW n \in 1 .. Len(s) PROVE g[n] = Apply(g[n - 1], s[n])
  <2>1. PICK k : k = n - 1
    OBVIOUS
  <2>2. k \in 0 .. Len(s) /\ n \in 0 .. Len(s)
    BY <1>2, <2>1
  <2>3. g[n] = Widened(h[n], items) /\ g[k] = Widened(h[k], items)
    BY <1>3, <2>2
  <2>4. h[n] = Apply(h[k], s[n]) /\ Fits(h[k], s[n]) /\ h[k] \in Memory /\ s[n] \in OwnerStore
    BY <1>1, <1>2, <2>1, <2>2
  <2>5. Apply(Widened(h[k], items), s[n]) = Widened(Apply(h[k], s[n]), items)
    BY <2>4, WidenedApply
  <2> QED BY <2>1, <2>3, <2>4, <2>5
<1>6. PICK a : a = Widened(m, items)
  OBVIOUS
<1>7. g = Reached(a, s)
  BY <1>2, <1>4, <1>5, <1>6, ReachedOnly
<1> QED BY <1>3, <1>6, <1>7

LEMMA AlwaysFits ==
    ASSUME MemoryInv
    PROVE  \A n \in 1 .. Waiting : Fits(InMemory[n - 1], sb[Owner][n])
<1> SUFFICES ASSUME NEW n \in 1 .. Waiting, sb[Owner][n].var = "data"
             PROVE  /\ sb[Owner][n].buf \in DOMAIN InMemory[n - 1].data
                    /\ sb[Owner][n].at \in DOMAIN InMemory[n - 1].data[sb[Owner][n].buf]
  BY DEF Fits
<1> USE DEF MemoryInv
<1>1. PICK w : w = sb[Owner][n]
  OBVIOUS
<1>2. PICK m : m = InMemory[n - 1]
  OBVIOUS
<1>3. n - 1 \in 0 .. Waiting
  BY WaitingFacts
<1>4. m \in Memory /\ Len(m.data) = own.buffer
      /\ \A k \in 1 .. own.buffer : Len(m.data[k]) = Capacity(k)
  BY <1>2, <1>3 DEF Buffers
<1>5. own \in Memory /\ Len(own.data) = own.buffer /\ Waiting \in Nat
  <2>1. Waiting \in Nat /\ own = InMemory[Waiting]
    BY WaitingFacts DEF Onward
  <2>2. Waiting \in 0 .. Waiting
    BY <2>1
  <2> QED BY <2>1, <2>2 DEF Buffers
<1>6. w.buf \in DOMAIN own.data /\ w.at \in DOMAIN own.data[w.buf]
  BY <1>1 DEF Buffers, Fits
<1>7. PICK b : b = w.buf
  OBVIOUS
<1>8. PICK d : d = own.data
  OBVIOUS
<1>9. PICK e : e = m.data
  OBVIOUS
<1>10. d \in Seq(Seq(Nat)) /\ e \in Seq(Seq(Nat))
  BY <1>4, <1>5, <1>8, <1>9 DEF Memory
<1>11. b \in 1 .. Len(d) /\ Len(e) = Len(d) /\ b \in DOMAIN e
  BY <1>4, <1>5, <1>6, <1>7, <1>8, <1>9, <1>10, LenProperties
<1>12. d[b] \in Seq(Nat) /\ e[b] \in Seq(Nat) /\ Len(e[b]) = Len(d[b])
  BY <1>4, <1>5, <1>8, <1>9, <1>10, <1>11, ElementOfSeq DEF Capacity
<1>13. DOMAIN e[b] = DOMAIN d[b]
  BY <1>12, LenProperties
<1> QED BY <1>1, <1>2, <1>6, <1>7, <1>8, <1>9, <1>11, <1>13

LEMMA NewBuffer ==
    ASSUME MemoryInv, NEW items \in Seq(Nat), NEW next \in Nat,
           Put(Owner, <<Set("buffer", next)>>), mem' = Widened(mem, items)
    PROVE  /\ Waiting \in Nat /\ Waiting' = Waiting + 1
           /\ \A n \in 0 .. Waiting : InMemory'[n] = Widened(InMemory[n], items)
           /\ InMemory'[Waiting + 1] = [Widened(own, items) EXCEPT !.buffer = next]
           /\ sb'[Owner] \in Seq(OwnerStore) /\ sb'[Owner][Waiting + 1] = Set("buffer", next)
           /\ \A p \in 1 .. Waiting : sb'[Owner][p] = sb[Owner][p]
<1>1. sb[Owner] \in Seq(OwnerStore) /\ sb'[Owner] = sb[Owner] \o <<Set("buffer", next)>>
  BY ThreadFacts DEF Put, Types, StoreBuffers, MemoryInv
<1>2. PICK s : s = sb[Owner]
  OBVIOUS
<1>3. PICK h : h = InMemory
  OBVIOUS
<1>4. PICK m : m = mem
  OBVIOUS
<1>5. PICK w : w = Set("buffer", next)
  OBVIOUS
<1>6. w \in OwnerStore
  BY <1>5 DEF OwnerStore, PlainStore
<1>7. /\ s \in Seq(OwnerStore) /\ s \o <<w>> = Append(s, w) /\ Append(s, w) \in Seq(OwnerStore)
      /\ Len(s) \in Nat /\ Len(Append(s, w)) = Len(s) + 1 /\ Append(s, w)[Len(s) + 1] = w
      /\ \A p \in 1 .. Len(s) : Append(s, w)[p] = s[p]
  BY <1>1, <1>2, <1>6, AppendProperties, LenProperties
<1>8. Waiting = Len(s) /\ Waiting' = Len(s) + 1
  BY <1>1, <1>2, <1>5, <1>7 DEF Waiting
<1>9. PICK a : a = Widened(m, items)
  OBVIOUS
<1>10. PICK g : g = Reached(a, s)
  OBVIOUS
<1>11. g = [n \in 0 .. Len(s) |-> Widened(h[n], items)]
  <2>1. h = Reached(m, s)
    BY <1>2, <1>3, <1>4 DEF InMemory
  <2>2. \A n \in 0 .. Len(s) : h[n] \in Memory
    BY <1>3, <1>8 DEF MemoryInv, Buffers
  <2>3. \A n \in 1 .. Len(s) : Fits(h[n - 1], s[n])
    BY <1>2, <1>3, <1>8, AlwaysFits
  <2> QED BY <1>7, <1>9, <1>10, <2>1, <2>2, <2>3, ReachedWidened
<1>12. Reached(a, Append(s, w))
           = [n \in 0 .. Len(s) + 1 |-> IF n <= Len(s) THEN g[n] ELSE Apply(g[Len(s)], w)]
  BY <1>6, <1>7, <1>10, ReachedAppend
<1>13. InMemory' = Reached(a, Append(s, w))
  BY <1>1, <1>2, <1>4, <1>5, <1>7, <1>9 DEF InMemory
<1>14. PICK k : k = Len(s)
  OBVIOUS
<1>15. k \in Nat /\ Waiting = k /\ k \in 0 .. k
  BY <1>7, <1>8, <1>14
<1>16. /\ \A n \in 0 .. k : InMemory'[n] = Widened(h[n], items)
       /\ InMemory'[k + 1] = Apply(Widened(h[k], items), w)
  BY <1>11, <1>12, <1>13, <1>14, <1>15
<1>17. h[k] = own /\ own \in Memory
  BY <1>3, <1>15 DEF MemoryInv, Onward, Types, Values
<1>18. Apply(Widened(own, items), w) = [Widened(own, items) EXCEPT !.buffer = next]
  <2>1. PICK o : o = Widened(own, items)
    OBVIOUS
  <2>2. o \in Memory
    BY <1>17, <2>1, WidenedFacts
  <2> QED BY <1>5, <2>1, <2>2, ApplyPlain
<1>19. sb'[Owner] = Append(s, w)
  BY <1>1, <1>2, <1>5, <1>7
<1>20. /\ \A n \in 0 .. Waiting : InMemory'[n] = Widened(InMemory[n], items)
       /\ InMemory'[Waiting + 1] = [Widened(own, items) EXCEPT !.buffer = next]
  BY <1>3, <1>15, <1>16, <1>17, <1>18
<1> QED BY <1>2, <1>5, <1>7, <1>8, <1>19, <1>20

-----------------------------------------------------------------------------
(* Types *)

LEMMA ThiefPuts ==
    ASSUME StoreBuffers, NEW t \in Thief, NEW v \in Int, Room(t, 1), Put(t, <<v>>)
    PROVE  StoreBuffers' /\ sb'[Owner] = sb[Owner] /\ sb'[t] = Append(sb[t], v)
           /\ \A u \in Thief : u # t => sb'[u] = sb[u]
<1>1. t \in Thread /\ t # Owner /\ Owner \in Thread /\ \A u \in Thief : u \in Thread
  BY ThreadFacts
<1>2. sb' = [sb EXCEPT ![t] = sb[t] \o <<v>>] /\ sb[t] \in Seq(Int) /\ Len(sb[t]) + 1 <= SbDepth
  BY <1>1 DEF Put, Room, StoreBuffers
<1>3. sb[t] \o <<v>> = Append(sb[t], v) /\ Append(sb[t], v) \in Seq(Int)
      /\ Len(Append(sb[t], v)) = Len(sb[t]) + 1
  BY <1>2, AppendProperties
<1>4. Append(sb[t], v) \in Seq(OwnerStore \cup Int)
  BY <1>2, AppendProperties DEF StoreBuffers
<1>5. PICK s : s = Append(sb[t], v)
  OBVIOUS
<1>6. sb' = [sb EXCEPT ![t] = s] /\ s \in Seq(Int) /\ s \in Seq(OwnerStore \cup Int) /\ Len(s) <= SbDepth
  BY <1>2, <1>3, <1>4, <1>5
<1> QED BY <1>1, <1>5, <1>6 DEF StoreBuffers

LEMMA OwnerPuts ==
    ASSUME StoreBuffers, NEW ws \in Seq(OwnerStore), Room(Owner, Len(ws)), Put(Owner, ws)
    PROVE  StoreBuffers' /\ \A t \in Thief : sb'[t] = sb[t]
<1>1. Owner \in Thread /\ \A u \in Thief : u \in Thread /\ u # Owner
  BY ThreadFacts
<1>2. PICK s : s = sb[Owner] \o ws
  OBVIOUS
<1>3. sb' = [sb EXCEPT ![Owner] = s] /\ sb[Owner] \in Seq(OwnerStore) /\ Len(sb[Owner]) + Len(ws) <= SbDepth
  BY <1>1, <1>2 DEF Put, Room, StoreBuffers
<1>4. s \in Seq(OwnerStore) /\ Len(s) = Len(sb[Owner]) + Len(ws)
  BY <1>2, <1>3, ConcatProperties
<1>5. s \in Seq(OwnerStore \cup Int)
  BY <1>4, SeqMonotonic
<1> QED BY <1>1, <1>3, <1>4, <1>5 DEF StoreBuffers

LEMMA FlushedTypes ==
    ASSUME StoreBuffers, NEW t \in Thread, Flush(t)
    PROVE  StoreBuffers' /\ (t # Owner => sb'[Owner] = sb[Owner])
           /\ \A u \in Thief : u # t => sb'[u] = sb[u]
<1>1. Owner \in Thread /\ \A u \in Thief : u \in Thread /\ u # Owner
  BY ThreadFacts
<1>2. PICK s : s = Tail(sb[t])
  OBVIOUS
<1>3. sb' = [sb EXCEPT ![t] = s] /\ sb[t] # <<>> /\ sb[t] \in Seq(OwnerStore \cup Int)
  BY <1>2 DEF Flush, StoreBuffers
<1>4. s \in Seq(OwnerStore \cup Int) /\ Len(s) = Len(sb[t]) - 1 /\ Len(sb[t]) \in Nat
  BY <1>2, <1>3, HeadTailProperties, LenProperties
<1>5. Len(s) <= SbDepth
  BY <1>4, ThreadFacts DEF StoreBuffers
<1>6. t = Owner => s \in Seq(OwnerStore)
  BY <1>2, <1>3, HeadTailProperties DEF StoreBuffers
<1>7. t \in Thief => s \in Seq(Int)
  BY <1>2, <1>3, HeadTailProperties DEF StoreBuffers
<1> QED BY <1>1, <1>3, <1>4, <1>5, <1>6, <1>7 DEF StoreBuffers

-----------------------------------------------------------------------------
(* Slots *)

LEMMA SlotRange ==
    ASSUME NEW c \in Nat, c >= 1, NEW a \in Int
    PROVE  Slot(a, c) \in 1 .. c
<1>1. a % c \in 0 .. c - 1
  OBVIOUS
<1> QED BY <1>1 DEF Slot

LEMMA DivMod ==
    ASSUME NEW c \in Nat \ {0}, NEW x \in Int
    PROVE  /\ x = c * (x \div c) + (x % c)
           /\ x \div c \in Int
OBVIOUS

\* Fewer indices than slots share none.
LEMMA SlotsApart ==
    ASSUME NEW c \in Nat, c >= 1, NEW a \in Int, NEW b \in Int, a < b, b < a + c
    PROVE  Slot(a, c) # Slot(b, c)
<1>1. a % c \in 0 .. c - 1 /\ b % c \in 0 .. c - 1
  OBVIOUS
<1>2. a % c # b % c
  <2>1. SUFFICES ASSUME a % c = b % c PROVE FALSE
    OBVIOUS
  <2>2. a = c * (a \div c) + (a % c) /\ b = c * (b \div c) + (b % c)
    BY DivMod
  <2>3. PICK p : p = a \div c
    OBVIOUS
  <2>4. PICK q : q = b \div c
    OBVIOUS
  <2>5. p \in Int /\ q \in Int
    BY <2>3, <2>4
  <2>6. b - a = c * q - c * p
    BY <1>1, <2>1, <2>2, <2>3, <2>4, <2>5
  <2>7. b - a = c * (q - p)
    BY <2>5, <2>6
  <2>8. 0 < c * (q - p) /\ c * (q - p) < c
    BY <2>7
  <2> QED BY <2>5, <2>8
<1> QED BY <1>1, <1>2 DEF Slot

LEMMA BufferFacts ==
    ASSUME Values, Buffers, InMemory[Waiting] = own, Waiting \in Nat, NEW k \in 1 .. own.buffer
    PROVE  /\ own.buffer \in Nat /\ own.data \in Seq(Seq(Nat)) /\ Len(own.data) = own.buffer
           /\ DOMAIN own.data = 1 .. own.buffer
           /\ own.data[k] \in Seq(Nat) /\ Capacity(k) \in Nat /\ Capacity(k) >= 1
           /\ DOMAIN own.data[k] = 1 .. Capacity(k)
           /\ \A a \in Int : At(k, a) \in 1 .. Capacity(k) /\ own.data[k][At(k, a)] \in Nat
<1>1. own.buffer \in Nat /\ own.data \in Seq(Seq(Nat))
  BY DEF Values, Memory
<1>2. Waiting \in 0 .. Waiting
  OBVIOUS
<1>3. Len(own.data) = own.buffer
  BY <1>2 DEF Buffers
<1>4. DOMAIN own.data = 1 .. own.buffer
  BY <1>1, <1>3, LenProperties
<1>5. PICK d : d = own.data
  OBVIOUS
<1>6. d[k] \in Seq(Nat)
  BY <1>1, <1>3, <1>5, ElementOfSeq
<1>7. Capacity(k) = Len(d[k]) /\ Len(d[k]) \in Nat /\ DOMAIN d[k] = 1 .. Len(d[k])
  BY <1>5, <1>6, LenProperties DEF Capacity
<1>8. Capacity(k) >= 1
  BY <1>7, ThreadFacts DEF Buffers
<1>9. ASSUME NEW a \in Int PROVE At(k, a) \in 1 .. Capacity(k) /\ d[k][At(k, a)] \in Nat
  <2>1. At(k, a) \in 1 .. Capacity(k)
    BY <1>7, <1>8, SlotRange DEF At
  <2> QED BY <1>6, <1>7, <2>1, ElementOfSeq
<1> QED BY <1>1, <1>3, <1>4, <1>5, <1>6, <1>7, <1>8, <1>9

-----------------------------------------------------------------------------
(* The way of memory is kept *)

\* Whether a store fits depends on the sizes of the buffers alone.
LEMMA SameSizes ==
    ASSUME NEW a \in Memory, NEW b \in Memory, Len(a.data) = Len(b.data),
           \A k \in 1 .. Len(a.data) : Len(a.data[k]) = Len(b.data[k]),
           NEW w, Fits(a, w)
    PROVE  Fits(b, w)
<1> SUFFICES ASSUME w.var = "data"
             PROVE  w.buf \in DOMAIN b.data /\ w.at \in DOMAIN b.data[w.buf]
  BY DEF Fits
<1>1. PICK d : d = a.data
  OBVIOUS
<1>2. PICK e : e = b.data
  OBVIOUS
<1>3. PICK k : k = w.buf
  OBVIOUS
<1>4. d \in Seq(Seq(Nat)) /\ e \in Seq(Seq(Nat)) /\ k \in DOMAIN d /\ w.at \in DOMAIN d[k]
  BY <1>1, <1>2, <1>3 DEF Memory, Fits
<1>5. k \in 1 .. Len(d) /\ Len(d) = Len(e) /\ k \in DOMAIN e
  BY <1>1, <1>2, <1>4, LenProperties
<1>6. d[k] \in Seq(Nat) /\ e[k] \in Seq(Nat) /\ Len(d[k]) = Len(e[k])
  BY <1>1, <1>2, <1>4, <1>5, ElementOfSeq
<1>7. DOMAIN d[k] = DOMAIN e[k]
  BY <1>6, LenProperties
<1> QED BY <1>2, <1>3, <1>4, <1>5, <1>7

LEMMA MemoryFacts ==
    ASSUME MemoryInv
    PROVE  /\ Waiting \in Nat /\ own = InMemory[Waiting] /\ mem = InMemory[0]
           /\ own \in Memory /\ own.buffer \in Nat /\ Len(own.data) = own.buffer
           /\ own.back \in Int /\ own.global_epoch \in Nat
           /\ \A n \in 0 .. Waiting :
                 /\ InMemory[n] \in Memory /\ InMemory[n].back \in Int
                 /\ InMemory[n].global_epoch \in Nat /\ InMemory[n].buffer \in Nat
                 /\ InMemory[n].buffer \in 1 .. own.buffer
                 /\ InMemory[n].global_epoch <= own.global_epoch
           /\ \A k \in 1 .. own.buffer : Capacity(k) \in Nat /\ Capacity(k) >= 1
<1>1. Waiting \in Nat /\ own = InMemory[Waiting] /\ mem = InMemory[0]
  BY WaitingFacts DEF MemoryInv, Onward
<1>2. Waiting \in 0 .. Waiting /\ 0 \in 0 .. Waiting
  BY <1>1
<1>3. own \in Memory /\ own.buffer \in Nat /\ Len(own.data) = own.buffer
      /\ own.back \in Int /\ own.global_epoch \in Nat
  BY <1>1, <1>2 DEF MemoryInv, Buffers, Memory
<1>4. ASSUME NEW n \in 0 .. Waiting
      PROVE  /\ InMemory[n] \in Memory /\ InMemory[n].back \in Int
             /\ InMemory[n].global_epoch \in Nat /\ InMemory[n].buffer \in Nat
             /\ InMemory[n].buffer \in 1 .. own.buffer
             /\ InMemory[n].global_epoch <= own.global_epoch
  <2>1. /\ InMemory[n] \in Memory /\ InMemory[n].back \in Int
        /\ InMemory[n].global_epoch \in Nat /\ InMemory[n].buffer \in Nat
        /\ InMemory[0].buffer \in Nat
    BY <1>2 DEF MemoryInv, Buffers, Memory
  <2>2. 0 <= n /\ n <= Waiting
    BY <1>1
  <2>3. InMemory[0].buffer <= InMemory[n].buffer /\ 1 <= InMemory[0].buffer
    BY <1>2, <2>2 DEF MemoryInv, Onward
  <2>4. InMemory[n].buffer <= own.buffer /\ InMemory[n].global_epoch <= own.global_epoch
    BY <1>1, <1>2, <2>2 DEF MemoryInv, Onward
  <2> QED BY <1>3, <2>1, <2>3, <2>4
<1>5. ASSUME NEW k \in 1 .. own.buffer PROVE Capacity(k) \in Nat /\ Capacity(k) >= 1
  BY <1>1, BufferFacts DEF MemoryInv, Types
<1> QED BY <1>1, <1>3, <1>4, <1>5

\* Steps that store nothing.
LEMMA MemorySame ==
    ASSUME MemoryInv, UNCHANGED <<mem, own>>, sb'[Owner] = sb[Owner]
    PROVE  /\ Buffers' /\ Onward' /\ InMemory' = InMemory /\ Waiting' = Waiting
           /\ \A k : Capacity(k)' = Capacity(k)
<1>1. InMemory' = InMemory /\ Waiting' = Waiting
  BY NoStore
<1>2. \A k : Capacity(k)' = Capacity(k)
  BY DEF Capacity
<1>3. Buffers'
  <2>1. \A p \in 1 .. Waiting : Fits(own, sb[Owner][p])'
    BY DEF MemoryInv, Buffers, Fits
  <2> QED BY <1>1, <1>2, <2>1 DEF MemoryInv, Buffers
<1>4. Onward'
  BY <1>1 DEF MemoryInv, Onward
<1> QED BY <1>1, <1>2, <1>3, <1>4

\* A store of the owner reaches memory.
LEMMA MemoryFlushed ==
    ASSUME MemoryInv, Flush(Owner)
    PROVE  /\ Buffers' /\ Onward' /\ own' = own /\ mem' \in Memory
           /\ Waiting \in Nat /\ Waiting >= 1 /\ Waiting' = Waiting - 1
           /\ \A n \in 0 .. Waiting - 1 : InMemory'[n] = InMemory[n + 1] /\ n + 1 \in 0 .. Waiting
           /\ \A k : Capacity(k)' = Capacity(k)
<1>1. /\ Waiting \in Nat /\ Waiting >= 1 /\ Waiting' = Waiting - 1
      /\ \A n \in 0 .. Waiting - 1 : InMemory'[n] = InMemory[n + 1]
      /\ mem' = InMemory[1]
      /\ \A p \in 1 .. Waiting - 1 : sb'[Owner][p] = sb[Owner][p + 1]
  BY OldestStore DEF MemoryInv
<1>2. own' = own
  BY DEF Flush
<1>3. \A n \in 0 .. Waiting - 1 : n + 1 \in 0 .. Waiting
  BY <1>1
<1>4. \A k : Capacity(k)' = Capacity(k)
  BY <1>2 DEF Capacity
<1>5. mem' \in Memory
  BY <1>1 DEF MemoryInv, Buffers
<1>6. Buffers'
  <2>1. ASSUME NEW p \in 1 .. Waiting' PROVE Fits(own, sb[Owner][p])'
    <3>1. p + 1 \in 1 .. Waiting /\ p \in 1 .. Waiting - 1
      BY <1>1
    <3>2. Fits(own, sb[Owner][p + 1])
      BY <3>1 DEF MemoryInv, Buffers
    <3>3. sb'[Owner][p] = sb[Owner][p + 1]
      BY <1>1, <3>1
    <3> QED BY <1>2, <3>2, <3>3 DEF Fits
  <2>2. ASSUME NEW n \in 0 .. Waiting'
        PROVE  /\ InMemory'[n] \in Memory /\ Len(InMemory'[n].data) = own.buffer
               /\ \A k \in 1 .. own.buffer : Len(InMemory'[n].data[k]) = Capacity(k)
    <3>1. InMemory'[n] = InMemory[n + 1] /\ n + 1 \in 0 .. Waiting
      BY <1>1, <1>3
    <3> QED BY <3>1 DEF MemoryInv, Buffers
  <2> QED BY <1>2, <1>4, <2>1, <2>2 DEF MemoryInv, Buffers
<1>7. Onward'
  <2>1. InMemory'[Waiting'] = own
    <3>1. Waiting' \in 0 .. Waiting - 1 /\ Waiting' + 1 = Waiting
      BY <1>1
    <3> QED BY <1>1, <3>1 DEF MemoryInv, Onward
  <2>2. InMemory'[0].buffer >= 1
    <3>1. 0 \in 0 .. Waiting - 1 /\ 0 + 1 \in 0 .. Waiting
      BY <1>1
    <3>2. InMemory'[0] = InMemory[0 + 1]
      BY <1>1, <3>1
    <3> QED BY <3>1, <3>2, MemoryFacts
  <2>3. ASSUME NEW n1 \in 0 .. Waiting', NEW n2 \in 0 .. Waiting', n1 <= n2
        PROVE  /\ InMemory'[n1].buffer <= InMemory'[n2].buffer
               /\ InMemory'[n1].global_epoch <= InMemory'[n2].global_epoch
    <3>1. n1 + 1 \in 0 .. Waiting /\ n2 + 1 \in 0 .. Waiting /\ n1 + 1 <= n2 + 1
          /\ n1 \in 0 .. Waiting - 1 /\ n2 \in 0 .. Waiting - 1
      BY <1>1, <2>3
    <3>2. InMemory'[n1] = InMemory[n1 + 1] /\ InMemory'[n2] = InMemory[n2 + 1]
      BY <1>1, <3>1
    <3> QED BY <3>1, <3>2 DEF MemoryInv, Onward
  <2>4. ASSUME NEW n \in 1 .. Waiting' PROVE InMemory'[n].buffer <= InMemory'[n - 1].buffer + 1
    <3>1. PICK q : q = n + 1
      OBVIOUS
    <3>2. q \in 1 .. Waiting /\ n \in 0 .. Waiting - 1 /\ n - 1 \in 0 .. Waiting - 1
          /\ (n - 1) + 1 = n /\ q - 1 = n
      BY <1>1, <3>1
    <3>3. InMemory'[n] = InMemory[q] /\ InMemory'[n - 1] = InMemory[n]
      BY <1>1, <3>1, <3>2
    <3>4. InMemory[q].buffer <= InMemory[q - 1].buffer + 1
      BY <3>2 DEF MemoryInv, Onward
    <3> QED BY <3>2, <3>3, <3>4
  <2> QED BY <1>2, <2>1, <2>2, <2>3, <2>4 DEF Onward
<1> QED BY <1>1, <1>2, <1>3, <1>4, <1>5, <1>6, <1>7

\* Stores into the buffers that are there, and of an epoch that does not go back.
LEMMA Extended ==
    ASSUME MemoryInv, NEW j \in Nat, j >= 1, Waiting' = Waiting + j, own' = InMemory'[Waiting + j],
           \A n \in 0 .. Waiting : InMemory'[n] = InMemory[n],
           \A n \in Waiting + 1 .. Waiting + j :
              /\ InMemory'[n] \in Memory /\ InMemory'[n].buffer = own.buffer
              /\ InMemory'[n].global_epoch = own'.global_epoch
              /\ Len(InMemory'[n].data) = own.buffer
              /\ \A k \in 1 .. own.buffer : Len(InMemory'[n].data[k]) = Capacity(k),
           own.global_epoch <= own'.global_epoch,
           \A p \in 1 .. Waiting : sb'[Owner][p] = sb[Owner][p],
           \A p \in Waiting + 1 .. Waiting + j : Fits(own, sb'[Owner][p])
    PROVE  /\ Buffers' /\ Onward' /\ own' \in Memory /\ own'.buffer = own.buffer
           /\ \A k \in 1 .. own.buffer : Capacity(k)' = Capacity(k)
<1>1. PICK l : l = Waiting
  OBVIOUS
<1>2. l \in Nat /\ own = InMemory[l] /\ own \in Memory /\ own.buffer \in Nat /\ own.buffer >= 1
      /\ own.global_epoch \in Nat /\ Len(own.data) = own.buffer
  BY <1>1, MemoryFacts DEF MemoryInv, Buffers
<1>3. \A n \in 0 .. l + j : n \in 0 .. l \/ n \in l + 1 .. l + j
  BY <1>2
<1>4. l + j \in l + 1 .. l + j /\ l + j \in 0 .. l + j /\ 0 \in 0 .. l
  BY <1>2
<1>5. own' \in Memory /\ own'.buffer = own.buffer /\ Len(own'.data) = own.buffer
      /\ \A k \in 1 .. own.buffer : Len(own'.data[k]) = Capacity(k)
  BY <1>1, <1>4
<1>6. \A k \in 1 .. own.buffer : Capacity(k)' = Capacity(k)
  BY <1>5 DEF Capacity
<1>7. own'.global_epoch \in Nat
  BY <1>5 DEF Memory
<1>8. ASSUME NEW n \in 0 .. l + j
      PROVE  /\ InMemory'[n] \in Memory /\ Len(InMemory'[n].data) = own.buffer
             /\ \A k \in 1 .. own.buffer : Len(InMemory'[n].data[k]) = Capacity(k)
             /\ InMemory'[n].buffer \in 1 .. own.buffer /\ InMemory'[n].global_epoch \in Nat
             /\ InMemory'[n].global_epoch <= own'.global_epoch
  <2>1. CASE n \in 0 .. l
    <3>1. /\ InMemory[n] \in Memory /\ Len(InMemory[n].data) = own.buffer
          /\ \A k \in 1 .. own.buffer : Len(InMemory[n].data[k]) = Capacity(k)
      BY <1>1, <2>1 DEF MemoryInv, Buffers
    <3>2. InMemory[n].buffer \in 1 .. own.buffer /\ InMemory[n].global_epoch \in Nat
          /\ InMemory[n].global_epoch <= own.global_epoch
      BY <1>1, <2>1, MemoryFacts
    <3>3. InMemory'[n] = InMemory[n]
      BY <1>1, <2>1
    <3> QED BY <1>2, <1>7, <3>1, <3>2, <3>3
  <2>2. CASE n \in l + 1 .. l + j
    BY <1>1, <1>2, <1>7, <2>2
  <2> QED BY <1>3, <2>1, <2>2
<1>9. Buffers'
  <2>1. ASSUME NEW p \in 1 .. l + j PROVE Fits(own', sb'[Owner][p])
    <3>1. Fits(own, sb'[Owner][p])
      <4>1. p \in 1 .. l \/ p \in l + 1 .. l + j
        BY <1>2
      <4>2. CASE p \in 1 .. l
        BY <1>1, <4>2 DEF MemoryInv, Buffers
      <4>3. CASE p \in l + 1 .. l + j
        BY <1>1, <4>3
      <4> QED BY <4>1, <4>2, <4>3
    <3>2. PICK a : a = own
      OBVIOUS
    <3>3. PICK b : b = own'
      OBVIOUS
    <3>4. PICK w : w = sb'[Owner][p]
      OBVIOUS
    <3>5. \A k \in 1 .. own.buffer : Len(own.data[k]) = Capacity(k)
      BY DEF Capacity
    <3>6. /\ a \in Memory /\ b \in Memory /\ Len(a.data) = Len(b.data)
          /\ \A k \in 1 .. Len(a.data) : Len(a.data[k]) = Len(b.data[k])
      BY <1>2, <1>5, <3>2, <3>3, <3>5, SMTT(30)
    <3> QED BY <3>1, <3>2, <3>3, <3>4, <3>6, SameSizes
  <2>2. /\ \A k \in 1 .. own'.buffer : Capacity(k)' >= Cap0
        /\ \A k \in 2 .. own'.buffer : Capacity(k)' = 2 * Capacity(k - 1)'
    <3>1. \A k \in 2 .. own.buffer : k \in 1 .. own.buffer /\ k - 1 \in 1 .. own.buffer
      BY <1>2
    <3>2. /\ \A k \in 1 .. own.buffer : Capacity(k) >= Cap0
          /\ \A k \in 2 .. own.buffer : Capacity(k) = 2 * Capacity(k - 1)
      BY DEF MemoryInv, Buffers
    <3> QED BY <1>5, <1>6, <3>1, <3>2
  <2>3. \A p \in 1 .. Waiting' : Fits(own, sb[Owner][p])'
    BY <1>1, <2>1 DEF Fits
  <2>4. \A n \in 0 .. Waiting' :
           /\ InMemory'[n] \in Memory /\ Len(InMemory'[n].data) = own'.buffer
           /\ \A k \in 1 .. own'.buffer : Len(InMemory'[n].data[k]) = Capacity(k)'
    BY <1>1, <1>5, <1>6, <1>8
  <2> QED BY <1>2, <1>5, <2>2, <2>3, <2>4 DEF Buffers
<1>10. Onward'
  <2>1. InMemory'[0].buffer >= 1
    BY <1>2, <1>4, <1>8
  <2>2. ASSUME NEW n1 \in 0 .. l + j, NEW n2 \in 0 .. l + j, n1 <= n2
        PROVE  /\ InMemory'[n1].buffer <= InMemory'[n2].buffer
               /\ InMemory'[n1].global_epoch <= InMemory'[n2].global_epoch
    <3>1. CASE n2 \in 0 .. l
      <4>1. n1 \in 0 .. l
        BY <1>2, <2>2, <3>1
      <4>2. /\ InMemory[n1].buffer <= InMemory[n2].buffer
            /\ InMemory[n1].global_epoch <= InMemory[n2].global_epoch
        BY <1>1, <2>2, <3>1, <4>1 DEF MemoryInv, Onward
      <4> QED BY <1>1, <3>1, <4>1, <4>2
    <3>2. CASE n2 \in l + 1 .. l + j
      <4>1. InMemory'[n2].buffer = own.buffer /\ InMemory'[n2].global_epoch = own'.global_epoch
        BY <1>1, <3>2
      <4> QED BY <1>2, <1>8, <4>1
    <3> QED BY <1>3, <3>1, <3>2
  <2>3. ASSUME NEW n \in 1 .. l + j PROVE InMemory'[n].buffer <= InMemory'[n - 1].buffer + 1
    <3>1. PICK q : q = n - 1
      OBVIOUS
    <3>2. q \in 0 .. l + j /\ n \in 0 .. l + j /\ (n \in 0 .. l => n \in 1 .. l /\ q \in 0 .. l)
          /\ (n \in l + 1 .. l + j => q = l \/ q \in l + 1 .. l + j)
      BY <1>2, <3>1
    <3>3. CASE n \in 0 .. l
      <4>1. InMemory[n].buffer <= InMemory[q].buffer + 1
        BY <1>1, <3>1, <3>2, <3>3 DEF MemoryInv, Onward
      <4> QED BY <1>1, <3>1, <3>2, <3>3, <4>1
    <3>4. CASE n \in l + 1 .. l + j
      <4>1. InMemory'[n].buffer = own.buffer
        BY <1>1, <3>4
      <4>2. InMemory'[q].buffer = own.buffer
        <5>1. l \in 0 .. l
          BY <1>2
        <5>2. InMemory'[l].buffer = own.buffer
          BY <1>1, <1>2, <5>1
        <5> QED BY <1>1, <3>2, <3>4, <5>2
      <4> QED BY <1>2, <3>1, <4>1, <4>2
    <3> QED BY <1>3, <3>2, <3>3, <3>4
  <2> QED BY <1>1, <2>1, <2>2, <2>3 DEF Onward
<1> QED BY <1>5, <1>6, <1>9, <1>10

\* The store of back, or of the next epoch.
LEMMA MemoryOne ==
    ASSUME MemoryInv, NEW w, OwnerPut(w), mem' = mem,
           \/ \E v \in Int : w = Set("back", v)
           \/ \E v \in Nat : w = Set("global_epoch", v) /\ own.global_epoch <= v
    PROVE  /\ Buffers' /\ Onward' /\ own' \in Memory /\ StoreBuffers'
           /\ Waiting \in Nat /\ Waiting' = Waiting + 1
           /\ \A n \in 0 .. Waiting : InMemory'[n] = InMemory[n]
           /\ InMemory'[Waiting + 1] = own'
           /\ own' = [own EXCEPT ![w.var] = w.val]
           /\ own'.data = own.data /\ own'.buffer = own.buffer
           /\ \A k : Capacity(k)' = Capacity(k)
           /\ \A t \in Thief : sb'[t] = sb[t]
<1>1. w.var \in {"back", "global_epoch"} /\ w \in OwnerStore
  BY DEF Set, OwnerStore, PlainStore
<1>2. Put(Owner, <<w>>) /\ Room(Owner, 1) /\ own' = [own EXCEPT ![w.var] = w.val]
  BY <1>1 DEF OwnerPut, Apply
<1>3. /\ Waiting \in Nat /\ Waiting' = Waiting + 1
      /\ \A n \in 0 .. Waiting : InMemory'[n] = InMemory[n]
      /\ InMemory'[Waiting + 1] = own'
      /\ sb'[Owner][Waiting + 1] = w
      /\ \A p \in 1 .. Waiting : sb'[Owner][p] = sb[Owner][p]
  <2>1. Types /\ InMemory[Waiting] = own /\ own' = Apply(own, w)
    BY DEF MemoryInv, Onward, OwnerPut
  <2> QED BY <1>1, <1>2, <2>1, OneStore
<1>4. own \in Memory
  BY MemoryFacts
<1>5. own' \in Memory /\ own'.data = own.data /\ own'.buffer = own.buffer
      /\ own'.global_epoch \in Nat /\ own.global_epoch <= own'.global_epoch
  BY <1>1, <1>2, <1>4 DEF Set, Memory
<1>6. \A k : Capacity(k)' = Capacity(k)
  BY <1>5 DEF Capacity
<1>7. Fits(own, w)
  BY <1>1 DEF Fits
<1>8. Len(own'.data) = own.buffer /\ \A k \in 1 .. own.buffer : Len(own'.data[k]) = Capacity(k)
  BY <1>5, MemoryFacts DEF Capacity
<1>9. Buffers' /\ Onward'
  <2>1. \A n \in Waiting + 1 .. Waiting + 1 : n = Waiting + 1
    BY <1>3
  <2>2. PICK j \in Nat : j = 1
    OBVIOUS
  <2> QED BY <1>3, <1>5, <1>7, <1>8, <2>1, <2>2, Extended
<1>10. StoreBuffers' /\ \A t \in Thief : sb'[t] = sb[t]
  <2>1. PICK ws : ws = <<w>>
    OBVIOUS
  <2>2. ws \in Seq(OwnerStore) /\ Len(ws) = 1
    BY <1>1, <2>1
  <2> QED BY <1>2, <2>1, <2>2, OwnerPuts DEF MemoryInv, Types
<1> QED BY <1>2, <1>3, <1>5, <1>6, <1>9, <1>10

\* An item and the new back.
LEMMA MemoryItem ==
    ASSUME MemoryInv, StoreItem, mem' = mem
    PROVE  /\ Buffers' /\ Onward' /\ own' \in Memory /\ StoreBuffers'
           /\ Waiting \in Nat /\ Waiting' = Waiting + 2
           /\ \A n \in 0 .. Waiting : InMemory'[n] = InMemory[n]
           /\ InMemory'[Waiting + 2] = own'
           /\ InMemory'[Waiting + 1].back = own.back /\ InMemory'[Waiting + 1].buffer = own.buffer
           /\ InMemory'[Waiting + 1].global_epoch = own.global_epoch
           /\ InMemory'[Waiting + 1].data = own'.data
           /\ own'.back = own.back + 1 /\ own'.buffer = own.buffer
           /\ own'.global_epoch = own.global_epoch
           /\ \A k \in 1 .. own.buffer :
                 /\ Capacity(k)' = Capacity(k)
                 /\ \A y \in 1 .. Capacity(k) :
                       own'.data[k][y] = IF k = own.buffer /\ y = At(own.buffer, own.back)
                                         THEN pushed + 1 ELSE own.data[k][y]
           /\ \A t \in Thief : sb'[t] = sb[t]
<1>1. PICK b : b = own.buffer
  OBVIOUS
<1>2. PICK y : y = At(own.buffer, own.back)
  OBVIOUS
<1>3. PICK v : v = SetData(b, y, pushed + 1)
  OBVIOUS
<1>4. PICK w : w = Set("back", own.back + 1)
  OBVIOUS
<1>5. PICK a : a = Apply(own, v)
  OBVIOUS
<1>6. Put(Owner, <<v, w>>) /\ Room(Owner, 2) /\ own' = Apply(a, w)
  BY <1>1, <1>2, <1>3, <1>4, <1>5 DEF StoreItem
<1>7. /\ own \in Memory /\ own.back \in Int /\ b \in Nat /\ b \in 1 .. own.buffer /\ b \in 1 .. Len(own.data)
      /\ Waiting \in Nat /\ InMemory[Waiting] = own /\ Types /\ pushed + 1 \in Nat
  BY <1>1, MemoryFacts DEF MemoryInv, Types, Values, Buffers
<1>8. /\ b \in DOMAIN own.data /\ y \in DOMAIN own.data[b] /\ y \in Nat
      /\ DOMAIN own.data = 1 .. own.buffer
      /\ \A k \in 1 .. own.buffer : DOMAIN own.data[k] = 1 .. Capacity(k)
  <2>1. \A k \in 1 .. own.buffer :
           /\ DOMAIN own.data = 1 .. own.buffer /\ DOMAIN own.data[k] = 1 .. Capacity(k)
           /\ At(k, own.back) \in 1 .. Capacity(k) /\ Capacity(k) \in Nat
    BY <1>7, BufferFacts DEF MemoryInv, Types
  <2>2. y = At(b, own.back)
    BY <1>1, <1>2
  <2> QED BY <1>7, <2>1, <2>2
<1>9. v \in OwnerStore /\ w \in OwnerStore
  BY <1>3, <1>4, <1>7, <1>8 DEF OwnerStore, PlainStore, DataStore
<1>10. /\ a \in Memory
       /\ a.back = own.back /\ a.buffer = own.buffer /\ a.global_epoch = own.global_epoch
       /\ Len(a.data) = Len(own.data)
       /\ \A q \in DOMAIN own.data :
             /\ Len(a.data[q]) = Len(own.data[q])
             /\ \A z \in DOMAIN own.data[q] :
                   a.data[q][z] = IF q = b /\ z = y THEN pushed + 1 ELSE own.data[q][z]
  <2>1. PICK o : o = own
    OBVIOUS
  <2>2. PICK x : x = pushed + 1
    OBVIOUS
  <2>3. o \in Memory /\ b \in DOMAIN o.data /\ y \in DOMAIN o.data[b] /\ x \in Nat
    BY <1>7, <1>8, <2>1, <2>2
  <2>4. a = Apply(o, SetData(b, y, x))
    BY <1>3, <1>5, <2>1, <2>2
  <2> QED BY <2>1, <2>2, <2>3, <2>4, ApplyData, SMTT(30)
<1>11. own' = [a EXCEPT !.back = own.back + 1]
  BY <1>4, <1>6, <1>10, ApplyPlain
<1>12. own' \in Memory /\ own'.back = own.back + 1 /\ own'.buffer = own.buffer
       /\ own'.global_epoch = own.global_epoch /\ own'.data = a.data
  <2>1. PICK x : x = own.back + 1
    OBVIOUS
  <2>2. x \in Int /\ a \in Memory /\ own' = [a EXCEPT !.back = x]
    BY <1>7, <1>10, <1>11, <2>1
  <2>3. own' \in Memory /\ own'.back = x /\ own'.buffer = a.buffer
        /\ own'.global_epoch = a.global_epoch /\ own'.data = a.data
    BY <2>2 DEF Memory
  <2> QED BY <1>10, <2>1, <2>3
<1>13. /\ Waiting' = Waiting + 2
       /\ \A n \in 0 .. Waiting : InMemory'[n] = InMemory[n]
       /\ InMemory'[Waiting + 1] = a
       /\ InMemory'[Waiting + 2] = own'
       /\ sb'[Owner][Waiting + 1] = v /\ sb'[Owner][Waiting + 2] = w
       /\ \A p \in 1 .. Waiting : sb'[Owner][p] = sb[Owner][p]
  BY <1>5, <1>6, <1>7, <1>9, TwoStores
<1>14. /\ Len(a.data) = own.buffer
       /\ \A k \in 1 .. own.buffer : Len(a.data[k]) = Capacity(k)
  BY <1>8, <1>10, MemoryFacts DEF Capacity
<1>15. Buffers' /\ Onward'
  <2>1. \A n \in Waiting + 1 .. Waiting + 2 : n = Waiting + 1 \/ n = Waiting + 2
    BY <1>7
  <2>2. Fits(own, v) /\ Fits(own, w)
    BY <1>3, <1>4, <1>8 DEF Fits, SetData, Set
  <2>3. PICK j \in Nat : j = 2
    OBVIOUS
  <2>4. own.global_epoch <= own'.global_epoch
    BY <1>12, MemoryFacts
  <2>5. ASSUME NEW n \in Waiting + 1 .. Waiting + 2
        PROVE  /\ InMemory'[n] \in Memory /\ InMemory'[n].buffer = own.buffer
               /\ InMemory'[n].global_epoch = own'.global_epoch
               /\ Len(InMemory'[n].data) = own.buffer
               /\ \A k \in 1 .. own.buffer : Len(InMemory'[n].data[k]) = Capacity(k)
    BY <1>10, <1>12, <1>13, <1>14, <2>1
  <2>6. \A p \in Waiting + 1 .. Waiting + 2 : Fits(own, sb'[Owner][p])
    BY <1>13, <2>1, <2>2
  <2> QED BY <1>13, <2>3, <2>4, <2>5, <2>6, Extended
<1>16. StoreBuffers' /\ \A t \in Thief : sb'[t] = sb[t]
  <2>1. PICK ws : ws = <<v, w>>
    OBVIOUS
  <2>2. ws \in Seq(OwnerStore) /\ Len(ws) = 2
    BY <1>9, <2>1
  <2> QED BY <1>6, <2>1, <2>2, OwnerPuts DEF MemoryInv, Types
<1>17. ASSUME NEW k \in 1 .. own.buffer
       PROVE  /\ Capacity(k)' = Capacity(k)
              /\ \A z \in 1 .. Capacity(k) :
                    own'.data[k][z] = IF k = b /\ z = y THEN pushed + 1 ELSE own.data[k][z]
  BY <1>8, <1>10, <1>12, <1>14, SMTT(30) DEF Capacity
<1> QED BY <1>1, <1>2, <1>7, <1>10, <1>12, <1>13, <1>15, <1>16, <1>17

\* A bigger buffer holds the items of the smaller one.
LEMMA ResizedFacts ==
    ASSUME MemoryInv, NEW k \in 1 .. own.buffer, NEW f \in Int, NEW b \in Int,
           b - f <= 2 * Capacity(k)
    PROVE  /\ Resized(k, f, b) \in Seq(Nat) /\ Len(Resized(k, f, b)) = 2 * Capacity(k)
           /\ \A i \in f .. b - 1 : Resized(k, f, b)[Slot(i, 2 * Capacity(k))] = own.data[k][At(k, i)]
<1>1. PICK capacity : capacity = 2 * Capacity(k)
  OBVIOUS
<1>2. /\ capacity \in Nat /\ capacity >= 1
      /\ \A i \in Int : own.data[k][At(k, i)] \in Nat
  <2>1. /\ Capacity(k) \in Nat /\ Capacity(k) >= 1
        /\ \A i \in Int : own.data[k][At(k, i)] \in Nat
    BY MemoryFacts, BufferFacts DEF MemoryInv, Types
  <2> QED BY <1>1, <2>1
<1>3. PICK r : r = Resized(k, f, b)
  OBVIOUS
<1> DEFINE From(j) == CHOOSE i \in f .. b - 1 : Slot(i, capacity) = j
           In(j)   == \E i \in f .. b - 1 : Slot(i, capacity) = j
<1>4. r = [j \in 1 .. capacity |-> IF In(j) THEN own.data[k][At(k, From(j))] ELSE 0]
  BY <1>1, <1>3 DEF Resized
<1>5. \A j : In(j) => From(j) \in f .. b - 1 /\ Slot(From(j), capacity) = j
  OBVIOUS
<1>6. ASSUME NEW i \in f .. b - 1
      PROVE  Slot(i, capacity) \in 1 .. capacity /\ From(Slot(i, capacity)) = i /\ In(Slot(i, capacity))
  <2>1. Slot(i, capacity) \in 1 .. capacity
    <3>1. i \in Int
      OBVIOUS
    <3> QED BY <1>2, <3>1, SlotRange
  <2>2. PICK j : j = Slot(i, capacity)
    OBVIOUS
  <2>3. In(j)
    BY <2>2
  <2>4. PICK x : x = From(j)
    OBVIOUS
  <2>5. x \in f .. b - 1 /\ Slot(x, capacity) = Slot(i, capacity)
    BY <1>5, <2>2, <2>3, <2>4
  <2>6. x = i
    <3>1. x \in Int /\ i \in Int /\ x < i + capacity /\ i < x + capacity
      BY <1>1, <1>2, <2>5
    <3>2. ~(x < i) /\ ~(i < x)
      BY <1>2, <2>5, <3>1, SlotsApart
    <3> QED BY <3>1, <3>2
  <2> QED BY <2>1, <2>2, <2>3, <2>4, <2>6
<1>7. \A j \in 1 .. capacity : r[j] \in Nat
  <2>1. \A j : In(j) => From(j) \in Int
    BY <1>5
  <2> HIDE DEF From, In
  <2>2. ASSUME NEW j \in 1 .. capacity PROVE r[j] \in Nat
    <3>1. PICK x : x = From(j)
      OBVIOUS
    <3>2. In(j) => own.data[k][At(k, x)] \in Nat
      BY <1>2, <2>1, <3>1
    <3> QED BY <1>4, <3>1, <3>2
  <2> QED BY <2>2
<1>8. \A i \in f .. b - 1 : r[Slot(i, capacity)] = own.data[k][At(k, i)]
  <2> HIDE DEF From, In
  <2> QED BY <1>4, <1>6
<1>9. r \in Seq(Nat) /\ Len(r) = capacity
  <2>1. r = [j \in 1 .. capacity |-> r[j]]
    BY <1>4
  <2>2. r \in [1 .. capacity -> Nat]
    BY <1>7, <2>1
  <2> QED BY <1>2, <2>2, SeqDef, LenProperties
<1> QED BY <1>1, <1>3, <1>8, <1>9

\* The store of a new buffer, filled.
LEMMA MemoryGrown ==
    ASSUME MemoryInv, NEW grown \in Seq(Nat), Len(grown) = 2 * Capacity(own.buffer), Room(Owner, 1),
           Put(Owner, <<Set("buffer", own.buffer + 1)>>),
           own' = [own EXCEPT !.buffer = own.buffer + 1, !.data = Append(@, grown)],
           mem' = [mem EXCEPT !.data = Append(@, grown)]
    PROVE  /\ Buffers' /\ Onward' /\ own' \in Memory /\ mem' \in Memory /\ StoreBuffers'
           /\ Waiting \in Nat /\ Waiting' = Waiting + 1
           /\ InMemory'[Waiting + 1] = own'
           /\ own'.buffer = own.buffer + 1 /\ own'.back = own.back
           /\ own'.global_epoch = own.global_epoch
           /\ \A n \in 0 .. Waiting :
                 /\ InMemory'[n].back = InMemory[n].back
                 /\ InMemory'[n].buffer = InMemory[n].buffer
                 /\ InMemory'[n].global_epoch = InMemory[n].global_epoch
                 /\ \A k \in 1 .. own.buffer : InMemory'[n].data[k] = InMemory[n].data[k]
           /\ \A n \in 0 .. Waiting + 1 : InMemory'[n].data[own.buffer + 1] = grown
           /\ \A k \in 1 .. own.buffer : own'.data[k] = own.data[k] /\ Capacity(k)' = Capacity(k)
           /\ Capacity(own.buffer)' = 2 * Capacity(own.buffer)
           /\ \A t \in Thief : sb'[t] = sb[t]
<1>1. PICK next : next = own.buffer + 1
  OBVIOUS
<1>2. PICK l : l = Waiting
  OBVIOUS
<1>3. /\ l \in Nat /\ own \in Memory /\ mem \in Memory /\ own.buffer \in Nat /\ own.buffer >= 1 /\ next \in Nat
      /\ Len(own.data) = own.buffer /\ Len(mem.data) = own.buffer /\ own = InMemory[l]
      /\ own.global_epoch \in Nat
  <2>1. 0 \in 0 .. Waiting /\ mem = InMemory[0]
    BY MemoryFacts
  <2>2. Len(mem.data) = own.buffer
    BY <2>1 DEF MemoryInv, Buffers
  <2> QED BY <1>1, <1>2, <2>2, MemoryFacts, SMTT(30) DEF MemoryInv, Buffers, Types, Values
<1>4. mem' = Widened(mem, grown) /\ own' = [Widened(own, grown) EXCEPT !.buffer = next]
  BY <1>1, <1>3 DEF Widened, Memory
<1>5. /\ Waiting' = l + 1
      /\ \A n \in 0 .. l : InMemory'[n] = Widened(InMemory[n], grown)
      /\ InMemory'[l + 1] = own'
      /\ sb'[Owner][l + 1] = Set("buffer", next)
      /\ \A p \in 1 .. l : sb'[Owner][p] = sb[Owner][p]
  <2>1. Put(Owner, <<Set("buffer", next)>>)
    BY <1>1
  <2>2. /\ Waiting' = Waiting + 1
        /\ \A n \in 0 .. Waiting : InMemory'[n] = Widened(InMemory[n], grown)
        /\ InMemory'[Waiting + 1] = [Widened(own, grown) EXCEPT !.buffer = next]
        /\ sb'[Owner][Waiting + 1] = Set("buffer", next)
        /\ \A p \in 1 .. Waiting : sb'[Owner][p] = sb[Owner][p]
    BY <1>3, <1>4, <2>1, NewBuffer
  <2> QED BY <1>2, <1>4, <2>2
<1>6. ASSUME NEW m \in Memory, Len(m.data) = own.buffer
      PROVE  LET a == Widened(m, grown)
             IN  /\ a \in Memory
                 /\ a.back = m.back /\ a.buffer = m.buffer /\ a.global_epoch = m.global_epoch
                 /\ Len(a.data) = next /\ a.data[next] = grown
                 /\ \A k \in 1 .. own.buffer : a.data[k] = m.data[k]
  BY <1>1, <1>6, WidenedFacts
<1>7. /\ own' \in Memory /\ own'.buffer = next /\ own'.back = own.back
      /\ own'.global_epoch = own.global_epoch
      /\ Len(own'.data) = next /\ own'.data[next] = grown
      /\ \A k \in 1 .. own.buffer : own'.data[k] = own.data[k]
  <2>1. PICK a : a = Widened(own, grown)
    OBVIOUS
  <2>2. /\ a \in Memory
        /\ a.back = own.back /\ a.buffer = own.buffer /\ a.global_epoch = own.global_epoch
        /\ Len(a.data) = next /\ a.data[next] = grown
        /\ \A k \in 1 .. own.buffer : a.data[k] = own.data[k]
    BY <1>3, <1>6, <2>1
  <2>3. own' = [a EXCEPT !.buffer = next]
    BY <1>4, <2>1
  <2>4. own' \in Memory /\ own'.buffer = next /\ own'.back = a.back
        /\ own'.global_epoch = a.global_epoch /\ own'.data = a.data
    BY <1>3, <2>2, <2>3 DEF Memory
  <2> QED BY <2>2, <2>4
<1>8. mem' \in Memory
  <2>1. PICK m : m = mem
    OBVIOUS
  <2>2. m \in Memory /\ Len(m.data) = own.buffer
    BY <1>3, <2>1
  <2>3. Widened(m, grown) \in Memory
    BY <1>6, <2>2
  <2> QED BY <1>4, <2>1, <2>3
<1>9. /\ \A k \in 1 .. own.buffer : Capacity(k)' = Capacity(k)
      /\ Capacity(next)' = 2 * Capacity(own.buffer)
  BY <1>7 DEF Capacity
<1>10. ASSUME NEW n \in 0 .. l
       PROVE  /\ InMemory'[n] \in Memory /\ InMemory'[n].back = InMemory[n].back
              /\ InMemory'[n].buffer = InMemory[n].buffer
              /\ InMemory'[n].global_epoch = InMemory[n].global_epoch
              /\ Len(InMemory'[n].data) = next /\ InMemory'[n].data[next] = grown
              /\ \A k \in 1 .. own.buffer : InMemory'[n].data[k] = InMemory[n].data[k]
  <2>1. PICK m : m = InMemory[n]
    OBVIOUS
  <2>2. m \in Memory /\ Len(m.data) = own.buffer
    BY <1>2, <2>1 DEF MemoryInv, Buffers
  <2>3. InMemory'[n] = Widened(m, grown)
    BY <1>5, <2>1
  <2> QED BY <1>6, <2>1, <2>2, <2>3
<1>11. \A n \in 0 .. l + 1 : n \in 0 .. l \/ n = l + 1
  BY <1>3
<1>12. \A k \in 1 .. next : k \in 1 .. own.buffer \/ k = next
  BY <1>1, <1>3
<1>13. \A n \in 0 .. l + 1 :
          /\ InMemory'[n] \in Memory /\ Len(InMemory'[n].data) = next /\ InMemory'[n].data[next] = grown
  BY <1>5, <1>7, <1>10, <1>11
<1>14. Buffers'
  <2>1. ASSUME NEW p \in 1 .. l + 1 PROVE Fits(own', sb'[Owner][p])
    <3>1. CASE p = l + 1
      BY <1>5, <3>1 DEF Fits, Set
    <3>2. CASE p \in 1 .. l
      <4>1. Fits(own, sb[Owner][p]) /\ sb'[Owner][p] = sb[Owner][p]
        BY <1>2, <1>5, <3>2 DEF MemoryInv, Buffers
      <4>2. PICK w : w = sb[Owner][p]
        OBVIOUS
      <4>3. PICK d : d = own.data
        OBVIOUS
      <4>4. d \in Seq(Seq(Nat)) /\ own'.data \in Seq(Seq(Nat))
        BY <1>3, <1>7, <4>3 DEF Memory
      <4>5. DOMAIN d = 1 .. own.buffer /\ DOMAIN own'.data = 1 .. next
        BY <1>3, <1>7, <4>3, <4>4, LenProperties
      <4>6. w.var = "data" => w.buf \in 1 .. own.buffer /\ w.at \in DOMAIN own.data[w.buf]
        BY <4>1, <4>2, <4>3, <4>5 DEF Fits
      <4>7. w.var = "data" => w.buf \in 1 .. next /\ w.at \in DOMAIN own'.data[w.buf]
        BY <1>1, <1>3, <1>7, <4>6
      <4> QED BY <4>1, <4>2, <4>5, <4>7 DEF Fits
    <3>3. p = l + 1 \/ p \in 1 .. l
      BY <1>3
    <3> QED BY <3>1, <3>2, <3>3
  <2>2. ASSUME NEW k \in 1 .. next
        PROVE  Capacity(k)' >= Cap0 /\ (k \in 2 .. next => Capacity(k)' = 2 * Capacity(k - 1)')
    <3>1. CASE k \in 1 .. own.buffer
      <4>1. k \in 2 .. next => k \in 2 .. own.buffer /\ k - 1 \in 1 .. own.buffer
        BY <1>3, <3>1
      <4>2. Capacity(k) >= Cap0 /\ (k \in 2 .. own.buffer => Capacity(k) = 2 * Capacity(k - 1))
        BY <3>1 DEF MemoryInv, Buffers
      <4> QED BY <1>9, <3>1, <4>1, <4>2
    <3>2. CASE k = next
      <4>1. k - 1 = own.buffer /\ own.buffer \in 1 .. own.buffer
        BY <1>1, <1>3, <3>2
      <4>2. Capacity(k)' = 2 * Capacity(own.buffer) /\ Capacity(k - 1)' = Capacity(own.buffer)
        BY <1>9, <3>2, <4>1
      <4>3. Capacity(own.buffer) >= Cap0 /\ Capacity(own.buffer) \in Nat
        BY <4>1, MemoryFacts DEF MemoryInv, Buffers
      <4> QED BY <4>2, <4>3, ThreadFacts
    <3> QED BY <1>12, <3>1, <3>2
  <2>3. ASSUME NEW n \in 0 .. l + 1, NEW k \in 1 .. next
        PROVE  Len(InMemory'[n].data[k]) = Capacity(k)'
    <3>1. CASE k = next
      BY <1>9, <1>13, <3>1
    <3>2. CASE k \in 1 .. own.buffer
      <4>1. CASE n \in 0 .. l
        <5>1. Len(InMemory[n].data[k]) = Capacity(k)
          BY <1>2, <3>2, <4>1 DEF MemoryInv, Buffers
        <5> QED BY <1>9, <1>10, <3>2, <4>1, <5>1
      <4>2. CASE n = l + 1
        BY <1>5, <1>7, <1>9, <3>2, <4>2 DEF Capacity
      <4> QED BY <1>11, <4>1, <4>2
    <3> QED BY <1>12, <3>1, <3>2
  <2>4. next >= 1 /\ \A k \in 2 .. next : k \in 1 .. next
    BY <1>1, <1>3
  <2>5. \A p \in 1 .. Waiting' : Fits(own, sb[Owner][p])'
    BY <1>5, <2>1 DEF Fits
  <2>6. /\ \A k \in 1 .. next : Capacity(k)' >= Cap0
        /\ \A k \in 2 .. next : Capacity(k)' = 2 * Capacity(k - 1)'
    BY <2>2, <2>4
  <2>7. \A n \in 0 .. Waiting' :
           /\ InMemory'[n] \in Memory /\ Len(InMemory'[n].data) = next
           /\ \A k \in 1 .. next : Len(InMemory'[n].data[k]) = Capacity(k)'
    BY <1>5, <1>13, <2>3
  <2> QED BY <1>7, <2>4, <2>5, <2>6, <2>7 DEF Buffers
<1>15. Onward'
  <2>1. ASSUME NEW n \in 0 .. l
        PROVE  /\ InMemory'[n].buffer \in 1 .. own.buffer /\ InMemory'[n].global_epoch \in Nat
               /\ InMemory'[n].global_epoch <= own.global_epoch
    BY <1>2, <1>10, MemoryFacts
  <2>2. InMemory'[0].buffer >= 1
    BY <1>3, <2>1
  <2>3. ASSUME NEW n1 \in 0 .. l + 1, NEW n2 \in 0 .. l + 1, n1 <= n2
        PROVE  /\ InMemory'[n1].buffer <= InMemory'[n2].buffer
               /\ InMemory'[n1].global_epoch <= InMemory'[n2].global_epoch
    <3>1. CASE n2 \in 0 .. l
      <4>1. n1 \in 0 .. l
        BY <1>3, <2>3, <3>1
      <4>2. /\ InMemory[n1].buffer <= InMemory[n2].buffer
            /\ InMemory[n1].global_epoch <= InMemory[n2].global_epoch
        BY <1>2, <2>3, <3>1, <4>1 DEF MemoryInv, Onward
      <4> QED BY <1>10, <3>1, <4>1, <4>2
    <3>2. CASE n2 = l + 1
      <4>1. InMemory'[n2].buffer = next /\ InMemory'[n2].global_epoch = own.global_epoch
        BY <1>5, <1>7, <3>2
      <4>2. CASE n1 = l + 1
        BY <1>1, <1>3, <3>2, <4>1, <4>2
      <4>3. CASE n1 \in 0 .. l
        BY <1>1, <1>3, <2>1, <4>1, <4>3, SMTT(30)
      <4> QED BY <1>11, <4>2, <4>3
    <3> QED BY <1>11, <3>1, <3>2
  <2>4. ASSUME NEW n \in 1 .. l + 1 PROVE InMemory'[n].buffer <= InMemory'[n - 1].buffer + 1
    <3>1. PICK q : q = n - 1
      OBVIOUS
    <3>2. q \in 0 .. l /\ (n # l + 1 => n \in 1 .. l /\ n \in 0 .. l) /\ (n = l + 1 => q = l)
      BY <1>3, <3>1, SMTT(30)
    <3>3. CASE n # l + 1
      <4>1. InMemory[n].buffer <= InMemory[q].buffer + 1
        BY <1>2, <3>1, <3>2, <3>3 DEF MemoryInv, Onward
      <4> QED BY <1>10, <3>1, <3>2, <3>3, <4>1
    <3>4. CASE n = l + 1
      <4>1. InMemory'[n].buffer = next /\ InMemory'[q].buffer = own.buffer
        BY <1>3, <1>5, <1>7, <1>10, <3>2, <3>4
      <4> QED BY <1>1, <1>3, <3>1, <4>1
    <3> QED BY <3>3, <3>4
  <2> QED BY <1>5, <2>2, <2>3, <2>4 DEF Onward
<1>16. StoreBuffers' /\ \A t \in Thief : sb'[t] = sb[t]
  <2>1. PICK ws : ws = <<Set("buffer", next)>>
    OBVIOUS
  <2>2. ws \in Seq(OwnerStore) /\ Len(ws) = 1
    BY <1>3, <2>1 DEF OwnerStore, PlainStore
  <2> QED BY <1>1, <2>1, <2>2, OwnerPuts DEF MemoryInv, Types
<1>17. /\ Waiting \in Nat /\ Waiting' = Waiting + 1 /\ InMemory'[Waiting + 1] = own'
       /\ own'.buffer = own.buffer + 1
       /\ Capacity(own.buffer)' = 2 * Capacity(own.buffer)
  <2>1. Capacity(next)' = Capacity(own.buffer)'
    BY <1>7 DEF Capacity
  <2> QED BY <1>1, <1>2, <1>3, <1>5, <1>7, <1>9, <2>1
<1>18. \A n \in 0 .. Waiting + 1 : InMemory'[n].data[own.buffer + 1] = grown
  BY <1>1, <1>2, <1>13
<1>19. \A n \in 0 .. Waiting :
          /\ InMemory'[n].back = InMemory[n].back
          /\ InMemory'[n].buffer = InMemory[n].buffer
          /\ InMemory'[n].global_epoch = InMemory[n].global_epoch
          /\ \A k \in 1 .. own.buffer : InMemory'[n].data[k] = InMemory[n].data[k]
  BY <1>2, <1>10
<1>20. \A k \in 1 .. own.buffer : own'.data[k] = own.data[k] /\ Capacity(k)' = Capacity(k)
  BY <1>7, <1>9
<1> QED BY <1>7, <1>8, <1>14, <1>15, <1>16, <1>17, <1>18, <1>19, <1>20

-----------------------------------------------------------------------------
(* The deque is kept *)

\* A step after which every state that memory passes through shows what an
\* earlier one showed, or the newest, keeps what thieves rely on.
LEMMA Kept ==
    ASSUME MemoryInv, DequeInv, MemoryInv', own.buffer <= own'.buffer,
           front <= front', front' = front /\ front < Top => front < Top',
           NEW o \in [0 .. Waiting' -> 0 .. Waiting],
           \A n1, n2 \in 0 .. Waiting' : n1 <= n2 => o[n1] <= o[n2],
           \A i \in front .. Top - 1 : Item(i)' = Item(i),
           \A n \in 0 .. Waiting', k \in 1 .. own.buffer, i \in front .. Top - 1 :
              Shows(o[n], k, i) => Shows(n, k, i)',
           \A n \in 0 .. Waiting' :
              \/ InMemory'[n].buffer = InMemory[o[n]].buffer
              \/ \A n1 \in 0 .. Waiting', i \in front .. Top - 1 : \A k :
                    k = InMemory'[n].buffer => Shows(n1, k, i)',
           \A n \in 0 .. Waiting' :
              \/ InMemory'[n].back = InMemory[o[n]].back
              \/ \A n1, n2 \in 0 .. Waiting', i \in front' .. InMemory'[n].back - 1 : \A k :
                    n <= n1 /\ n <= n2 /\ k = InMemory'[n2].buffer => Shows(n1, k, i)'
    PROVE  Published' /\ \A t \in Thief : pc'[t] = pc[t] /\ loc'[t] = loc[t] => Theft(t)'
<1>1. /\ Waiting \in Nat /\ Waiting' \in Nat /\ front \in Nat /\ front' \in Nat /\ Top \in Int
      /\ own.buffer \in Nat /\ own'.buffer \in Nat
      /\ \A n \in 0 .. Waiting : InMemory[n].buffer \in 1 .. own.buffer /\ InMemory[n].back \in Int
      /\ \A n \in 0 .. Waiting' : InMemory'[n].back \in Int
  <2>1. Waiting' \in Nat /\ own'.buffer \in Nat /\ \A n \in 0 .. Waiting' : InMemory'[n].back \in Int
    <3>1. Types' /\ Buffers' /\ Onward'
      BY DEF MemoryInv
    <3>2. sb'[Owner] \in Seq(OwnerStore) /\ own' \in Memory /\ front' \in Nat
      BY <3>1 DEF Types, StoreBuffers, Values
    <3>3. Waiting' \in Nat
      BY <3>2, LenProperties DEF Waiting
    <3> QED BY <3>1, <3>2, <3>3 DEF Memory, Buffers
  <2>2. front' \in Nat /\ front \in Nat
    BY DEF MemoryInv, Types, Values
  <2> QED BY <2>1, <2>2, MemoryFacts DEF Top
<1>2. ASSUME NEW n1 \in 0 .. Waiting', NEW n2 \in 0 .. Waiting', NEW i \in front .. Top - 1, NEW k,
             k = InMemory'[n2].buffer, NEW q, q = InMemory[o[n2]].buffer, Shows(o[n1], q, i)
      PROVE  Shows(n1, k, i)'
  <2>1. CASE InMemory'[n2].buffer = InMemory[o[n2]].buffer
    <3>1. k = q /\ k \in 1 .. own.buffer
      BY <1>1, <1>2, <2>1
    <3> QED BY <1>2, <3>1
  <2>2. CASE InMemory'[n2].buffer # InMemory[o[n2]].buffer
    BY <1>2, <2>2
  <2> QED BY <2>1, <2>2
<1>3. Published'
  <2>1. SUFFICES ASSUME NEW n \in 0 .. Waiting', NEW n1 \in 0 .. Waiting', NEW n2 \in 0 .. Waiting',
                        n <= n1, n <= n2, NEW i \in front' .. InMemory'[n].back - 1, NEW k,
                        k = InMemory'[n2].buffer
                 PROVE  Shows(n1, k, i)'
    BY DEF Published, Shows
  <2>2. CASE InMemory'[n].back = InMemory[o[n]].back
    <3>1. o[n] \in 0 .. Waiting /\ o[n1] \in 0 .. Waiting /\ o[n2] \in 0 .. Waiting
          /\ o[n] <= o[n1] /\ o[n] <= o[n2]
      BY <2>1
    <3>2. InMemory[o[n]].back <= Top
      BY <3>1 DEF DequeInv, Ends
    <3>3. i \in front .. Top - 1 /\ i \in front .. InMemory[o[n]].back - 1
      <4>1. PICK x : x = InMemory[o[n]].back
        OBVIOUS
      <4>2. x \in Int /\ x <= Top /\ InMemory'[n].back = x /\ i \in front' .. x - 1
        BY <1>1, <2>1, <2>2, <3>1, <3>2, <4>1
      <4>3. front' \in Nat /\ front \in Nat /\ front <= front' /\ Top \in Int
        BY <1>1
      <4>4. i \in Int /\ front' <= i /\ i <= x - 1
        BY <4>2, <4>3
      <4>5. i \in front .. Top - 1 /\ i \in front .. x - 1
        BY <4>2, <4>3, <4>4
      <4> QED BY <4>1, <4>5
    <3>4. PICK q : q = InMemory[o[n2]].buffer
      OBVIOUS
    <3>5. Shows(o[n1], q, i)
      BY <3>1, <3>3, <3>4 DEF DequeInv, Published
    <3> QED BY <1>2, <2>1, <3>3, <3>4, <3>5
  <2>3. CASE InMemory'[n].back # InMemory[o[n]].back
    BY <2>1, <2>3
  <2> QED BY <2>2, <2>3
<1>4. ASSUME NEW t \in Thief, pc'[t] = pc[t], loc'[t] = loc[t] PROVE Theft(t)'
  <2>1. loc[t].f \in Nat /\ loc[t].buf \in Nat /\ Theft(t)
    BY DEF MemoryInv, Types, Places, Local, DequeInv, Thieves
  <2>2. pc'[t] # "idle" => loc'[t].f <= front'
    BY <1>1, <1>4, <2>1 DEF Theft
  <2>3. pc'[t] = "steal_data" => loc'[t].buf \in 1 .. own'.buffer
    BY <1>1, <1>4, <2>1 DEF Theft
  <2>4. ASSUME Chosen(t)' PROVE Chosen(t) /\ front' = front
    BY <1>1, <1>4, <2>1, <2>4 DEF Chosen, Theft
  <2>5. ASSUME Chosen(t)'
        PROVE  /\ front' < Top'
               /\ \A n1, n2 \in 0 .. Waiting' : Shows(n1, InMemory[n2].buffer, front)'
               /\ pc'[t] = "steal_data" => \A n \in 0 .. Waiting' : Shows(n, loc[t].buf, front)'
               /\ pc'[t] = "steal_cas" => loc'[t].value = Item(front)'
    <3> PICK i : i = front
      OBVIOUS
    <3>1. /\ front' = front /\ front < Top /\ i \in front .. Top - 1
          /\ \A n1, n2 \in 0 .. Waiting : Shows(n1, InMemory[n2].buffer, i)
          /\ pc[t] = "steal_data" => \A n \in 0 .. Waiting : Shows(n, loc[t].buf, i)
          /\ pc[t] = "steal_cas" => loc[t].value = Item(i)
      BY <1>1, <2>1, <2>4, <2>5 DEF Theft
    <3>2. ASSUME NEW n1 \in 0 .. Waiting', NEW n2 \in 0 .. Waiting'
          PROVE  Shows(n1, InMemory[n2].buffer, front)'
      <4>1. PICK k : k = InMemory'[n2].buffer
        OBVIOUS
      <4>2. PICK q : q = InMemory[o[n2]].buffer
        OBVIOUS
      <4>3. Shows(o[n1], q, i)
        BY <3>1, <4>2
      <4>4. Shows(n1, k, i)'
        BY <1>2, <3>1, <4>1, <4>2, <4>3
      <4> QED BY <3>1, <4>1, <4>4 DEF Shows
    <3>3. ASSUME pc'[t] = "steal_data", NEW n \in 0 .. Waiting' PROVE Shows(n, loc[t].buf, front)'
      <4>1. PICK k : k = loc[t].buf
        OBVIOUS
      <4>2. k \in 1 .. own.buffer /\ Shows(o[n], k, i)
        BY <1>4, <2>1, <3>1, <3>3, <4>1 DEF Theft
      <4>3. Shows(n, k, i)'
        BY <3>1, <4>2
      <4> QED BY <1>4, <3>1, <4>1, <4>3 DEF Shows
    <3>4. ASSUME pc'[t] = "steal_cas" PROVE loc'[t].value = Item(front)'
      <4>1. Item(i)' = Item(i)
        BY <3>1
      <4> QED BY <1>4, <3>1, <3>4, <4>1 DEF Item
    <3> QED BY <3>1, <3>2, <3>3, <3>4
  <2> QED BY <2>2, <2>3, <2>5 DEF Theft
<1> QED BY <1>3, <1>4

\* What the deque holds, the items handed out and the items pushed stay.
Stays == /\ UNCHANGED <<front, pushed, taken>> /\ Top' = Top
         /\ \A i \in front .. Top - 1 : Item(i)' = Item(i)

\* The first or the last item is handed out, or the next one is pushed.
TakesFirst == /\ front < Top /\ front' = front + 1 /\ Top' = Top /\ pushed' = pushed
              /\ taken' = taken \cup {Item(front)}
              /\ \A i \in front .. Top - 1 : Item(i)' = Item(i)
TakesLast  == /\ front < Top /\ front' = front /\ Top' = Top - 1 /\ pushed' = pushed
              /\ taken' = taken \cup {Item(Top - 1)}
              /\ \A i \in front .. Top - 1 : Item(i)' = Item(i)
Adds       == /\ UNCHANGED <<front, taken>> /\ Top' = Top + 1 /\ pushed' = pushed + 1
              /\ pushed < MaxItems
              /\ \A i \in front .. Top - 1 : Item(i)' = Item(i)
              /\ \A i : i = Top => Item(i)' = pushed + 1

LEMMA ThiefMoves ==
    ASSUME Places, NEW t \in Thief, NEW label \in ThiefAt, Goto(t, label), loc' \in [Thief -> Local]
    PROVE  /\ Places' /\ pc'[t] = label /\ pc'[Owner] = pc[Owner]
           /\ \A u \in Thief : u # t => pc'[u] = pc[u]
<1>1. pc' = [pc EXCEPT ![t] = label] /\ Owner \in Thread /\ t \in Thread /\ t # Owner
      /\ \A u \in Thief : u \in Thread
  BY ThreadFacts DEF Goto
<1> QED BY <1>1 DEF Places

LEMMA OwnerMoves ==
    ASSUME Places, NEW label \in OwnerAt, Goto(Owner, label), loc' = loc
    PROVE  /\ Places' /\ pc'[Owner] = label
           /\ \A u \in Thief : pc'[u] = pc[u] /\ loc'[u] = loc[u]
<1>1. pc' = [pc EXCEPT ![Owner] = label] /\ Owner \in Thread /\ \A u \in Thief : u \in Thread /\ u # Owner
  BY ThreadFacts DEF Goto
<1> QED BY <1>1 DEF Places

\* Steps that touch nothing of the deque.
LEMMA QuietKept ==
    ASSUME MemoryInv, DequeInv, Types', UNCHANGED <<front, mem, own, pushed, taken>>,
           sb'[Owner] = sb[Owner],
           pc'[Owner] = pc[Owner] \/ {pc[Owner], pc'[Owner]} \subseteq {"scan", "advance", "store"}
    PROVE  /\ MemoryInv' /\ Stays /\ Ends' /\ Published'
           /\ \A t \in Thief : pc'[t] = pc[t] /\ loc'[t] = loc[t] => Theft(t)'
           /\ InMemory' = InMemory /\ Waiting' = Waiting
           /\ \A n, k, i : Shows(n, k, i)' = Shows(n, k, i)
<1>1. /\ Buffers' /\ Onward' /\ InMemory' = InMemory /\ Waiting' = Waiting
      /\ \A k : Capacity(k)' = Capacity(k)
  BY MemorySame
<1>2. MemoryInv'
  BY <1>1 DEF MemoryInv
<1>3. Top' = Top
  BY DEF Top
<1>4. \A n, k, i : Item(i)' = Item(i) /\ Shows(n, k, i)' = Shows(n, k, i)
  BY <1>1 DEF Shows, Item, At, Capacity
<1>5. Stays
  BY <1>3, <1>4 DEF Stays
<1>6. Ends'
  <2>1. Capacity(own.buffer)' = Capacity(own.buffer)
    BY DEF Capacity
  <2> QED BY <1>1, <1>3, <1>4, <2>1 DEF DequeInv, Ends
<1>7. Published' /\ \A t \in Thief : pc'[t] = pc[t] /\ loc'[t] = loc[t] => Theft(t)'
  <2>1. PICK o : o = [n \in 0 .. Waiting |-> n]
    OBVIOUS
  <2>2. o \in [0 .. Waiting' -> 0 .. Waiting] /\ \A n \in 0 .. Waiting' : o[n] = n
    BY <1>1, <2>1
  <2>3. \A n1, n2 \in 0 .. Waiting' : n1 <= n2 => o[n1] <= o[n2]
    BY <2>2
  <2>4. front <= front' /\ own.buffer <= own'.buffer
    BY MemoryFacts DEF MemoryInv, Types, Values
  <2>5. front' = front /\ front < Top => front < Top'
    BY <1>3
  <2>6. \A i \in front .. Top - 1 : Item(i)' = Item(i)
    BY <1>4
  <2>7. \A n \in 0 .. Waiting', k \in 1 .. own.buffer, i \in front .. Top - 1 :
           Shows(o[n], k, i) => Shows(n, k, i)'
    BY <1>4, <2>2
  <2>8. \A n \in 0 .. Waiting' : /\ InMemory'[n].buffer = InMemory[o[n]].buffer
                                 /\ InMemory'[n].back = InMemory[o[n]].back
    BY <1>1, <2>2
  <2> QED BY <1>2, <2>2, <2>3, <2>4, <2>5, <2>6, <2>7, <2>8, Kept
<1> QED BY <1>1, <1>2, <1>4, <1>5, <1>6, <1>7

\* A step of a thief that is not its compare-exchange.
LEMMA ThiefQuiet ==
    ASSUME MemoryInv, DequeInv, NEW t \in Thief, NEW label \in ThiefAt, Goto(t, label),
           NEW x \in Local, loc' = [loc EXCEPT ![t] = x],
           StoreBuffers', sb'[Owner] = sb[Owner],
           UNCHANGED <<front, mem, own, local_epochs, retired, freed, slot, pushed, taken>>
    PROVE  /\ MemoryInv' /\ Stays /\ pc'[t] = label /\ pc'[Owner] = pc[Owner] /\ loc'[t] = x
           /\ \A u \in Thief : u # t => pc'[u] = pc[u] /\ loc'[u] = loc[u]
           /\ InMemory' = InMemory /\ Waiting' = Waiting /\ Top' = Top
           /\ \A n, k, i : Shows(n, k, i)' = Shows(n, k, i)
           /\ Theft(t)' => DequeInv'
<1>1. loc \in [Thief -> Local] /\ Places
  BY DEF MemoryInv, Types, Places
<1>2. /\ loc' \in [Thief -> Local] /\ loc'[t] = x
      /\ \A u \in Thief : u # t => loc'[u] = loc[u]
  BY <1>1
<1>3. /\ Places' /\ pc'[t] = label /\ pc'[Owner] = pc[Owner]
      /\ \A u \in Thief : u # t => pc'[u] = pc[u]
  BY <1>1, <1>2, ThiefMoves
<1>4. Types'
  <2>1. Values'
    BY DEF MemoryInv, Types, Values
  <2> QED BY <1>3, <2>1 DEF Types
<1>5. /\ MemoryInv' /\ Stays /\ Ends' /\ Published'
      /\ \A u \in Thief : pc'[u] = pc[u] /\ loc'[u] = loc[u] => Theft(u)'
      /\ InMemory' = InMemory /\ Waiting' = Waiting
      /\ \A n, k, i : Shows(n, k, i)' = Shows(n, k, i)
  BY <1>3, <1>4, QuietKept
<1>6. \A u \in Thief : u # t => Theft(u)'
  BY <1>2, <1>3, <1>5
<1>7. Theft(t)' => DequeInv'
  BY <1>5, <1>6 DEF DequeInv, Thieves
<1> QED BY <1>2, <1>3, <1>5, <1>6, <1>7 DEF Stays

\* What makes its next place right for a thief when nothing else moved.
LEMMA TheftStep ==
    ASSUME NEW t \in Thief, UNCHANGED <<front, own>>, Top' = Top,
           InMemory' = InMemory, Waiting' = Waiting,
           \A n, k, i : Shows(n, k, i)' = Shows(n, k, i),
           pc'[t] = "idle" \/ loc'[t].f <= front,
           pc'[t] = "steal_data" => loc'[t].buf \in 1 .. own.buffer,
           Chosen(t)' =>
              /\ front < Top
              /\ \A n1, n2 \in 0 .. Waiting : Shows(n1, InMemory[n2].buffer, front)
              /\ pc'[t] = "steal_data" => \A n \in 0 .. Waiting : Shows(n, loc'[t].buf, front)
              /\ pc'[t] = "steal_cas" => loc'[t].value = Item(front)
    PROVE  Theft(t)'
<1> SUFFICES ASSUME Chosen(t)'
             PROVE  /\ \A n1, n2 \in 0 .. Waiting' : Shows(n1, InMemory[n2].buffer, front)'
                    /\ pc'[t] = "steal_data" => \A n \in 0 .. Waiting' : Shows(n, loc[t].buf, front)'
                    /\ pc'[t] = "steal_cas" => loc'[t].value = Item(front)'
  BY DEF Theft
<1>1. PICK i : i = front
  OBVIOUS
<1>2. ASSUME NEW n1 \in 0 .. Waiting', NEW n2 \in 0 .. Waiting'
      PROVE  Shows(n1, InMemory[n2].buffer, front)'
  <2>1. PICK k : k = InMemory[n2].buffer
    OBVIOUS
  <2>2. Shows(n1, k, i) /\ k = InMemory'[n2].buffer /\ i = front'
    BY <1>1, <2>1
  <2>3. Shows(n1, k, i)'
    BY <2>2
  <2> QED BY <2>2, <2>3 DEF Shows
<1>3. ASSUME pc'[t] = "steal_data", NEW n \in 0 .. Waiting' PROVE Shows(n, loc[t].buf, front)'
  <2>1. PICK k : k = loc'[t].buf
    OBVIOUS
  <2>2. Shows(n, k, i) /\ i = front'
    BY <1>1, <1>3, <2>1
  <2>3. Shows(n, k, i)'
    BY <2>2
  <2> QED BY <2>1, <2>2, <2>3 DEF Shows
<1>4. pc'[t] = "steal_cas" => loc'[t].value = Item(front)'
  BY DEF Item, At, Capacity
<1> QED BY <1>2, <1>3, <1>4

LEMMA LoadFrontKept ==
    ASSUME MemoryInv, DequeInv, NEW t \in Thief, StealLoadFront(t)
    PROVE  MemoryInv' /\ DequeInv' /\ Stays
<1>1. loc[t] \in Local /\ loc \in [Thief -> Local] /\ front \in Nat
  BY DEF MemoryInv, Types, Places, Values
<1>2. PICK x : x = [loc[t] EXCEPT !.f = front]
  OBVIOUS
<1>3. x \in Local /\ x.f = front /\ loc' = [loc EXCEPT ![t] = x]
  BY <1>1, <1>2 DEF StealLoadFront, Locals, Local
<1>4. /\ Goto(t, "steal_back") /\ "steal_back" \in ThiefAt /\ StoreBuffers' /\ sb'[Owner] = sb[Owner]
      /\ UNCHANGED <<front, mem, own, local_epochs, retired, freed, slot, pushed, taken>>
  BY DEF StealLoadFront, ThiefAt, MemoryInv, Types, StoreBuffers
<1>5. MemoryInv' /\ Stays /\ pc'[t] = "steal_back" /\ loc'[t] = x /\ (Theft(t)' => DequeInv')
  BY <1>3, <1>4, ThiefQuiet
<1>6. Theft(t)'
  BY <1>1, <1>3, <1>4, <1>5 DEF Theft, Chosen
<1> QED BY <1>5, <1>6

LEMMA LoadBackKept ==
    ASSUME MemoryInv, DequeInv, NEW t \in Thief, StealLoadBack(t)
    PROVE  MemoryInv' /\ DequeInv' /\ Stays
<1>1. loc[t] \in Local /\ loc \in [Thief -> Local] /\ front \in Nat /\ loc[t].f \in Nat
      /\ mem.back \in Int /\ Theft(t) /\ loc[t].f <= front
  BY DEF MemoryInv, Types, Places, Values, Local, Memory, DequeInv, Thieves, Theft, StealLoadBack
<1>2. /\ StoreBuffers' /\ sb'[Owner] = sb[Owner]
      /\ UNCHANGED <<front, mem, own, local_epochs, retired, freed, slot, pushed, taken>>
  BY DEF StealLoadBack, MemoryInv, Types, StoreBuffers
<1>3. CASE loc[t].f >= mem.back
  <2>1. PICK x : x = [f |-> 0, epoch |-> 0, buf |-> 0, value |-> 0]
    OBVIOUS
  <2>2. x \in Local /\ loc' = [loc EXCEPT ![t] = x] /\ Goto(t, "idle") /\ "idle" \in ThiefAt
    BY <1>3, <2>1 DEF StealLoadBack, Forget, Local, ThiefAt
  <2>3. MemoryInv' /\ Stays /\ pc'[t] = "idle" /\ loc'[t] = x /\ (Theft(t)' => DequeInv')
    BY <1>2, <2>2, ThiefQuiet
  <2>4. Theft(t)'
    BY <2>3 DEF Theft, Chosen
  <2> QED BY <2>3, <2>4
<1>4. CASE ~(loc[t].f >= mem.back)
  <2>1. PICK x : x = loc[t]
    OBVIOUS
  <2>2. /\ x \in Local /\ loc' = [loc EXCEPT ![t] = x] /\ loc' = loc /\ Goto(t, "steal_epoch")
        /\ "steal_epoch" \in ThiefAt
    BY <1>1, <1>4, <2>1 DEF StealLoadBack, ThiefAt
  <2>3. /\ MemoryInv' /\ Stays /\ pc'[t] = "steal_epoch" /\ loc'[t] = x /\ (Theft(t)' => DequeInv')
        /\ InMemory' = InMemory /\ Waiting' = Waiting /\ Top' = Top
        /\ \A n, k, i : Shows(n, k, i)' = Shows(n, k, i)
    BY <1>2, <2>2, ThiefQuiet
  <2>4. ASSUME loc[t].f = front
        PROVE  front < Top /\ \A n1, n2 \in 0 .. Waiting : Shows(n1, InMemory[n2].buffer, front)
    <3>1. 0 \in 0 .. Waiting /\ mem = InMemory[0] /\ Waiting \in Nat
      BY MemoryFacts
    <3>2. mem.back <= Top /\ front < mem.back
      BY <1>1, <1>4, <2>4, <3>1 DEF DequeInv, Ends
    <3>3. Top \in Int
      BY MemoryFacts DEF Top
    <3>4. front \in front .. InMemory[0].back - 1
      BY <1>1, <3>1, <3>2
    <3>5. \A n1, n2 \in 0 .. Waiting : 0 <= n1 /\ 0 <= n2
      OBVIOUS
    <3> QED BY <1>1, <3>1, <3>2, <3>3, <3>4, <3>5 DEF DequeInv, Published
  <2>5. Theft(t)'
    BY <1>1, <1>2, <2>1, <2>3, <2>4, TheftStep DEF Chosen
  <2> QED BY <2>3, <2>5
<1> QED BY <1>3, <1>4

LEMMA LoadEpochKept ==
    ASSUME MemoryInv, DequeInv, NEW t \in Thief, StealLoadEpoch(t)
    PROVE  MemoryInv' /\ DequeInv' /\ Stays
<1>1. loc[t] \in Local /\ loc \in [Thief -> Local] /\ mem.global_epoch \in Nat /\ Theft(t)
      /\ pc[t] = "steal_epoch" /\ loc[t].f <= front
  BY DEF MemoryInv, Types, Places, Values, Memory, DequeInv, Thieves, Theft, StealLoadEpoch
<1>2. PICK x : x = [loc[t] EXCEPT !.epoch = mem.global_epoch]
  OBVIOUS
<1>3. x \in Local /\ x.f = loc[t].f /\ loc' = [loc EXCEPT ![t] = x]
  BY <1>1, <1>2 DEF StealLoadEpoch, Locals, Local
<1>4. /\ Goto(t, "steal_pin") /\ "steal_pin" \in ThiefAt /\ StoreBuffers' /\ sb'[Owner] = sb[Owner]
      /\ UNCHANGED <<front, mem, own, local_epochs, retired, freed, slot, pushed, taken>>
  BY DEF StealLoadEpoch, ThiefAt, MemoryInv, Types, StoreBuffers
<1>5. /\ MemoryInv' /\ Stays /\ pc'[t] = "steal_pin" /\ loc'[t] = x /\ (Theft(t)' => DequeInv')
      /\ InMemory' = InMemory /\ Waiting' = Waiting /\ Top' = Top
      /\ \A n, k, i : Shows(n, k, i)' = Shows(n, k, i)
  BY <1>3, <1>4, ThiefQuiet
<1>6. Chosen(t)' => Chosen(t)
  BY <1>1, <1>3, <1>4, <1>5 DEF Chosen
<1>7. Theft(t)'
  <2>1. Chosen(t)' => /\ front < Top
                      /\ \A n1, n2 \in 0 .. Waiting : Shows(n1, InMemory[n2].buffer, front)
    BY <1>1, <1>6 DEF Theft
  <2> QED BY <1>1, <1>3, <1>4, <1>5, <2>1, TheftStep
<1> QED BY <1>5, <1>7

LEMMA PinKept ==
    ASSUME MemoryInv, DequeInv, NEW t \in Thief, StealPin(t)
    PROVE  MemoryInv' /\ DequeInv' /\ Stays
<1>1. loc[t] \in Local /\ loc \in [Thief -> Local] /\ Theft(t)
      /\ pc[t] = "steal_pin" /\ loc[t].f <= front /\ loc[t].epoch \in Int
  BY DEF MemoryInv, Types, Places, Local, DequeInv, Thieves, Theft, StealPin
<1>2. StoreBuffers' /\ sb'[Owner] = sb[Owner]
  <2>1. StoreBuffers /\ Room(t, 1) /\ Put(t, <<loc[t].epoch>>)
    BY DEF StealPin, MemoryInv, Types
  <2>2. PICK v \in Int : v = loc[t].epoch
    BY <1>1
  <2> QED BY <2>1, <2>2, ThiefPuts
<1>3. PICK x : x = loc[t]
  OBVIOUS
<1>4. /\ x \in Local /\ loc' = [loc EXCEPT ![t] = x] /\ Goto(t, "steal_buffer") /\ "steal_buffer" \in ThiefAt
      /\ UNCHANGED <<front, mem, own, local_epochs, retired, freed, slot, pushed, taken>>
  BY <1>1, <1>3 DEF StealPin, ThiefAt
<1>5. /\ MemoryInv' /\ Stays /\ pc'[t] = "steal_buffer" /\ loc'[t] = x /\ (Theft(t)' => DequeInv')
      /\ InMemory' = InMemory /\ Waiting' = Waiting /\ Top' = Top
      /\ \A n, k, i : Shows(n, k, i)' = Shows(n, k, i)
  BY <1>2, <1>4, ThiefQuiet
<1>6. Chosen(t)' => Chosen(t)
  BY <1>1, <1>3, <1>4, <1>5 DEF Chosen
<1>7. Theft(t)'
  <2>1. Chosen(t)' => /\ front < Top
                      /\ \A n1, n2 \in 0 .. Waiting : Shows(n1, InMemory[n2].buffer, front)
    BY <1>1, <1>6 DEF Theft
  <2> QED BY <1>1, <1>3, <1>4, <1>5, <2>1, TheftStep
<1> QED BY <1>5, <1>7

LEMMA LoadBufferKept ==
    ASSUME MemoryInv, DequeInv, NEW t \in Thief, StealLoadBuffer(t)
    PROVE  MemoryInv' /\ DequeInv' /\ Stays
<1>1. loc[t] \in Local /\ loc \in [Thief -> Local] /\ Theft(t)
      /\ pc[t] = "steal_buffer" /\ loc[t].f <= front
  BY DEF MemoryInv, Types, Places, DequeInv, Thieves, Theft, StealLoadBuffer
<1>2. 0 \in 0 .. Waiting /\ mem = InMemory[0] /\ mem.buffer \in 1 .. own.buffer /\ mem.buffer \in Nat
  BY MemoryFacts
<1>3. PICK x : x = [loc[t] EXCEPT !.buf = mem.buffer]
  OBVIOUS
<1>4. x \in Local /\ x.f = loc[t].f /\ x.buf = mem.buffer /\ loc' = [loc EXCEPT ![t] = x]
  BY <1>1, <1>2, <1>3 DEF StealLoadBuffer, Locals, Local
<1>5. /\ Goto(t, "steal_data") /\ "steal_data" \in ThiefAt /\ StoreBuffers' /\ sb'[Owner] = sb[Owner]
      /\ UNCHANGED <<front, mem, own, local_epochs, retired, freed, slot, pushed, taken>>
  BY DEF StealLoadBuffer, ThiefAt, MemoryInv, Types, StoreBuffers
<1>6. /\ MemoryInv' /\ Stays /\ pc'[t] = "steal_data" /\ loc'[t] = x /\ (Theft(t)' => DequeInv')
      /\ InMemory' = InMemory /\ Waiting' = Waiting /\ Top' = Top
      /\ \A n, k, i : Shows(n, k, i)' = Shows(n, k, i)
  BY <1>4, <1>5, ThiefQuiet
<1>7. Chosen(t)' => Chosen(t)
  BY <1>1, <1>4, <1>5, <1>6 DEF Chosen
<1>8. Theft(t)'
  <2>1. Chosen(t)' => /\ front < Top
                      /\ \A n1, n2 \in 0 .. Waiting : Shows(n1, InMemory[n2].buffer, front)
    BY <1>1, <1>7 DEF Theft
  <2>2. Chosen(t)' => \A n \in 0 .. Waiting : Shows(n, loc'[t].buf, front)
    <3>1. loc'[t].buf = InMemory[0].buffer
      BY <1>2, <1>4, <1>6
    <3> QED BY <1>2, <2>1, <3>1
  <2> QED BY <1>1, <1>2, <1>4, <1>5, <1>6, <2>1, <2>2, TheftStep
<1> QED BY <1>6, <1>8

LEMMA LoadDataKept ==
    ASSUME MemoryInv, DequeInv, NEW t \in Thief, StealLoadData(t)
    PROVE  MemoryInv' /\ DequeInv' /\ Stays
<1>1. loc[t] \in Local /\ loc \in [Thief -> Local] /\ Theft(t) /\ pc[t] = "steal_data"
      /\ loc[t].f <= front /\ loc[t].f \in Nat /\ loc[t].buf \in 1 .. own.buffer
  BY DEF MemoryInv, Types, Places, Local, DequeInv, Thieves, Theft, StealLoadData
<1>2. PICK k : k = loc[t].buf
  OBVIOUS
<1>3. PICK i : i = loc[t].f
  OBVIOUS
<1>4. PICK v : v = mem.data[k][At(k, i)]
  OBVIOUS
<1>5. 0 \in 0 .. Waiting /\ mem = InMemory[0] /\ k \in 1 .. own.buffer /\ i \in Int
  BY <1>1, <1>2, <1>3, MemoryFacts
<1>6. v \in Nat
  <2>1. PICK d : d = mem.data
    OBVIOUS
  <2>2. d \in Seq(Seq(Nat)) /\ Len(d) = own.buffer /\ Len(d[k]) = Capacity(k)
    BY <1>5, <2>1 DEF MemoryInv, Buffers, Memory
  <2>3. d[k] \in Seq(Nat)
    BY <1>5, <2>2, ElementOfSeq
  <2>4. At(k, i) \in 1 .. Len(d[k])
    <3>1. Capacity(k) \in Nat /\ Capacity(k) >= 1
      BY <1>5, MemoryFacts
    <3> QED BY <1>5, <2>2, <3>1, SlotRange DEF At
  <2> QED BY <1>4, <2>1, <2>3, <2>4, ElementOfSeq
<1>7. PICK x : x = [loc[t] EXCEPT !.value = v]
  OBVIOUS
<1>8. x \in Local /\ x.f = i /\ x.value = v /\ loc' = [loc EXCEPT ![t] = x]
  BY <1>1, <1>2, <1>3, <1>4, <1>6, <1>7 DEF StealLoadData, Locals, Local
<1>9. /\ Goto(t, "steal_cas") /\ "steal_cas" \in ThiefAt /\ StoreBuffers' /\ sb'[Owner] = sb[Owner]
      /\ UNCHANGED <<front, mem, own, local_epochs, retired, freed, slot, pushed, taken>>
  BY DEF StealLoadData, ThiefAt, MemoryInv, Types, StoreBuffers
<1>10. /\ MemoryInv' /\ Stays /\ pc'[t] = "steal_cas" /\ loc'[t] = x /\ (Theft(t)' => DequeInv')
       /\ InMemory' = InMemory /\ Waiting' = Waiting /\ Top' = Top
       /\ \A n, q, j : Shows(n, q, j)' = Shows(n, q, j)
  BY <1>8, <1>9, ThiefQuiet
<1>11. Chosen(t)' => Chosen(t) /\ i = front
  BY <1>1, <1>3, <1>8, <1>9, <1>10 DEF Chosen
<1>12. Theft(t)'
  <2>1. Chosen(t)' => /\ front < Top
                      /\ \A n1, n2 \in 0 .. Waiting : Shows(n1, InMemory[n2].buffer, front)
    BY <1>1, <1>11 DEF Theft
  <2>2. ASSUME Chosen(t)' PROVE loc'[t].value = Item(front)
    <3>1. i = front /\ Shows(0, k, i)
      BY <1>1, <1>2, <1>5, <1>11, <2>2 DEF Theft
    <3>2. v = Item(i)
      BY <1>4, <1>5, <3>1 DEF Shows
    <3> QED BY <1>8, <1>10, <3>1, <3>2
  <2> QED BY <1>1, <1>3, <1>8, <1>9, <1>10, <2>1, <2>2, TheftStep
<1> QED BY <1>10, <1>12

LEMMA UnpinKept ==
    ASSUME MemoryInv, DequeInv, NEW t \in Thief, StealUnpin(t)
    PROVE  MemoryInv' /\ DequeInv' /\ Stays
<1>1. StoreBuffers' /\ sb'[Owner] = sb[Owner]
  <2>1. StoreBuffers /\ Room(t, 1) /\ Put(t, <<kInactive>>) /\ kInactive \in Int
    BY DEF StealUnpin, MemoryInv, Types, kInactive
  <2> QED BY <2>1, ThiefPuts
<1>2. PICK x : x = [f |-> 0, epoch |-> 0, buf |-> 0, value |-> 0]
  OBVIOUS
<1>3. /\ x \in Local /\ loc' = [loc EXCEPT ![t] = x] /\ Goto(t, "idle") /\ "idle" \in ThiefAt
      /\ UNCHANGED <<front, mem, own, local_epochs, retired, freed, slot, pushed, taken>>
  BY <1>2 DEF StealUnpin, Forget, Local, ThiefAt
<1>4. MemoryInv' /\ Stays /\ pc'[t] = "idle" /\ (Theft(t)' => DequeInv')
  BY <1>1, <1>3, ThiefQuiet
<1>5. Theft(t)'
  BY <1>4 DEF Theft, Chosen
<1> QED BY <1>4, <1>5

LEMMA StealCasKept ==
    ASSUME MemoryInv, DequeInv, NEW t \in Thief, StealCas(t)
    PROVE  MemoryInv' /\ DequeInv' /\ (Stays \/ TakesFirst)
<1>1. /\ loc[t] \in Local /\ loc \in [Thief -> Local] /\ Theft(t) /\ pc[t] = "steal_cas"
      /\ loc[t].f <= front /\ front \in Nat /\ pushed \in 0 .. MaxItems /\ Places
      /\ loc[t].f \in Nat
  BY DEF MemoryInv, Types, Places, Values, Local, DequeInv, Thieves, Theft, StealCas
<1>2. /\ Goto(t, "steal_unpin") /\ "steal_unpin" \in ThiefAt /\ StoreBuffers' /\ sb'[Owner] = sb[Owner]
      /\ UNCHANGED <<mem, own, sb, local_epochs, retired, freed, slot, loc, pushed>>
  BY DEF StealCas, ThiefAt, MemoryInv, Types, StoreBuffers
<1>3. CASE front # loc[t].f
  <2>1. PICK x : x = loc[t]
    OBVIOUS
  <2>2. x \in Local /\ loc' = [loc EXCEPT ![t] = x] /\ UNCHANGED <<front, taken>>
    BY <1>1, <1>2, <1>3, <2>1 DEF StealCas
  <2>3. MemoryInv' /\ Stays /\ pc'[t] = "steal_unpin" /\ loc'[t] = x /\ (Theft(t)' => DequeInv')
    <3>1. UNCHANGED <<front, mem, own, local_epochs, retired, freed, slot, pushed, taken>>
      BY <1>2, <2>2
    <3>2. Goto(t, "steal_unpin") /\ "steal_unpin" \in ThiefAt /\ StoreBuffers' /\ sb'[Owner] = sb[Owner]
      BY <1>2
    <3>3. x \in Local /\ loc' = [loc EXCEPT ![t] = x]
      BY <2>2
    <3> QED BY <3>1, <3>2, <3>3, ThiefQuiet
  <2>4. Theft(t)'
    BY <1>1, <2>1, <2>2, <2>3 DEF Theft, Chosen
  <2> QED BY <2>3, <2>4
<1>4. CASE front = loc[t].f
  <2>1. front' = front + 1 /\ taken' = taken \cup {loc[t].value}
    BY <1>4 DEF StealCas, Return
  <2>2. front < Top /\ loc[t].value = Item(front)
    BY <1>1, <1>4 DEF Theft, Chosen
  <2>3. /\ Places' /\ pc'[t] = "steal_unpin" /\ pc'[Owner] = pc[Owner]
        /\ \A u \in Thief : u # t => pc'[u] = pc[u]
    <3>1. loc' \in [Thief -> Local]
      BY <1>1, <1>2
    <3> QED BY <1>1, <1>2, <3>1, ThiefMoves
  <2>4. Types'
    <3>1. Values'
      BY <1>1, <1>2, <2>1 DEF MemoryInv, Types, Values
    <3> QED BY <1>2, <2>3, <3>1 DEF Types
  <2>5. /\ Buffers' /\ Onward' /\ InMemory' = InMemory /\ Waiting' = Waiting
        /\ \A k : Capacity(k)' = Capacity(k)
    BY <1>2, MemorySame
  <2>6. MemoryInv'
    BY <2>4, <2>5 DEF MemoryInv
  <2>7. Top' = Top /\ Top \in Int
    BY <1>2, <2>3, MemoryFacts DEF Top
  <2>8. \A n, k, i : Item(i)' = Item(i) /\ Shows(n, k, i)' = Shows(n, k, i)
    BY <1>2, <2>5 DEF Shows, Item, At, Capacity
  <2>9. TakesFirst
    BY <1>2, <2>1, <2>2, <2>7, <2>8 DEF TakesFirst
  <2>10. Ends'
    <3>1. PICK i : i = front
      OBVIOUS
    <3>2. i \in front .. Top - 1
      BY <1>1, <2>2, <2>7, <3>1
    <3>3. Item(i) \in 1 .. pushed
      BY <3>2 DEF DequeInv, Ends
    <3>4. taken' \in SUBSET (1 .. pushed)
      BY <2>1, <2>2, <3>1, <3>3 DEF DequeInv, Ends
    <3>5. Capacity(own.buffer)' = Capacity(own.buffer) /\ Capacity(own.buffer) \in Nat
      <4>1. own.buffer \in 1 .. own.buffer
        BY MemoryFacts DEF MemoryInv, Buffers
      <4> QED BY <1>2, <4>1, MemoryFacts DEF Capacity
    <3>6. own.back \in Int
      BY MemoryFacts
    <3>7. front' <= Top' /\ Top' <= pushed' /\ Top' - front' <= Capacity(own.buffer)'
      BY <1>1, <1>2, <2>1, <2>2, <2>7, <3>5 DEF DequeInv, Ends
    <3>8. pc'[Owner] \in {"scan", "advance", "store"}
              => Top' - front' < Capacity(own.buffer)' /\ pushed' < MaxItems
      BY <1>1, <1>2, <2>1, <2>3, <2>7, <3>5 DEF DequeInv, Ends
    <3>9. pc'[Owner] = "pop_cas" => own'.back <= front'
      BY <1>1, <1>2, <2>1, <2>3, <3>6 DEF DequeInv, Ends
    <3>10. \A j \in front' .. Top' - 1 : Item(j)' \in 1 .. pushed'
      <4>1. \A j \in front' .. Top' - 1 : j \in front .. Top - 1
        BY <1>1, <2>1, <2>7
      <4> QED BY <1>2, <2>8, <4>1 DEF DequeInv, Ends
    <3>11. \A n \in 0 .. Waiting' : InMemory'[n].back <= Top'
      BY <2>5, <2>7 DEF DequeInv, Ends
    <3> QED BY <1>2, <3>4, <3>7, <3>8, <3>9, <3>10, <3>11 DEF Ends
  <2>11. Published' /\ \A u \in Thief : pc'[u] = pc[u] /\ loc'[u] = loc[u] => Theft(u)'
    <3>1. PICK o : o = [n \in 0 .. Waiting |-> n]
      OBVIOUS
    <3>2. o \in [0 .. Waiting' -> 0 .. Waiting] /\ \A n \in 0 .. Waiting' : o[n] = n
      BY <2>5, <3>1
    <3>3. \A n1, n2 \in 0 .. Waiting' : n1 <= n2 => o[n1] <= o[n2]
      BY <3>2
    <3>4. front <= front' /\ own.buffer <= own'.buffer /\ (front' = front /\ front < Top => front < Top')
      BY <1>1, <1>2, <2>1, MemoryFacts
    <3>5. \A i \in front .. Top - 1 : Item(i)' = Item(i)
      BY <2>8
    <3>6. \A n \in 0 .. Waiting', k \in 1 .. own.buffer, i \in front .. Top - 1 :
             Shows(o[n], k, i) => Shows(n, k, i)'
      BY <2>8, <3>2
    <3>7. \A n \in 0 .. Waiting' : /\ InMemory'[n].buffer = InMemory[o[n]].buffer
                                   /\ InMemory'[n].back = InMemory[o[n]].back
      BY <2>5, <3>2
    <3> QED BY <2>6, <3>2, <3>3, <3>4, <3>5, <3>6, <3>7, Kept
  <2>12. Theft(t)'
    BY <1>1, <1>2, <2>1, <2>3 DEF Theft, Chosen
  <2>13. DequeInv'
    BY <1>2, <2>3, <2>10, <2>11, <2>12 DEF DequeInv, Thieves
  <2> QED BY <2>6, <2>9, <2>13
<1> QED BY <1>3, <1>4

LEMMA ThiefFlushKept ==
    ASSUME MemoryInv, DequeInv, NEW t \in Thief, Flush(t)
    PROVE  MemoryInv' /\ DequeInv' /\ Stays
<1>1. t \in Thread /\ t # Owner /\ StoreBuffers
  BY ThreadFacts DEF MemoryInv, Types
<1>2. StoreBuffers' /\ sb'[Owner] = sb[Owner]
  BY <1>1, FlushedTypes
<1>3. Head(sb[t]) \in Int
  <2>1. sb[t] \in Seq(Int) /\ sb[t] # <<>>
    BY <1>1 DEF StoreBuffers, Flush
  <2> QED BY <2>1, HeadTailProperties
<1>4. /\ local_epochs' = [local_epochs EXCEPT ![t] = Head(sb[t])]
      /\ UNCHANGED <<front, mem, own, retired, freed, pc, slot, loc, pushed, taken>>
  BY <1>1 DEF Flush
<1>5. Types'
  <2>1. Places'
    BY <1>4 DEF MemoryInv, Types, Places
  <2>2. Values'
    BY <1>3, <1>4 DEF MemoryInv, Types, Values
  <2> QED BY <1>2, <2>1, <2>2 DEF Types
<1>6. /\ MemoryInv' /\ Stays /\ Ends' /\ Published'
      /\ \A u \in Thief : pc'[u] = pc[u] /\ loc'[u] = loc[u] => Theft(u)'
  BY <1>2, <1>4, <1>5, QuietKept
<1> QED BY <1>4, <1>6 DEF DequeInv, Thieves

LEMMA OwnerFlushKept ==
    ASSUME MemoryInv, DequeInv, Flush(Owner)
    PROVE  MemoryInv' /\ DequeInv' /\ Stays
<1>1. /\ Buffers' /\ Onward' /\ own' = own /\ mem' \in Memory
      /\ Waiting \in Nat /\ Waiting >= 1 /\ Waiting' = Waiting - 1
      /\ \A n \in 0 .. Waiting - 1 : InMemory'[n] = InMemory[n + 1] /\ n + 1 \in 0 .. Waiting
      /\ \A k : Capacity(k)' = Capacity(k)
  BY MemoryFlushed
<1>2. UNCHANGED <<front, own, local_epochs, retired, freed, pc, slot, loc, pushed, taken>>
  BY DEF Flush
<1>3. Types'
  <2>1. StoreBuffers'
    BY ThreadFacts, FlushedTypes DEF MemoryInv, Types
  <2>2. Places'
    BY <1>2 DEF MemoryInv, Types, Places
  <2>3. Values'
    BY <1>1, <1>2 DEF MemoryInv, Types, Values
  <2> QED BY <2>1, <2>2, <2>3 DEF Types
<1>4. MemoryInv'
  BY <1>1, <1>3 DEF MemoryInv
<1>5. Top' = Top
  BY <1>2 DEF Top
<1>6. \A i : Item(i)' = Item(i)
  BY <1>2 DEF Item, At, Capacity
<1>7. Stays
  BY <1>2, <1>5, <1>6 DEF Stays
<1>8. PICK o : o = [n \in 0 .. Waiting - 1 |-> n + 1]
  OBVIOUS
<1>9. \A n \in 0 .. Waiting' : o[n] = n + 1 /\ o[n] \in 0 .. Waiting /\ InMemory'[n] = InMemory[o[n]]
  BY <1>1, <1>8
<1>10. Ends'
  <2>1. Capacity(own.buffer)' = Capacity(own.buffer)
    BY <1>2 DEF Capacity
  <2>2. \A n \in 0 .. Waiting' : InMemory'[n].back <= Top'
    BY <1>5, <1>9 DEF DequeInv, Ends
  <2> QED BY <1>2, <1>5, <1>6, <2>1, <2>2 DEF DequeInv, Ends
<1>11. Published' /\ \A u \in Thief : pc'[u] = pc[u] /\ loc'[u] = loc[u] => Theft(u)'
  <2>1. o \in [0 .. Waiting' -> 0 .. Waiting]
    BY <1>1, <1>8
  <2>2. \A n1, n2 \in 0 .. Waiting' : n1 <= n2 => o[n1] <= o[n2]
    BY <1>1, <1>9
  <2>3. front <= front' /\ own.buffer <= own'.buffer /\ (front' = front /\ front < Top => front < Top')
    BY <1>2, <1>5, MemoryFacts DEF MemoryInv, Types, Values
  <2>4. \A i \in front .. Top - 1 : Item(i)' = Item(i)
    BY <1>6
  <2>5. \A n \in 0 .. Waiting', k \in 1 .. own.buffer, i \in front .. Top - 1 :
           Shows(o[n], k, i) => Shows(n, k, i)'
    BY <1>2, <1>6, <1>9 DEF Shows, At, Capacity
  <2>6. \A n \in 0 .. Waiting' : /\ InMemory'[n].buffer = InMemory[o[n]].buffer
                                 /\ InMemory'[n].back = InMemory[o[n]].back
    BY <1>9
  <2> QED BY <1>4, <2>1, <2>2, <2>3, <2>4, <2>5, <2>6, Kept
<1>12. DequeInv'
  BY <1>2, <1>10, <1>11 DEF DequeInv, Thieves
<1> QED BY <1>4, <1>7, <1>12

LEMMA ScanKept ==
    ASSUME MemoryInv, DequeInv, ScanSlot
    PROVE  MemoryInv' /\ DequeInv' /\ Stays
<1>1. /\ UNCHANGED <<front, mem, own, local_epochs, sb, retired, freed, loc, pushed, taken>>
      /\ pc[Owner] = "scan" /\ slot' \in Nat
      /\ \E label \in {"scan", "advance", "store"} : Goto(Owner, label)
  BY DEF ScanSlot, MemoryInv, Types, Values
<1>2. PICK label \in {"scan", "advance", "store"} : Goto(Owner, label)
  BY <1>1
<1>3. Places' /\ pc'[Owner] = label /\ \A u \in Thief : pc'[u] = pc[u] /\ loc'[u] = loc[u]
  BY <1>1, <1>2, OwnerMoves DEF MemoryInv, Types, OwnerAt
<1>4. Types'
  BY <1>1, <1>3 DEF MemoryInv, Types, Values, StoreBuffers
<1>5. /\ MemoryInv' /\ Stays /\ Ends' /\ Published'
      /\ \A u \in Thief : pc'[u] = pc[u] /\ loc'[u] = loc[u] => Theft(u)'
  BY <1>1, <1>2, <1>3, <1>4, QuietKept
<1> QED BY <1>3, <1>5 DEF DequeInv, Thieves

\* The store of back, or of the next epoch.
LEMMA OneKept ==
    ASSUME MemoryInv, DequeInv, NEW label \in OwnerAt, Goto(Owner, label), NEW w, OwnerPut(w), mem' = mem,
           \/ \E v \in Int : w = Set("back", v)
           \/ \E v \in Nat : w = Set("global_epoch", v) /\ own.global_epoch <= v,
           UNCHANGED <<local_epochs, slot, loc, pushed>>,
           front' \in Nat, retired' \in [0 .. 2 -> SUBSET Nat], freed' \in SUBSET Nat,
           front <= front', front' = front /\ front < Top => front < Top'
    PROVE  /\ MemoryInv' /\ Published' /\ Thieves' /\ pc'[Owner] = label
           /\ own' = [own EXCEPT ![w.var] = w.val] /\ own' \in Memory
           /\ Waiting \in Nat /\ Waiting' = Waiting + 1
           /\ \A n \in 0 .. Waiting : InMemory'[n] = InMemory[n]
           /\ InMemory'[Waiting + 1] = own'
           /\ own'.data = own.data /\ own'.buffer = own.buffer
           /\ Capacity(own.buffer)' = Capacity(own.buffer)
           /\ \A k, i : Capacity(k)' = Capacity(k) /\ Item(i)' = Item(i)
<1>1. /\ Buffers' /\ Onward' /\ own' \in Memory /\ StoreBuffers'
      /\ Waiting \in Nat /\ Waiting' = Waiting + 1
      /\ \A n \in 0 .. Waiting : InMemory'[n] = InMemory[n]
      /\ InMemory'[Waiting + 1] = own'
      /\ own' = [own EXCEPT ![w.var] = w.val]
      /\ own'.data = own.data /\ own'.buffer = own.buffer
      /\ \A k : Capacity(k)' = Capacity(k)
  BY MemoryOne
<1>2. Places' /\ pc'[Owner] = label /\ \A u \in Thief : pc'[u] = pc[u] /\ loc'[u] = loc[u]
  BY OwnerMoves DEF MemoryInv, Types
<1>3. MemoryInv'
  <2>1. Values'
    BY <1>1 DEF MemoryInv, Types, Values
  <2> QED BY <1>1, <1>2, <2>1 DEF MemoryInv, Types
<1>4. \A i : Item(i)' = Item(i)
  BY <1>1 DEF Item, At, Capacity
<1>5. PICK l : l = Waiting
  OBVIOUS
<1>6. PICK o : o = [n \in 0 .. l + 1 |-> IF n <= l THEN n ELSE l]
  OBVIOUS
<1>7. l \in Nat /\ InMemory[l] = own
  BY <1>1, <1>5 DEF MemoryInv, Onward
<1>8. o \in [0 .. l + 1 -> 0 .. l] /\ o[l + 1] = l /\ \A n \in 0 .. l : o[n] = n
  BY <1>6, <1>7
<1>9. \A n \in 0 .. l + 1 : n \in 0 .. l \/ n = l + 1
  BY <1>7
<1>10. \A n \in 0 .. l + 1 : /\ InMemory'[n].buffer = InMemory[o[n]].buffer
                             /\ InMemory'[n].data = InMemory[o[n]].data
  BY <1>1, <1>5, <1>7, <1>8, <1>9
<1>11. Published' /\ \A u \in Thief : pc'[u] = pc[u] /\ loc'[u] = loc[u] => Theft(u)'
  <2>1. o \in [0 .. Waiting' -> 0 .. Waiting]
    BY <1>1, <1>5, <1>8
  <2>2. \A n1, n2 \in 0 .. Waiting' : n1 <= n2 => o[n1] <= o[n2]
    <3>1. \A n1, n2 \in 0 .. l + 1 : n1 <= n2 => o[n1] <= o[n2]
      BY <1>6, <1>7
    <3> QED BY <1>1, <1>5, <3>1
  <2>3. own.buffer <= own'.buffer
    BY <1>1, MemoryFacts
  <2>4. \A i \in front .. Top - 1 : Item(i)' = Item(i)
    BY <1>4
  <2>5. \A n \in 0 .. Waiting', k \in 1 .. own.buffer, i \in front .. Top - 1 :
           Shows(o[n], k, i) => Shows(n, k, i)'
    <3>1. \A n \in 0 .. l + 1 : \A k, i : Shows(o[n], k, i) => Shows(n, k, i)'
      BY <1>1, <1>4, <1>10 DEF Shows, At, Capacity
    <3> QED BY <1>1, <1>5, <3>1
  <2>6. ASSUME NEW n \in 0 .. Waiting'
        PROVE  \/ InMemory'[n].back = InMemory[o[n]].back
               \/ \A n1, n2 \in 0 .. Waiting', i \in front' .. InMemory'[n].back - 1 : \A k :
                     n <= n1 /\ n <= n2 /\ k = InMemory'[n2].buffer => Shows(n1, k, i)'
    <3>1. CASE n \in 0 .. l
      BY <1>1, <1>5, <1>8, <3>1
    <3>2. CASE n = l + 1
      <4>1. \A n1 \in 0 .. l + 1 : n <= n1 => n1 = l + 1
        BY <1>7, <3>2
      <4>2. \A i : own'.data[own'.buffer][At(own.buffer, i)'] = Item(i)'
        BY DEF Item
      <4>3. \A i, k : k = own'.buffer => Shows(l + 1, k, i)'
        BY <1>1, <1>5, <4>2 DEF Shows
      <4>4. ASSUME NEW n1 \in 0 .. Waiting', NEW n2 \in 0 .. Waiting', NEW i, NEW k,
                   n <= n1, n <= n2, k = InMemory'[n2].buffer
            PROVE  Shows(n1, k, i)'
        <5>1. n1 = l + 1 /\ n2 = l + 1
          BY <1>1, <1>5, <4>1, <4>4
        <5> QED BY <1>1, <1>5, <4>3, <4>4, <5>1
      <4> QED BY <4>4
    <3> QED BY <1>1, <1>5, <1>9, <3>1, <3>2
  <2>7. \A n \in 0 .. Waiting' : InMemory'[n].buffer = InMemory[o[n]].buffer
    BY <1>1, <1>5, <1>10
  <2> QED BY <1>3, <2>1, <2>2, <2>3, <2>4, <2>5, <2>6, <2>7, Kept
<1>12. Thieves'
  BY <1>2, <1>11 DEF Thieves
<1>13. Capacity(own.buffer)' = Capacity(own.buffer)
  BY <1>1 DEF Capacity
<1> QED BY <1>1, <1>2, <1>3, <1>4, <1>11, <1>12, <1>13

LEMMA DequeFacts ==
    ASSUME MemoryInv, DequeInv
    PROVE  /\ front \in Nat /\ pushed \in 0 .. MaxItems /\ pushed \in Nat /\ MaxItems \in Nat
           /\ Top \in Int /\ own.back \in Int /\ Waiting \in Nat
           /\ Capacity(own.buffer) \in Nat /\ Capacity(own.buffer) >= 1
           /\ front <= Top /\ Top <= pushed /\ Top - front <= Capacity(own.buffer)
           /\ \A i \in front .. Top - 1 : Item(i) \in 1 .. pushed
           /\ taken \in SUBSET (1 .. pushed)
           /\ \A n \in 0 .. Waiting : InMemory[n].back <= Top
           /\ retired \in [0 .. 2 -> SUBSET Nat] /\ freed \in SUBSET Nat /\ slot \in Nat
<1>1. own.buffer \in 1 .. own.buffer
  BY MemoryFacts DEF MemoryInv, Buffers
<1>2. Capacity(own.buffer) \in Nat /\ Capacity(own.buffer) >= 1
  BY <1>1, MemoryFacts
<1>3. /\ front \in Nat /\ pushed \in 0 .. MaxItems /\ pushed \in Nat /\ MaxItems \in Nat
      /\ retired \in [0 .. 2 -> SUBSET Nat] /\ freed \in SUBSET Nat /\ slot \in Nat
  BY ThreadFacts DEF MemoryInv, Types, Values
<1>4. Top \in Int /\ own.back \in Int /\ Waiting \in Nat
  BY MemoryFacts DEF Top
<1> QED BY <1>2, <1>3, <1>4 DEF DequeInv, Ends

\* The three buckets.
LEMMA Modulo3 ==
    ASSUME NEW e \in Nat
    PROVE  /\ e % 3 \in 0 .. 2 /\ (e + 1) % 3 \in 0 .. 2 /\ (e + 2) % 3 \in 0 .. 2
           /\ e % 3 # (e + 1) % 3 /\ e % 3 # (e + 2) % 3 /\ (e + 1) % 3 # (e + 2) % 3
           /\ \A i \in 0 .. 2 : i = e % 3 \/ i = (e + 1) % 3 \/ i = (e + 2) % 3
           /\ (e + 3) % 3 = e % 3
OBVIOUS

LEMMA AdvanceKept ==
    ASSUME MemoryInv, DequeInv, AdvanceEpoch
    PROVE  MemoryInv' /\ DequeInv' /\ Stays
<1>1. PICK next : next = own.global_epoch + 1
  OBVIOUS
<1>2. next \in Nat /\ own.global_epoch <= next
  BY <1>1, MemoryFacts
<1>3. PICK w : w = Set("global_epoch", next)
  OBVIOUS
<1>4. /\ OwnerPut(w) /\ Goto(Owner, "store") /\ pc[Owner] = "advance" /\ "store" \in OwnerAt
      /\ UNCHANGED <<front, mem, local_epochs, slot, loc, pushed, taken>>
  BY <1>1, <1>3 DEF AdvanceEpoch, OwnerAt
<1>5. retired' \in [0 .. 2 -> SUBSET Nat] /\ freed' \in SUBSET Nat
  <2>1. PICK old : old = TwoEpochsAgo(own.global_epoch)
    OBVIOUS
  <2>2. retired' = [retired EXCEPT ![old] = {}] /\ freed' = freed \cup retired[old]
    BY <2>1 DEF AdvanceEpoch
  <2>3. old \in 0 .. 2
    <3>1. PICK e : e = own.global_epoch
      OBVIOUS
    <3>2. e \in Nat /\ old = (e + 2) % 3
      BY <2>1, <3>1, MemoryFacts DEF TwoEpochsAgo
    <3> QED BY <3>2, Modulo3
  <2> QED BY <2>2, <2>3, DequeFacts
<1>6. front' \in Nat /\ front <= front' /\ own.back \in Int
  BY <1>4, DequeFacts
<1>7. own'.back = own.back
  BY <1>3, <1>4 DEF OwnerPut, Apply, Set
<1>8. pc'[Owner] = "store"
  BY <1>4, OwnerMoves DEF MemoryInv, Types
<1>9. Top' = Top /\ Top = own.back
  BY <1>4, <1>7, <1>8 DEF Top
<1>10. /\ MemoryInv' /\ Published' /\ Thieves'
       /\ Waiting \in Nat /\ Waiting' = Waiting + 1
       /\ \A n \in 0 .. Waiting : InMemory'[n] = InMemory[n]
       /\ InMemory'[Waiting + 1] = own'
       /\ Capacity(own.buffer)' = Capacity(own.buffer)
       /\ \A i : Item(i)' = Item(i)
  <2>1. front' = front /\ front < Top => front < Top'
    BY <1>9
  <2>2. \E v \in Nat : w = Set("global_epoch", v) /\ own.global_epoch <= v
    BY <1>2, <1>3
  <2> QED BY <1>4, <1>5, <1>6, <2>1, <2>2, OneKept
<1>11. Stays
  BY <1>4, <1>9, <1>10 DEF Stays
<1>12. Ends'
  <2>1. \A n \in 0 .. Waiting' : InMemory'[n].back <= Top'
    <3>1. \A n \in 0 .. Waiting + 1 : n \in 0 .. Waiting \/ n = Waiting + 1
      BY <1>10
    <3>2. own'.back <= Top'
      BY <1>6, <1>7, <1>9
    <3>3. \A n \in 0 .. Waiting : InMemory[n].back <= Top'
      BY <1>9, DequeFacts
    <3> QED BY <1>10, <3>1, <3>2, <3>3
  <2> QED BY <1>4, <1>8, <1>9, <1>10, <2>1 DEF DequeInv, Ends
<1> QED BY <1>10, <1>11, <1>12 DEF DequeInv

LEMMA ReserveKept ==
    ASSUME MemoryInv, DequeInv, PopReserve
    PROVE  MemoryInv' /\ DequeInv' /\ Stays
<1>1. PICK b : b = own.back - 1
  OBVIOUS
<1>2. b \in Int /\ own.back = b + 1
  BY <1>1, MemoryFacts, SMTT(30)
<1>3. PICK w : w = Set("back", b)
  OBVIOUS
<1>4. /\ OwnerPut(w) /\ Goto(Owner, "pop") /\ pc[Owner] = "idle" /\ "pop" \in OwnerAt
      /\ UNCHANGED <<front, mem, local_epochs, retired, freed, slot, loc, pushed, taken>>
  BY <1>1, <1>3 DEF PopReserve, OwnerAt
<1>5. front' \in Nat /\ front <= front'
      /\ retired' \in [0 .. 2 -> SUBSET Nat] /\ freed' \in SUBSET Nat
  BY <1>4, DequeFacts
<1>6. own'.back = b
  <2>1. own' = [own EXCEPT !.back = b] /\ own \in Memory
    BY <1>3, <1>4, MemoryFacts DEF OwnerPut, Apply, Set
  <2> QED BY <2>1 DEF Memory
<1>7. pc'[Owner] = "pop"
  BY <1>4, OwnerMoves DEF MemoryInv, Types
<1>8. Top' = Top /\ Top = b + 1
  BY <1>2, <1>4, <1>6, <1>7 DEF Top
<1>9. /\ MemoryInv' /\ Published' /\ Thieves'
      /\ Waiting \in Nat /\ Waiting' = Waiting + 1
      /\ \A n \in 0 .. Waiting : InMemory'[n] = InMemory[n]
      /\ InMemory'[Waiting + 1] = own'
      /\ Capacity(own.buffer)' = Capacity(own.buffer)
      /\ \A i : Item(i)' = Item(i)
  <2>1. front' = front /\ front < Top => front < Top'
    BY <1>8
  <2>2. \E v \in Int : w = Set("back", v)
    BY <1>2, <1>3
  <2> QED BY <1>4, <1>5, <2>1, <2>2, OneKept
<1>10. Stays
  BY <1>4, <1>8, <1>9 DEF Stays
<1>11. Ends'
  <2>1. \A n \in 0 .. Waiting' : InMemory'[n].back <= Top'
    <3>1. \A n \in 0 .. Waiting + 1 : n \in 0 .. Waiting \/ n = Waiting + 1
      BY <1>9
    <3>2. own'.back <= Top'
      BY <1>2, <1>6, <1>8
    <3>3. \A n \in 0 .. Waiting : InMemory[n].back <= Top'
      BY <1>8, DequeFacts
    <3> QED BY <1>9, <3>1, <3>2, <3>3
  <2> QED BY <1>4, <1>7, <1>8, <1>9, <2>1 DEF DequeInv, Ends
<1> QED BY <1>9, <1>10, <1>11 DEF DequeInv

\* pop_back finds nothing, or loses the last item: back is put right.
LEMMA RestoreKept ==
    ASSUME MemoryInv, DequeInv, pc[Owner] \in {"pop", "pop_cas"}, front = own.back + 1,
           OwnerPut(Set("back", front)), Goto(Owner, "idle"),
           UNCHANGED <<front, mem, local_epochs, retired, freed, slot, loc, pushed, taken>>
    PROVE  MemoryInv' /\ DequeInv' /\ Stays
<1>1. PICK w : w = Set("back", front)
  OBVIOUS
<1>2. OwnerPut(w) /\ "idle" \in OwnerAt /\ \E v \in Int : w = Set("back", v)
  BY <1>1, DequeFacts DEF OwnerAt
<1>3. own'.back = front
  <2>1. own' = [own EXCEPT !.back = front] /\ own \in Memory
    BY MemoryFacts DEF OwnerPut, Apply, Set
  <2> QED BY <2>1 DEF Memory
<1>4. pc'[Owner] = "idle"
  BY <1>2, OwnerMoves DEF MemoryInv, Types
<1>5. Top' = Top /\ Top = front /\ front' = front /\ front \in Nat
  BY <1>3, <1>4, DequeFacts DEF Top
<1>6. /\ MemoryInv' /\ Published' /\ Thieves'
      /\ Waiting \in Nat /\ Waiting' = Waiting + 1
      /\ \A n \in 0 .. Waiting : InMemory'[n] = InMemory[n]
      /\ InMemory'[Waiting + 1] = own'
      /\ Capacity(own.buffer)' = Capacity(own.buffer)
      /\ \A i : Item(i)' = Item(i)
  <2>1. front' = front /\ front < Top => front < Top'
    BY <1>5
  <2>2. retired' \in [0 .. 2 -> SUBSET Nat] /\ freed' \in SUBSET Nat /\ front <= front' /\ front' \in Nat
    BY <1>5, DequeFacts
  <2> QED BY <1>2, <2>1, <2>2, OneKept
<1>7. Stays
  BY <1>5, <1>6 DEF Stays
<1>8. Ends'
  <2>1. \A n \in 0 .. Waiting' : InMemory'[n].back <= Top'
    <3>1. \A n \in 0 .. Waiting + 1 : n \in 0 .. Waiting \/ n = Waiting + 1
      BY <1>6
    <3>2. own'.back <= Top'
      BY <1>3, <1>5
    <3>3. \A n \in 0 .. Waiting : InMemory[n].back <= Top'
      BY <1>5, DequeFacts
    <3> QED BY <1>6, <3>1, <3>2, <3>3
  <2> QED BY <1>4, <1>5, <1>6, <2>1 DEF DequeInv, Ends
<1> QED BY <1>6, <1>7, <1>8 DEF DequeInv

LEMMA PopFrontKept ==
    ASSUME MemoryInv, DequeInv, PopFront
    PROVE  MemoryInv' /\ DequeInv' /\ (Stays \/ TakesLast)
<1>1. PICK b : b = own.back
  OBVIOUS
<1>2. /\ pc[Owner] = "pop" /\ sb[Owner] = <<>>
      /\ UNCHANGED <<front, mem, local_epochs, retired, freed, slot, loc, pushed>>
  BY DEF PopFront, PopFenced, Fenced
<1>3. /\ Waiting = 0 /\ InMemory[0] = own /\ 0 \in 0 .. Waiting
      /\ b \in Int /\ Top = b + 1 /\ front \in Nat /\ front <= b + 1 /\ pushed \in Nat
  <2>1. Waiting = 0
    BY <1>2, EmptySeq DEF Waiting
  <2> QED BY <1>1, <1>2, <2>1, MemoryFacts, DequeFacts DEF Top
<1>4. CASE front > b
  <2>1. front = own.back + 1 /\ OwnerPut(Set("back", front)) /\ Goto(Owner, "idle") /\ taken' = taken
    BY <1>1, <1>3, <1>4 DEF PopFront
  <2> QED BY <1>2, <2>1, RestoreKept
<1>5. CASE front <= b
  <2>1. sb' = sb /\ own' = own
    BY <1>1, <1>3, <1>5 DEF PopFront
  <2>2. PICK label \in {"idle", "pop_cas"} :
           /\ Goto(Owner, label)
           /\ label = "pop_cas" => front = b /\ taken' = taken
           /\ label = "idle" => front < b /\ taken' = taken \cup {Item(b)}
    BY <1>1, <1>3, <1>5 DEF PopFront, Return, PoppedItem, Item
  <2>3. Places' /\ pc'[Owner] = label /\ \A u \in Thief : pc'[u] = pc[u] /\ loc'[u] = loc[u]
    BY <1>2, <2>2, OwnerMoves DEF MemoryInv, Types, OwnerAt
  <2>4. /\ Buffers' /\ Onward' /\ InMemory' = InMemory /\ Waiting' = Waiting
        /\ \A k : Capacity(k)' = Capacity(k)
    BY <1>2, <2>1, MemorySame
  <2>5. MemoryInv'
    <3>1. StoreBuffers' /\ Values'
      BY <1>2, <2>1 DEF MemoryInv, Types, StoreBuffers, Values
    <3> QED BY <2>3, <2>4, <3>1 DEF MemoryInv, Types
  <2>6. \A n, k, i : Item(i)' = Item(i) /\ Shows(n, k, i)' = Shows(n, k, i)
    BY <2>1, <2>4 DEF Shows, Item, At, Capacity
  <2>7. /\ label = "pop_cas" => Top' = Top
        /\ label = "idle" => Top' = b /\ b = Top - 1 /\ b \in front .. Top - 1
    <3>1. label = "pop_cas" => Top' = own.back + 1
      BY <2>1, <2>3 DEF Top
    <3>2. label = "idle" => Top' = own.back
      BY <2>1, <2>3 DEF Top
    <3> QED BY <1>1, <1>3, <2>2, <3>1, <3>2
  <2>8. Stays \/ TakesLast
    <3>1. CASE label = "pop_cas"
      BY <1>2, <2>2, <2>6, <2>7, <3>1 DEF Stays
    <3>2. CASE label = "idle"
      <4>1. Item(Top - 1) = Item(b) /\ front < Top
        BY <1>3, <2>2, <2>7, <3>2
      <4> QED BY <1>2, <2>2, <2>6, <2>7, <3>2, <4>1 DEF TakesLast
    <3> QED BY <3>1, <3>2
  <2>9. Top' \in Int /\ front <= Top' /\ b <= Top' /\ Top' <= Top /\ (front < Top => front < Top')
    BY <1>3, <2>2, <2>7
  <2>10. Ends'
    <3>1. Capacity(own.buffer)' = Capacity(own.buffer)
      BY <2>1 DEF Capacity
    <3>2. front' <= Top' /\ Top' <= pushed' /\ Top' - front' <= Capacity(own.buffer)'
      BY <1>2, <1>3, <2>9, <3>1, DequeFacts
    <3>3. taken' \in SUBSET (1 .. pushed')
      <4>1. label = "idle" => Item(b) \in 1 .. pushed
        BY <2>7, DequeFacts
      <4>2. taken \in SUBSET (1 .. pushed)
        BY DequeFacts
      <4> QED BY <1>2, <2>2, <4>1, <4>2
    <3>4. \A i \in front' .. Top' - 1 : Item(i)' \in 1 .. pushed'
      <4>1. \A i \in front' .. Top' - 1 : i \in front .. Top - 1
        <5>1. PICK x : x = Top'
          OBVIOUS
        <5>2. PICK y : y = Top
          OBVIOUS
        <5>3. x \in Int /\ y \in Int /\ x <= y /\ front' = front /\ front \in Int
          BY <1>2, <1>3, <2>9, <5>1, <5>2
        <5>4. \A i \in front .. x - 1 : i \in front .. y - 1
          BY <5>3
        <5> QED BY <5>1, <5>2, <5>3, <5>4
      <4> QED BY <1>2, <2>6, <4>1, DequeFacts
    <3>5. \A n \in 0 .. Waiting' : InMemory'[n].back <= Top'
      BY <1>1, <1>3, <2>4, <2>9
    <3>6. pc'[Owner] = "pop_cas" => own'.back <= front'
      BY <1>1, <1>2, <1>3, <2>1, <2>2, <2>3
    <3> QED BY <2>3, <3>2, <3>3, <3>4, <3>5, <3>6 DEF Ends
  <2>11. Published' /\ \A u \in Thief : pc'[u] = pc[u] /\ loc'[u] = loc[u] => Theft(u)'
    <3>1. PICK o : o = [n \in 0 .. Waiting |-> n]
      OBVIOUS
    <3>2. o \in [0 .. Waiting' -> 0 .. Waiting] /\ \A n \in 0 .. Waiting' : o[n] = n
      BY <2>4, <3>1
    <3>3. \A n1, n2 \in 0 .. Waiting' : n1 <= n2 => o[n1] <= o[n2]
      BY <3>2
    <3>4. front <= front' /\ own.buffer <= own'.buffer /\ (front' = front /\ front < Top => front < Top')
      BY <1>2, <1>3, <2>1, <2>9, MemoryFacts
    <3>5. \A i \in front .. Top - 1 : Item(i)' = Item(i)
      BY <2>6
    <3>6. \A n \in 0 .. Waiting', k \in 1 .. own.buffer, i \in front .. Top - 1 :
             Shows(o[n], k, i) => Shows(n, k, i)'
      BY <2>6, <3>2
    <3>7. \A n \in 0 .. Waiting' : /\ InMemory'[n].buffer = InMemory[o[n]].buffer
                                   /\ InMemory'[n].back = InMemory[o[n]].back
      BY <2>4, <3>2
    <3> QED BY <2>5, <3>2, <3>3, <3>4, <3>5, <3>6, <3>7, Kept
  <2>12. DequeInv'
    BY <2>3, <2>10, <2>11 DEF DequeInv, Thieves
  <2> QED BY <2>5, <2>8, <2>12
<1> QED BY <1>3, <1>4, <1>5

LEMMA PopCasKept ==
    ASSUME MemoryInv, DequeInv, PopCas
    PROVE  MemoryInv' /\ DequeInv' /\ (Stays \/ TakesFirst)
<1>1. PICK b : b = own.back
  OBVIOUS
<1>2. /\ pc[Owner] = "pop_cas" /\ sb[Owner] = <<>> /\ OwnerPut(Set("back", front'))
      /\ Goto(Owner, "idle") /\ "idle" \in OwnerAt
      /\ UNCHANGED <<mem, local_epochs, retired, freed, slot, loc, pushed>>
  BY DEF PopCas, Fenced, OwnerAt
<1>3. /\ Waiting = 0 /\ InMemory[0] = own /\ 0 \in 0 .. Waiting
      /\ b \in Int /\ Top = b + 1 /\ front \in Nat /\ front <= b + 1 /\ b <= front /\ pushed \in Nat
  <2>1. Waiting = 0
    BY <1>2, EmptySeq DEF Waiting
  <2> QED BY <1>1, <1>2, <2>1, MemoryFacts, DequeFacts DEF Top, DequeInv, Ends
<1>4. CASE front # b
  <2>1. front' = front /\ taken' = taken /\ front = own.back + 1
    BY <1>1, <1>3, <1>4 DEF PopCas
  <2> QED BY <1>2, <2>1, RestoreKept
<1>5. CASE front = b
  <2>1. front' = front + 1 /\ taken' = taken \cup {Item(b)}
    BY <1>1, <1>5 DEF PopCas, Return, PoppedItem, Item
  <2>2. PICK v : v = front'
    OBVIOUS
  <2>3. PICK w : w = Set("back", v)
    OBVIOUS
  <2>4. v \in Nat /\ v = b + 1 /\ OwnerPut(w) /\ front <= front' /\ front' \in Nat
    BY <1>2, <1>3, <1>5, <2>1, <2>2, <2>3
  <2>5. own'.back = v
    <3>1. own' = [own EXCEPT !.back = v] /\ own \in Memory
      BY <2>3, <2>4, MemoryFacts DEF OwnerPut, Apply, Set
    <3> QED BY <3>1 DEF Memory
  <2>6. /\ MemoryInv' /\ Published' /\ Thieves' /\ pc'[Owner] = "idle"
        /\ Waiting' = Waiting + 1
        /\ \A n \in 0 .. Waiting : InMemory'[n] = InMemory[n]
        /\ InMemory'[Waiting + 1] = own'
        /\ Capacity(own.buffer)' = Capacity(own.buffer)
        /\ \A i : Item(i)' = Item(i)
    <3>1. front' = front /\ front < Top => front < Top'
      BY <1>3, <2>1
    <3>2. \E x \in Int : w = Set("back", x)
      BY <2>3, <2>4
    <3>3. retired' \in [0 .. 2 -> SUBSET Nat] /\ freed' \in SUBSET Nat
      BY <1>2, DequeFacts
    <3>4. UNCHANGED <<local_epochs, slot, loc, pushed>> /\ mem' = mem
      BY <1>2
    <3> QED BY <1>2, <2>4, <3>1, <3>2, <3>3, <3>4, OneKept
  <2>7. Top' = v /\ Top = v /\ front' = v
    BY <1>3, <2>2, <2>4, <2>5, <2>6 DEF Top
  <2>8. Item(b) = Item(front) /\ front < Top /\ Item(b) \in 1 .. pushed
    <3>1. b \in front .. Top - 1
      BY <1>3, <1>5
    <3> QED BY <1>3, <1>5, <3>1, DequeFacts
  <2>9. TakesFirst
    BY <1>2, <2>1, <2>6, <2>7, <2>8 DEF TakesFirst
  <2>10. Ends'
    <3>1. taken' \in SUBSET (1 .. pushed')
      <4>1. taken \in SUBSET (1 .. pushed)
        BY DequeFacts
      <4> QED BY <1>2, <2>1, <2>8, <4>1
    <3>2. front' <= Top' /\ Top' <= pushed' /\ Top' - front' <= Capacity(own.buffer)'
      BY <1>2, <2>4, <2>6, <2>7, DequeFacts
    <3>3. \A i \in front' .. Top' - 1 : FALSE
      BY <2>4, <2>7
    <3>4. \A n \in 0 .. Waiting' : InMemory'[n].back <= Top'
      <4>1. \A n \in 0 .. Waiting' : n = 0 \/ n = Waiting + 1
        BY <1>3, <2>6
      <4>2. own.back <= Top' /\ own'.back <= Top'
        BY <1>1, <1>3, <2>4, <2>5, <2>7
      <4> QED BY <1>3, <2>6, <4>1, <4>2
    <3> QED BY <2>6, <3>1, <3>2, <3>3, <3>4 DEF Ends
  <2> QED BY <2>6, <2>9, <2>10 DEF DequeInv
<1> QED BY <1>4, <1>5

\* A slot written at the right end is none of those the deque uses.
LEMMA StoreKept ==
    ASSUME MemoryInv, DequeInv, StoreItem, pc[Owner] \in {"idle", "store"}, pushed < MaxItems,
           Top - front < Capacity(own.buffer),
           UNCHANGED <<front, mem, local_epochs, retired, freed, slot, loc, taken>>
    PROVE  MemoryInv' /\ DequeInv' /\ Adds
<1>1. PICK l : l = Waiting
  OBVIOUS
<1>2. PICK b : b = own.back
  OBVIOUS
<1>3. PICK K : K = own.buffer
  OBVIOUS
<1>4. PICK y : y = At(K, b)
  OBVIOUS
<1>5. /\ Buffers' /\ Onward' /\ own' \in Memory /\ StoreBuffers'
      /\ l \in Nat /\ Waiting' = l + 2
      /\ \A n \in 0 .. l : InMemory'[n] = InMemory[n]
      /\ InMemory'[l + 2] = own'
      /\ InMemory'[l + 1].back = b /\ InMemory'[l + 1].buffer = K
      /\ InMemory'[l + 1].data = own'.data
      /\ own'.back = b + 1 /\ own'.buffer = K
      /\ \A k \in 1 .. K :
            /\ Capacity(k)' = Capacity(k)
            /\ \A z \in 1 .. Capacity(k) :
                  own'.data[k][z] = IF k = K /\ z = y THEN pushed + 1 ELSE own.data[k][z]
  BY <1>1, <1>2, <1>3, <1>4, MemoryItem
<1>6. /\ Goto(Owner, "idle") /\ "idle" \in OwnerAt /\ pushed' = pushed + 1
  BY DEF StoreItem, OwnerAt
<1>7. Places' /\ pc'[Owner] = "idle" /\ \A u \in Thief : pc'[u] = pc[u] /\ loc'[u] = loc[u]
  BY <1>6, OwnerMoves DEF MemoryInv, Types
<1>8. /\ b \in Int /\ K \in Nat /\ K \in 1 .. K /\ InMemory[l] = own /\ own \in Memory
      /\ \A k \in 1 .. K : Capacity(k) \in Nat /\ Capacity(k) >= 1
  BY <1>1, <1>2, <1>3, MemoryFacts DEF MemoryInv, Buffers
<1>9. Top = b /\ Top' = b + 1
  BY <1>2, <1>5, <1>7 DEF Top
<1>10. /\ front \in Nat /\ front <= b /\ b - front < Capacity(K) /\ b <= pushed
       /\ pushed \in Nat /\ MaxItems \in Nat
  BY <1>3, <1>9, DequeFacts
<1>11. MemoryInv'
  <2>1. Values'
    BY <1>5, <1>6, <1>10 DEF MemoryInv, Types, Values
  <2> QED BY <1>5, <1>7, <2>1 DEF MemoryInv, Types
<1>12. ASSUME NEW k \in 1 .. K, NEW i \in Int
       PROVE  /\ At(k, i)' = At(k, i) /\ At(k, i) \in 1 .. Capacity(k)
              /\ own'.data[k][At(k, i)] = IF k = K /\ At(k, i) = y THEN pushed + 1
                                          ELSE own.data[k][At(k, i)]
  <2>1. At(k, i) \in 1 .. Capacity(k)
    BY <1>8, SlotRange DEF At
  <2>2. At(k, i)' = At(k, i)
    BY <1>5 DEF At
  <2> QED BY <1>5, <2>1, <2>2
<1>13. ASSUME NEW i \in front .. b - 1 PROVE At(K, i) # y
  <2>1. i \in Int /\ i < b /\ b < i + Capacity(K)
    BY <1>8, <1>10
  <2> QED BY <1>4, <1>8, <2>1, SlotsApart DEF At
<1>14. \A i \in Int : Item(i)' = own'.data[K][At(K, i)]
  BY <1>5, <1>8, <1>12 DEF Item
<1>15. ASSUME NEW i \in front .. b - 1 PROVE Item(i)' = Item(i)
  <2>1. i \in Int
    OBVIOUS
  <2> QED BY <1>3, <1>8, <1>12, <1>13, <1>14, <2>1 DEF Item
<1>16. Item(b)' = pushed + 1
  BY <1>4, <1>8, <1>12, <1>14
<1>17. Adds
  <2>1. \A i \in front .. Top - 1 : Item(i)' = Item(i)
    BY <1>9, <1>15
  <2>2. \A i : i = Top => Item(i)' = pushed + 1
    BY <1>9, <1>16
  <2> QED BY <1>6, <1>9, <2>1, <2>2 DEF Adds
<1>18. Ends'
  <2>1. Capacity(own.buffer)' = Capacity(K) /\ Capacity(K) \in Nat
    <3>1. Capacity(K)' = Capacity(own.buffer)'
      BY <1>5 DEF Capacity
    <3> QED BY <1>5, <1>8, <3>1
  <2>2. front' <= Top' /\ Top' <= pushed' /\ Top' - front' <= Capacity(own.buffer)'
    BY <1>6, <1>8, <1>9, <1>10, <2>1
  <2>3. taken' \in SUBSET (1 .. pushed')
    <3>1. taken' \in SUBSET (1 .. pushed)
      BY DequeFacts
    <3> QED BY <1>6, <1>10, <3>1
  <2>4. \A i \in front' .. Top' - 1 : Item(i)' \in 1 .. pushed'
    <3>1. \A i \in front .. (b + 1) - 1 : i \in front .. b - 1 \/ i = b
      BY <1>8, <1>10
    <3>2. \A i \in front .. b - 1 : Item(i)' \in 1 .. pushed + 1
      <4>1. \A i \in front .. b - 1 : Item(i) \in 1 .. pushed
        BY <1>9, DequeFacts
      <4> QED BY <1>10, <1>15, <4>1
    <3>3. Item(b)' \in 1 .. pushed + 1
      BY <1>10, <1>16
    <3> QED BY <1>6, <1>9, <3>1, <3>2, <3>3
  <2>5. \A n \in 0 .. Waiting' : InMemory'[n].back <= Top'
    <3>1. \A n \in 0 .. l + 2 : n \in 0 .. l \/ n = l + 1 \/ n = l + 2
      BY <1>5
    <3>2. ASSUME NEW n \in 0 .. l PROVE InMemory[n].back <= b + 1
      <4>1. InMemory[n].back <= b /\ InMemory[n].back \in Int
        BY <1>1, <1>9, MemoryFacts, DequeFacts
      <4> QED BY <1>8, <4>1
    <3>3. b <= b + 1 /\ b + 1 <= b + 1
      BY <1>8
    <3> QED BY <1>5, <1>9, <3>1, <3>2, <3>3
  <2> QED BY <1>7, <2>2, <2>3, <2>4, <2>5 DEF Ends
<1>19. PICK o : o = [n \in 0 .. l + 2 |-> IF n <= l THEN n ELSE l]
  OBVIOUS
<1>20. o \in [0 .. l + 2 -> 0 .. l] /\ o[l + 1] = l /\ o[l + 2] = l /\ \A n \in 0 .. l : o[n] = n
  BY <1>5, <1>19
<1>21. \A n \in 0 .. l + 2 : n \in 0 .. l \/ n = l + 1 \/ n = l + 2
  BY <1>5
<1>22. \A n \in 0 .. l + 2 : InMemory'[n].buffer = InMemory[o[n]].buffer
  BY <1>3, <1>5, <1>8, <1>20, <1>21, ZenonT(40)
<1>23. ASSUME NEW n \in {l + 1, l + 2}, NEW i \in Int PROVE Shows(n, K, i)'
  BY <1>5, <1>8, <1>12, <1>14, <1>23 DEF Shows
<1>24. ASSUME NEW n \in 0 .. l + 2, NEW k \in 1 .. K, NEW i \in front .. b - 1, Shows(o[n], k, i)
       PROVE  Shows(n, k, i)'
  <2>1. i \in Int /\ Item(i)' = Item(i)
    BY <1>15
  <2>2. CASE n \in 0 .. l
    <3>1. Shows(n, k, i) /\ InMemory'[n] = InMemory[n] /\ At(k, i)' = At(k, i)
      BY <1>5, <1>12, <1>20, <1>24, <2>1, <2>2
    <3> QED BY <2>1, <3>1 DEF Shows
  <2>3. CASE n \in {l + 1, l + 2} /\ k = K
    BY <1>23, <2>1, <2>3
  <2>4. CASE n \in {l + 1, l + 2} /\ k # K
    <3>1. own.data[k][At(k, i)] = Item(i)
      BY <1>8, <1>20, <1>24, <2>4 DEF Shows
    <3>2. own'.data[k][At(k, i)] = Item(i) /\ At(k, i)' = At(k, i)
      BY <1>12, <2>1, <2>4, <3>1
    <3> QED BY <1>5, <2>1, <2>4, <3>2 DEF Shows
  <2> QED BY <1>21, <2>2, <2>3, <2>4
<1>25. Published' /\ \A u \in Thief : pc'[u] = pc[u] /\ loc'[u] = loc[u] => Theft(u)'
  <2>1. o \in [0 .. Waiting' -> 0 .. Waiting]
    BY <1>1, <1>5, <1>20
  <2>2. \A n1, n2 \in 0 .. Waiting' : n1 <= n2 => o[n1] <= o[n2]
    <3>1. \A n1, n2 \in 0 .. l + 2 : n1 <= n2 => o[n1] <= o[n2]
      BY <1>5, <1>19
    <3> QED BY <1>5, <3>1
  <2>3. own.buffer <= own'.buffer /\ front <= front' /\ (front' = front /\ front < Top => front < Top')
    BY <1>3, <1>5, <1>8, <1>9, <1>10
  <2>4. \A i \in front .. Top - 1 : Item(i)' = Item(i)
    BY <1>9, <1>15
  <2>5. \A n \in 0 .. Waiting', k \in 1 .. own.buffer, i \in front .. Top - 1 :
           Shows(o[n], k, i) => Shows(n, k, i)'
    BY <1>3, <1>5, <1>9, <1>24
  <2>6. ASSUME NEW n \in 0 .. Waiting'
        PROVE  \/ InMemory'[n].back = InMemory[o[n]].back
               \/ \A n1, n2 \in 0 .. Waiting', i \in front' .. InMemory'[n].back - 1 : \A k :
                     n <= n1 /\ n <= n2 /\ k = InMemory'[n2].buffer => Shows(n1, k, i)'
    <3>1. CASE n \in 0 .. l
      BY <1>5, <1>20, <3>1
    <3>2. CASE n = l + 1
      BY <1>2, <1>5, <1>8, <1>20, <3>2
    <3>3. CASE n = l + 2
      <4>1. ASSUME NEW n1 \in 0 .. Waiting', NEW n2 \in 0 .. Waiting',
                   NEW i \in front' .. InMemory'[n].back - 1, NEW k,
                   n <= n1, n <= n2, k = InMemory'[n2].buffer
            PROVE  Shows(n1, k, i)'
        <5>1. n1 = l + 2 /\ n2 = l + 2 /\ i \in Int
          BY <1>5, <3>3, <4>1
        <5> QED BY <1>5, <1>23, <4>1, <5>1
      <4> QED BY <4>1
    <3> QED BY <1>5, <1>21, <3>1, <3>2, <3>3
  <2>7. \A n \in 0 .. Waiting' : InMemory'[n].buffer = InMemory[o[n]].buffer
    BY <1>5, <1>22
  <2> QED BY <1>11, <2>1, <2>2, <2>3, <2>4, <2>5, <2>6, <2>7, Kept
<1>26. DequeInv'
  BY <1>7, <1>18, <1>25 DEF DequeInv, Thieves
<1> QED BY <1>11, <1>17, <1>26

\* The new buffer holds all items, wherever memory is on its way.
LEMMA GrowKept ==
    ASSUME MemoryInv, DequeInv, PushGrow
    PROVE  MemoryInv' /\ DequeInv' /\ Stays
<1>1. PICK l : l = Waiting
  OBVIOUS
<1>2. PICK b : b = own.back
  OBVIOUS
<1>3. PICK K : K = own.buffer
  OBVIOUS
<1>4. PICK c : c = Capacity(K)
  OBVIOUS
<1>5. PICK grown : grown = Resized(K, front, b)
  OBVIOUS
<1>6. PICK next : next = K + 1
  OBVIOUS
<1>7. /\ b \in Int /\ K \in Nat /\ K \in 1 .. K /\ InMemory[l] = own /\ l \in Nat /\ Len(own.data) = K
      /\ c \in Nat /\ c >= 1 /\ next \in Nat
  BY <1>1, <1>2, <1>3, <1>4, <1>6, MemoryFacts DEF MemoryInv, Buffers
<1>8. /\ pc[Owner] = "idle" /\ pushed < MaxItems /\ b - front >= c /\ Room(Owner, 1)
      /\ UNCHANGED <<front, local_epochs, freed, loc, pushed, taken>>
      /\ slot' = 0 /\ retired' = [retired EXCEPT ![own.global_epoch % 3] = @ \cup {K}]
  BY <1>2, <1>3, <1>4 DEF PushGrow
<1>9. /\ Put(Owner, <<Set("buffer", own.buffer + 1)>>)
      /\ own' = [own EXCEPT !.buffer = own.buffer + 1, !.data = Append(@, grown)]
      /\ mem' = [mem EXCEPT !.data = Append(@, grown)]
  BY <1>2, <1>3, <1>5, <1>7 DEF PushGrow
<1>10. PICK label \in {"scan", "advance"} : Goto(Owner, label)
  BY DEF PushGrow
<1>11. Top = b /\ front \in Nat /\ front <= b /\ b - front <= c /\ b <= pushed
       /\ pushed \in Nat /\ MaxItems \in Nat
  <2>1. Top = b
    BY <1>2, <1>8 DEF Top
  <2> QED BY <1>3, <1>4, <2>1, DequeFacts
<1>12. /\ grown \in Seq(Nat) /\ Len(grown) = 2 * c
       /\ \A i \in front .. b - 1 : grown[Slot(i, 2 * c)] = Item(i)
  <2>1. b - front <= 2 * Capacity(K) /\ K \in 1 .. own.buffer /\ front \in Int
    BY <1>3, <1>4, <1>7, <1>11
  <2>2. /\ grown \in Seq(Nat) /\ Len(grown) = 2 * Capacity(K)
        /\ \A i \in front .. b - 1 : grown[Slot(i, 2 * Capacity(K))] = own.data[K][At(K, i)]
    BY <1>5, <1>7, <2>1, ResizedFacts
  <2> QED BY <1>3, <1>4, <2>2 DEF Item
<1>13. /\ Buffers' /\ Onward' /\ own' \in Memory /\ mem' \in Memory /\ StoreBuffers'
       /\ Waiting' = l + 1 /\ InMemory'[l + 1] = own'
       /\ own'.buffer = next /\ own'.back = b
       /\ \A n \in 0 .. l :
             /\ InMemory'[n].back = InMemory[n].back
             /\ InMemory'[n].buffer = InMemory[n].buffer
             /\ \A k \in 1 .. K : InMemory'[n].data[k] = InMemory[n].data[k]
       /\ \A n \in 0 .. l + 1 : InMemory'[n].data[next] = grown
       /\ \A k \in 1 .. K : own'.data[k] = own.data[k] /\ Capacity(k)' = Capacity(k)
       /\ Capacity(own.buffer)' = 2 * c
  <2>1. Len(grown) = 2 * Capacity(own.buffer)
    BY <1>3, <1>4, <1>12
  <2>2. /\ Buffers' /\ Onward' /\ own' \in Memory /\ mem' \in Memory /\ StoreBuffers'
        /\ Waiting' = Waiting + 1 /\ InMemory'[Waiting + 1] = own'
        /\ own'.buffer = own.buffer + 1 /\ own'.back = own.back
        /\ \A n \in 0 .. Waiting :
              /\ InMemory'[n].back = InMemory[n].back
              /\ InMemory'[n].buffer = InMemory[n].buffer
              /\ \A k \in 1 .. own.buffer : InMemory'[n].data[k] = InMemory[n].data[k]
        /\ \A n \in 0 .. Waiting + 1 : InMemory'[n].data[own.buffer + 1] = grown
        /\ \A k \in 1 .. own.buffer : own'.data[k] = own.data[k] /\ Capacity(k)' = Capacity(k)
        /\ Capacity(own.buffer)' = 2 * Capacity(own.buffer)
    BY <1>8, <1>9, <1>12, <2>1, MemoryGrown
  <2> QED BY <1>1, <1>2, <1>3, <1>4, <1>6, <2>2
<1>14. Places' /\ pc'[Owner] = label /\ \A u \in Thief : pc'[u] = pc[u] /\ loc'[u] = loc[u]
  BY <1>8, <1>10, OwnerMoves DEF MemoryInv, Types, OwnerAt
<1>15. MemoryInv'
  <2>1. retired' \in [0 .. 2 -> SUBSET Nat] /\ freed' \in SUBSET Nat
    <3>1. retired \in [0 .. 2 -> SUBSET Nat] /\ freed \in SUBSET Nat
      BY DequeFacts
    <3> QED BY <1>7, <1>8, <3>1
  <2>2. Values'
    BY <1>8, <1>13, <2>1 DEF MemoryInv, Types, Values
  <2> QED BY <1>13, <1>14, <2>2 DEF MemoryInv, Types
<1>16. Top' = Top
  BY <1>11, <1>13, <1>14 DEF Top
<1>17. \A k \in 1 .. K, i \in Int : At(k, i)' = At(k, i)
  BY <1>13 DEF At
<1>18. \A i : At(next, i)' = Slot(i, 2 * c)
  <2>1. Capacity(next)' = 2 * c
    BY <1>13 DEF Capacity
  <2> QED BY <2>1 DEF At
<1>19. own'.data[next] = grown
  <2>1. l + 1 \in 0 .. l + 1
    BY <1>7
  <2> QED BY <1>13, <2>1
<1>20. \A i \in front .. b - 1 : Item(i)' = Item(i)
  BY <1>12, <1>13, <1>18, <1>19 DEF Item
<1>21. Stays
  <2>1. \A i \in front .. Top - 1 : Item(i)' = Item(i)
    BY <1>11, <1>20
  <2> QED BY <1>8, <1>16, <2>1 DEF Stays
<1>22. \A n \in 0 .. l + 1 : n \in 0 .. l \/ n = l + 1
  BY <1>7
<1>23. Ends'
  <2>1. front' <= Top' /\ Top' <= pushed' /\ Top' - front' < Capacity(own.buffer)'
        /\ Top' - front' <= Capacity(own.buffer)' /\ pushed' < MaxItems
    BY <1>7, <1>8, <1>11, <1>13, <1>16
  <2>2. taken' \in SUBSET (1 .. pushed')
    <3>1. taken \in SUBSET (1 .. pushed)
      BY DequeFacts
    <3> QED BY <1>8, <3>1
  <2>3. \A i \in front' .. Top' - 1 : Item(i)' \in 1 .. pushed'
    <3>1. \A i \in front .. b - 1 : Item(i) \in 1 .. pushed
      BY <1>11, DequeFacts
    <3> QED BY <1>8, <1>11, <1>16, <1>20, <3>1
  <2>4. \A n \in 0 .. Waiting' : InMemory'[n].back <= Top'
    <3>1. \A n \in 0 .. l : InMemory[n].back <= Top
      BY <1>1, DequeFacts
    <3>2. b <= b
      BY <1>7
    <3> QED BY <1>11, <1>13, <1>16, <1>22, <3>1, <3>2
  <2> QED BY <1>14, <2>1, <2>2, <2>3, <2>4 DEF Ends
<1>24. PICK o : o = [n \in 0 .. l + 1 |-> IF n <= l THEN n ELSE l]
  OBVIOUS
<1>25. o \in [0 .. l + 1 -> 0 .. l] /\ o[l + 1] = l /\ \A n \in 0 .. l : o[n] = n
  BY <1>7, <1>24
<1>26. ASSUME NEW n \in 0 .. l + 1, NEW i \in front .. b - 1 PROVE Shows(n, next, i)'
  <2>1. InMemory'[n].data[next] = grown /\ At(next, i)' = Slot(i, 2 * c)
    BY <1>13, <1>18
  <2>2. grown[Slot(i, 2 * c)] = Item(i) /\ Item(i)' = Item(i)
    BY <1>12, <1>20
  <2> QED BY <2>1, <2>2 DEF Shows
<1>27. ASSUME NEW n \in 0 .. l + 1, NEW k \in 1 .. K, NEW i \in front .. b - 1, Shows(o[n], k, i)
       PROVE  Shows(n, k, i)'
  <2>1. i \in Int /\ Item(i)' = Item(i) /\ At(k, i)' = At(k, i)
    BY <1>17, <1>20
  <2>2. InMemory'[n].data[k] = InMemory[o[n]].data[k]
    BY <1>7, <1>13, <1>22, <1>25
  <2> QED BY <1>27, <2>1, <2>2 DEF Shows
<1>28. Published' /\ \A u \in Thief : pc'[u] = pc[u] /\ loc'[u] = loc[u] => Theft(u)'
  <2>1. o \in [0 .. Waiting' -> 0 .. Waiting]
    BY <1>1, <1>13, <1>25
  <2>2. \A n1, n2 \in 0 .. Waiting' : n1 <= n2 => o[n1] <= o[n2]
    <3>1. \A n1, n2 \in 0 .. l + 1 : n1 <= n2 => o[n1] <= o[n2]
      BY <1>7, <1>24
    <3> QED BY <1>13, <3>1
  <2>3. own.buffer <= own'.buffer /\ front <= front' /\ (front' = front /\ front < Top => front < Top')
    BY <1>3, <1>6, <1>7, <1>8, <1>11, <1>13, <1>16
  <2>4. \A i \in front .. Top - 1 : Item(i)' = Item(i)
    BY <1>11, <1>20
  <2>5. \A n \in 0 .. Waiting', k \in 1 .. own.buffer, i \in front .. Top - 1 :
           Shows(o[n], k, i) => Shows(n, k, i)'
    BY <1>3, <1>11, <1>13, <1>27
  <2>6. ASSUME NEW n \in 0 .. Waiting'
        PROVE  \/ InMemory'[n].buffer = InMemory[o[n]].buffer
               \/ \A n1 \in 0 .. Waiting', i \in front .. Top - 1 : \A k :
                     k = InMemory'[n].buffer => Shows(n1, k, i)'
    <3>1. CASE n \in 0 .. l
      BY <1>13, <1>25, <3>1
    <3>2. CASE n = l + 1
      <4>1. InMemory'[n].buffer = next
        BY <1>13, <3>2
      <4> QED BY <1>11, <1>13, <1>26, <4>1
    <3> QED BY <1>13, <1>22, <3>1, <3>2
  <2>7. \A n \in 0 .. Waiting' : InMemory'[n].back = InMemory[o[n]].back
    BY <1>2, <1>7, <1>13, <1>22, <1>25
  <2> QED BY <1>15, <2>1, <2>2, <2>3, <2>4, <2>5, <2>6, <2>7, Kept
<1>29. DequeInv'
  BY <1>14, <1>23, <1>28 DEF DequeInv, Thieves
<1> QED BY <1>15, <1>21, <1>29

LEMMA InitialDeque ==
    ASSUME Init
    PROVE  MemoryInv /\ DequeInv
<1>1. /\ Owner \in Thread /\ Cap0 \in Nat /\ Cap0 >= 1 /\ MaxItems \in Nat /\ SbDepth \in Nat
      /\ \A t \in Thief : t \in Thread /\ t # Owner
  BY ThreadFacts
<1>2. PICK items : items = [j \in 1 .. Cap0 |-> 0]
  OBVIOUS
<1>3. items \in Seq(Nat) /\ Len(items) = Cap0
  <2>1. items \in [1 .. Cap0 -> Nat]
    BY <1>2
  <2> QED BY <1>1, <2>1, SeqDef, LenProperties
<1>4. /\ mem = [back |-> 0, buffer |-> 1, global_epoch |-> 0, data |-> <<items>>] /\ own = mem
      /\ front = 0 /\ pushed = 0 /\ taken = {} /\ slot = 0 /\ freed = {}
      /\ \A t \in Thread : sb[t] = <<>> /\ pc[t] = "idle"
  BY <1>2 DEF Init
<1>5. PICK d : d = <<items>>
  OBVIOUS
<1>6. d \in Seq(Seq(Nat)) /\ Len(d) = 1 /\ d[1] = items
  BY <1>3, <1>5
<1>7. own \in Memory /\ mem \in Memory /\ own.buffer = 1 /\ own.back = 0 /\ own.data = d
      /\ own.global_epoch = 0
  BY <1>4, <1>5, <1>6 DEF Memory
<1>8. Types
  <2>1. StoreBuffers
    <3>1. <<>> \in Seq(OwnerStore) /\ <<>> \in Seq(Int) /\ <<>> \in Seq(OwnerStore \cup Int) /\ Len(<<>>) = 0
      BY EmptySeq
    <3> QED BY <1>1, <3>1 DEF Init, StoreBuffers
  <2>2. Places
    BY <1>1 DEF Init, Places, Local, OwnerAt, ThiefAt
  <2>3. Values
    <3>1. local_epochs \in [Thief -> Int] /\ retired \in [0 .. 2 -> SUBSET Nat]
      BY DEF Init, kInactive
    <3> QED BY <1>1, <1>4, <1>7, <3>1 DEF Values
  <2> QED BY <2>1, <2>2, <2>3 DEF Types
<1>9. Waiting = 0 /\ InMemory[0] = own /\ \A n \in 0 .. Waiting : n = 0
  <2>1. Waiting = 0
    BY <1>1, <1>4, EmptySeq DEF Waiting
  <2> QED BY <1>4, <1>8, <2>1, WaitingFacts
<1>10. Capacity(1) = Cap0
  BY <1>3, <1>6, <1>7 DEF Capacity
<1>11. Buffers
  <2>1. \A k \in 1 .. own.buffer : k = 1
    BY <1>7
  <2>2. \A k \in 2 .. own.buffer : FALSE
    BY <1>7
  <2>3. \A p \in 1 .. Waiting : FALSE
    BY <1>9
  <2>4. \A n \in 0 .. Waiting :
           /\ InMemory[n] \in Memory /\ Len(InMemory[n].data) = own.buffer
           /\ \A k \in 1 .. own.buffer : Len(InMemory[n].data[k]) = Capacity(k)
    BY <1>6, <1>7, <1>9 DEF Capacity
  <2>5. own.buffer >= 1 /\ \A k \in 1 .. own.buffer : Capacity(k) >= Cap0
    BY <1>1, <1>7, <1>10, <2>1
  <2> QED BY <2>2, <2>3, <2>4, <2>5 DEF Buffers
<1>12. Onward
  <2>1. \A n \in 1 .. Waiting : FALSE
    BY <1>9
  <2> QED BY <1>7, <1>9, <2>1 DEF Onward
<1>13. Top = 0
  BY <1>1, <1>4, <1>7 DEF Top
<1>14. Ends
  <2>1. Capacity(own.buffer) = Cap0
    BY <1>7, <1>10
  <2>2. \A i \in front .. Top - 1 : FALSE
    BY <1>4, <1>13
  <2>3. \A n \in 0 .. Waiting : InMemory[n].back <= Top
    BY <1>7, <1>9, <1>13
  <2> QED BY <1>1, <1>4, <1>13, <2>1, <2>2, <2>3 DEF Ends
<1>15. Published
  <2>1. \A n \in 0 .. Waiting : \A i \in front .. InMemory[n].back - 1 : FALSE
    BY <1>4, <1>7, <1>9
  <2> QED BY <2>1 DEF Published
<1>16. Thieves
  BY <1>1, <1>4 DEF Thieves, Theft, Chosen
<1> QED BY <1>8, <1>11, <1>12, <1>14, <1>15, <1>16 DEF MemoryInv, DequeInv

\* Every step keeps the deque, and does one of the four things to what it holds.
LEMMA DequeStep ==
    ASSUME MemoryInv, DequeInv, [Next]_vars
    PROVE  MemoryInv' /\ DequeInv' /\ (Stays \/ TakesFirst \/ TakesLast \/ Adds)
<1>1. CASE push_back
  <2>1. CASE PushInPlace
    <3>1. Top = own.back
      BY <2>1 DEF PushInPlace, Top
    <3> QED BY <2>1, <3>1, StoreKept DEF PushInPlace
  <2>2. CASE PushAfterGrow
    <3>1. Top - front < Capacity(own.buffer) /\ pushed < MaxItems
      BY <2>2 DEF PushAfterGrow, DequeInv, Ends
    <3> QED BY <2>2, <3>1, StoreKept DEF PushAfterGrow
  <2> QED BY <1>1, <2>1, <2>2, GrowKept, ScanKept, AdvanceKept DEF push_back
<1>2. CASE pop_back
  BY <1>2, ReserveKept, PopFrontKept, PopCasKept DEF pop_back
<1>3. CASE \E t \in Thief : steal_front(t)
  BY <1>3, LoadFrontKept, LoadBackKept, LoadEpochKept, PinKept, LoadBufferKept, LoadDataKept,
     StealCasKept, UnpinKept DEF steal_front
<1>4. CASE \E t \in Thread : Flush(t)
  <2>1. PICK t \in Thread : Flush(t)
    BY <1>4
  <2>2. t = Owner \/ t \in Thief
    BY DEF Thread
  <2>3. CASE t = Owner
    BY <2>1, <2>3, OwnerFlushKept
  <2>4. CASE t \in Thief
    BY <2>1, <2>4, ThiefFlushKept
  <2> QED BY <2>2, <2>3, <2>4
<1>5. CASE UNCHANGED vars
  <2>1. /\ UNCHANGED <<front, mem, own, local_epochs, sb, retired, freed, pc, slot, loc, pushed, taken>>
    BY <1>5 DEF vars
  <2>2. Types'
    BY <2>1 DEF MemoryInv, Types, StoreBuffers, Places, Values
  <2>3. /\ MemoryInv' /\ Stays /\ Ends' /\ Published'
        /\ \A t \in Thief : pc'[t] = pc[t] /\ loc'[t] = loc[t] => Theft(t)'
    BY <2>1, <2>2, QuietKept
  <2> QED BY <2>1, <2>3 DEF DequeInv, Thieves
<1> QED BY <1>1, <1>2, <1>3, <1>4, <1>5 DEF Next

LEMMA DequeKept == Spec => [](MemoryInv /\ DequeInv)
<1>1. Init => MemoryInv /\ DequeInv
  BY InitialDeque
<1>2. MemoryInv /\ DequeInv /\ [Next]_vars => (MemoryInv /\ DequeInv)'
  BY DequeStep
<1> QED BY <1>1, <1>2, PTL DEF Spec

\* Values are of the types the code gives them, back is never below front by more
\* than the one item a pop_back reserves (line 145), and what the owner sees is
\* memory with its waiting stores applied.
THEOREM DequeTypeCorrect == Spec => []TypeOK
<1>1. ASSUME MemoryInv, DequeInv PROVE TypeOK
  <2>1. /\ front \in Nat /\ pushed \in 0 .. MaxItems /\ MaxItems \in Nat /\ Top \in Int /\ own.back \in Int
        /\ front <= Top /\ Top <= pushed /\ taken \in SUBSET (1 .. pushed)
    BY <1>1, DequeFacts
  <2>2. Top = own.back \/ Top = own.back + 1
    BY DEF Top
  <2>3. front \in 0 .. MaxItems /\ own.back \in front - 1 .. MaxItems
    BY <2>1, <2>2
  <2>4. /\ own.buffer = Len(own.data) /\ mem.buffer \in 1 .. own.buffer
        /\ mem.global_epoch \in 0 .. own.global_epoch
    <3>1. 0 \in 0 .. Waiting /\ mem = InMemory[0]
      BY <1>1, MemoryFacts
    <3>2. mem.buffer \in 1 .. own.buffer /\ mem.global_epoch <= own.global_epoch
          /\ mem.global_epoch \in Nat /\ own.global_epoch \in Nat
      BY <1>1, <3>1, MemoryFacts
    <3> QED BY <1>1, <3>2, MemoryFacts
  <2>5. \A t \in Thread : Len(sb[t]) <= SbDepth
    BY <1>1 DEF MemoryInv, Types, StoreBuffers
  <2>6. InMemory[Len(sb[Owner])] = own
    BY <1>1 DEF MemoryInv, Onward, Waiting
  <2> QED BY <2>1, <2>3, <2>4, <2>5, <2>6 DEF TypeOK
<1> QED BY <1>1, DequeKept, PTL

-----------------------------------------------------------------------------
(* The promised deque *)

LEMMA IntervalLength ==
    ASSUME NEW a \in Nat, NEW b \in Nat, 1 .. a = 1 .. b
    PROVE  a = b
<1>1. a # 0 => a \in 1 .. b
  <2>1. a # 0 => a \in 1 .. a
    OBVIOUS
  <2> QED BY <2>1
<1>2. b # 0 => b \in 1 .. a
  <2>1. b # 0 => b \in 1 .. b
    OBVIOUS
  <2> QED BY <2>1
<1> QED BY <1>1, <1>2

ContentsRight ==
    /\ Contents \in Seq(1 .. pushed) /\ Len(Contents) = Top - front /\ Top - front \in Nat
    /\ DOMAIN Contents = 1 .. Top - front
    /\ \A j \in 1 .. Top - front : Contents[j] = Item(front + j - 1)

LEMMA ContentsFacts ==
    ASSUME MemoryInv, DequeInv
    PROVE  ContentsRight
<1>1. PICK n : n = Top - front
  OBVIOUS
<1>2. n \in Nat /\ front \in Nat /\ Top \in Int
  BY <1>1, DequeFacts
<1>3. Contents = [j \in 1 .. n |-> Item(front + j - 1)]
  BY <1>1 DEF Contents, Item
<1>4. ASSUME NEW j \in 1 .. n PROVE Item(front + j - 1) \in 1 .. pushed
  <2>1. front + j - 1 \in front .. Top - 1
    BY <1>1, <1>2
  <2> QED BY <2>1, DequeFacts
<1>5. Contents \in [1 .. n -> 1 .. pushed]
  BY <1>3, <1>4
<1>6. PICK q : q = Contents
  OBVIOUS
<1>7. q \in Seq(1 .. pushed) /\ Len(q) = n /\ DOMAIN q = 1 .. n
  <2>1. PICK S : S = 1 .. pushed
    OBVIOUS
  <2>2. q \in [1 .. n -> S] /\ DOMAIN q = 1 .. n
    BY <1>5, <1>6, <2>1
  <2>3. q \in Seq(S)
    BY <1>2, <2>2, SeqDef
  <2>4. Len(q) \in Nat /\ 1 .. Len(q) = 1 .. n
    BY <2>2, <2>3, LenProperties
  <2>5. Len(q) = n
    BY <1>2, <2>4, IntervalLength
  <2> QED BY <2>1, <2>2, <2>3, <2>5
<1>8. \A j \in 1 .. n : q[j] = Item(front + j - 1)
  BY <1>3, <1>6
<1> QED BY <1>1, <1>2, <1>6, <1>7, <1>8 DEF ContentsRight

LEMMA DequeStarts ==
    ASSUME Init
    PROVE  Deque!Init
<1>1. MemoryInv /\ DequeInv
  BY InitialDeque
<1>2. Top - front = 0
  BY <1>1, DequeFacts, ThreadFacts DEF Init, Top
<1>3. Contents = <<>>
  BY <1>1, <1>2, ContentsFacts, EmptySeq DEF ContentsRight
<1> QED BY <1>3 DEF Init, Deque!Init

\* The four things a step does are what the promised deque does, or nothing.
LEMMA DequeSteps ==
    ASSUME MemoryInv, DequeInv, ContentsRight', [Next]_vars
    PROVE  [Deque!Next]_Deque!vars
<1>1. MemoryInv' /\ DequeInv' /\ (Stays \/ TakesFirst \/ TakesLast \/ Adds)
  BY DequeStep
<1>2. PICK q : q = Contents
  OBVIOUS
<1>3. PICK r : r = Contents'
  OBVIOUS
<1>4. PICK n : n = Top - front
  OBVIOUS
<1>5. PICK m : m = Top' - front'
  OBVIOUS
<1>6. PICK f : f = front
  OBVIOUS
<1>7. PICK top : top = Top
  OBVIOUS
<1>8. /\ q \in Seq(1 .. pushed) /\ Len(q) = n /\ n \in Nat /\ DOMAIN q = 1 .. n
      /\ \A j \in 1 .. n : q[j] = Item(f + j - 1)
      /\ f \in Nat /\ top \in Int /\ n = top - f /\ pushed \in Nat /\ MaxItems \in Nat
      /\ taken \in SUBSET (1 .. pushed)
  BY <1>2, <1>4, <1>6, <1>7, ContentsFacts, DequeFacts DEF ContentsRight
<1>9. /\ r \in Seq(1 .. pushed') /\ Len(r) = m /\ m \in Nat /\ DOMAIN r = 1 .. m
      /\ \A j \in 1 .. m : r[j] = Item(front + j - 1)'
  BY <1>3, <1>5 DEF ContentsRight
<1>10. q \in Seq(Nat)
  <2>1. q \in [1 .. n -> 1 .. pushed]
    BY <1>8, LenProperties
  <2>2. q \in [1 .. n -> Nat]
    BY <1>8, <2>1
  <2> QED BY <1>8, <2>2, SeqDef
<1>11. \A j \in 1 .. n : f + j - 1 \in f .. top - 1
  BY <1>8
<1>12. CASE Stays
  <2>1. m = n /\ front' = f
    BY <1>4, <1>5, <1>6, <1>12 DEF Stays
  <2>2. ASSUME NEW j \in 1 .. n PROVE r[j] = q[j]
    <3>1. PICK i : i = f + j - 1
      OBVIOUS
    <3>2. i \in f .. top - 1
      BY <1>11, <3>1
    <3>3. Item(i)' = Item(i)
      BY <1>6, <1>7, <1>12, <3>2 DEF Stays
    <3>4. r[j] = Item(i)'
      BY <1>9, <2>1, <3>1 DEF Item
    <3> QED BY <1>8, <3>1, <3>3, <3>4
  <2>3. r = q
    BY <1>8, <1>9, <2>1, <2>2, SeqEqual
  <2> QED BY <1>2, <1>3, <1>12, <2>3 DEF Stays, Deque!vars
<1>13. CASE TakesFirst
  <2>1. m = n - 1 /\ front' = f + 1 /\ n >= 1
    BY <1>4, <1>5, <1>6, <1>7, <1>8, <1>13 DEF TakesFirst
  <2>2. q # <<>> /\ Head(q) = q[1] /\ 1 \in 1 .. n
    BY <1>8, <2>1, EmptySeq
  <2>3. /\ Tail(q) \in Seq(1 .. pushed) /\ Len(Tail(q)) = n - 1
        /\ \A j \in 1 .. n - 1 : Tail(q)[j] = q[j + 1]
    BY <1>8, <2>2, HeadTailProperties
  <2>4. ASSUME NEW j \in 1 .. n - 1 PROVE r[j] = Tail(q)[j]
    <3>1. PICK i : i = f + j
      OBVIOUS
    <3>2. i = f + (j + 1) - 1 /\ j + 1 \in 1 .. n /\ i = (f + 1) + j - 1
      BY <1>8, <2>1, <3>1
    <3>3. i \in f .. top - 1
      BY <1>11, <3>2
    <3>4. Item(i)' = Item(i)
      BY <1>6, <1>7, <1>13, <3>3 DEF TakesFirst
    <3>5. r[j] = Item(i)'
      BY <1>9, <2>1, <3>2 DEF Item
    <3>6. q[j + 1] = Item(i)
      BY <1>8, <3>2
    <3> QED BY <2>3, <3>4, <3>5, <3>6
  <2>5. r = Tail(q)
    BY <1>9, <2>1, <2>3, <2>4, SeqEqual
  <2>6. Head(q) = Item(f)
    <3>1. f + 1 - 1 = f
      BY <1>8
    <3> QED BY <1>8, <2>2, <3>1
  <2>7. taken' = taken \cup {Head(q)}
    BY <1>6, <1>13, <2>6 DEF TakesFirst
  <2>8. Deque!Steal
    BY <1>2, <1>3, <2>2, <2>5, <2>7 DEF Deque!Steal
  <2> QED BY <2>8 DEF Deque!Next
<1>14. CASE TakesLast
  <2>1. m = n - 1 /\ front' = f /\ n >= 1
    BY <1>4, <1>5, <1>6, <1>7, <1>8, <1>14 DEF TakesLast
  <2>2. q # <<>> /\ n \in 1 .. n
    BY <1>8, <2>1, EmptySeq
  <2>3. /\ Shorter(q) \in Seq(1 .. pushed) /\ Len(Shorter(q)) = n - 1
        /\ \A j \in 1 .. n - 1 : Shorter(q)[j] = q[j]
    <3>1. Shorter(q) \in Seq(1 .. pushed)
      BY <1>8, <2>2, LastTaken
    <3>2. \A j \in 1 .. n - 1 : q[j] \in 1 .. pushed
      BY <1>8, ElementOfSeq
    <3> QED BY <1>8, <2>1, <3>1, <3>2, SubSeqProperties DEF Shorter
  <2>4. ASSUME NEW j \in 1 .. n - 1 PROVE r[j] = Shorter(q)[j]
    <3>1. PICK i : i = f + j - 1
      OBVIOUS
    <3>2. j \in 1 .. n
      BY <1>8
    <3>3. i \in f .. top - 1
      BY <1>11, <3>1, <3>2
    <3>4. Item(i)' = Item(i)
      BY <1>6, <1>7, <1>14, <3>3 DEF TakesLast
    <3>5. r[j] = Item(i)'
      BY <1>9, <2>1, <3>1 DEF Item
    <3> QED BY <1>8, <2>3, <3>1, <3>2, <3>4, <3>5
  <2>5. r = Shorter(q)
    BY <1>9, <2>1, <2>3, <2>4, SeqEqual
  <2>6. q[Len(q)] = Item(Top - 1)
    <3>1. f + n - 1 = top - 1
      BY <1>8
    <3> QED BY <1>7, <1>8, <2>2, <3>1
  <2>7. taken' = taken \cup {q[Len(q)]}
    BY <1>14, <2>6 DEF TakesLast
  <2>8. Deque!Pop
    BY <1>2, <1>3, <2>2, <2>5, <2>7 DEF Deque!Pop, Deque!Last, Deque!Front, Shorter
  <2> QED BY <2>8 DEF Deque!Next
<1>15. CASE Adds
  <2>1. m = n + 1 /\ front' = f
    BY <1>4, <1>5, <1>6, <1>7, <1>8, <1>15 DEF Adds
  <2>2. PICK x : x = pushed + 1
    OBVIOUS
  <2>3. x \in 1 .. MaxItems /\ x \in Nat /\ taken' = taken
    BY <1>8, <1>15, <2>2 DEF Adds
  <2>4. x \notin taken /\ \A j \in 1 .. n : q[j] # x
    <3>1. \A j \in 1 .. n : q[j] \in 1 .. pushed
      BY <1>8, ElementOfSeq
    <3> QED BY <1>8, <2>2, <3>1
  <2>5. PICK a : a = Append(q, x)
    OBVIOUS
  <2>6. /\ a \in Seq(Nat) /\ Len(a) = n + 1 /\ a[n + 1] = x /\ \A j \in 1 .. n : a[j] = q[j]
    <3>1. a \in Seq(Nat) /\ Len(a) = Len(q) + 1 /\ a[Len(q) + 1] = x /\ \A j \in 1 .. Len(q) : a[j] = q[j]
      BY <1>10, <2>3, <2>5, AppendProperties
    <3>2. Len(q) = n
      BY <1>8
    <3> QED BY <3>1, <3>2
  <2>7. ASSUME NEW j \in 1 .. n + 1 PROVE r[j] = a[j]
    <3>1. PICK i : i = f + j - 1
      OBVIOUS
    <3>2. r[j] = Item(i)'
      BY <1>9, <2>1, <3>1 DEF Item
    <3>3. CASE j \in 1 .. n
      <4>1. i \in f .. top - 1
        BY <1>11, <3>1, <3>3
      <4>2. Item(i)' = Item(i)
        BY <1>6, <1>7, <1>15, <4>1 DEF Adds
      <4> QED BY <1>8, <2>6, <3>1, <3>2, <3>3, <4>2
    <3>4. CASE j = n + 1
      <4>1. i = Top
        BY <1>7, <1>8, <3>1, <3>4
      <4>2. Item(i)' = x
        BY <1>15, <2>2, <4>1 DEF Adds
      <4> QED BY <2>6, <3>2, <3>4, <4>2
    <3>5. j \in 1 .. n \/ j = n + 1
      BY <1>8
    <3> QED BY <3>3, <3>4, <3>5
  <2>8. r = a
    BY <1>9, <2>1, <2>6, <2>7, SeqEqual
  <2>9. x \notin Deque!ToSet(q) \cup taken
    BY <1>8, <2>4 DEF Deque!ToSet
  <2>10. Deque!Push(x)
    BY <1>2, <1>3, <2>3, <2>5, <2>8, <2>9 DEF Deque!Push
  <2> QED BY <2>3, <2>10 DEF Deque!Next
<1> QED BY <1>1, <1>12, <1>13, <1>14, <1>15

\* push_back, pop_back and steal_front together hand out every item exactly once,
\* the right end of the deque each time, whatever the interleaving and however
\* late the stores reach memory (deque.cpp, lines 115-202).
THEOREM DequeImplemented == Spec => ImplementsDeque
<1>1. Init => Deque!Init
  BY DequeStarts
<1>2. MemoryInv /\ DequeInv => ContentsRight
  BY ContentsFacts
<1>3. MemoryInv /\ DequeInv /\ ContentsRight' /\ [Next]_vars => [Deque!Next]_Deque!vars
  BY DequeSteps
<1> QED BY <1>1, <1>2, <1>3, DequeKept, PTL DEF Spec, ImplementsDeque, Deque!Spec

-----------------------------------------------------------------------------
(* Reclamation *)

LEMMA BucketFacts ==
    ASSUME MemoryInv
    PROVE  /\ own.global_epoch % 3 \in 0 .. 2 /\ (own.global_epoch + 1) % 3 \in 0 .. 2
           /\ TwoEpochsAgo(own.global_epoch) \in 0 .. 2
           /\ TwoEpochsAgo(own.global_epoch) # own.global_epoch % 3
           /\ (own.global_epoch + 1) % 3 # own.global_epoch % 3
           /\ (own.global_epoch + 1) % 3 # TwoEpochsAgo(own.global_epoch)
           /\ \A i \in 0 .. 2 : \/ i = own.global_epoch % 3 \/ i = (own.global_epoch + 1) % 3
                                \/ i = TwoEpochsAgo(own.global_epoch)
           /\ Now \in SUBSET Nat /\ Before \in SUBSET Nat /\ freed \in SUBSET Nat
           /\ retired \in [0 .. 2 -> SUBSET Nat] /\ own.buffer \in Nat /\ own.global_epoch \in Nat
<1>1. PICK e : e = own.global_epoch
  OBVIOUS
<1>2. e \in Nat /\ own.buffer \in Nat /\ retired \in [0 .. 2 -> SUBSET Nat] /\ freed \in SUBSET Nat
  BY <1>1, MemoryFacts DEF MemoryInv, Types, Values
<1>3. /\ e % 3 \in 0 .. 2 /\ (e + 1) % 3 \in 0 .. 2 /\ (e + 2) % 3 \in 0 .. 2
      /\ e % 3 # (e + 1) % 3 /\ e % 3 # (e + 2) % 3 /\ (e + 1) % 3 # (e + 2) % 3
      /\ \A i \in 0 .. 2 : i = e % 3 \/ i = (e + 1) % 3 \/ i = (e + 2) % 3
  BY <1>2, Modulo3
<1>4. TwoEpochsAgo(own.global_epoch) = (e + 2) % 3 /\ own.global_epoch % 3 = e % 3
      /\ (own.global_epoch + 1) % 3 = (e + 1) % 3
  BY <1>1 DEF TwoEpochsAgo
<1>5. retired[e % 3] \in SUBSET Nat /\ retired[(e + 2) % 3] \in SUBSET Nat
  BY <1>2, <1>3
<1>6. Now = retired[e % 3] /\ Before = retired[(e + 2) % 3]
  BY <1>1, <1>4 DEF Now, Before
<1> QED BY <1>1, <1>2, <1>3, <1>4, <1>5, <1>6

\* A step that retires and frees nothing, and lets memory only move on.
LEMMA SteadyKept ==
    ASSUME MemoryInv, DequeInv, EpochInv, UNCHANGED <<retired, freed>>,
           own'.buffer = own.buffer, own'.global_epoch = own.global_epoch,
           \A k \in 1 .. own.buffer : Capacity(k)' = Capacity(k),
           pc'[Owner] \in {"scan", "advance"} => pc[Owner] \in {"scan", "advance"},
           Waiting' \in Nat, front' \in Int, Top' \in Int,
           NEW d \in {0, 1}, Top' - front' <= Top - front + d,
           \A n \in 0 .. Waiting' :
              \/ InMemory'[n].buffer = own.buffer
              \/ \E m \in 0 .. Waiting :
                    /\ InMemory'[n].buffer = InMemory[m].buffer
                    /\ InMemory'[n].global_epoch = InMemory[m].global_epoch
                    /\ Waiting' - n >= Waiting - m + 2 * d
    PROVE  Buckets' /\ OutOfReach' /\ Crowded'
<1>1. Now' = Now /\ Before' = Before /\ TwoEpochsAgo(own.global_epoch)' = TwoEpochsAgo(own.global_epoch)
  BY DEF Now, Before, TwoEpochsAgo
<1>2. Buckets /\ OutOfReach /\ Crowded
  BY DEF EpochInv
<1>3. own.buffer \in Nat /\ Now \in SUBSET Nat /\ Before \in SUBSET Nat /\ freed \in SUBSET Nat
  BY BucketFacts
<1>4. Buckets'
  BY <1>1, <1>2 DEF Buckets
<1>5. ASSUME NEW n \in 0 .. Waiting'
      PROVE  /\ \A k \in freed : k < InMemory'[n].buffer
             /\ InMemory'[n].global_epoch = own.global_epoch => \A k \in Before : k < InMemory'[n].buffer
             /\ pc'[Owner] \in {"scan", "advance"} => \A k \in Before : k < InMemory'[n].buffer
  <2>1. CASE InMemory'[n].buffer = own.buffer
    BY <1>2, <2>1 DEF Buckets
  <2>2. CASE \E m \in 0 .. Waiting :
                /\ InMemory'[n].buffer = InMemory[m].buffer
                /\ InMemory'[n].global_epoch = InMemory[m].global_epoch
    BY <1>2, <2>2 DEF OutOfReach
  <2> QED BY <2>1, <2>2
<1>6. OutOfReach'
  BY <1>1, <1>5 DEF OutOfReach
<1>7. ASSUME NEW n \in 0 .. Waiting', NEW k \in Nat, k + 1 = own.buffer, InMemory'[n].buffer <= k
      PROVE  Waiting' - n >= 1 + 2 * (Top' - front' - Capacity(k)') + (IF k \in Before THEN 1 ELSE 0)
  <2>1. InMemory'[n].buffer # own.buffer
    BY <1>3, <1>7
  <2>2. PICK m \in 0 .. Waiting : /\ InMemory'[n].buffer = InMemory[m].buffer
                                  /\ Waiting' - n >= Waiting - m + 2 * d
    BY <2>1
  <2>3. Waiting - m >= 1 + 2 * (Top - front - Capacity(k)) + (IF k \in Before THEN 1 ELSE 0)
    BY <1>2, <1>7, <2>2 DEF Crowded
  <2>4. InMemory[m].buffer \in 1 .. own.buffer
    BY MemoryFacts
  <2>5. k \in 1 .. own.buffer
    <3>1. PICK x : x = InMemory[m].buffer
      OBVIOUS
    <3>2. x \in 1 .. own.buffer /\ x <= k
      BY <1>7, <2>2, <2>4, <3>1
    <3> QED BY <1>3, <1>7, <3>2
  <2>6. Capacity(k)' = Capacity(k) /\ Capacity(k) \in Nat
    BY <2>5, MemoryFacts
  <2>7. Top \in Int /\ front \in Int /\ Waiting \in Nat
    BY DequeFacts
  <2>8. PICK c \in Nat : c = Capacity(k)
    BY <2>6
  <2>9. PICK one \in Nat : one = IF k \in Before THEN 1 ELSE 0
    OBVIOUS
  <2>10. Waiting' - n >= 1 + 2 * (Top' - front' - c) + one
    <3>1. Waiting - m >= 1 + 2 * (Top - front - c) + one
      BY <2>3, <2>8, <2>9
    <3>2. Waiting' - n \in Int /\ Waiting - m \in Int /\ Top - front \in Int /\ Top' - front' \in Int
      BY <2>7
    <3>3. PICK w \in Int : w = Waiting' - n
      BY <3>2
    <3>4. PICK v \in Int : v = Waiting - m
      BY <3>2
    <3>5. PICK l \in Int : l = Top' - front'
      BY <3>2
    <3>6. PICK j \in Int : j = Top - front
      BY <3>2
    <3>7. v >= 1 + 2 * (j - c) + one /\ w >= v + 2 * d /\ l <= j + d /\ d \in Int
      BY <2>2, <3>1, <3>3, <3>4, <3>5, <3>6
    <3>8. w >= 1 + 2 * (l - c) + one
      BY <3>7
    <3> QED BY <3>3, <3>5, <3>8
  <2> QED BY <2>6, <2>8, <2>9, <2>10
<1>8. Crowded'
  BY <1>1, <1>7 DEF Crowded
<1> QED BY <1>4, <1>6, <1>8

\* A thief that stands still is still pinned.
LEMMA StillPinned ==
    ASSUME MemoryInv, mem'.global_epoch \in Nat, NEW t \in Thief, Pin(t),
           pc'[t] = pc[t], loc'[t] = loc[t], sb'[t] = sb[t],
           local_epochs'[t] = local_epochs[t], freed' = freed, retired' = retired,
           own'.global_epoch = own.global_epoch,
           mem.global_epoch <= mem'.global_epoch,
           Passed(t)' => Passed(t)
    PROVE  Pin(t)'
<1>1. Before' = Before
  BY DEF Before, TwoEpochsAgo
<1>2. loc[t].epoch \in Nat /\ mem.global_epoch \in Nat /\ mem'.global_epoch \in Nat
  BY DEF MemoryInv, Types, Places, Values, Local, Memory
<1>3. pc[t] \in {"steal_pin", "steal_buffer", "steal_data"} => loc[t].epoch <= mem'.global_epoch
  BY <1>2 DEF Pin
<1>4. pc[t] = "steal_data" => (loc[t].epoch = own.global_epoch \/ Passed(t)' => loc[t].buf \notin Before)
  BY DEF Pin
<1>5. pc'[t] = "steal_data" => (loc'[t].epoch = own'.global_epoch \/ Passed(t)' => loc'[t].buf \notin Before')
  BY <1>1, <1>4
<1>6. pc'[t] = "steal_buffer" => IF sb'[t] = <<>> THEN local_epochs'[t] = loc'[t].epoch
                                                 ELSE sb'[t][Len(sb'[t])] = loc'[t].epoch
  BY DEF Pin
<1>7. pc'[t] = "steal_data" => sb'[t] = <<>> /\ local_epochs'[t] = loc'[t].epoch /\ loc'[t].buf \notin freed'
  BY DEF Pin
<1>8. pc'[t] \in {"steal_pin", "steal_buffer", "steal_data"} => loc'[t].epoch <= mem'.global_epoch
  BY <1>3
<1>9. Pin(t)'
  BY <1>5, <1>6, <1>7, <1>8 DEF Pin
<1> QED BY <1>9

LEMMA TopFacts ==
    ASSUME MemoryInv
    PROVE  Top \in Int /\ Waiting \in Nat /\ front \in Nat
<1>1. own.back \in Int /\ Waiting \in Nat /\ front \in Nat
  BY MemoryFacts DEF MemoryInv, Types, Values
<1> QED BY <1>1 DEF Top

\* A step of thief t leaves all but t as it was.
LEMMA OthersPinned ==
    ASSUME MemoryInv, DequeInv, EpochInv, front' \in Nat, NEW t \in Thief,
           UNCHANGED <<mem, own, retired, freed, slot>>, front <= front', pc'[Owner] = pc[Owner],
           sb'[Owner] = sb[Owner],
           \A u \in Thief : u # t => /\ pc'[u] = pc[u] /\ loc'[u] = loc[u]
                                     /\ sb'[u] = sb[u] /\ local_epochs'[u] = local_epochs[u]
    PROVE  Pin(t)' => EpochInv'
<1>1. InMemory' = InMemory /\ Waiting' = Waiting /\ \A k : Capacity(k)' = Capacity(k)
  BY MemorySame
<1>2. Top' = Top /\ Top \in Int /\ Waiting \in Nat /\ front \in Nat
  BY TopFacts DEF Top
<1>3. Buckets' /\ OutOfReach' /\ Crowded'
  <2>1. Waiting' \in Nat /\ front' \in Int /\ Top' \in Int /\ Top' - front' <= Top - front + 0
    <3>1. Waiting' \in Nat /\ Top' \in Int
      BY <1>1, <1>2
    <3>2. PICK top \in Int : top = Top
      BY <1>2
    <3>3. PICK f \in Int : f = front
      BY <1>2
    <3>4. PICK g \in Int : g = front'
      OBVIOUS
    <3>5. f <= g
      BY <3>3, <3>4
    <3>6. top - g <= top - f + 0
      BY <3>5
    <3> QED BY <1>2, <3>1, <3>2, <3>3, <3>4, <3>6
  <2>2. ASSUME NEW n \in 0 .. Waiting'
        PROVE  \E m \in 0 .. Waiting :
                  /\ InMemory'[n].buffer = InMemory[m].buffer
                  /\ InMemory'[n].global_epoch = InMemory[m].global_epoch
                  /\ Waiting' - n >= Waiting - m + 2 * 0
    <3>1. n \in 0 .. Waiting /\ Waiting' - n >= Waiting - n + 2 * 0
      BY <1>1, <1>2
    <3> QED BY <1>1, <3>1
  <2>3. UNCHANGED <<retired, freed>> /\ own'.buffer = own.buffer /\ own'.global_epoch = own.global_epoch
    OBVIOUS
  <2>4. PICK d \in {0, 1} : d = 0
    OBVIOUS
  <2>5. Top' - front' <= Top - front + d
    BY <2>1, <2>4
  <2>6. \A n \in 0 .. Waiting' : \/ InMemory'[n].buffer = own.buffer
                                 \/ \E m \in 0 .. Waiting :
                                       /\ InMemory'[n].buffer = InMemory[m].buffer
                                       /\ InMemory'[n].global_epoch = InMemory[m].global_epoch
                                       /\ Waiting' - n >= Waiting - m + 2 * d
    BY <2>2, <2>4
  <2> QED BY <1>1, <2>1, <2>3, <2>5, <2>6, SteadyKept
<1>4. ASSUME NEW u \in Thief, u # t PROVE Pin(u)'
  <2>1. Pin(u)
    BY DEF EpochInv, Pins
  <2>2. Passed(u)' => Passed(u)
    BY DEF Passed
  <2>3. mem.global_epoch \in Nat /\ mem'.global_epoch \in Nat /\ mem.global_epoch <= mem'.global_epoch
    BY DEF MemoryInv, Types, Values, Memory
  <2> QED BY <1>4, <2>1, <2>2, <2>3, StillPinned
<1>5. pc'[Owner] = "scan" => slot' \in Thief
  BY DEF EpochInv, Pins
<1>6. ASSUME Pin(t)' PROVE \A u \in Thief : Pin(u)'
  <2>1. ASSUME NEW u \in Thief PROVE Pin(u)'
    <3>1. CASE u = t
      BY <1>6, <3>1
    <3>2. CASE u # t
      BY <1>4, <3>2
    <3> QED BY <3>1, <3>2
  <2> QED BY <2>1
<1> QED BY <1>3, <1>5, <1>6 DEF EpochInv, Pins

LEMMA EpochThief ==
    ASSUME MemoryInv, DequeInv, EpochInv, front' \in Nat, NEW t \in Thief, steal_front(t)
    PROVE  EpochInv'
<1>1. /\ pc \in [Thread -> OwnerAt \cup ThiefAt] /\ loc \in [Thief -> Local] /\ front \in Nat
      /\ sb \in [Thread -> Seq(OwnerStore \cup Int)] /\ local_epochs \in [Thief -> Int]
      /\ t \in Thread /\ Owner \in Thread /\ t # Owner
      /\ \A u \in Thief : u \in Thread
      /\ loc[t] \in Local /\ sb[t] \in Seq(Int)
  BY ThreadFacts DEF MemoryInv, Types, StoreBuffers, Places, Values
<1>2. Pin(t) /\ OutOfReach
  BY DEF EpochInv, Pins
<1>3. ASSUME NEW x, NEW label, NEW s, pc' = [pc EXCEPT ![t] = label],
             loc' = [loc EXCEPT ![t] = x], sb' = [sb EXCEPT ![t] = s], front <= front',
             UNCHANGED <<mem, own, retired, freed, slot, local_epochs>>,
             pc'[t] = label /\ loc'[t] = x /\ sb'[t] = s => Pin(t)'
      PROVE  EpochInv'
  <2>1. /\ pc'[Owner] = pc[Owner] /\ sb'[Owner] = sb[Owner]
        /\ pc'[t] = label /\ loc'[t] = x /\ sb'[t] = s
        /\ \A u \in Thief : u # t => /\ pc'[u] = pc[u] /\ loc'[u] = loc[u]
                                     /\ sb'[u] = sb[u] /\ local_epochs'[u] = local_epochs[u]
    BY <1>1, <1>3
  <2>2. Pin(t)'
    BY <1>3, <2>1
  <2> QED BY <1>3, <2>1, <2>2, OthersPinned
<1>4. loc = [loc EXCEPT ![t] = loc[t]] /\ sb = [sb EXCEPT ![t] = sb[t]]
  BY <1>1
<1>5. front <= front
  BY <1>1
<1>6. \A y \in Nat : /\ [loc[t] EXCEPT !.f = y] \in Local /\ [loc[t] EXCEPT !.epoch = y] \in Local
                     /\ [loc[t] EXCEPT !.buf = y] \in Local /\ [loc[t] EXCEPT !.value = y] \in Local
  BY <1>1 DEF Local
<1>7. PICK none \in Local : none = [f |-> 0, epoch |-> 0, buf |-> 0, value |-> 0]
  BY DEF Local
<1>8. ASSUME pc'[t] \notin {"steal_pin", "steal_buffer", "steal_data"} PROVE Pin(t)'
  BY <1>8 DEF Pin
<1>9. mem.global_epoch \in Nat /\ mem.buffer \in Nat /\ own.global_epoch \in Nat /\ mem = InMemory[0]
      /\ mem.global_epoch <= own.global_epoch /\ 0 \in 0 .. Waiting
  <2>1. Waiting \in Nat /\ mem = InMemory[0] /\ own.global_epoch \in Nat
    BY MemoryFacts
  <2>2. 0 \in 0 .. Waiting
    BY <2>1
  <2> QED BY <2>1, <2>2, MemoryFacts
<1>10. CASE StealLoadFront(t)
  <2>1. loc' = [loc EXCEPT ![t] = [loc[t] EXCEPT !.f = front]] /\ [loc[t] EXCEPT !.f = front] \in Local
    BY <1>1, <1>6, <1>10 DEF StealLoadFront, Locals
  <2>2. pc' = [pc EXCEPT ![t] = "steal_back"] /\ UNCHANGED <<front, mem, own, retired, freed, slot, local_epochs, sb>>
    BY <1>10 DEF StealLoadFront, Goto
  <2> QED BY <1>3, <1>4, <1>5, <1>8, <2>1, <2>2
<1>11. CASE StealLoadBack(t)
  <2>1. PICK label \in {"idle", "steal_epoch"}, x \in {loc[t], none} :
           pc' = [pc EXCEPT ![t] = label] /\ loc' = [loc EXCEPT ![t] = x]
    BY <1>4, <1>7, <1>11 DEF StealLoadBack, Goto, Forget
  <2>2. UNCHANGED <<front, mem, own, retired, freed, slot, local_epochs, sb>> /\ x \in Local
    BY <1>1, <1>11 DEF StealLoadBack
  <2> QED BY <1>3, <1>4, <1>5, <1>8, <2>1, <2>2
<1>12. CASE StealLoadEpoch(t)
  <2>1. PICK x \in Local : x = [loc[t] EXCEPT !.epoch = mem.global_epoch]
    BY <1>6, <1>9
  <2>2. /\ loc' = [loc EXCEPT ![t] = x] /\ pc' = [pc EXCEPT ![t] = "steal_pin"]
        /\ UNCHANGED <<front, mem, own, retired, freed, slot, local_epochs, sb>>
        /\ x.epoch = mem.global_epoch
    BY <1>1, <1>12, <2>1 DEF StealLoadEpoch, Goto, Locals, Local
  <2>3. pc'[t] = "steal_pin" /\ loc'[t] = x /\ sb'[t] = sb[t] => Pin(t)'
    BY <1>9, <2>2 DEF Pin
  <2> QED BY <1>3, <1>4, <1>5, <2>2, <2>3
<1>13. CASE StealPin(t)
  <2>1. PICK s : s = sb[t] \o <<loc[t].epoch>>
    OBVIOUS
  <2>2. /\ loc' = loc /\ pc' = [pc EXCEPT ![t] = "steal_buffer"] /\ sb' = [sb EXCEPT ![t] = s]
        /\ UNCHANGED <<front, mem, own, retired, freed, slot, local_epochs>> /\ pc[t] = "steal_pin"
    BY <1>13, <2>1 DEF StealPin, Goto, Put
  <2>3. s = Append(sb[t], loc[t].epoch) /\ loc[t].epoch \in Int
    BY <1>1, <2>1, AppendProperties DEF Local
  <2>4. s # <<>> /\ s[Len(s)] = loc[t].epoch
    <3>1. PICK z \in Seq(Int) : z = sb[t]
      BY <1>1
    <3>2. PICK e \in Int : e = loc[t].epoch
      BY <2>3
    <3>3. Len(s) = Len(z) + 1 /\ s[Len(z) + 1] = e /\ s \in Seq(Int) /\ Len(z) \in Nat
      BY <2>3, <3>1, <3>2, AppendProperties, LenProperties
    <3>4. s # <<>>
      BY <3>3, EmptySeq
    <3> QED BY <3>2, <3>3, <3>4
  <2>5. pc'[t] = "steal_buffer" /\ loc'[t] = loc[t] /\ sb'[t] = s => Pin(t)'
    BY <1>2, <2>2, <2>4 DEF Pin
  <2> QED BY <1>1, <1>3, <1>4, <1>5, <2>2, <2>5
<1>14. CASE StealLoadBuffer(t)
  <2>1. PICK x \in Local : x = [loc[t] EXCEPT !.buf = mem.buffer]
    BY <1>6, <1>9
  <2>2. /\ loc' = [loc EXCEPT ![t] = x] /\ pc' = [pc EXCEPT ![t] = "steal_data"] /\ pc[t] = "steal_buffer"
        /\ UNCHANGED <<front, mem, own, retired, freed, slot, local_epochs, sb>>
        /\ x.epoch = loc[t].epoch /\ x.buf = mem.buffer /\ sb[t] = <<>>
    BY <1>1, <1>14, <2>1 DEF StealLoadBuffer, Goto, Locals, Local, Fenced
  <2>3. loc[t].epoch <= mem.global_epoch /\ local_epochs[t] = loc[t].epoch /\ loc[t].epoch \in Nat
    BY <1>1, <1>2, <2>2 DEF Pin, Local
  <2>4. mem.buffer \notin freed
    BY <1>2, <1>9 DEF OutOfReach
  <2>5. x.epoch = own.global_epoch \/ Passed(t) => mem.buffer \notin Before
    <3>1. x.epoch = own.global_epoch => mem.global_epoch = own.global_epoch
      BY <1>9, <2>2, <2>3
    <3>2. Passed(t) => pc[Owner] \in {"scan", "advance"}
      BY DEF Passed
    <3>3. \A k \in Before : k < mem.buffer => k # mem.buffer
      BY <1>9, BucketFacts
    <3> QED BY <1>2, <1>9, <3>1, <3>2, <3>3 DEF OutOfReach
  <2>6. Before' = Before /\ (pc'[Owner] = pc[Owner] => (Passed(t)' => Passed(t)))
    BY <2>2 DEF Before, Passed, TwoEpochsAgo
  <2>7. pc'[Owner] = pc[Owner]
    BY <1>1, <2>2
  <2>8. pc'[t] = "steal_data" /\ loc'[t] = x /\ sb'[t] = sb[t] => Pin(t)'
    BY <2>2, <2>3, <2>4, <2>5, <2>6, <2>7 DEF Pin
  <2> QED BY <1>3, <1>4, <1>5, <2>2, <2>8
<1>15. CASE StealLoadData(t)
  <2>1. PICK y : y = mem.data[loc[t].buf][At(loc[t].buf, loc[t].f)]
    OBVIOUS
  <2>2. loc' = [loc EXCEPT ![t] = [loc[t] EXCEPT !.value = y]]
    BY <1>1, <1>15, <2>1 DEF StealLoadData, Locals
  <2>3. pc' = [pc EXCEPT ![t] = "steal_cas"] /\ UNCHANGED <<front, mem, own, retired, freed, slot, local_epochs, sb>>
    BY <1>15 DEF StealLoadData, Goto
  <2> QED BY <1>3, <1>4, <1>5, <1>8, <2>2, <2>3
<1>16. CASE StealCas(t)
  <2>1. front <= front'
    BY <1>1, <1>16 DEF StealCas
  <2>2. pc' = [pc EXCEPT ![t] = "steal_unpin"] /\ UNCHANGED <<mem, own, retired, freed, slot, local_epochs, sb, loc>>
    BY <1>16 DEF StealCas, Goto
  <2> QED BY <1>3, <1>4, <1>8, <2>1, <2>2
<1>17. CASE StealUnpin(t)
  <2>1. PICK s : s = sb[t] \o <<kInactive>>
    OBVIOUS
  <2>2. /\ loc' = [loc EXCEPT ![t] = none] /\ pc' = [pc EXCEPT ![t] = "idle"] /\ sb' = [sb EXCEPT ![t] = s]
        /\ UNCHANGED <<front, mem, own, retired, freed, slot, local_epochs>>
    BY <1>7, <1>17, <2>1 DEF StealUnpin, Goto, Put, Forget
  <2> QED BY <1>3, <1>5, <1>8, <2>2
<1> QED BY <1>10, <1>11, <1>12, <1>13, <1>14, <1>15, <1>16, <1>17 DEF steal_front

LEMMA EpochThiefFlush ==
    ASSUME MemoryInv, DequeInv, EpochInv, NEW t \in Thief, Flush(t)
    PROVE  EpochInv'
<1>1. /\ t \in Thread /\ Owner \in Thread /\ t # Owner /\ \A u \in Thief : u \in Thread
      /\ sb \in [Thread -> Seq(OwnerStore \cup Int)] /\ local_epochs \in [Thief -> Int]
      /\ sb[t] \in Seq(Int) /\ front \in Nat
  BY ThreadFacts DEF MemoryInv, Types, StoreBuffers, Values
<1>2. Pin(t)
  BY DEF EpochInv, Pins
<1>3. /\ sb[t] # <<>> /\ sb' = [sb EXCEPT ![t] = Tail(sb[t])]
      /\ local_epochs' = [local_epochs EXCEPT ![t] = Head(sb[t])]
      /\ UNCHANGED <<front, mem, own, retired, freed, pc, slot, loc>>
  BY <1>1 DEF Flush
<1>4. PICK s \in Seq(Int) : s = sb[t]
  BY <1>1
<1>5. /\ Tail(s) \in Seq(Int) /\ Len(s) \in Nat /\ Len(s) >= 1 /\ Len(Tail(s)) = Len(s) - 1
      /\ \A n \in 1 .. Len(s) - 1 : Tail(s)[n] = s[n + 1]
      /\ Head(s) = s[1]
  BY <1>3, <1>4, EmptySeq, LenProperties, HeadTailProperties
<1>6. sb'[t] = Tail(s) /\ local_epochs'[t] = s[1]
  BY <1>1, <1>3, <1>4, <1>5
<1>7. ASSUME pc[t] = "steal_buffer"
      PROVE  IF sb'[t] = <<>> THEN local_epochs'[t] = loc'[t].epoch
                              ELSE sb'[t][Len(sb'[t])] = loc'[t].epoch
  <2>1. s[Len(s)] = loc[t].epoch
    BY <1>2, <1>3, <1>4, <1>7 DEF Pin
  <2>2. CASE Tail(s) = <<>>
    <3>1. Len(s) = 1
      BY <1>5, <2>2, EmptySeq, SMTT(30)
    <3> QED BY <1>3, <1>6, <2>1, <2>2, <3>1
  <2>3. CASE Tail(s) # <<>>
    <3>1. Len(s) - 1 # 0
      BY <1>5, <2>3, EmptySeq
    <3>2. PICK n : n = Len(s) - 1
      OBVIOUS
    <3>3. n \in 1 .. Len(s) - 1 /\ n + 1 = Len(s)
      BY <1>5, <3>1, <3>2
    <3>4. Tail(s)[n] = s[Len(s)]
      BY <1>5, <3>3
    <3> QED BY <1>3, <1>5, <1>6, <2>1, <2>3, <3>2, <3>4
  <2> QED BY <2>2, <2>3
<1>8. pc[t] # "steal_data"
  BY <1>2, <1>3 DEF Pin
<1>9. Pin(t)'
  BY <1>2, <1>3, <1>7, <1>8 DEF Pin
<1>10. /\ pc'[Owner] = pc[Owner] /\ sb'[Owner] = sb[Owner] /\ front <= front' /\ front' \in Nat
       /\ \A u \in Thief : u # t => /\ pc'[u] = pc[u] /\ loc'[u] = loc[u]
                                    /\ sb'[u] = sb[u] /\ local_epochs'[u] = local_epochs[u]
  BY <1>1, <1>3
<1> QED BY <1>3, <1>9, <1>10, OthersPinned

\* No step of the owner that starts or ends no scan frees or retires anything.
LEMMA PinsStill ==
    ASSUME MemoryInv, Pins, mem'.global_epoch \in Nat, mem.global_epoch <= mem'.global_epoch,
           UNCHANGED <<slot, loc, local_epochs, freed, retired>>, own'.global_epoch = own.global_epoch,
           \A u \in Thief : pc'[u] = pc[u] /\ sb'[u] = sb[u],
           pc'[Owner] = pc[Owner] \/ pc'[Owner] \notin {"scan", "advance"}
    PROVE  Pins'
<1>1. ASSUME NEW u \in Thief PROVE Pin(u)'
  <2>1. Pin(u) /\ (Passed(u)' => Passed(u))
    BY DEF Pins, Passed
  <2> QED BY <2>1, StillPinned
<1>2. pc'[Owner] = "scan" => slot' \in Thief
  BY DEF Pins
<1> QED BY <1>1, <1>2 DEF Pins

LEMMA NoLonger ==
    ASSUME MemoryInv, Stays \/ TakesFirst \/ TakesLast
    PROVE  front' \in Nat /\ Top' \in Int /\ Top' - front' <= Top - front
<1>1. PICK top \in Int : top = Top
  BY TopFacts
<1>2. PICK f \in Nat : f = front
  BY TopFacts
<1>3. CASE Stays
  BY <1>1, <1>2, <1>3 DEF Stays
<1>4. CASE TakesFirst
  BY <1>1, <1>2, <1>4 DEF TakesFirst
<1>5. CASE TakesLast
  BY <1>1, <1>2, <1>5 DEF TakesLast
<1> QED BY <1>3, <1>4, <1>5

\* The owner stores a value of back.
LEMMA EpochBack ==
    ASSUME MemoryInv, DequeInv, EpochInv, NEW v \in Int, NEW w, w = Set("back", v), OwnerPut(w),
           NEW label \in OwnerAt, Goto(Owner, label), label \notin {"scan", "advance"}, mem' = mem,
           UNCHANGED <<local_epochs, retired, freed, slot, loc>>,
           Stays \/ TakesFirst \/ TakesLast
    PROVE  EpochInv'
<1>1. \E x \in Int : w = Set("back", x)
  OBVIOUS
<1>2. /\ Waiting \in Nat /\ Waiting' = Waiting + 1
      /\ \A n \in 0 .. Waiting : InMemory'[n] = InMemory[n]
      /\ InMemory'[Waiting + 1] = own'
      /\ own' = [own EXCEPT ![w.var] = w.val]
      /\ own'.buffer = own.buffer
      /\ \A k : Capacity(k)' = Capacity(k)
      /\ \A t \in Thief : sb'[t] = sb[t]
  BY <1>1, MemoryOne
<1>3. own'.global_epoch = own.global_epoch
  BY <1>2 DEF MemoryInv, Types, Values, Memory, Set
<1>4. pc'[Owner] = label /\ \A u \in Thief : pc'[u] = pc[u]
  BY OwnerMoves DEF MemoryInv, Types
<1>5. front' \in Nat /\ Top' \in Int /\ Top' - front' <= Top - front
  BY NoLonger
<1>6. Buckets' /\ OutOfReach' /\ Crowded'
  <2>1. PICK d \in {0, 1} : d = 0
    OBVIOUS
  <2>2. Top' - front' <= Top - front + d
    BY <1>5, <2>1, TopFacts
  <2>3. ASSUME NEW n \in 0 .. Waiting'
        PROVE  \/ InMemory'[n].buffer = own.buffer
               \/ \E m \in 0 .. Waiting : /\ InMemory'[n].buffer = InMemory[m].buffer
                                          /\ InMemory'[n].global_epoch = InMemory[m].global_epoch
                                          /\ Waiting' - n >= Waiting - m + 2 * d
    <3>1. n = Waiting + 1 \/ n \in 0 .. Waiting
      BY <1>2
    <3>2. CASE n = Waiting + 1
      BY <1>2, <3>2
    <3>3. CASE n \in 0 .. Waiting
      <4>1. Waiting' - n >= Waiting - n + 2 * d
        BY <1>2, <2>1, <3>3
      <4> QED BY <1>2, <3>3, <4>1
    <3> QED BY <3>1, <3>2, <3>3
  <2>4. Waiting' \in Nat /\ front' \in Int
    BY <1>2, <1>5
  <2>5. pc'[Owner] \in {"scan", "advance"} => pc[Owner] \in {"scan", "advance"}
    BY <1>4
  <2> QED BY <1>2, <1>3, <1>5, <2>2, <2>3, <2>4, <2>5, SteadyKept
<1>7. Pins'
  <2>1. mem'.global_epoch \in Nat /\ mem.global_epoch <= mem'.global_epoch
    BY DEF MemoryInv, Types, Values, Memory
  <2>2. Pins
    BY DEF EpochInv
  <2> QED BY <1>2, <1>3, <1>4, <2>1, <2>2, PinsStill
<1> QED BY <1>6, <1>7 DEF EpochInv

\* The owner stores nothing, in a step that starts and ends no scan.
LEMMA EpochNoStore ==
    ASSUME MemoryInv, DequeInv, EpochInv, UNCHANGED <<mem, own, local_epochs, retired, freed, slot, loc>>,
           \A t \in Thread : sb'[t] = sb[t],
           pc'[Owner] = pc[Owner] \/ pc'[Owner] \notin {"scan", "advance"},
           \A t \in Thief : pc'[t] = pc[t],
           Stays \/ TakesFirst \/ TakesLast
    PROVE  EpochInv'
<1>1. sb'[Owner] = sb[Owner] /\ \A t \in Thief : sb'[t] = sb[t]
  BY ThreadFacts
<1>2. InMemory' = InMemory /\ Waiting' = Waiting /\ \A k : Capacity(k)' = Capacity(k)
  BY <1>1, MemorySame
<1>3. front' \in Nat /\ Top' \in Int /\ Top' - front' <= Top - front /\ Waiting \in Nat
  BY NoLonger, TopFacts
<1>4. Buckets' /\ OutOfReach' /\ Crowded'
  <2>1. PICK d \in {0, 1} : d = 0
    OBVIOUS
  <2>2. Top' - front' <= Top - front + d
    BY <1>3, <2>1, TopFacts
  <2>3. ASSUME NEW n \in 0 .. Waiting'
        PROVE  \E m \in 0 .. Waiting : /\ InMemory'[n].buffer = InMemory[m].buffer
                                       /\ InMemory'[n].global_epoch = InMemory[m].global_epoch
                                       /\ Waiting' - n >= Waiting - m + 2 * d
    <3>1. n \in 0 .. Waiting /\ Waiting' - n >= Waiting - n + 2 * d
      BY <1>2, <1>3, <2>1
    <3> QED BY <1>2, <3>1
  <2>4. Waiting' \in Nat /\ front' \in Int
    BY <1>2, <1>3
  <2> QED BY <1>2, <1>3, <2>2, <2>3, <2>4, SteadyKept
<1>5. Pins'
  <2>1. mem'.global_epoch \in Nat /\ mem.global_epoch <= mem'.global_epoch
    BY DEF MemoryInv, Types, Values, Memory
  <2>2. Pins
    BY DEF EpochInv
  <2> QED BY <1>1, <2>1, <2>2, PinsStill
<1> QED BY <1>4, <1>5 DEF EpochInv

LEMMA EpochOwnerFlush ==
    ASSUME MemoryInv, DequeInv, EpochInv, Flush(Owner)
    PROVE  EpochInv'
<1>1. /\ own' = own /\ mem' \in Memory
      /\ Waiting \in Nat /\ Waiting >= 1 /\ Waiting' = Waiting - 1
      /\ \A n \in 0 .. Waiting - 1 : InMemory'[n] = InMemory[n + 1] /\ n + 1 \in 0 .. Waiting
      /\ \A k : Capacity(k)' = Capacity(k)
      /\ mem' = InMemory[1]
  BY MemoryFlushed, OldestStore DEF MemoryInv
<1>2. UNCHANGED <<front, own, local_epochs, retired, freed, pc, slot, loc>> /\ \A t \in Thief : sb'[t] = sb[t]
  BY ThreadFacts, FlushedTypes DEF Flush, MemoryInv, Types, StoreBuffers
<1>3. Top' = Top /\ Top \in Int /\ front \in Nat
  BY <1>2, TopFacts DEF Top
<1>4. Buckets' /\ OutOfReach' /\ Crowded'
  <2>1. PICK d \in {0, 1} : d = 0
    OBVIOUS
  <2>2. Top' - front' <= Top - front + d
    BY <1>2, <1>3, <2>1
  <2>3. ASSUME NEW n \in 0 .. Waiting'
        PROVE  \E m \in 0 .. Waiting : /\ InMemory'[n].buffer = InMemory[m].buffer
                                       /\ InMemory'[n].global_epoch = InMemory[m].global_epoch
                                       /\ Waiting' - n >= Waiting - m + 2 * d
    <3>1. PICK m : m = n + 1
      OBVIOUS
    <3>2. n \in 0 .. Waiting - 1 /\ m \in 0 .. Waiting /\ InMemory'[n] = InMemory[m]
      BY <1>1, <3>1
    <3>3. Waiting' - n >= Waiting - m + 2 * d
      BY <1>1, <2>1, <3>1, <3>2
    <3> QED BY <3>2, <3>3
  <2>4. Waiting' \in Nat /\ front' \in Int /\ Top' \in Int
    BY <1>1, <1>2, <1>3
  <2>5. own'.buffer = own.buffer /\ own'.global_epoch = own.global_epoch
    BY <1>1
  <2> QED BY <1>1, <1>2, <2>2, <2>3, <2>4, <2>5, SteadyKept
<1>5. Pins'
  <2>1. mem.global_epoch <= mem'.global_epoch
    <3>1. 0 \in 0 .. Waiting /\ 1 \in 0 .. Waiting /\ 0 <= 1 /\ mem = InMemory[0]
      BY <1>1, MemoryFacts
    <3>2. InMemory[0].global_epoch <= InMemory[1].global_epoch
      BY <3>1 DEF MemoryInv, Onward
    <3> QED BY <1>1, <3>1, <3>2
  <2>2. Pins /\ mem'.global_epoch \in Nat
    BY <1>1 DEF EpochInv, Memory
  <2> QED BY <1>1, <1>2, <2>1, <2>2, PinsStill
<1> QED BY <1>4, <1>5 DEF EpochInv

LEMMA EpochItem ==
    ASSUME MemoryInv, DequeInv, EpochInv, StoreItem, Adds,
           UNCHANGED <<front, mem, local_epochs, retired, freed, slot, loc, taken>>
    PROVE  EpochInv'
<1>1. /\ Waiting \in Nat /\ Waiting' = Waiting + 2
      /\ \A n \in 0 .. Waiting : InMemory'[n] = InMemory[n]
      /\ InMemory'[Waiting + 2] = own'
      /\ InMemory'[Waiting + 1].buffer = own.buffer
      /\ own'.buffer = own.buffer
      /\ own'.global_epoch = own.global_epoch
      /\ \A k \in 1 .. own.buffer : Capacity(k)' = Capacity(k)
      /\ \A t \in Thief : sb'[t] = sb[t]
  BY MemoryItem
<1>2. Goto(Owner, "idle") /\ "idle" \in OwnerAt /\ loc' = loc
  BY DEF StoreItem, OwnerAt
<1>3. pc'[Owner] = "idle" /\ \A u \in Thief : pc'[u] = pc[u]
  BY <1>2, OwnerMoves DEF MemoryInv, Types
<1>4. Top' = Top + 1 /\ Top \in Int /\ front \in Nat /\ front' = front
  BY TopFacts DEF Adds
<1>5. Buckets' /\ OutOfReach' /\ Crowded'
  <2>1. PICK d \in {0, 1} : d = 1
    OBVIOUS
  <2>2. Top' - front' <= Top - front + d
    BY <1>4, <2>1
  <2>3. ASSUME NEW n \in 0 .. Waiting'
        PROVE  \/ InMemory'[n].buffer = own.buffer
               \/ \E m \in 0 .. Waiting : /\ InMemory'[n].buffer = InMemory[m].buffer
                                          /\ InMemory'[n].global_epoch = InMemory[m].global_epoch
                                          /\ Waiting' - n >= Waiting - m + 2 * d
    <3>1. n = Waiting + 1 \/ n = Waiting + 2 \/ n \in 0 .. Waiting
      BY <1>1
    <3>2. CASE n = Waiting + 1 \/ n = Waiting + 2
      BY <1>1, <3>2
    <3>3. CASE n \in 0 .. Waiting
      <4>1. Waiting' - n >= Waiting - n + 2 * d
        BY <1>1, <2>1, <3>3
      <4> QED BY <1>1, <3>3, <4>1
    <3> QED BY <3>1, <3>2, <3>3
  <2>4. Waiting' \in Nat /\ front' \in Int /\ Top' \in Int
    BY <1>1, <1>4
  <2>5. pc'[Owner] \in {"scan", "advance"} => pc[Owner] \in {"scan", "advance"}
    BY <1>3
  <2> QED BY <1>1, <2>2, <2>3, <2>4, <2>5, SteadyKept
<1>6. Pins'
  <2>1. mem'.global_epoch \in Nat /\ mem.global_epoch <= mem'.global_epoch
    BY DEF MemoryInv, Types, Values, Memory
  <2>2. Pins
    BY DEF EpochInv
  <2> QED BY <1>1, <1>3, <2>1, <2>2, PinsStill
<1> QED BY <1>5, <1>6 DEF EpochInv

LEMMA EpochScan ==
    ASSUME MemoryInv, DequeInv, EpochInv, ScanSlot
    PROVE  EpochInv'
<1>1. /\ pc[Owner] = "scan" /\ Stays
      /\ UNCHANGED <<front, mem, own, local_epochs, sb, retired, freed, loc, pushed, taken>>
  BY ScanKept DEF ScanSlot
<1>2. PICK label \in {"store", "scan", "advance"} : Goto(Owner, label)
  BY DEF ScanSlot
<1>3. pc'[Owner] = label /\ \A u \in Thief : pc'[u] = pc[u]
  BY <1>1, <1>2, OwnerMoves DEF MemoryInv, Types, OwnerAt
<1>4. pc \in [Thread -> OwnerAt \cup ThiefAt] /\ Owner \in Thread
  BY ThreadFacts DEF MemoryInv, Types, Places
<1>5. CASE local_epochs[slot] \notin {kInactive, own.global_epoch}
  <2>1. label = "store" /\ slot' = slot
    BY <1>3, <1>4, <1>5 DEF ScanSlot, Goto
  <2> QED BY <1>1, <1>3, <2>1, EpochNoStore
<1>6. CASE local_epochs[slot] \in {kInactive, own.global_epoch}
  <2>1. slot' = slot + 1 /\ label = IF slot' \in Thief THEN "scan" ELSE "advance"
    BY <1>3, <1>4, <1>6 DEF ScanSlot, Goto
  <2>2. slot \in Thief /\ NumStealers \in Nat /\ \A u \in Thief : u \in 0 .. NumStealers - 1
    BY <1>1, ThreadFacts DEF EpochInv, Pins, Thief
  <2>3. \A u \in Thief : Passed(u)' => u = slot \/ Passed(u)
    <3>1. slot \in 0 .. NumStealers - 1 /\ (slot + 1 \notin 0 .. NumStealers - 1 => slot = NumStealers - 1)
      BY <2>2
    <3>2. ASSUME NEW u \in Thief, Passed(u)' PROVE u <= slot
      <4>1. CASE label = "scan"
        BY <1>3, <2>1, <2>2, <3>2, <4>1 DEF Passed
      <4>2. CASE label = "advance"
        <5>1. slot = NumStealers - 1
          BY <2>1, <3>1, <4>2 DEF Thief
        <5> QED BY <2>2, <5>1
      <4> QED BY <2>1, <4>1, <4>2
    <3>3. ASSUME NEW u \in Thief, u <= slot PROVE u = slot \/ Passed(u)
      <4>1. u = slot \/ u < slot
        BY <2>2, <3>3
      <4> QED BY <1>1, <4>1 DEF Passed
    <3> QED BY <3>2, <3>3
  <2>4. Buckets' /\ OutOfReach' /\ Crowded'
    <3>1. InMemory' = InMemory /\ Waiting' = Waiting /\ \A k : Capacity(k)' = Capacity(k)
      <4>1. sb'[Owner] = sb[Owner] /\ UNCHANGED <<mem, own>>
        BY <1>1
      <4> QED BY <4>1, MemorySame
    <3>2. front' \in Nat /\ Top' \in Int /\ Top' - front' <= Top - front /\ Waiting \in Nat
      BY <1>1, NoLonger, TopFacts
    <3>3. PICK d \in {0, 1} : d = 0
      OBVIOUS
    <3>4. Top' - front' <= Top - front + d
      BY <3>2, <3>3, TopFacts
    <3>5. ASSUME NEW n \in 0 .. Waiting'
          PROVE  \E m \in 0 .. Waiting : /\ InMemory'[n].buffer = InMemory[m].buffer
                                         /\ InMemory'[n].global_epoch = InMemory[m].global_epoch
                                         /\ Waiting' - n >= Waiting - m + 2 * d
      <4>1. n \in 0 .. Waiting /\ Waiting' - n >= Waiting - n + 2 * d
        BY <3>1, <3>2, <3>3
      <4> QED BY <3>1, <4>1
    <3>6. Waiting' \in Nat /\ front' \in Int /\ own'.buffer = own.buffer /\ own'.global_epoch = own.global_epoch
      BY <1>1, <3>1, <3>2
    <3> QED BY <1>1, <3>1, <3>2, <3>4, <3>5, <3>6, SteadyKept
  <2>5. ASSUME NEW u \in Thief PROVE Pin(u)'
    <3>1. Pin(u) /\ pc'[u] = pc[u] /\ Before' = Before
      BY <1>1, <1>3 DEF EpochInv, Pins, Before
    <3>2. pc[u] = "steal_data" /\ (loc[u].epoch = own.global_epoch \/ Passed(u)') => loc[u].buf \notin Before
      <4>1. SUFFICES ASSUME pc[u] = "steal_data", u = slot PROVE loc[u].buf \notin Before
        BY <2>3, <3>1 DEF Pin
      <4>2. loc[u].epoch \in {kInactive, own.global_epoch} /\ loc[u].epoch \in Nat
        BY <1>6, <3>1, <4>1 DEF Pin, MemoryInv, Types, Places, Local
      <4>3. loc[u].epoch = own.global_epoch
        BY <4>2 DEF kInactive
      <4> QED BY <3>1, <4>1, <4>3 DEF Pin
    <3> QED BY <1>1, <3>1, <3>2 DEF Pin
  <2> QED BY <1>3, <2>1, <2>4, <2>5 DEF EpochInv, Pins
<1> QED BY <1>5, <1>6

LEMMA EpochAdvance ==
    ASSUME MemoryInv, DequeInv, EpochInv, AdvanceEpoch
    PROVE  EpochInv'
<1>1. PICK e : e = own.global_epoch
  OBVIOUS
<1>2. PICK a : a = e % 3
  OBVIOUS
<1>3. PICK b : b = (e + 1) % 3
  OBVIOUS
<1>4. PICK c : c = (e + 2) % 3
  OBVIOUS
<1>5. PICK next : next = e + 1
  OBVIOUS
<1>6. /\ a \in 0 .. 2 /\ b \in 0 .. 2 /\ c \in 0 .. 2 /\ a # b /\ a # c /\ b # c
      /\ e \in Nat /\ next \in Nat /\ e <= next /\ e # next
  <2>1. e \in Nat
    BY <1>1, MemoryFacts
  <2> QED BY <1>2, <1>3, <1>4, <1>5, <2>1, Modulo3
<1>7. next % 3 = b /\ (next + 1) % 3 = c /\ TwoEpochsAgo(next) = a /\ TwoEpochsAgo(e) = c
  <2>1. next + 1 = e + 2 /\ next + 2 = e + 3
    BY <1>5, <1>6
  <2>2. (next + 2) % 3 = a
    BY <1>2, <1>6, <2>1, Modulo3
  <2> QED BY <1>3, <1>4, <1>5, <2>1, <2>2 DEF TwoEpochsAgo
<1>8. /\ pc[Owner] = "advance" /\ OwnerPut(Set("global_epoch", next)) /\ Goto(Owner, "store")
      /\ freed' = freed \cup retired[c] /\ retired' = [retired EXCEPT ![c] = {}]
      /\ UNCHANGED <<front, mem, local_epochs, slot, loc, pushed, taken>>
  BY <1>1, <1>5, <1>7 DEF AdvanceEpoch
<1>9. pc'[Owner] = "store" /\ \A u \in Thief : pc'[u] = pc[u]
  <2>1. "store" \in OwnerAt
    BY DEF OwnerAt
  <2> QED BY <1>8, <2>1, OwnerMoves DEF MemoryInv, Types
<1>10. PICK w : w = Set("global_epoch", next)
  OBVIOUS
<1>11. /\ Waiting \in Nat /\ Waiting' = Waiting + 1
       /\ \A n \in 0 .. Waiting : InMemory'[n] = InMemory[n]
       /\ InMemory'[Waiting + 1] = own'
       /\ own' = [own EXCEPT ![w.var] = w.val]
       /\ own'.buffer = own.buffer
       /\ \A k : Capacity(k)' = Capacity(k)
       /\ \A t \in Thief : sb'[t] = sb[t]
  <2>1. OwnerPut(w) /\ mem' = mem /\ \E v \in Nat : w = Set("global_epoch", v) /\ own.global_epoch <= v
    BY <1>1, <1>6, <1>8, <1>10
  <2> QED BY <2>1, MemoryOne
<1>12. own'.global_epoch = next /\ own'.back = own.back
  BY <1>10, <1>11 DEF MemoryInv, Types, Values, Memory, Set
<1>13. /\ Now = retired[a] /\ Before = retired[c] /\ retired[b] = {}
       /\ Now' = retired'[b] /\ Before' = retired'[a]
  BY <1>1, <1>2, <1>3, <1>7, <1>12 DEF Now, Before, EpochInv, Buckets
<1>14. /\ retired \in [0 .. 2 -> SUBSET Nat] /\ freed \in SUBSET Nat /\ own.buffer \in Nat
  BY BucketFacts
<1>15. Now' = {} /\ Before' = Now /\ freed' = freed \cup Before /\ retired'[c] = {}
  BY <1>6, <1>8, <1>13, <1>14
<1>16. Buckets /\ OutOfReach /\ Crowded /\ Pins
  BY DEF EpochInv
<1>17. \A n \in 0 .. Waiting' : n = Waiting + 1 \/ n \in 0 .. Waiting
  BY <1>11
<1>18. Buckets'
  <2>1. retired'[(own'.global_epoch + 1) % 3] = {}
    BY <1>7, <1>12, <1>15
  <2> QED BY <1>9, <1>11, <1>15, <1>16, <2>1 DEF Buckets
<1>19. OutOfReach'
  <2>1. ASSUME NEW n \in 0 .. Waiting' PROVE \A k \in freed' : k < InMemory'[n].buffer
    <3>1. CASE n = Waiting + 1
      BY <1>11, <1>15, <1>16, <3>1 DEF Buckets
    <3>2. CASE n \in 0 .. Waiting
      BY <1>8, <1>11, <1>15, <1>16, <3>2 DEF OutOfReach
    <3> QED BY <1>17, <3>1, <3>2
  <2>2. ASSUME NEW n \in 0 .. Waiting', InMemory'[n].global_epoch = own'.global_epoch
        PROVE  \A k \in Before' : k < InMemory'[n].buffer
    <3>1. CASE n = Waiting + 1
      BY <1>11, <1>15, <1>16, <3>1 DEF Buckets
    <3>2. CASE n \in 0 .. Waiting
      <4>1. InMemory[n].global_epoch = next
        BY <1>11, <1>12, <2>2, <3>2
      <4>2. InMemory[n].global_epoch <= e
        BY <1>1, <3>2, MemoryFacts
      <4> QED BY <1>5, <1>6, <4>1, <4>2
    <3> QED BY <1>17, <3>1, <3>2
  <2> QED BY <1>9, <2>1, <2>2 DEF OutOfReach
<1>20. Crowded'
  <2>1. Top' = Top /\ Top \in Int /\ front' = front /\ front \in Nat
    BY <1>8, <1>9, <1>12, TopFacts DEF Top
  <2>2. ASSUME NEW n \in 0 .. Waiting', NEW k \in Nat, k + 1 = own'.buffer, InMemory'[n].buffer <= k
        PROVE  Waiting' - n >= 1 + 2 * (Top' - front' - Capacity(k)') + (IF k \in Before' THEN 1 ELSE 0)
    <3>1. n \in 0 .. Waiting /\ InMemory[n].buffer <= k /\ k + 1 = own.buffer
      <4>1. k + 1 = own.buffer /\ k < own.buffer
        BY <1>11, <1>14, <2>2
      <4>2. n # Waiting + 1
        <5>1. n = Waiting + 1 => InMemory'[n].buffer = own.buffer
          BY <1>11
        <5>2. PICK x : x = InMemory'[n].buffer
          OBVIOUS
        <5>3. PICK y \in Nat : y = own.buffer
          BY <1>14
        <5>4. x <= k /\ k < y /\ (n = Waiting + 1 => x = y)
          BY <2>2, <4>1, <5>1, <5>2, <5>3
        <5> QED BY <5>4
      <4>3. n \in 0 .. Waiting
        BY <1>17, <4>2
      <4> QED BY <1>11, <2>2, <4>1, <4>3
    <3>2. Waiting - n >= 1 + 2 * (Top - front - Capacity(k)) + (IF k \in Before THEN 1 ELSE 0)
      BY <1>16, <3>1 DEF Crowded
    <3>3. InMemory[n].buffer \in 1 .. own.buffer
      BY <3>1, MemoryFacts
    <3>4. k \in 1 .. own.buffer
      <4>1. PICK x : x = InMemory[n].buffer
        OBVIOUS
      <4>2. x \in 1 .. own.buffer /\ x <= k
        BY <3>1, <3>3, <4>1
      <4> QED BY <1>14, <3>1, <4>2
    <3>5. Capacity(k) \in Nat /\ Capacity(k)' = Capacity(k)
      BY <1>11, <3>4, MemoryFacts
    <3>6. PICK cap \in Nat : cap = Capacity(k)
      BY <3>5
    <3>7. PICK l \in Int : l = Top - front
      BY <2>1
    <3>8. Waiting - n >= 1 + 2 * (l - cap)
      BY <1>11, <3>1, <3>2, <3>6, <3>7
    <3>9. Waiting' - n >= 1 + 2 * (l - cap) + 1
      BY <1>11, <3>1, <3>8
    <3>10. Waiting' - n >= 1 + 2 * (l - cap) + (IF k \in Before' THEN 1 ELSE 0)
      BY <1>11, <3>1, <3>9
    <3> QED BY <2>1, <3>5, <3>6, <3>7, <3>10
  <2> QED BY <2>2 DEF Crowded
<1>21. Pins'
  <2>1. ASSUME NEW t \in Thief PROVE Pin(t)'
    <3>1. Pin(t) /\ pc'[t] = pc[t] /\ sb'[t] = sb[t] /\ loc'[t] = loc[t] /\ Passed(t) /\ ~Passed(t)'
      BY <1>8, <1>9, <1>11, <1>16 DEF Pins, Passed
    <3>2. pc[t] = "steal_data" => loc[t].buf \notin freed' /\ loc[t].epoch # own'.global_epoch
      <4>1. pc[t] = "steal_data" => loc[t].buf \notin freed /\ loc[t].buf \notin Before
                                    /\ loc[t].epoch <= mem.global_epoch
        BY <3>1 DEF Pin
      <4>2. mem.global_epoch <= e /\ mem.global_epoch \in Nat /\ loc[t].epoch \in Nat
        <5>1. 0 \in 0 .. Waiting /\ mem = InMemory[0]
          BY <1>11, MemoryFacts
        <5> QED BY <1>1, <5>1, MemoryFacts DEF MemoryInv, Types, Places, Local
      <4> QED BY <1>5, <1>6, <1>12, <1>15, <4>1, <4>2
    <3> QED BY <1>8, <3>1, <3>2 DEF Pin
  <2> QED BY <1>9, <2>1 DEF Pins
<1> QED BY <1>18, <1>19, <1>20, <1>21 DEF EpochInv

\* Where the deque is grown again, the store of the buffer it outgrows has reached
\* memory, but for one store at most, and then that buffer's predecessor is not
\* among those the end of the epoch frees.
LEMMA FewGrowths ==
    ASSUME MemoryInv, DequeInv, EpochInv, Room(Owner, 1), Top - front >= Capacity(own.buffer),
           NEW n \in 0 .. Waiting, NEW k \in Before
    PROVE  k < InMemory[n].buffer
<1>1. PICK K : K = own.buffer
  OBVIOUS
<1>2. PICK j : j = K - 1
  OBVIOUS
<1>3. PICK W : W = Waiting
  OBVIOUS
<1>4. /\ K \in Nat /\ W \in Nat /\ Cap0 \in Nat /\ Cap0 >= 1
      /\ W + 1 <= SbDepth /\ SbDepth \in Nat /\ SbDepth <= 2 * Cap0 + 2
      /\ \A m \in 0 .. W : InMemory[m].buffer \in 1 .. K
  BY <1>1, <1>3, MemoryFacts, ThreadFacts DEF Room, Waiting
<1>5. k \in Nat /\ k < K
  BY <1>1, BucketFacts DEF EpochInv, Buckets
<1>6. ASSUME NEW m \in 0 .. W, InMemory[m].buffer # K
      PROVE  /\ j \in 1 .. K /\ j + 1 = K
             /\ W - m >= 1 + 2 * Cap0 + (IF j \in Before THEN 1 ELSE 0)
  <2>1. PICK x : x = InMemory[m].buffer
    OBVIOUS
  <2>2. x \in 1 .. K /\ x # K
    BY <1>4, <1>6, <2>1
  <2>3. j \in 1 .. K /\ j + 1 = K /\ x <= j /\ j \in Nat /\ K \in 2 .. K /\ K \in 1 .. K /\ K - 1 = j
    BY <1>2, <1>4, <2>2
  <2>4. Waiting - m >= 1 + 2 * (Top - front - Capacity(j)) + (IF j \in Before THEN 1 ELSE 0)
    BY <1>1, <1>3, <2>1, <2>3 DEF EpochInv, Crowded
  <2>5. Capacity(K) = 2 * Capacity(j) /\ Capacity(j) >= Cap0
    BY <1>1, <2>3 DEF MemoryInv, Buffers
  <2>6. Capacity(j) \in Nat /\ Capacity(K) \in Nat
    BY <1>1, <2>3, MemoryFacts
  <2>7. PICK c \in Nat : c = Capacity(j)
    BY <2>6
  <2>8. PICK l \in Int : l = Top - front
    BY TopFacts
  <2>9. PICK one \in {0, 1} : one = IF j \in Before THEN 1 ELSE 0
    OBVIOUS
  <2>10. W - m >= 1 + 2 * (l - c) + one /\ l >= 2 * c /\ c >= Cap0
    BY <1>1, <1>3, <2>4, <2>5, <2>7, <2>8, <2>9
  <2>11. W - m >= 1 + 2 * Cap0 + one
    BY <1>4, <2>10
  <2> QED BY <2>3, <2>9, <2>11
<1>7. CASE InMemory[n].buffer = K
  BY <1>5, <1>7
<1>8. CASE InMemory[n].buffer # K
  <2>1. n \in 0 .. W
    BY <1>3
  <2>2. PICK one \in {0, 1} : one = IF j \in Before THEN 1 ELSE 0
    OBVIOUS
  <2>3. j \in 1 .. K /\ j + 1 = K /\ W - n >= 1 + 2 * Cap0 + one
    BY <1>6, <1>8, <2>1, <2>2
  <2>4. n = 0 /\ one = 0 /\ 1 \in 0 .. W /\ 1 \in 1 .. W
    BY <1>4, <2>1, <2>3
  <2>5. j \notin Before
    BY <2>2, <2>4
  <2>6. InMemory[1].buffer = K
    <3>1. SUFFICES ASSUME InMemory[1].buffer # K PROVE FALSE
      OBVIOUS
    <3>2. W - 1 >= 1 + 2 * Cap0 + one
      BY <1>6, <2>2, <2>4, <3>1
    <3> QED BY <1>4, <2>4, <3>2
  <2>7. InMemory[1].buffer <= InMemory[1 - 1].buffer + 1
    BY <1>3, <2>4 DEF MemoryInv, Onward
  <2>8. PICK x : x = InMemory[n].buffer
    OBVIOUS
  <2>9. x \in 1 .. K /\ K <= x + 1
    BY <1>4, <2>1, <2>4, <2>6, <2>7, <2>8
  <2>10. k # j
    BY <2>5
  <2> QED BY <1>5, <2>3, <2>8, <2>9, <2>10
<1> QED BY <1>7, <1>8

LEMMA EpochGrow ==
    ASSUME MemoryInv, DequeInv, EpochInv, PushGrow
    PROVE  EpochInv'
<1>1. PICK K : K = own.buffer
  OBVIOUS
<1>2. PICK c : c = Capacity(K)
  OBVIOUS
<1>3. PICK grown : grown = Resized(K, front, own.back)
  OBVIOUS
<1>4. PICK l : l = Waiting
  OBVIOUS
<1>5. /\ K \in Nat /\ K \in 1 .. K /\ Len(own.data) = K /\ c \in Nat /\ c >= 1 /\ own.back \in Int /\ l \in Nat
  BY <1>1, <1>2, <1>4, MemoryFacts DEF MemoryInv, Buffers
<1>6. /\ pc[Owner] = "idle" /\ own.back - front >= c /\ Room(Owner, 1)
      /\ UNCHANGED <<front, local_epochs, freed, loc, pushed, taken>>
      /\ slot' = 0 /\ retired' = [retired EXCEPT ![own.global_epoch % 3] = @ \cup {K}]
      /\ Put(Owner, <<Set("buffer", own.buffer + 1)>>)
      /\ own' = [own EXCEPT !.buffer = own.buffer + 1, !.data = Append(@, grown)]
      /\ mem' = [mem EXCEPT !.data = Append(@, grown)]
  BY <1>1, <1>2, <1>3, <1>5 DEF PushGrow
<1>7. PICK label : label = IF Thief = {} THEN "advance" ELSE "scan"
  OBVIOUS
<1>8. pc'[Owner] = label /\ \A u \in Thief : pc'[u] = pc[u]
  <2>1. Goto(Owner, label) /\ label \in OwnerAt
    BY <1>7 DEF PushGrow, OwnerAt
  <2> QED BY <1>6, <2>1, OwnerMoves DEF MemoryInv, Types
<1>9. Top = own.back /\ front \in Nat /\ own.back - front = c
  <2>1. Top = own.back
    BY <1>6 DEF Top
  <2>2. front \in Nat /\ own.back - front <= c
    BY <1>1, <1>2, <2>1, DequeFacts
  <2> QED BY <1>5, <1>6, <2>1, <2>2
<1>10. grown \in Seq(Nat) /\ Len(grown) = 2 * Capacity(own.buffer)
  <2>1. own.back - front <= 2 * Capacity(K) /\ K \in 1 .. own.buffer /\ front \in Int
    BY <1>1, <1>2, <1>5, <1>9
  <2> QED BY <1>1, <1>3, <1>5, <2>1, ResizedFacts
<1>11. /\ Waiting' = Waiting + 1
       /\ InMemory'[Waiting + 1] = own'
       /\ own'.buffer = own.buffer + 1 /\ own'.back = own.back
       /\ own'.global_epoch = own.global_epoch
       /\ \A n \in 0 .. Waiting : /\ InMemory'[n].buffer = InMemory[n].buffer
                                  /\ InMemory'[n].global_epoch = InMemory[n].global_epoch
       /\ \A k \in 1 .. own.buffer : Capacity(k)' = Capacity(k)
       /\ \A t \in Thief : sb'[t] = sb[t]
  BY <1>6, <1>10, MemoryGrown
<1>12. Before' = Before /\ Now' = Now \cup {K} /\ retired'[(own.global_epoch + 1) % 3] = retired[(own.global_epoch + 1) % 3]
  <2>1. Before' = retired'[TwoEpochsAgo(own.global_epoch)] /\ Now' = retired'[own.global_epoch % 3]
    BY <1>11 DEF Before, Now, TwoEpochsAgo
  <2>2. Before = retired[TwoEpochsAgo(own.global_epoch)] /\ Now = retired[own.global_epoch % 3]
    BY DEF Before, Now
  <2> QED BY <1>6, <2>1, <2>2, BucketFacts
<1>13. Buckets /\ OutOfReach /\ Crowded /\ Pins
  BY DEF EpochInv
<1>14. /\ Now \in SUBSET Nat /\ Before \in SUBSET Nat /\ freed \in SUBSET Nat
       /\ \A k \in Now \cup Before \cup freed : k < K
  BY <1>1, <1>13, BucketFacts DEF Buckets
<1>15. own'.buffer = K + 1 /\ Waiting' = l + 1
  BY <1>1, <1>4, <1>11
<1>16. Buckets'
  <2>1. retired'[(own'.global_epoch + 1) % 3] = {}
    BY <1>11, <1>12, <1>13 DEF Buckets
  <2>2. K \notin Before \cup freed
    BY <1>5, <1>14
  <2>3. Now' \cap Before' = {} /\ (Now' \cup Before') \cap freed' = {}
    BY <1>6, <1>12, <1>13, <2>2 DEF Buckets
  <2>4. \A k \in Now' \cup Before' \cup freed' : k < own'.buffer
    <3>1. ASSUME NEW k \in Now' \cup Before' \cup freed' PROVE k \in Nat /\ k <= K
      BY <1>5, <1>6, <1>12, <1>14
    <3> QED BY <1>5, <1>15, <3>1
  <2> QED BY <2>1, <2>3, <2>4 DEF Buckets
<1>17. \A n \in 0 .. l + 1 : n = l + 1 \/ n \in 0 .. l
  BY <1>5
<1>18. ASSUME NEW k \in Before \cup freed, NEW n \in 0 .. l + 1 PROVE k < InMemory'[n].buffer
  <2>1. CASE n = l + 1
    <3>1. InMemory'[n].buffer = K + 1
      BY <1>4, <1>11, <1>15, <2>1
    <3>2. k \in Nat /\ k < K
      BY <1>14
    <3> QED BY <1>5, <3>1, <3>2
  <2>2. CASE n \in 0 .. l
    <3>1. InMemory'[n].buffer = InMemory[n].buffer
      BY <1>4, <1>11, <2>2
    <3>2. CASE k \in Before
      <4>1. Top - front >= Capacity(own.buffer)
        BY <1>1, <1>2, <1>6, <1>9
      <4>2. k < InMemory[n].buffer
        BY <1>4, <1>6, <2>2, <3>2, <4>1, FewGrowths
      <4> QED BY <3>1, <4>2
    <3>3. CASE k \in freed
      BY <1>4, <1>13, <2>2, <3>1, <3>3 DEF OutOfReach
    <3> QED BY <3>2, <3>3
  <2> QED BY <1>17, <2>1, <2>2
<1>19. OutOfReach'
  BY <1>6, <1>12, <1>15, <1>18 DEF OutOfReach
<1>20. Crowded'
  <2>1. Top' = own.back /\ front' = front
    BY <1>6, <1>7, <1>8, <1>11 DEF Top
  <2>2. ASSUME NEW n \in 0 .. Waiting', NEW k \in Nat, k + 1 = own'.buffer, InMemory'[n].buffer <= k
        PROVE  Waiting' - n >= 1 + 2 * (Top' - front' - Capacity(k)') + (IF k \in Before' THEN 1 ELSE 0)
    <3>1. k = K
      BY <1>5, <1>15, <2>2
    <3>2. n # l + 1
      <4>1. n = l + 1 => InMemory'[n].buffer = K + 1
        BY <1>4, <1>11, <1>15
      <4>2. PICK x : x = InMemory'[n].buffer
        OBVIOUS
      <4>3. x <= K /\ (n = l + 1 => x = K + 1)
        BY <2>2, <3>1, <4>1, <4>2
      <4> QED BY <1>5, <4>3
    <3>3. n \in 0 .. l
      BY <1>15, <1>17, <3>2
    <3>4. Capacity(k)' = c /\ k \notin Before'
      BY <1>1, <1>2, <1>5, <1>11, <1>12, <1>14, <3>1
    <3>5. Top' - front' = c
      BY <1>9, <2>1
    <3>7. PICK cap : cap = Capacity(k)'
      OBVIOUS
    <3>8. PICK one : one = IF k \in Before' THEN 1 ELSE 0
      OBVIOUS
    <3>9. cap = c /\ one = 0
      BY <3>4, <3>7, <3>8
    <3>10. PICK z : z = Top' - front' - cap
      OBVIOUS
    <3>11. z = 0
      BY <1>5, <3>5, <3>9, <3>10
    <3>12. PICK v : v = Waiting' - n
      OBVIOUS
    <3>13. v >= 1
      BY <1>5, <1>15, <3>3, <3>12
    <3>14. v >= 1 + 2 * z + one
      <4>1. v \in Int
        BY <1>5, <1>15, <3>3, <3>12
      <4> QED BY <3>9, <3>11, <3>13, <4>1
    <3> QED BY <3>7, <3>8, <3>10, <3>12, <3>14
  <2> QED BY <2>2 DEF Crowded
<1>21. Pins'
  <2>1. NumStealers \in Nat /\ Thief = 0 .. NumStealers - 1
    BY ThreadFacts DEF Thief
  <2>2. pc'[Owner] = "scan" => slot' \in Thief
    BY <1>6, <1>7, <1>8, <2>1
  <2>3. mem'.global_epoch = mem.global_epoch
    BY <1>6 DEF MemoryInv, Types, Values, Memory
  <2>4. ASSUME NEW t \in Thief PROVE Pin(t)'
    <3>1. Pin(t) /\ pc'[t] = pc[t] /\ sb'[t] = sb[t] /\ loc'[t] = loc[t]
      BY <1>6, <1>8, <1>11, <1>13 DEF Pins
    <3>2. ~Passed(t)'
      <4>1. pc'[Owner] = "scan"
        BY <1>7, <1>8
      <4>2. ~(t < slot')
        BY <1>6, <2>1
      <4> QED BY <4>1, <4>2 DEF Passed
    <3> QED BY <1>6, <1>11, <1>12, <2>3, <3>1, <3>2 DEF Pin
  <2> QED BY <2>2, <2>4 DEF Pins
<1> QED BY <1>16, <1>19, <1>20, <1>21 DEF EpochInv

LEMMA EpochPop ==
    ASSUME MemoryInv, DequeInv, EpochInv, pop_back
    PROVE  EpochInv'
<1>1. "idle" \in OwnerAt /\ "pop" \in OwnerAt /\ "pop_cas" \in OwnerAt
  BY DEF OwnerAt
<1>2. own.back \in Int /\ front \in Nat
  BY DequeFacts
<1>3. own.back - 1 \in Int /\ front' \in Int => front' \in Int
  BY <1>2
<1>4. CASE PopReserve
  <2>1. PICK v \in Int : v = own.back - 1
    BY <1>2
  <2>2. PICK w : w = Set("back", v)
    OBVIOUS
  <2>3. /\ OwnerPut(w) /\ Goto(Owner, "pop") /\ UNCHANGED <<mem, local_epochs, retired, freed, slot, loc>>
    BY <1>4, <2>1, <2>2 DEF PopReserve
  <2>4. Stays
    BY <1>4, ReserveKept
  <2> QED BY <1>1, <2>2, <2>3, <2>4, EpochBack
<1>5. CASE PopFront
  <2>1. Stays \/ TakesLast
    BY <1>5, PopFrontKept
  <2>2. UNCHANGED <<front, mem, local_epochs, retired, freed, slot, loc>>
    BY <1>5 DEF PopFront
  <2>3. CASE OwnerPut(Set("back", front)) /\ Goto(Owner, "idle")
    <3>1. PICK v \in Int : v = front
      BY <1>2
    <3>2. PICK w : w = Set("back", v)
      OBVIOUS
    <3>3. OwnerPut(w)
      BY <2>3, <3>1, <3>2
    <3> QED BY <1>1, <2>1, <2>2, <2>3, <3>2, <3>3, EpochBack
  <2>4. CASE UNCHANGED <<sb, own>> /\ \E label \in {"idle", "pop_cas"} : Goto(Owner, label)
    <3>1. PICK label \in {"idle", "pop_cas"} : Goto(Owner, label)
      BY <2>4
    <3>2. pc'[Owner] = label /\ \A t \in Thief : pc'[t] = pc[t]
      BY <1>1, <2>2, <3>1, OwnerMoves DEF MemoryInv, Types
    <3> QED BY <2>1, <2>2, <2>4, <3>2, EpochNoStore
  <2> QED BY <1>5, <2>3, <2>4 DEF PopFront
<1>6. CASE PopCas
  <2>1. Stays \/ TakesFirst
    BY <1>6, PopCasKept
  <2>2. OwnerPut(Set("back", front')) /\ Goto(Owner, "idle") /\ UNCHANGED <<mem, local_epochs, retired, freed, slot, loc>>
    BY <1>6 DEF PopCas
  <2>3. front' \in Int
    BY <2>1, NoLonger
  <2>4. PICK v \in Int : v = front'
    BY <2>3
  <2>5. PICK w : w = Set("back", v)
    OBVIOUS
  <2>6. OwnerPut(w)
    BY <2>2, <2>4, <2>5
  <2> QED BY <1>1, <2>1, <2>2, <2>5, <2>6, EpochBack
<1> QED BY <1>4, <1>5, <1>6 DEF pop_back

LEMMA InitialEpoch ==
    ASSUME Init
    PROVE  EpochInv
<1>1. MemoryInv
  BY InitialDeque
<1>2. /\ mem.buffer = 1 /\ mem.global_epoch = 0 /\ own = mem /\ freed = {}
      /\ retired = [i \in 0 .. 2 |-> {}] /\ \A t \in Thread : pc[t] = "idle" /\ sb[t] = <<>>
  BY DEF Init
<1>3. Now = {} /\ Before = {} /\ retired[(own.global_epoch + 1) % 3] = {}
  BY <1>1, <1>2, BucketFacts DEF Now, Before
<1>4. Waiting = 0 /\ InMemory[0] = mem
  BY <1>1, <1>2, MemoryFacts, EmptySeq, ThreadFacts DEF Waiting
<1>5. Buckets
  BY <1>2, <1>3 DEF Buckets
<1>6. OutOfReach
  BY <1>2, <1>3 DEF OutOfReach
<1>7. Crowded
  <2>1. \A n \in 0 .. Waiting : InMemory[n].buffer = own.buffer
    BY <1>2, <1>4
  <2>2. ASSUME NEW n \in 0 .. Waiting, NEW k \in Nat, k + 1 = own.buffer, InMemory[n].buffer <= k PROVE FALSE
    BY <1>2, <2>1, <2>2
  <2> QED BY <2>2 DEF Crowded
<1>8. Pins
  BY <1>2, ThreadFacts DEF Pins, Pin
<1> QED BY <1>5, <1>6, <1>7, <1>8 DEF EpochInv

\* Every step keeps the epochs.
LEMMA EpochStep ==
    ASSUME MemoryInv, DequeInv, EpochInv, [Next]_vars
    PROVE  EpochInv'
<1>1. CASE push_back
  <2>1. CASE PushInPlace \/ PushAfterGrow
    <3>1. StoreItem /\ UNCHANGED <<front, mem, local_epochs, retired, freed, slot, loc, taken>>
      BY <2>1 DEF PushInPlace, PushAfterGrow
    <3>2. pc[Owner] \in {"idle", "store"} /\ pushed < MaxItems /\ Top - front < Capacity(own.buffer)
      <4>1. CASE PushInPlace
        <5>1. Top = own.back
          BY <4>1 DEF PushInPlace, Top
        <5> QED BY <4>1, <5>1 DEF PushInPlace
      <4>2. CASE PushAfterGrow
        BY <4>2 DEF PushAfterGrow, DequeInv, Ends
      <4> QED BY <2>1, <4>1, <4>2
    <3>3. Adds
      BY <3>1, <3>2, StoreKept
    <3> QED BY <3>1, <3>3, EpochItem
  <2> QED BY <1>1, <2>1, EpochGrow, EpochScan, EpochAdvance DEF push_back
<1>2. CASE pop_back
  BY <1>2, EpochPop
<1>3. CASE \E t \in Thief : steal_front(t)
  <2>1. PICK t \in Thief : steal_front(t)
    BY <1>3
  <2>2. front' \in Nat
    <3>1. MemoryInv'
      BY DequeStep
    <3> QED BY <3>1 DEF MemoryInv, Types, Values
  <2> QED BY <2>1, <2>2, EpochThief
<1>4. CASE \E t \in Thread : Flush(t)
  <2>1. PICK t \in Thread : Flush(t)
    BY <1>4
  <2>2. t = Owner \/ t \in Thief
    BY DEF Thread
  <2> QED BY <2>1, <2>2, EpochOwnerFlush, EpochThiefFlush
<1>5. CASE UNCHANGED vars
  <2>1. /\ UNCHANGED <<mem, own, local_epochs, retired, freed, slot, loc>> /\ \A t \in Thread : sb'[t] = sb[t]
        /\ pc' = pc
    BY <1>5 DEF vars
  <2>2. Stays
    BY <1>5 DEF vars, Stays, Top, Item, At, Capacity
  <2> QED BY <2>1, <2>2, EpochNoStore
<1> QED BY <1>1, <1>2, <1>3, <1>4, <1>5 DEF Next

\* retire and try_advance_epoch (lines 220-247) free a buffer once, and only when
\* no thread can reach it, if two growths of the deque do not fit in a store buffer.
THEOREM ReclamationSafe == Spec => []ReclaimSafe
<1>1. Init => MemoryInv /\ DequeInv /\ EpochInv
  BY InitialDeque, InitialEpoch
<1>2. MemoryInv /\ DequeInv /\ EpochInv /\ [Next]_vars => (MemoryInv /\ DequeInv /\ EpochInv)'
  BY DequeStep, EpochStep
<1>3. ASSUME MemoryInv, DequeInv, EpochInv PROVE ReclaimSafe
  <2>1. \A t \in Thief : pc[t] = "steal_data" => loc[t].buf \notin freed
    BY <1>3 DEF EpochInv, Pins, Pin
  <2>2. {own.buffer, mem.buffer} \cap freed = {}
    <3>1. 0 \in 0 .. Waiting /\ Waiting \in 0 .. Waiting /\ mem = InMemory[0] /\ own = InMemory[Waiting]
      BY <1>3, MemoryFacts
    <3>2. \A k \in freed : k < mem.buffer /\ k < own.buffer
      BY <1>3, <3>1 DEF EpochInv, OutOfReach
    <3>3. mem.buffer \in Nat /\ own.buffer \in Nat /\ freed \in SUBSET Nat
      BY <1>3 DEF MemoryInv, Types, Values, Memory
    <3>4. mem.buffer \notin freed /\ own.buffer \notin freed
      BY <3>2, <3>3
    <3> QED BY <3>4
  <2>3. ASSUME NEW i \in 0 .. 2, NEW j \in 0 .. 2
        PROVE  retired[i] \cap freed = {} /\ (i # j => retired[i] \cap retired[j] = {})
    <3>1. /\ retired[(own.global_epoch + 1) % 3] = {}
          /\ retired[own.global_epoch % 3] \cap retired[TwoEpochsAgo(own.global_epoch)] = {}
          /\ retired[own.global_epoch % 3] \cap freed = {}
          /\ retired[TwoEpochsAgo(own.global_epoch)] \cap freed = {}
      BY <1>3 DEF EpochInv, Buckets, Now, Before
    <3>2. PICK a : a = own.global_epoch % 3
      OBVIOUS
    <3>3. PICK b : b = (own.global_epoch + 1) % 3
      OBVIOUS
    <3>4. PICK c : c = TwoEpochsAgo(own.global_epoch)
      OBVIOUS
    <3>5. i \in {a, b, c} /\ j \in {a, b, c}
      BY <1>3, <3>2, <3>3, <3>4, BucketFacts
    <3>6. retired[b] = {} /\ retired[a] \cap retired[c] = {} /\ retired[a] \cap freed = {} /\ retired[c] \cap freed = {}
      BY <3>1, <3>2, <3>3, <3>4
    <3> QED BY <3>5, <3>6
  <2> QED BY <2>1, <2>2, <2>3 DEF ReclaimSafe
<1> QED BY <1>1, <1>2, <1>3, PTL DEF Spec
=============================================================================
