---------------------------- MODULE LockFreeDeque ----------------------------
(***************************************************************************)
(* The Chase-Lev deque with epoch-based reclamation of                     *)
(* src/src/builder/deque.cpp, one action per access to shared memory, on   *)
(* the memory the program runs on: x86-64 (README.md, "Supported           *)
(* platforms"), where a store waits in the storing thread's FIFO store     *)
(* buffer before it reaches memory, a seq_cst fence and a locked           *)
(* compare-exchange wait for that buffer to be empty, and every other      *)
(* load and store is a plain move.                                         *)
(*                                                                         *)
(* `mem` is what of memory the owner alone writes: back, buffer,           *)
(* global_epoch and the slots of the buffers; `own` is the same locations  *)
(* as the owner sees them, its own waiting stores applied.  A thief writes *)
(* its local epoch alone.  `front` is only ever changed by                 *)
(* compare-exchange, so it is never in a store buffer.  Items are numbered *)
(* in the order they are pushed.                                           *)
(***************************************************************************)
EXTENDS Integers, Sequences, FiniteSets

CONSTANTS NumStealers,   \* size of EpochDomain::local_epochs
          Cap0,          \* the capacity the deque is built with (a power of 2)
          SbDepth,       \* entries of a hardware store buffer
          MaxItems       \* bound: how many items are ever pushed

ASSUME ParamAssumption ==
    /\ NumStealers \in Nat /\ MaxItems \in Nat
    /\ Cap0 \in Nat \ {0} /\ SbDepth \in Nat \ {0}

\* Two growths of the deque do not fit in one store buffer.  Between them the
\* owner stores Cap0 items and Cap0 values of back; the real sizes are 1024
\* items against some 70 entries.  Safe reclamation rests on this.
ASSUME StoreBufferAssumption == SbDepth <= 2 * Cap0 + 2

Thief == 0 .. NumStealers - 1     \* the ids steal_front is called with
Owner == NumStealers
Thread == Thief \cup {Owner}

kInactive == -1                   \* ~uint64_t{0}: no epoch

VARIABLES
    front,     \* the index the next steal takes
    mem,       \* [back, buffer, global_epoch, data] in memory
    own,       \* the same, as the owner reads it
    local_epochs,  \* [Thief -> epoch] in memory
    sb,        \* [Thread -> Seq(store)]: the store buffers, oldest first; a
               \* thief's are the epochs for its slot
    retired,   \* [0..2 -> SUBSET buffer]: buffers waiting for their epoch
    freed,     \* buffers given back to the allocator
    pc,        \* [Thread -> where the thread is in its operation]
    slot,      \* owner: the next slot try_advance_epoch looks at
    loc,       \* [Thief -> [f, epoch, buf, value]]: locals of steal_front
    pushed,    \* how many items have been pushed
    taken      \* the items pop_back and steal_front have returned

vars == <<front, mem, own, local_epochs, sb, retired, freed, pc, slot, loc, pushed, taken>>

-----------------------------------------------------------------------------
(* Stores and the store buffers *)

Set(x, v)        == [var |-> x, val |-> v]
SetData(k, j, v) == [var |-> "data", buf |-> k, at |-> j, val |-> v]

Apply(m, w) == IF w.var = "data" THEN [m EXCEPT !.data[w.buf][w.at] = w.val]
                                 ELSE [m EXCEPT ![w.var] = w.val]

Room(t, n)   == Len(sb[t]) + n <= SbDepth
NoFence(t)   == TRUE           \* mutant: the fence is missing
Fenced(t)    == sb[t] = <<>>
Put(t, ws)   == sb' = [sb EXCEPT ![t] = @ \o ws]
OwnerPut(w)  == Room(Owner, 1) /\ Put(Owner, <<w>>) /\ own' = Apply(own, w)

\* The oldest waiting store of a thread reaches memory.
Flush(t) ==
    /\ sb[t] # <<>>
    /\ IF t = Owner
       THEN mem' = Apply(mem, Head(sb[t])) /\ UNCHANGED local_epochs
       ELSE local_epochs' = [local_epochs EXCEPT ![t] = Head(sb[t])] /\ UNCHANGED mem
    /\ sb' = [sb EXCEPT ![t] = Tail(@)]
    /\ UNCHANGED <<front, own, retired, freed, pc, slot, loc, pushed, taken>>

-----------------------------------------------------------------------------
(* Buffers: the k-th one allocated is a sequence of the items in its slots *)

Capacity(k)       == Len(own.data[k])            \* never changes
Slot(i, capacity) == (i % capacity) + 1          \* i & mask
At(k, i)          == Slot(i, Capacity(k))

\* Buffer::resize: twice the capacity, the items [f, b) copied.
Resized(k, f, b) ==
    LET capacity == 2 * Capacity(k)
    IN  [j \in 1 .. capacity |->
            IF \E i \in f .. b - 1 : Slot(i, capacity) = j
            THEN own.data[k][At(k, CHOOSE i \in f .. b - 1 : Slot(i, capacity) = j)]
            ELSE 0]

Goto(t, label) == pc' = [pc EXCEPT ![t] = label]
Return(x)      == taken' = taken \cup {x}

Init ==
    /\ front = 0
    /\ mem = [back |-> 0, buffer |-> 1, global_epoch |-> 0, data |-> << [j \in 1 .. Cap0 |-> 0] >>]
    /\ own = mem
    /\ local_epochs = [t \in Thief |-> kInactive]
    /\ sb = [t \in Thread |-> <<>>]
    /\ retired = [i \in 0 .. 2 |-> {}]
    /\ freed = {}
    /\ pc = [t \in Thread |-> "idle"]
    /\ slot = 0
    /\ loc = [t \in Thief |-> [f |-> 0, epoch |-> 0, buf |-> 0, value |-> 0]]
    /\ pushed = 0
    /\ taken = {}

-----------------------------------------------------------------------------
(* push_back *)

\* buf->data[b & buf->mask] = item; back.store(b + 1)
StoreItem ==
    LET item  == SetData(own.buffer, At(own.buffer, own.back), pushed + 1)
        right == Set("back", own.back + 1)
    IN
    /\ Room(Owner, 2)
    /\ Put(Owner, <<item, right>>)
    /\ own' = Apply(Apply(own, item), right)
    /\ pushed' = pushed + 1
    /\ Goto(Owner, "idle")

PushInPlace ==
    /\ pc[Owner] = "idle" /\ pushed < MaxItems
    /\ own.back - front < Capacity(own.buffer)
    /\ StoreItem
    /\ UNCHANGED <<front, mem, local_epochs, retired, freed, slot, loc, taken>>

\* Full as far as this load of front shows: a new buffer is filled (nobody else
\* can reach it yet) and stored, and the old one is retired.
PushGrow ==
    LET k == own.buffer
        next == Len(own.data) + 1
        grown == Resized(k, front, own.back)
    IN
    /\ pc[Owner] = "idle" /\ pushed < MaxItems
    /\ own.back - front >= Capacity(k)
    /\ Room(Owner, 1)
    /\ Put(Owner, <<Set("buffer", next)>>)
    /\ own' = [own EXCEPT !.buffer = next, !.data = Append(@, grown)]
    /\ mem' = [mem EXCEPT !.data = Append(@, grown)]
    /\ retired' = [retired EXCEPT ![own.global_epoch % 3] = @ \cup {k}]
    /\ slot' = 0
    /\ Goto(Owner, IF Thief = {} THEN "advance" ELSE "scan")
    /\ UNCHANGED <<front, local_epochs, freed, loc, pushed, taken>>

\* try_advance_epoch reads one slot: a thief pinned in another epoch ends it.
ScanSlot ==
    LET e == local_epochs[slot] IN
    /\ pc[Owner] = "scan"
    /\ IF e \notin {kInactive, own.global_epoch}
       THEN Goto(Owner, "store") /\ UNCHANGED slot
       ELSE /\ slot' = slot + 1
            /\ Goto(Owner, IF slot' \in Thief THEN "scan" ELSE "advance")
    /\ UNCHANGED <<front, mem, own, local_epochs, sb, retired, freed, loc, pushed, taken>>

\* The bucket try_advance_epoch frees when it leaves epoch e.
TwoEpochsAgo(e)  == (e + 2) % 3   \* (next_epoch + 1) % 3

\* No hazard found: the next epoch, and the buffers of two epochs ago go.
AdvanceEpoch ==
    LET next == own.global_epoch + 1
        old  == TwoEpochsAgo(own.global_epoch)
    IN
    /\ pc[Owner] = "advance"
    /\ OwnerPut(Set("global_epoch", next))
    /\ freed' = freed \cup retired[old]
    /\ retired' = [retired EXCEPT ![old] = {}]
    /\ Goto(Owner, "store")
    /\ UNCHANGED <<front, mem, local_epochs, slot, loc, pushed, taken>>

PushAfterGrow ==
    /\ pc[Owner] = "store"
    /\ StoreItem
    /\ UNCHANGED <<front, mem, local_epochs, retired, freed, slot, loc, taken>>

-----------------------------------------------------------------------------
(* pop_back *)

PopReserve ==
    /\ pc[Owner] = "idle"
    /\ OwnerPut(Set("back", own.back - 1))
    /\ Goto(Owner, "pop")
    /\ UNCHANGED <<front, mem, local_epochs, retired, freed, slot, loc, pushed, taken>>

PoppedItem == own.data[own.buffer][At(own.buffer, own.back)]

\* The fence between the store of back and the load of front (line 146).
PopUnfenced == TRUE                        \* mutant
PopFenced   == Fenced(Owner)

\* The load of front, and what follows from it alone.
PopFront ==
    LET b == own.back IN
    /\ pc[Owner] = "pop"
    /\ PopFenced
    /\ \/ /\ front > b                        \* empty: put back right
          /\ OwnerPut(Set("back", front))
          /\ Goto(Owner, "idle")
          /\ UNCHANGED taken
       \/ /\ front = b                        \* the last item
          /\ Goto(Owner, "pop_cas")
          /\ UNCHANGED <<sb, own, taken>>
       \/ /\ front < b
          /\ Return(PoppedItem)
          /\ Goto(Owner, "idle")
          /\ UNCHANGED <<sb, own>>
    /\ UNCHANGED <<front, mem, local_epochs, retired, freed, slot, loc, pushed>>

\* Mutant: the failed exchange returns without putting back right.
PopCasNoRestore ==
    /\ pc[Owner] = "pop_cas"
    /\ Fenced(Owner)
    /\ front # own.back
    /\ Goto(Owner, "idle")
    /\ UNCHANGED <<front, mem, own, local_epochs, sb, retired, freed, slot, loc, pushed, taken>>

\* The compare-exchange on front that decides who gets the last item.
PopCas ==
    /\ pc[Owner] = "pop_cas"
    /\ Fenced(Owner)
    /\ \/ /\ front = own.back
          /\ front' = front + 1
          /\ Return(PoppedItem)
       \/ /\ front # own.back
          /\ UNCHANGED <<front, taken>>
    /\ OwnerPut(Set("back", front'))
    /\ Goto(Owner, "idle")
    /\ UNCHANGED <<mem, local_epochs, retired, freed, slot, loc, pushed>>

-----------------------------------------------------------------------------
(* steal_front(id) *)

Locals(t, x, v) == loc' = [loc EXCEPT ![t][x] = v]
Forget(t) == loc' = [loc EXCEPT ![t] = [f |-> 0, epoch |-> 0, buf |-> 0, value |-> 0]]

StealLoadFront(t) ==
    /\ pc[t] = "idle"
    /\ Locals(t, "f", front)
    /\ Goto(t, "steal_back")
    /\ UNCHANGED <<front, mem, own, local_epochs, sb, retired, freed, slot, pushed, taken>>

\* The fence and the load of back; f >= b: nothing to steal.
StealLoadBack(t) ==
    /\ pc[t] = "steal_back"
    /\ Fenced(t)
    /\ IF loc[t].f >= mem.back
       THEN Goto(t, "idle") /\ Forget(t)
       ELSE Goto(t, "steal_epoch") /\ UNCHANGED loc
    /\ UNCHANGED <<front, mem, own, local_epochs, sb, retired, freed, slot, pushed, taken>>

StealLoadEpoch(t) ==
    /\ pc[t] = "steal_epoch"
    /\ Locals(t, "epoch", mem.global_epoch)
    /\ Goto(t, "steal_pin")
    /\ UNCHANGED <<front, mem, own, local_epochs, sb, retired, freed, slot, pushed, taken>>

\* EpochGuard's constructor
StealPin(t) ==
    /\ pc[t] = "steal_pin"
    /\ Room(t, 1)
    /\ Put(t, <<loc[t].epoch>>)
    /\ Goto(t, "steal_buffer")
    /\ UNCHANGED <<front, mem, own, local_epochs, retired, freed, slot, loc, pushed, taken>>

\* The fence and the load of the buffer pointer.
StealLoadBuffer(t) ==
    /\ pc[t] = "steal_buffer"
    /\ Fenced(t)
    /\ Locals(t, "buf", mem.buffer)
    /\ Goto(t, "steal_data")
    /\ UNCHANGED <<front, mem, own, local_epochs, sb, retired, freed, slot, pushed, taken>>

\* The plain read of the item.  It may race with the owner's store to the same
\* slot: an aligned word, so the old value or the new one is read.
StealLoadData(t) ==
    /\ pc[t] = "steal_data"
    /\ Locals(t, "value", mem.data[loc[t].buf][At(loc[t].buf, loc[t].f)])
    /\ Goto(t, "steal_cas")
    /\ UNCHANGED <<front, mem, own, local_epochs, sb, retired, freed, slot, pushed, taken>>

StealCas(t) ==
    /\ pc[t] = "steal_cas"
    /\ Fenced(t)
    /\ \/ /\ front = loc[t].f
          /\ front' = front + 1
          /\ Return(loc[t].value)
       \/ /\ front # loc[t].f                 \* lost to another thread
          /\ UNCHANGED <<front, taken>>
    /\ Goto(t, "steal_unpin")
    /\ UNCHANGED <<mem, own, local_epochs, sb, retired, freed, slot, loc, pushed>>

\* EpochGuard's destructor
StealUnpin(t) ==
    /\ pc[t] = "steal_unpin"
    /\ Room(t, 1)
    /\ Put(t, <<kInactive>>)
    /\ Forget(t)
    /\ Goto(t, "idle")
    /\ UNCHANGED <<front, mem, own, local_epochs, retired, freed, slot, pushed, taken>>

-----------------------------------------------------------------------------
push_back == PushInPlace \/ PushGrow \/ ScanSlot \/ AdvanceEpoch \/ PushAfterGrow
pop_back  == PopReserve \/ PopFront \/ PopCas
steal_front(t) == \/ StealLoadFront(t) \/ StealLoadBack(t) \/ StealLoadEpoch(t)
                  \/ StealPin(t) \/ StealLoadBuffer(t) \/ StealLoadData(t)
                  \/ StealCas(t) \/ StealUnpin(t)

Next == \/ push_back
        \/ pop_back
        \/ \E t \in Thief : steal_front(t)
        \/ \E t \in Thread : Flush(t)

Spec == Init /\ [][Next]_vars

-----------------------------------------------------------------------------
(* Properties *)

\* Where pop_back has reserved its item, the deque still ends above it.
Top == IF pc[Owner] \in {"pop", "pop_cas"} THEN own.back + 1 ELSE own.back

Contents == [i \in 1 .. Top - front |->
                own.data[own.buffer][At(own.buffer, front + i - 1)]]

\* The threads together implement the promised deque: push_back, pop_back and
\* steal_front (lines 115-202) hand every item out exactly once, the right end
\* of the deque each time, whatever the interleaving and however late the
\* stores reach memory.
Deque == INSTANCE WorkDeque WITH Item <- 1 .. MaxItems, q <- Contents
ImplementsDeque == Deque!Spec

\* What m becomes while the stores reach it one after another.
Reached(m, stores) ==
    LET after[n \in 0 .. Len(stores)] == IF n = 0 THEN m ELSE Apply(after[n - 1], stores[n])
    IN  after

\* Memory once so many of the owner's waiting stores have reached it.
InMemory == Reached(mem, sb[Owner])

\* Values are of the types the code gives them; `back` is never below `front`
\* by more than the one item a pop_back reserves (line 145), and what the owner
\* sees is memory with its waiting stores applied.
TypeOK ==
    /\ front \in 0 .. MaxItems
    /\ own.back \in front - 1 .. MaxItems
    /\ own.buffer = Len(own.data) /\ mem.buffer \in 1 .. own.buffer
    /\ mem.global_epoch \in 0 .. own.global_epoch
    /\ \A t \in Thread : sb[t] = <<>> \/ Len(sb[t]) <= SbDepth
    /\ InMemory[Len(sb[Owner])] = own
    /\ taken \subseteq 1 .. pushed

\* Epoch-based reclamation (retire and try_advance_epoch, lines 220-247) frees
\* a buffer once, and only when no thread can reach it: neither the thieves
\* that are about to read from it nor those that are about to load the pointer.
ReclaimSafe ==
    /\ \A t \in Thief : pc[t] = "steal_data" => loc[t].buf \notin freed
    /\ {own.buffer, mem.buffer} \cap freed = {}
    /\ \A i, j \in 0 .. 2 : /\ retired[i] \cap freed = {}
                            /\ i # j => retired[i] \cap retired[j] = {}

=============================================================================
