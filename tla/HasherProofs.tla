----------------------------- MODULE HasherProofs -----------------------------
(***************************************************************************)
(* Proofs about Hasher, for any length of a block and of a message.        *)
(***************************************************************************)
EXTENDS Hasher, SequenceFacts

-----------------------------------------------------------------------------
(* The inductive invariant: what the state is of the bytes consumed so far *)

\* The i-th block of the message, from 0, and what lane l stands for after n blocks.
Block(i) == Bytes(i * BLOCK, BLOCK)
LaneHolds(l, n) == [i \in 1 .. BlocksOf(l, n) |-> Block(l + LANES * (i - 1))]

HashTypes ==
    /\ total_len \in Nat /\ left \in 0 .. total_len /\ blocks \in Nat
    /\ pc \in {"idle", "flush", "realign", "main", "tail"}

\* The four-block loop runs only on a multiple of four, or not at all.
HashControl ==
    /\ pc = "idle" => left = 0
    /\ pc = "flush" => buffer # <<>>
    /\ pc \in {"realign", "main", "tail"} => buffer = <<>>
    /\ pc = "main" => Aligned \/ BLOCK > left

\* The bytes before At are in the accumulators, block after block, and then in the
\* buffer, which holds less than a block.
Consumed ==
    /\ acc = [l \in Lane |-> LaneHolds(l, blocks)]
    /\ \E r \in 0 .. BLOCK - 1 : At = blocks * BLOCK + r /\ buffer = Bytes(blocks * BLOCK, r)

HashInv == HashTypes /\ HashControl /\ Consumed

-----------------------------------------------------------------------------
(* Arithmetic *)

\* One more block goes to lane n % 4, and is the next one there; four more go to
\* one lane each.
LEMMA NextOfLane ==
    ASSUME NEW l \in Lane, NEW n \in Nat
    PROVE  /\ BlocksOf(l, n) \in Nat
           /\ BlocksOf(l, n + 1) = IF n % LANES = l THEN BlocksOf(l, n) + 1 ELSE BlocksOf(l, n)
           /\ n % LANES = l => l + LANES * BlocksOf(l, n) = n
           /\ BlocksOf(l, n + LANES) = BlocksOf(l, n) + 1
           /\ n % LANES = 0 => l + LANES * BlocksOf(l, n) = n + l
BY DEF Lane, LANES, BlocksOf

\* A piece of the message after the bytes before it.
LEMMA BytesJoin ==
    ASSUME NEW a \in Nat, NEW m \in Nat, NEW n \in Nat
    PROVE  Bytes(a, m) \o Bytes(a + m, n) = Bytes(a, m + n)
<1>1. /\ Bytes(a, m) \in Seq(Nat) /\ Len(Bytes(a, m)) = m
      /\ Bytes(a + m, n) \in Seq(Nat) /\ Len(Bytes(a + m, n)) = n
      /\ Bytes(a, m + n) \in Seq(Nat) /\ Len(Bytes(a, m + n)) = m + n
  BY DEF Bytes
<1>2. \A i \in 1 .. m : Bytes(a, m)[i] = a + i
  BY DEF Bytes
<1>3. \A i \in 1 .. n : Bytes(a + m, n)[i] = a + m + i
  BY DEF Bytes
<1>4. \A i \in 1 .. m + n : Bytes(a, m + n)[i] = a + i
  BY DEF Bytes
<1> DEFINE s == Bytes(a, m)
           t == Bytes(a + m, n)
<1> HIDE DEF s, t
<1>5. /\ s \o t \in Seq(Nat) /\ Len(s \o t) = m + n
      /\ \A i \in 1 .. m + n : (s \o t)[i] = IF i <= m THEN s[i] ELSE t[i - m]
  BY <1>1, ConcatProperties, SMTT(30) DEF s, t
<1>6. ASSUME NEW i \in 1 .. m + n PROVE (s \o t)[i] = a + i
  <2>1. CASE i <= m
    BY <1>2, <1>5, <2>1 DEF s
  <2>2. CASE ~(i <= m)
    <3> PICK j : j = i - m
      OBVIOUS
    <3>1. j \in 1 .. n /\ a + m + j = a + i
      BY <2>2
    <3>2. (s \o t)[i] = t[j]
      BY <1>5, <2>2
    <3> QED BY <1>3, <3>1, <3>2 DEF t
  <2> QED BY <2>1, <2>2
<1>7. s \o t = Bytes(a, m + n)
  BY <1>1, <1>4, <1>5, <1>6, SeqEqual
<1> QED BY <1>7 DEF s, t

\* A lane with its next block.
LEMMA LaneGrows ==
    ASSUME NEW l \in Lane, NEW n \in Nat, NEW m \in Nat, BlocksOf(l, m) = BlocksOf(l, n) + 1,
           NEW i, l + LANES * BlocksOf(l, n) = i
    PROVE  Append(LaneHolds(l, n), Block(i)) = LaneHolds(l, m)
<1> PICK size : size = BlocksOf(l, n)
  OBVIOUS
<1> PICK k : k = size + 1
  OBVIOUS
<1>1. size \in Nat /\ BlocksOf(l, m) = k /\ l + LANES * (k - 1) = i
  <2>1. size \in Nat
    BY NextOfLane
  <2>2. k - 1 = size
    BY <2>1
  <2> QED BY <2>1, <2>2
<1> DEFINE F(j) == Block(l + LANES * (j - 1))
<1>2. LaneHolds(l, n) = [j \in 1 .. size |-> F(j)]
      /\ LaneHolds(l, m) = [j \in 1 .. k |-> F(j)]
  BY <1>1 DEF LaneHolds
<1>3. F(k) = Block(i)
  BY <1>1
<1> HIDE DEF F
<1> QED BY <1>1, <1>2, <1>3

\* Nothing is in a piece of no bytes, and in no other.
LEMMA NoBytes ==
    ASSUME NEW a \in Nat, NEW n \in Nat
    PROVE  Bytes(a, n) = <<>> <=> n = 0
<1>1. Bytes(a, n) \in Seq(Nat) /\ Len(Bytes(a, n)) = n
  BY DEF Bytes
<1> QED BY <1>1, EmptySeq

-----------------------------------------------------------------------------
(* The steps keep the invariant *)

\* The block that is folded is the next one of the message.
LEMMA FoldsNext ==
    ASSUME HashInv, Fold(Block(blocks))
    PROVE  acc' = [l \in Lane |-> LaneHolds(l, blocks + 1)]
<1>1. acc = [l \in Lane |-> LaneHolds(l, blocks)] /\ blocks \in Nat /\ blocks + 1 \in Nat
  BY DEF HashInv, HashTypes, Consumed
<1>2. acc' = [l \in Lane |-> IF l = blocks % LANES
                              THEN Append(LaneHolds(l, blocks), Block(blocks))
                              ELSE LaneHolds(l, blocks)]
  BY <1>1 DEF Fold
<1>3. ASSUME NEW l \in Lane, l = blocks % LANES
      PROVE  Append(LaneHolds(l, blocks), Block(blocks)) = LaneHolds(l, blocks + 1)
  <2>1. BlocksOf(l, blocks + 1) = BlocksOf(l, blocks) + 1
        /\ l + LANES * BlocksOf(l, blocks) = blocks
    BY <1>1, <1>3, NextOfLane
  <2> QED BY <1>1, <2>1, LaneGrows
<1>4. ASSUME NEW l \in Lane, l # blocks % LANES
      PROVE  LaneHolds(l, blocks) = LaneHolds(l, blocks + 1)
  <2>1. BlocksOf(l, blocks + 1) = BlocksOf(l, blocks)
    BY <1>1, <1>4, NextOfLane
  <2> QED BY <2>1 DEF LaneHolds
<1> QED BY <1>2, <1>3, <1>4

\* With an empty buffer everything before At is in the accumulators.
LEMMA AtBlock ==
    ASSUME HashInv, buffer = <<>>
    PROVE  At = blocks * BLOCK /\ Block(blocks) = Bytes(At, BLOCK)
<1>1. PICK r \in 0 .. BLOCK - 1 : At = blocks * BLOCK + r /\ buffer = Bytes(blocks * BLOCK, r)
  BY DEF HashInv, Consumed
<1>2. blocks \in Nat /\ BLOCK \in Nat /\ blocks * BLOCK \in Nat /\ r \in Nat
  BY BlockAssumption DEF HashInv, HashTypes
<1>3. r = 0
  BY <1>1, <1>2, NoBytes
<1>4. At = blocks * BLOCK
  BY <1>1, <1>2, <1>3
<1> QED BY <1>4 DEF Block

LEMMA HashInvStep == HashInv /\ [Next]_vars => HashInv'
<1> SUFFICES ASSUME HashInv, [Next]_vars PROVE HashInv'
  OBVIOUS
<1>t. /\ total_len \in Nat /\ left \in Nat /\ left <= total_len /\ blocks \in Nat
      /\ BLOCK \in Nat \ {0} /\ LANES = 4 /\ blocks * BLOCK \in Nat
      /\ At \in Nat
  BY BlockAssumption DEF HashInv, HashTypes, LANES, At
<1>c. HashControl
  BY DEF HashInv
<1>1. PICK r \in 0 .. BLOCK - 1 : At = blocks * BLOCK + r /\ buffer = Bytes(blocks * BLOCK, r)
  BY DEF HashInv, Consumed
<1>r. r \in Nat /\ r < BLOCK
  BY <1>t
<1>2. acc = [l \in Lane |-> LaneHolds(l, blocks)]
  BY DEF HashInv, Consumed
\* Steps that fold nothing.
<1>3. ASSUME UNCHANGED <<acc, blocks>>, NEW n \in 0 .. BLOCK - 1,
             At' = blocks * BLOCK + n, buffer' = Bytes(blocks * BLOCK, n)
      PROVE  Consumed'
  BY <1>2, <1>3 DEF Consumed
<1>4. CASE UNCHANGED vars
  BY <1>4 DEF vars, HashInv, HashTypes, HashControl, Consumed, At, Aligned, LaneHolds
<1>5. CASE HashReset
  <2>1. /\ total_len' = 0 /\ left' = 0 /\ blocks' = 0 /\ pc' = "idle" /\ buffer' = <<>>
        /\ acc' = [l \in Lane |-> <<>>]
    BY <1>5, <1>c DEF HashReset, Reset, HashControl
  <2>2. \A l \in Lane : LaneHolds(l, 0) = <<>>
    <3>1. \A l \in Lane : BlocksOf(l, 0) = 0
      BY DEF BlocksOf, Lane, LANES
    <3> QED BY <3>1 DEF LaneHolds
  <2>3. Bytes(0 * BLOCK, 0) = <<>> /\ 0 * BLOCK = 0
    BY <1>t, NoBytes
  <2>4. Consumed'
    <3>1. acc' = [l \in Lane |-> LaneHolds(l, blocks')]
      BY <2>1, <2>2
    <3>2. At' = blocks' * BLOCK + 0 /\ buffer' = Bytes(blocks' * BLOCK, 0) /\ 0 \in 0 .. BLOCK - 1
      BY <1>t, <2>1, <2>3 DEF At
    <3> QED BY <3>1, <3>2 DEF Consumed
  <2> QED BY <2>1, <2>4 DEF HashInv, HashTypes, HashControl
<1>6. ASSUME NEW n \in 0 .. MaxLen, UpdateCall(n) PROVE HashInv'
  <2>1. /\ total_len' = total_len + n /\ left' = n /\ n \in Nat /\ UNCHANGED <<acc, buffer, blocks>>
        /\ pc' = IF buffer # <<>> THEN "flush" ELSE "realign"
        /\ left = 0
    BY <1>6, <1>c, MaxLenAssumption DEF UpdateCall, HashControl
  <2>2. At' = At
    BY <1>t, <2>1 DEF At
  <2>3. Consumed'
    BY <1>1, <1>3, <2>1, <2>2
  <2> QED BY <1>t, <2>1, <2>3 DEF HashInv, HashTypes, HashControl
<1>7. CASE FlushShort
  <2>1. /\ left' = 0 /\ pc' = "idle" /\ UNCHANGED <<acc, total_len, blocks>>
        /\ buffer' = buffer \o Bytes(At, left) /\ BLOCK - Len(buffer) > left
    BY <1>7 DEF FlushShort, Short, Missing
  <2>2. Len(buffer) = r
    BY <1>1, <1>r DEF Bytes
  <2>3. r + left \in 0 .. BLOCK - 1
    BY <1>t, <1>r, <2>1, <2>2
  <2>4. buffer' = Bytes(blocks * BLOCK, r + left)
    BY <1>1, <1>t, <1>r, <2>1, BytesJoin, ZenonT(40)
  <2>5. At' = blocks * BLOCK + (r + left)
    BY <1>1, <1>t, <1>r, <2>1 DEF At
  <2>6. Consumed'
    BY <1>3, <2>1, <2>3, <2>4, <2>5
  <2> QED BY <1>t, <2>1, <2>6 DEF HashInv, HashTypes, HashControl
\* One block is folded, and the buffer is empty.
<1>8. ASSUME Fold(Block(blocks)), blocks' = blocks + 1, buffer' = <<>>, left' \in Nat,
             At' = At + left - left', UNCHANGED total_len, At + left - left' = (blocks + 1) * BLOCK
      PROVE  Consumed'
  <2>1. acc' = [l \in Lane |-> LaneHolds(l, blocks')]
    BY <1>8, FoldsNext
  <2>2. At' = blocks' * BLOCK + 0 /\ 0 \in 0 .. BLOCK - 1 /\ blocks' * BLOCK \in Nat
    <3>1. At' = (blocks + 1) * BLOCK
      BY <1>8
    <3>2. (blocks + 1) * BLOCK \in Nat /\ 0 \in 0 .. BLOCK - 1
      BY <1>t
    <3>3. blocks' * BLOCK = (blocks + 1) * BLOCK
      BY <1>8
    <3> QED BY <3>1, <3>2, <3>3
  <2>3. buffer' = Bytes(blocks' * BLOCK, 0)
    BY <1>8, <2>2, NoBytes
  <2> QED BY <2>1, <2>2, <2>3 DEF Consumed
<1>9. CASE FlushBlock
  <2>1. /\ pc' = "realign" /\ UNCHANGED total_len /\ buffer' = <<>> /\ blocks' = blocks + 1
        /\ Fold(buffer \o Bytes(At, BLOCK - Len(buffer))) /\ left' = left - (BLOCK - Len(buffer))
        /\ ~(BLOCK - Len(buffer) > left)
    BY <1>9 DEF FlushBlock, Short, Missing
  <2>2. Len(buffer) = r
    BY <1>1, <1>r DEF Bytes
  <2>3. left' \in Nat /\ left' = left - (BLOCK - r) /\ left' <= left
    BY <1>t, <1>r, <2>1, <2>2
  <2>4. buffer \o Bytes(At, BLOCK - Len(buffer)) = Block(blocks)
    <3> PICK m : m = BLOCK - r
      OBVIOUS
    <3>1. m \in Nat /\ r + m = BLOCK
      BY <1>t, <1>r
    <3>2. Bytes(blocks * BLOCK, r) \o Bytes(blocks * BLOCK + r, m) = Bytes(blocks * BLOCK, r + m)
      BY <1>t, <1>r, <3>1, BytesJoin, ZenonT(40)
    <3> QED BY <1>1, <2>2, <3>1, <3>2 DEF Block
  <2>5. At + left - left' = (blocks + 1) * BLOCK
    <3>1. (blocks + 1) * BLOCK = blocks * BLOCK + BLOCK
      BY <1>t
    <3> QED BY <1>1, <1>t, <1>r, <2>3, <3>1
  <2>6. At' = At + left - left'
    BY <1>t, <2>1, <2>3 DEF At
  <2>7. Consumed'
    BY <1>8, <2>1, <2>3, <2>4, <2>5, <2>6
  <2> QED BY <1>t, <2>1, <2>3, <2>7 DEF HashInv, HashTypes, HashControl
<1>10. CASE RealignBlock \/ TailBlock
  <2>1. /\ pc' = pc /\ pc \in {"realign", "tail"} /\ UNCHANGED <<buffer, total_len>>
        /\ blocks' = blocks + 1 /\ Fold(Bytes(At, BLOCK)) /\ left' = left - BLOCK /\ BLOCK <= left
    BY <1>10 DEF RealignBlock, TailBlock
  <2>2. buffer = <<>>
    BY <1>c, <2>1 DEF HashControl
  <2>3. At = blocks * BLOCK /\ Fold(Block(blocks))
    BY <2>1, <2>2, AtBlock
  <2>4. left' \in Nat /\ left' <= left
    BY <1>t, <2>1
  <2>5. At + left - left' = (blocks + 1) * BLOCK
    <3>1. (blocks + 1) * BLOCK = blocks * BLOCK + BLOCK
      BY <1>t
    <3> QED BY <1>t, <2>1, <2>3, <3>1
  <2>6. At' = At + left - left'
    BY <1>t, <2>1, <2>4 DEF At
  <2>7. Consumed'
    BY <1>8, <2>1, <2>2, <2>3, <2>4, <2>5, <2>6
  <2> QED BY <1>t, <2>1, <2>2, <2>4, <2>7 DEF HashInv, HashTypes, HashControl
<1>11. CASE RealignDone \/ MainDone
  <2>1. /\ UNCHANGED <<acc, buffer, total_len, blocks, left>> /\ pc \in {"realign", "main"}
        /\ pc' \in {"main", "tail"} /\ (pc' = "main" => Aligned \/ BLOCK > left)
    BY <1>11 DEF RealignDone, MainDone
  <2>2. Consumed'
    BY <1>1, <1>3, <2>1 DEF At
  <2> QED BY <1>t, <1>c, <2>1, <2>2 DEF HashInv, HashTypes, HashControl, Aligned
<1>12. CASE MainBlocks
  <2>1. /\ pc' = "main" /\ pc = "main" /\ UNCHANGED <<buffer, total_len>>
        /\ blocks' = blocks + LANES /\ left' = left - LANES * BLOCK /\ LANES * BLOCK <= left
        /\ acc' = [l \in Lane |-> Append(acc[l], Bytes(At + l * BLOCK, BLOCK))]
    BY <1>12 DEF MainBlocks
  <2>2. buffer = <<>> /\ blocks % LANES = 0
    BY <1>t, <1>c, <2>1 DEF HashControl, Aligned
  <2>3. At = blocks * BLOCK
    BY <2>2, AtBlock
  <2>4. ASSUME NEW l \in Lane
        PROVE  Append(LaneHolds(l, blocks), Bytes(At + l * BLOCK, BLOCK)) = LaneHolds(l, blocks + LANES)
    <3>1. BlocksOf(l, blocks + LANES) = BlocksOf(l, blocks) + 1
          /\ l + LANES * BlocksOf(l, blocks) = blocks + l
      <4>1. blocks \in Nat
        BY <1>t
      <4> QED BY <2>2, <4>1, NextOfLane
    <3>2. Block(blocks + l) = Bytes(At + l * BLOCK, BLOCK)
      <4>1. (blocks + l) * BLOCK = blocks * BLOCK + l * BLOCK
        BY <1>t DEF Lane, LANES
      <4> QED BY <2>3, <4>1 DEF Block
    <3>3. blocks + LANES \in Nat
      BY <1>t
    <3> QED BY <1>t, <3>1, <3>2, <3>3, LaneGrows
  <2>5. acc' = [l \in Lane |-> LaneHolds(l, blocks')]
    BY <1>2, <2>1, <2>4
  <2>6. left' \in Nat /\ left' <= left /\ blocks' \in Nat
    BY <1>t, <2>1
  <2>7. At' = blocks' * BLOCK + 0 /\ blocks' * BLOCK \in Nat /\ 0 \in 0 .. BLOCK - 1
    <3>1. (blocks + LANES) * BLOCK = blocks * BLOCK + LANES * BLOCK
      BY <1>t
    <3> QED BY <1>t, <2>1, <2>3, <3>1 DEF At
  <2>8. buffer' = Bytes(blocks' * BLOCK, 0)
    BY <2>1, <2>2, <2>7, NoBytes
  <2>9. Consumed'
    BY <2>5, <2>7, <2>8 DEF Consumed
  <2>10. Aligned'
    BY <1>t, <2>1, <2>2 DEF Aligned, LANES
  <2> QED BY <1>t, <2>1, <2>2, <2>6, <2>9, <2>10 DEF HashInv, HashTypes, HashControl
<1>13. CASE Store
  <2>1. /\ pc = "tail" /\ BLOCK > left /\ buffer' = Bytes(At, left) /\ left' = 0 /\ pc' = "idle"
        /\ UNCHANGED <<acc, total_len, blocks>>
    BY <1>13 DEF Store
  <2>2. buffer = <<>>
    BY <1>c, <2>1 DEF HashControl
  <2>3. At = blocks * BLOCK
    BY <2>2, AtBlock
  <2>4. At' = blocks * BLOCK + left /\ left \in 0 .. BLOCK - 1
    BY <1>t, <2>1, <2>3 DEF At
  <2>5. Consumed'
    BY <1>3, <2>1, <2>3, <2>4
  <2> QED BY <1>t, <2>1, <2>5 DEF HashInv, HashTypes, HashControl
<1> QED BY <1>4, <1>5, <1>6, <1>7, <1>9, <1>10, <1>11, <1>12, <1>13 DEF Next

-----------------------------------------------------------------------------
(* The theorem *)

LEMMA HashInvInit == Init => HashInv
<1> SUFFICES ASSUME Init PROVE HashInv
  OBVIOUS
<1>1. BLOCK \in Nat \ {0} /\ 0 * BLOCK = 0
  BY BlockAssumption
<1>2. \A l \in Lane : LaneHolds(l, 0) = <<>>
  <2>1. \A l \in Lane : BlocksOf(l, 0) = 0
    BY DEF BlocksOf, Lane, LANES
  <2> QED BY <2>1 DEF LaneHolds
<1>3. Bytes(0 * BLOCK, 0) = <<>> /\ 0 \in 0 .. BLOCK - 1
  BY <1>1, NoBytes
<1>4. Consumed
  BY <1>1, <1>2, <1>3 DEF Init, Consumed, At
<1> QED BY <1>4 DEF Init, HashInv, HashTypes, HashControl

\* The digest of a message does not depend on how it was cut into pieces, for any
\* length of a block and of the message: a file read in short pieces hashes as one
\* read at once.
THEOREM ChunkingNeverShows == Spec => []ChunkingInvisible
<1>1. ASSUME HashInv, pc = "idle" PROVE Digest = OneShot(total_len)
  <2>1. left = 0 /\ total_len \in Nat /\ blocks \in Nat /\ BLOCK \in Nat \ {0}
    BY <1>1, BlockAssumption DEF HashInv, HashTypes, HashControl
  <2>2. PICK r \in 0 .. BLOCK - 1 : At = blocks * BLOCK + r /\ buffer = Bytes(blocks * BLOCK, r)
    BY <1>1 DEF HashInv, Consumed
  <2>3. total_len = blocks * BLOCK + r
    BY <2>1, <2>2 DEF At
  <2>4. total_len \div BLOCK = blocks /\ total_len % BLOCK = r
    BY <2>1, <2>3, Division
  <2>5. acc = [l \in Lane |-> [i \in 1 .. BlocksOf(l, blocks) |->
                                  Bytes((l + LANES * (i - 1)) * BLOCK, BLOCK)]]
    BY <1>1 DEF HashInv, Consumed, LaneHolds, Block
  <2> QED BY <2>2, <2>4, <2>5 DEF Digest, OneShot
<1>2. HashInv => ChunkingInvisible
  BY <1>1 DEF ChunkingInvisible
<1> QED BY <1>2, HashInvInit, HashInvStep, PTL DEF Spec
=============================================================================
