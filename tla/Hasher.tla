-------------------------------- MODULE Hasher --------------------------------
(***************************************************************************)
(* The streaming hash of src/src/analyzer/hasher.cpp: a message fed in     *)
(* pieces of any lengths is folded, block after block, into four           *)
(* accumulators in turn.  What is left of a piece waits in a buffer.       *)
(*                                                                         *)
(* The control never looks at a byte, so the n-th byte of the message is   *)
(* the number n.  mix() is taken to be injective: an accumulator stands    *)
(* for the sequence of blocks folded into it, and a digest for everything  *)
(* it is computed from.                                                    *)
(***************************************************************************)
EXTENDS Integers, Sequences

CONSTANTS BLOCK,     \* bytes of a block (32)
          MaxLen     \* bound: bytes of a message

LANES == 4

ASSUME BlockAssumption  == BLOCK \in Nat \ {0}
ASSUME MaxLenAssumption == MaxLen \in Nat

Lane == 0 .. LANES - 1

VARIABLES
    acc,        \* [Lane -> Seq(blocks)]: what each accumulator stands for
    buffer,     \* the first buf_used bytes of buffer
    total_len,
    blocks,     \* blocks folded so far
    pc,         \* where phanes_hash_update is; "idle" between two calls
    left        \* bytes of the current piece still to consume

vars == <<acc, buffer, total_len, blocks, pc, left>>

\* n bytes of the message, from the one after the first a.
Bytes(a, n) == [i \in 1 .. n |-> a + i]

\* data + i: the current piece ends with the message so far.
At == total_len - left

Reset ==
    /\ acc' = [l \in Lane |-> <<>>]
    /\ buffer' = <<>>
    /\ total_len' = 0
    /\ blocks' = 0

Init ==
    /\ acc = [l \in Lane |-> <<>>]
    /\ buffer = <<>>
    /\ total_len = 0
    /\ blocks = 0
    /\ pc = "idle"
    /\ left = 0

\* phanes_hash_reset, to hash another message with the same state.
HashReset == pc = "idle" /\ Reset /\ UNCHANGED <<pc, left>>

\* fold(blocks, word)
Fold(word) == acc' = [acc EXCEPT ![blocks % LANES] = Append(@, word)]

-----------------------------------------------------------------------------
(* phanes_hash_update *)

UpdateCall(n) ==
    /\ pc = "idle"
    /\ total_len + n <= MaxLen
    /\ total_len' = total_len + n
    /\ left' = n
    /\ pc' = IF buffer # <<>> THEN "flush" ELSE "realign"
    /\ UNCHANGED <<acc, buffer, blocks>>

Missing == BLOCK - Len(buffer)

\* Mutant: a piece that just fills the buffer is left in it.
StaysShort == Missing >= left
Short      == Missing > left

\* The piece does not fill the buffer: it is appended, and that is all.
FlushShort ==
    /\ pc = "flush" /\ Short
    /\ buffer' = buffer \o Bytes(At, left)
    /\ left' = 0
    /\ pc' = "idle"
    /\ UNCHANGED <<acc, total_len, blocks>>

FlushBlock ==
    /\ pc = "flush" /\ ~Short
    /\ Fold(buffer \o Bytes(At, Missing))
    /\ blocks' = blocks + 1
    /\ buffer' = <<>>
    /\ left' = left - Missing
    /\ pc' = "realign"
    /\ UNCHANGED total_len

\* Mutant: the four-block loop starts wherever the last call stopped.
AlwaysAligned == TRUE
Aligned       == blocks % LANES = 0

\* One block at a time, up to a block index that is a multiple of four.
RealignBlock ==
    /\ pc = "realign" /\ ~Aligned /\ BLOCK <= left
    /\ Fold(Bytes(At, BLOCK))
    /\ blocks' = blocks + 1
    /\ left' = left - BLOCK
    /\ UNCHANGED <<buffer, total_len, pc>>

RealignDone ==
    /\ pc = "realign" /\ (Aligned \/ BLOCK > left)
    /\ pc' = "main"
    /\ UNCHANGED <<acc, buffer, total_len, blocks, left>>

\* Four blocks at a time, each into its own accumulator.
MainBlocks ==
    /\ pc = "main" /\ LANES * BLOCK <= left
    /\ acc' = [l \in Lane |-> Append(acc[l], Bytes(At + l * BLOCK, BLOCK))]
    /\ blocks' = blocks + LANES
    /\ left' = left - LANES * BLOCK
    /\ UNCHANGED <<buffer, total_len, pc>>

MainDone ==
    /\ pc = "main" /\ LANES * BLOCK > left
    /\ pc' = "tail"
    /\ UNCHANGED <<acc, buffer, total_len, blocks, left>>

TailBlock ==
    /\ pc = "tail" /\ BLOCK <= left
    /\ Fold(Bytes(At, BLOCK))
    /\ blocks' = blocks + 1
    /\ left' = left - BLOCK
    /\ UNCHANGED <<buffer, total_len, pc>>

\* The state is stored, the rest of the piece is copied to the buffer.
Store ==
    /\ pc = "tail" /\ BLOCK > left
    /\ buffer' = Bytes(At, left)
    /\ left' = 0
    /\ pc' = "idle"
    /\ UNCHANGED <<acc, total_len, blocks>>

-----------------------------------------------------------------------------

Next ==
    \/ HashReset
    \/ \E n \in 0 .. MaxLen : UpdateCall(n)
    \/ FlushShort \/ FlushBlock \/ RealignBlock \/ RealignDone
    \/ MainBlocks \/ MainDone \/ TailBlock \/ Store

Spec == Init /\ [][Next]_vars

-----------------------------------------------------------------------------
(* Properties *)

\* phanes_hash_digest: the lanes, the length and the buffered bytes go in.
Digest == <<acc, total_len, buffer>>

\* How many of the first n blocks go to lane l.
BlocksOf(l, n) == (n + LANES - 1 - l) \div LANES

\* What one update with the first n bytes of the message would leave.
OneShot(n) ==
    << [l \in Lane |-> [i \in 1 .. BlocksOf(l, n \div BLOCK) |->
                           Bytes((l + LANES * (i - 1)) * BLOCK, BLOCK)]],
       n,
       Bytes((n \div BLOCK) * BLOCK, n % BLOCK) >>

\* The digest depends on the message, not on how it was cut into pieces: a file
\* read in short pieces hashes as one read at once.
ChunkingInvisible == pc = "idle" => Digest = OneShot(total_len)
=============================================================================
