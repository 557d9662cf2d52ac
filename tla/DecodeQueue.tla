----------------------------- MODULE DecodeQueue -----------------------------
(***************************************************************************)
(* The client's end of the terrain stream: the updates the server sends,   *)
(* the bounded backlog of updates that wait to be decoded, and the chunks  *)
(* the client holds (client/src/world/mod.rs).                             *)
(*                                                                         *)
(* A chunk is abstracted to one block, the voxel an edit rewrites and a    *)
(* neighbour sees.  A ChunkData states it, a BlockUpdate rewrites it in a  *)
(* chunk that is held.                                                     *)
(***************************************************************************)
EXTENDS Integers, SequencesExt

CONSTANTS
    Coords,       \* chunk coordinates
    Blocks,       \* what a voxel may hold
    Absent,       \* the client does not hold the chunk
    MaxBacklog    \* MAX_DECODE_BACKLOG

ASSUME DecodeQueueAssumption ==
    /\ Absent \notin Blocks
    /\ MaxBacklog \in Nat \ {0}

ChunkData(c, b) == [kind |-> "chunk", coord |-> c, block |-> b]
ChunkUnload(c) == [kind |-> "unload", coord |-> c, block |-> Absent]
BlockUpdate(c, b) == [kind |-> "block", coord |-> c, block |-> b]

Updates == {ChunkData(c, b) : c \in Coords, b \in Blocks}
           \cup {ChunkUnload(c) : c \in Coords}
           \cup {BlockUpdate(c, b) : c \in Coords, b \in Blocks}

Nothing == [c \in Coords |-> Absent]

(* The elements of a sequence at some of its places, in their order. *)
Picked(seq, places) ==
    LET picked[n \in 0..Len(seq)] ==
            IF n = 0 THEN <<>>
            ELSE IF n \in places THEN Append(picked[n - 1], seq[n]) ELSE picked[n - 1]
    IN  picked[Len(seq)]

-----------------------------------------------------------------------------
(* DecodeQueue::admit.  The length is read before anything is evicted, so  *)
(* an arrival is turned away by its place alone.                           *)

Fitting(queue, arrived) == Min({Len(arrived), Max({0, MaxBacklog - Len(queue)})})

Overflowing(queue, arrived) == SubSeq(arrived, Fitting(queue, arrived) + 1, Len(arrived))

CoordsOf(updates, kind) == {u.coord : u \in {v \in ToSet(updates) : v.kind = kind}}

Refused(queue, arrived) == CoordsOf(Overflowing(queue, arrived), "chunk")

(* A refused unload leaves what it was for. *)
MutantEvicted(queue, arrived) == CoordsOf(Overflowing(queue, arrived), "block")

Evicted(queue, arrived) ==
    LET over == Overflowing(queue, arrived)
    IN  CoordsOf(over, "unload") \cup CoordsOf(over, "block")

(* An unload wins over a refused edit, whichever came first. *)
Resendable(queue, arrived) ==
    Evicted(queue, arrived) \ CoordsOf(Overflowing(queue, arrived), "unload")

Admitted(queue, arrived) ==
    LET all == queue \o SubSeq(arrived, 1, Fitting(queue, arrived))
    IN  Picked(all, {i \in DOMAIN all : all[i].coord \notin Evicted(queue, arrived)})

-----------------------------------------------------------------------------
(* One update of the drain: insert, unload, or apply_block, which drops an *)
(* edit of a chunk that is not held.                                       *)
Applied(store, update) ==
    IF update.kind = "block" /\ store[update.coord] = Absent
    THEN store
    ELSE [store EXCEPT ![update.coord] = update.block]

Dropped(store, coords) == [c \in Coords |-> IF c \in coords THEN Absent ELSE store[c]]

Drained(store, updates) ==
    LET after[n \in 0..Len(updates)] ==
            IF n = 0 THEN store ELSE Applied(after[n - 1], updates[n])
    IN  after[Len(updates)]
=============================================================================
