------------------------------ MODULE ChunkMesh ------------------------------
(***************************************************************************)
(* What the client draws for a chunk and which of its neighbours a change  *)
(* makes stale (client/src/world/mesher.rs, mod.rs and palette.rs).        *)
(*                                                                         *)
(* A chunk is a function from its cells to blocks.  A store maps every     *)
(* coordinate to a chunk or to Absent, is read by world position, and an   *)
(* absent chunk reads as air.                                              *)
(* Merging, light and the half-block shapes are left out: a block fills    *)
(* its cell, or has bars in it, or is seen through.                        *)
(***************************************************************************)
EXTENDS Integers, FiniteSets, FiniteSetsExt

CONSTANTS
    Coords,   \* chunk coordinates <<cx, cy, cz>>
    Size,     \* chunk_size
    Palette,  \* the blocks that occur, of those named below
    Absent    \* no chunk

ASSUME ChunkMeshAssumption ==
    /\ Coords \subseteq Int \X Int \X Int
    /\ Size \in Nat \ {0}
    /\ Palette \subseteq {"air", "stone", "grille", "water", "shallow", "current"}

-----------------------------------------------------------------------------
(* The palette.  A shallow is water of level 4, a current a source that    *)
(* runs towards +x.                                                        *)
IsWater(b) == b \in {"water", "shallow", "current"}
IsOpaque(b) == b = "stone"
IsSolid(b) == b \in {"stone", "grille"}

Level(b) == CASE b = "shallow" -> 4
              [] b \in {"water", "current"} -> 8
              [] OTHER -> 0

X == 1
Y == 2
Z == 3

(* water_feeds_toward: a current feeds only the side it points to. *)
FeedsToward(b, axis, step) == b = "current" => axis = X /\ step = 1

-----------------------------------------------------------------------------
(* locate: \div rounds down and % is never negative, as div_euclid and     *)
(* rem_euclid are.                                                         *)
ChunkOf(pos) == <<pos[X] \div Size, pos[Y] \div Size, pos[Z] \div Size>>
CellOf(pos) == <<pos[X] % Size, pos[Y] % Size, pos[Z] % Size>>

Cells == (0..Size-1) \X (0..Size-1) \X (0..Size-1)
Shift(at, axis, step) == [at EXCEPT ![axis] = @ + step]
PositionsOf(c) ==
    {<<c[X] * Size + cell[X], c[Y] * Size + cell[Y], c[Z] * Size + cell[Z]>> : cell \in Cells}
Sides == (1..3) \X {-1, 1}
Horizontal == {side \in Sides : side[1] # Y}

Holds(store, c) == c \in Coords /\ store[c] # Absent

BlockAt(store, pos) ==
    IF Holds(store, ChunkOf(pos)) THEN store[ChunkOf(pos)][CellOf(pos)] ELSE "air"

(* effective_water_level: water under water stands to the top of its cell. *)
WaterHeight(store, pos) ==
    LET level == Level(BlockAt(store, pos))
    IN  IF level # 0 /\ IsWater(BlockAt(store, Shift(pos, Y, 1))) THEN 8 ELSE level

-----------------------------------------------------------------------------
(* mesh_chunk. *)

(* build_masks and water_face: the face of a voxel on one side, as what is *)
(* drawn between two heights.                                              *)
FacesOf(store, pos, axis, step) ==
    LET own == BlockAt(store, pos)
        other == BlockAt(store, Shift(pos, axis, step))
        height == WaterHeight(store, pos)
        covered == IF IsWater(other) THEN WaterHeight(store, Shift(pos, axis, step)) ELSE 0
        Face(from, to) == {<<pos, axis, step, own, from, to>>}
    IN  CASE own = "stone" /\ ~IsOpaque(other) -> Face(0, 8)
          [] own = "grille" /\ ~(axis = Y /\ IsOpaque(other)) -> Face(0, 8)
          [] /\ IsWater(own) /\ ~IsOpaque(other) /\ covered < height
             /\ axis = Y => ~IsWater(other) -> {<<pos, axis, step, "water", covered, height>>}
          [] OTHER -> {}

(* flow_at: downhill, away from every shallower neighbour.  Only the       *)
(* direction of the sum is drawn.                                          *)
Direction(sum) ==
    LET divides(k) == \A axis \in {X, Z} : sum[axis] % k = 0
        scale == Max({k \in 1..16 : divides(k)} )
    IN  IF sum[X] = 0 /\ sum[Z] = 0 THEN sum ELSE [axis \in {X, Z} |-> sum[axis] \div scale]

FlowAt(store, pos) ==
    LET own == BlockAt(store, pos)
        Beside(side) == BlockAt(store, Shift(pos, side[1], side[2]))
        Pulls(side) == /\ ~IsSolid(Beside(side))
                       /\ IsWater(Beside(side)) => FeedsToward(Beside(side), side[1], -side[2])
        Drop(side) == IF Pulls(side) THEN (Level(own) - Level(Beside(side))) * side[2] ELSE 0
        Along(axis) == Drop(<<axis, -1>>) + Drop(<<axis, 1>>)
    IN  CASE own = "current" -> [toward |-> [axis \in {X, Z} |-> IF axis = X THEN 1 ELSE 0],
                                 falling |-> FALSE]
          [] own = "shallow" -> [toward |-> Direction([axis \in {X, Z} |-> Along(axis)]),
                                 falling |-> IsWater(BlockAt(store, Shift(pos, Y, 1)))]
          [] OTHER -> [toward |-> [axis \in {X, Z} |-> 0], falling |-> FALSE]

FacesAt(store, pos) == UNION {FacesOf(store, pos, side[1], side[2]) : side \in Sides}

(* What is there to see of a chunk, and where its water runs. *)
Surface(store, c) == UNION {FacesAt(store, pos) : pos \in PositionsOf(c)}

Flow(store, c) ==
    LET Flowing(pos) == IsWater(BlockAt(store, pos)) /\ FacesAt(store, pos) # {}
    IN  {<<pos, FlowAt(store, pos)>> : pos \in {p \in PositionsOf(c) : Flowing(p)}}

(* ChunkStore::neighbours: what a task is handed besides its chunk. *)
Neighbours(c) == {Shift(c, side[1], side[2]) : side \in Sides}
                 \cup {Shift(Shift(c, Y, 1), side[1], side[2]) : side \in Horizontal}

Handed(store, c) ==
    [n \in Coords |-> IF n = c \/ n \in Neighbours(c) THEN store[n] ELSE Absent]

-----------------------------------------------------------------------------
(* Which neighbours a change makes stale.  before and after are the stores *)
(* around it.                                                              *)

BorderGeometry(store, pos) ==
    [opaque |-> IsOpaque(BlockAt(store, pos)), height |-> WaterHeight(store, pos)]

(* BorderGeometry::differs_for_face. *)
DiffersForFace(before, after, pos, axis) ==
    LET old == BorderGeometry(before, pos)
        new == BorderGeometry(after, pos)
    IN  \/ old.opaque # new.opaque
        \/ old.height # new.height /\ (axis # Y \/ old.height = 0 \/ new.height = 0)

BorderLayer(c, axis, step) ==
    {pos \in PositionsOf(c) : ChunkOf(Shift(pos, axis, step)) # c}

(* falling_border_differs: the top row of the chunk below, whose height    *)
(* depends on the bottom row of this one.                                  *)
FallingDiffers(before, after, below, axis, step) ==
    \E pos \in BorderLayer(below, axis, step) \cap BorderLayer(below, Y, 1) :
        BorderGeometry(before, pos) # BorderGeometry(after, pos)

(* Nobody looks below. *)
MutantStaleThroughFalling(before, after, c) == {}

StaleThroughFalling(before, after, c) ==
    LET below == Shift(c, Y, -1)
    IN  IF Holds(after, below)
        THEN {Shift(below, side[1], side[2]) :
                  side \in {s \in Horizontal : FallingDiffers(before, after, below, s[1], s[2])}}
        ELSE {}

(* ChunkStore::note_neighbours_stale, of a chunk that came, was replaced   *)
(* or went.                                                                *)
NotedStale(before, after, c) ==
    LET LayerDiffers(side) == \E pos \in BorderLayer(c, side[1], side[2]) :
                                  DiffersForFace(before, after, pos, side[1])
        across == {Shift(c, side[1], side[2]) : side \in {s \in Sides : LayerDiffers(s)}}
    IN  {n \in across \cup StaleThroughFalling(before, after, c) : Holds(after, n)}

(* The neighbours apply_block names from the voxel alone. *)
EditedStale(before, after, pos) ==
    LET c == ChunkOf(pos)
        Touched(side) == /\ ChunkOf(Shift(pos, side[1], side[2])) # c
                         /\ DiffersForFace(before, after, pos, side[1])
        under == Shift(pos, Y, -1)
        below == ChunkOf(under)
        fell == /\ below # c /\ Holds(before, below)
                /\ BorderGeometry(before, under) # BorderGeometry(after, under)
        beside == {s \in Horizontal : ChunkOf(Shift(under, s[1], s[2])) # below}
    IN  {Shift(c, side[1], side[2]) : side \in {s \in Sides : Touched(s)}}
        \cup (IF fell THEN {Shift(below, side[1], side[2]) : side \in beside} ELSE {})
=============================================================================
