----------------------------- MODULE ClientProofs -----------------------------
(***************************************************************************)
(* The client's two halves, each proved for every value of its constants:  *)
(* its terrain (ClientWorld), for any palette, chunks and bounds, and its  *)
(* session (ClientSession), for every launch and any number of arrivals on *)
(* their way.                                                              *)
(*                                                                         *)
(* Terrain.  Positions: a step to the side stays in its chunk or enters    *)
(* the next one.  Meshes: which blocks a face is made from.  Staleness: a  *)
(* chunk that no change names looks as it did.  The pipeline: a chunk is   *)
(* queued, being meshed from what it is now, or drawn as it is now.        *)
(*                                                                         *)
(* Session.  None of the three safety properties is inductive: each speaks *)
(* of a state at rest, and what it says rests on what is still on its way. *)
(* SessionInv follows a session down its four queues.  The screen must fit *)
(* what the thread may still report (NewsFit: the news come in one order,  *)
(* none before its time), the commands the thread will still take must ask *)
(* of leaving what the screen has asked and the thread has not yet sent    *)
(* (LeaveFits), and the frames under way must be those that the thread's   *)
(* phase and the server's are apart by (UpFits, DownFits, Handshake).      *)
(* Agreed is what is true only until a change of world swallows a frame.   *)
(***************************************************************************)
EXTENDS ClientWorld, ClientSession, TLAPS

-----------------------------------------------------------------------------
(* Terrain. *)

Places == Int \X Int \X Int

-----------------------------------------------------------------------------
(* Positions. *)

(* Division that rounds down (div_euclid and rem_euclid, locate). *)
LEMMA DivMod ==
    ASSUME NEW s \in Nat \ {0}, NEW p \in Int
    PROVE  /\ p \div s \in Int
           /\ p % s \in 0..s-1
           /\ p = (p \div s) * s + (p % s)
OBVIOUS

LEMMA DivUnique ==
    ASSUME NEW s \in Nat \ {0}, NEW q \in Int, NEW r \in 0..s-1
    PROVE  (q * s + r) \div s = q
OBVIOUS

LEMMA DivStep ==
    ASSUME NEW s \in Nat \ {0}, NEW p \in Int, NEW d \in {-1, 1}
    PROVE  (p + d) \div s \in {p \div s, (p \div s) + d}
<1>1. (p + 1) \div s \in {p \div s, (p \div s) + 1}
  OBVIOUS
<1>2. (p - 1) \div s \in {p \div s, (p \div s) - 1}
  OBVIOUS
<1>. QED  BY <1>1, <1>2

LEMMA SizeIs == Size \in Nat \ {0} /\ Coords \subseteq Places
BY ChunkMeshAssumption DEF Places

LEMMA SidesAre ==
    ASSUME NEW side \in Sides
    PROVE  /\ side[1] \in 1..3 /\ side[2] \in {-1, 1} /\ side = <<side[1], side[2]>>
           /\ side[2] \in Int /\ -side[2] \in {-1, 1}
           /\ <<side[1], -side[2]>> \in Sides
           /\ side[1] # Y => <<side[1], -side[2]>> \in Horizontal
BY DEF Sides, Horizontal

(* A place is its three coordinates. *)
LEMMA PlaceEqual ==
    ASSUME NEW p \in Places, NEW q \in Places, \A a \in 1..3 : p[a] = q[a]
    PROVE  p = q
<1>1. p = <<p[1], p[2], p[3]>> /\ q = <<q[1], q[2], q[3]>>
  BY DEF Places
<1>2. p[1] = q[1] /\ p[2] = q[2] /\ p[3] = q[3]
  OBVIOUS
<1>. QED  BY <1>1, <1>2

LEMMA PlaceType ==
    ASSUME NEW p \in Places
    PROVE  p[1] \in Int /\ p[2] \in Int /\ p[3] \in Int
BY DEF Places

LEMMA Shifted ==
    ASSUME NEW p \in Places, NEW a \in 1..3, NEW d \in Int
    PROVE  /\ Shift(p, a, d) \in Places
           /\ \A b \in 1..3 : Shift(p, a, d)[b] = IF b = a THEN p[b] + d ELSE p[b]
<1>1. p = <<p[1], p[2], p[3]>> /\ p[1] \in Int /\ p[2] \in Int /\ p[3] \in Int
  BY DEF Places
<1>2. \A b \in 1..3 : Shift(p, a, d)[b] = IF b = a THEN p[b] + d ELSE p[b]
  BY <1>1 DEF Shift
<1>3. Shift(p, a, d) \in Places
  <2>1. CASE a = 1
    BY <2>1, <1>1 DEF Shift, Places
  <2>2. CASE a = 2
    BY <2>2, <1>1 DEF Shift, Places
  <2>3. CASE a = 3
    BY <2>3, <1>1 DEF Shift, Places
  <2>. QED  BY <2>1, <2>2, <2>3
<1>. QED  BY <1>2, <1>3

LEMMA ShiftBack ==
    ASSUME NEW p \in Places, NEW a \in 1..3, NEW d \in Int
    PROVE  Shift(Shift(p, a, d), a, -d) = p /\ (d # 0 => Shift(p, a, d) # p)
<1> DEFINE q == Shift(p, a, d)
<1>1. q \in Places /\ \A b \in 1..3 : q[b] = IF b = a THEN p[b] + d ELSE p[b]
  BY Shifted
<1> HIDE DEF q
<1>2. Shift(q, a, -d) \in Places
      /\ \A b \in 1..3 : Shift(q, a, -d)[b] = IF b = a THEN q[b] + (-d) ELSE q[b]
  BY <1>1, Shifted, -d \in Int
<1>3. \A b \in 1..3 : p[b] \in Int
  BY PlaceType
<1>4. \A b \in 1..3 : Shift(q, a, -d)[b] = p[b]
  BY <1>1, <1>2, <1>3
<1>5. Shift(q, a, -d) = p
  BY <1>2, <1>4, PlaceEqual
<1>6. d # 0 => q # p
  BY <1>1, <1>3
<1>. QED  BY <1>5, <1>6 DEF q

LEMMA DownAndUp ==
    ASSUME NEW p \in Places, NEW a \in 1..3
    PROVE  Shift(Shift(p, a, -1), a, 1) = p
<1> DEFINE q == Shift(p, a, -1)
<1>1. q \in Places /\ \A b \in 1..3 : q[b] = IF b = a THEN p[b] + (-1) ELSE p[b]
  BY Shifted, -1 \in Int
<1> HIDE DEF q
<1>2. Shift(q, a, 1) \in Places
      /\ \A b \in 1..3 : Shift(q, a, 1)[b] = IF b = a THEN q[b] + 1 ELSE q[b]
  BY <1>1, Shifted, 1 \in Int
<1>3. \A b \in 1..3 : p[b] \in Int
  BY PlaceType
<1>4. \A b \in 1..3 : Shift(q, a, 1)[b] = p[b]
  BY <1>1, <1>2, <1>3
<1>. QED  BY <1>2, <1>4, PlaceEqual DEF q

LEMMA ShiftCommutes ==
    ASSUME NEW p \in Places, NEW a \in 1..3, NEW d \in Int, NEW b \in 1..3, NEW e \in Int
    PROVE  Shift(Shift(p, a, d), b, e) = Shift(Shift(p, b, e), a, d)
<1> DEFINE q == Shift(p, a, d)
           r == Shift(p, b, e)
<1>1. q \in Places /\ \A i \in 1..3 : q[i] = IF i = a THEN p[i] + d ELSE p[i]
  BY Shifted
<1>2. r \in Places /\ \A i \in 1..3 : r[i] = IF i = b THEN p[i] + e ELSE p[i]
  BY Shifted
<1> HIDE DEF q, r
<1>3. Shift(q, b, e) \in Places
      /\ \A i \in 1..3 : Shift(q, b, e)[i] = IF i = b THEN q[i] + e ELSE q[i]
  BY <1>1, Shifted
<1>4. Shift(r, a, d) \in Places
      /\ \A i \in 1..3 : Shift(r, a, d)[i] = IF i = a THEN r[i] + d ELSE r[i]
  BY <1>2, Shifted
<1>5. \A i \in 1..3 : p[i] \in Int
  BY PlaceType
<1>6. \A i \in 1..3 : Shift(q, b, e)[i] = Shift(r, a, d)[i]
  BY <1>1, <1>2, <1>3, <1>4, <1>5
<1>. QED  BY <1>3, <1>4, <1>6, PlaceEqual DEF q, r

LEMMA Located ==
    ASSUME NEW p \in Places
    PROVE  /\ ChunkOf(p) \in Places /\ CellOf(p) \in Cells
           /\ \A a \in 1..3 : /\ ChunkOf(p)[a] = p[a] \div Size
                              /\ CellOf(p)[a] = p[a] % Size
                              /\ p[a] = ChunkOf(p)[a] * Size + CellOf(p)[a]
<1>1. \A a \in 1..3 : p[a] \in Int
  BY PlaceType
<1>2. \A a \in 1..3 : /\ p[a] \div Size \in Int /\ p[a] % Size \in 0..Size-1
                      /\ p[a] = (p[a] \div Size) * Size + (p[a] % Size)
  BY <1>1, DivMod, SizeIs
<1>3. \A a \in 1..3 : ChunkOf(p)[a] = p[a] \div Size /\ CellOf(p)[a] = p[a] % Size
  BY DEF ChunkOf, CellOf, X, Y, Z
<1>4. ChunkOf(p) \in Places
  BY <1>2 DEF ChunkOf, Places, X, Y, Z
<1>5. CellOf(p) \in Cells
  BY <1>2 DEF CellOf, Cells, X, Y, Z
<1>. QED  BY <1>2, <1>3, <1>4, <1>5

(* Two positions of one chunk and one cell are one. *)
LEMMA OnePlace ==
    ASSUME NEW p \in Places, NEW q \in Places, ChunkOf(p) = ChunkOf(q), CellOf(p) = CellOf(q)
    PROVE  p = q
<1>1. \A a \in 1..3 : p[a] = q[a]
  BY Located
<1>. QED  BY <1>1, PlaceEqual

(* PositionsOf(c) are the positions that locate finds in c. *)
LEMMA InChunk ==
    ASSUME NEW c \in Places, NEW p
    PROVE  p \in PositionsOf(c) <=> p \in Places /\ ChunkOf(p) = c
<1>c. c[1] \in Int /\ c[2] \in Int /\ c[3] \in Int /\ Size \in Nat \ {0}
  BY PlaceType, SizeIs
<1>1. ASSUME p \in PositionsOf(c)
      PROVE  p \in Places /\ ChunkOf(p) = c
  <2>1. PICK cell \in Cells :
            p = <<c[X] * Size + cell[X], c[Y] * Size + cell[Y], c[Z] * Size + cell[Z]>>
    BY <1>1 DEF PositionsOf
  <2>2. cell[1] \in 0..Size-1 /\ cell[2] \in 0..Size-1 /\ cell[3] \in 0..Size-1
    BY DEF Cells
  <2>3. p[1] = c[1] * Size + cell[1] /\ p[2] = c[2] * Size + cell[2] /\ p[3] = c[3] * Size + cell[3]
    BY <2>1 DEF X, Y, Z
  <2>4. p[1] \in Int /\ p[2] \in Int /\ p[3] \in Int
    BY <2>2, <2>3, <1>c
  <2>5. p \in Places
    BY <2>1, <2>3, <2>4 DEF Places, X, Y, Z
  <2>6. p[1] \div Size = c[1] /\ p[2] \div Size = c[2] /\ p[3] \div Size = c[3]
    BY <2>2, <2>3, <1>c, DivUnique
  <2>7. \A a \in 1..3 : ChunkOf(p)[a] = c[a]
    BY <2>6, <2>5, Located
  <2>. QED  BY <2>5, <2>7, Located, PlaceEqual
<1>2. ASSUME p \in Places, ChunkOf(p) = c
      PROVE  p \in PositionsOf(c)
  <2>1. CellOf(p) \in Cells /\ \A a \in 1..3 : p[a] = c[a] * Size + CellOf(p)[a]
    BY <1>2, Located
  <2>2. p = <<p[1], p[2], p[3]>>
    BY <1>2 DEF Places
  <2>3. p[1] = c[1] * Size + CellOf(p)[1] /\ p[2] = c[2] * Size + CellOf(p)[2]
        /\ p[3] = c[3] * Size + CellOf(p)[3]
    BY <2>1
  <2>. QED  BY <2>1, <2>2, <2>3 DEF PositionsOf, X, Y, Z
<1>. QED  BY <1>1, <1>2

(* A step to the side stays in its chunk or enters the one on that side. *)
LEMMA ChunkBeside ==
    ASSUME NEW p \in Places, NEW a \in 1..3, NEW d \in {-1, 1}
    PROVE  /\ ChunkOf(Shift(p, a, d)) \in {ChunkOf(p), Shift(ChunkOf(p), a, d)}
           /\ \A b \in 1..3 : b # a => ChunkOf(Shift(p, a, d))[b] = ChunkOf(p)[b]
<1> DEFINE q == Shift(p, a, d)
           c == ChunkOf(p)
<1>0. d \in Int
  OBVIOUS
<1>1. q \in Places /\ \A b \in 1..3 : q[b] = IF b = a THEN p[b] + d ELSE p[b]
  BY <1>0, Shifted
<1>2. c \in Places /\ \A b \in 1..3 : c[b] = p[b] \div Size
  BY Located
<1> HIDE DEF q, c
<1>3. ChunkOf(q) \in Places /\ \A b \in 1..3 : ChunkOf(q)[b] = q[b] \div Size
  BY <1>1, Located
<1>4. Shift(c, a, d) \in Places
      /\ \A b \in 1..3 : Shift(c, a, d)[b] = IF b = a THEN c[b] + d ELSE c[b]
  BY <1>0, <1>2, Shifted
<1>5. \A b \in 1..3 : b # a => ChunkOf(q)[b] = c[b]
  BY <1>1, <1>2, <1>3
<1>6. ChunkOf(q)[a] \in {c[a], c[a] + d}
  <2>1. p[a] \in Int
    BY PlaceType
  <2>2. (p[a] + d) \div Size \in {p[a] \div Size, (p[a] \div Size) + d}
    BY <2>1, SizeIs, DivStep
  <2>. QED  BY <2>2, <1>1, <1>2, <1>3
<1>7. CASE ChunkOf(q)[a] = c[a]
  <2>1. \A b \in 1..3 : ChunkOf(q)[b] = c[b]
    BY <1>5, <1>7
  <2>2. ChunkOf(q) = c
    BY <2>1, <1>2, <1>3, PlaceEqual
  <2>. QED  BY <2>2, <1>5 DEF q, c
<1>8. CASE ChunkOf(q)[a] = c[a] + d
  <2>1. \A b \in 1..3 : ChunkOf(q)[b] = Shift(c, a, d)[b]
    BY <1>4, <1>5, <1>8
  <2>2. ChunkOf(q) = Shift(c, a, d)
    BY <2>1, <1>3, <1>4, PlaceEqual
  <2>. QED  BY <2>2, <1>5 DEF q, c
<1>. QED  BY <1>6, <1>7, <1>8

-----------------------------------------------------------------------------
(* Meshes: what a face is made from. *)

(* Water stands to some height, and nothing else does. *)
LEMMA WaterStands ==
    ASSUME NEW s, NEW p
    PROVE  IsWater(BlockAt(s, p)) <=> WaterHeight(s, p) # 0
BY DEF WaterHeight, IsWater, Level

LEMMA HeightsAgree ==
    ASSUME NEW s, NEW t, NEW p,
           BlockAt(s, p) = BlockAt(t, p),
           IsWater(BlockAt(s, p)) => (IsWater(BlockAt(s, Shift(p, Y, 1)))
                                      <=> IsWater(BlockAt(t, Shift(p, Y, 1))))
    PROVE  WaterHeight(s, p) = WaterHeight(t, p)
BY DEF WaterHeight, IsWater, Level

(* What build_masks and water_face read on one side of a voxel. *)
SeenAlike(s, t, p, a, d) ==
    LET q == Shift(p, a, d)
    IN  /\ BlockAt(s, p) = BlockAt(t, p)
        /\ WaterHeight(s, p) = WaterHeight(t, p)
        /\ IsOpaque(BlockAt(s, q)) <=> IsOpaque(BlockAt(t, q))
        /\ IsWater(BlockAt(s, q)) <=> IsWater(BlockAt(t, q))
        /\ a # Y /\ IsWater(BlockAt(s, q)) => WaterHeight(s, q) = WaterHeight(t, q)

LEMMA FacesAgree ==
    ASSUME NEW s, NEW t, NEW p, NEW a, NEW d, SeenAlike(s, t, p, a, d)
    PROVE  FacesOf(s, p, a, d) = FacesOf(t, p, a, d)
<1> DEFINE q == Shift(p, a, d)
           Covered(u) == IF IsWater(BlockAt(u, q)) THEN WaterHeight(u, q) ELSE 0
           Water(u) == /\ IsWater(BlockAt(u, p)) /\ ~IsOpaque(BlockAt(u, q))
                       /\ Covered(u) < WaterHeight(u, p)
                       /\ a = Y => ~IsWater(BlockAt(u, q))
           Stone(u) == BlockAt(u, p) = "stone" /\ ~IsOpaque(BlockAt(u, q))
           Grille(u) == BlockAt(u, p) = "grille" /\ ~(a = Y /\ IsOpaque(BlockAt(u, q)))
           Face(u, from, to) == {<<p, a, d, BlockAt(u, p), from, to>>}
           Faces(u) == CASE Stone(u) -> Face(u, 0, 8)
                         [] Grille(u) -> Face(u, 0, 8)
                         [] Water(u) -> {<<p, a, d, "water", Covered(u), WaterHeight(u, p)>>}
                         [] OTHER -> {}
<1>1. \A u : FacesOf(u, p, a, d) = Faces(u)
  BY DEF FacesOf
<1>2. /\ BlockAt(s, p) = BlockAt(t, p)
      /\ WaterHeight(s, p) = WaterHeight(t, p)
      /\ IsOpaque(BlockAt(s, q)) <=> IsOpaque(BlockAt(t, q))
      /\ IsWater(BlockAt(s, q)) <=> IsWater(BlockAt(t, q))
  BY DEF SeenAlike
<1>3. (Stone(s) <=> Stone(t)) /\ (Grille(s) <=> Grille(t))
      /\ Face(s, 0, 8) = Face(t, 0, 8)
  BY <1>2
<1>4. a # Y => Covered(s) = Covered(t)
  BY <1>2 DEF SeenAlike
<1>5. a = Y => /\ ~IsWater(BlockAt(s, q)) => Covered(s) = Covered(t)
  BY <1>2
<1>6. Water(s) <=> Water(t)
  BY <1>2, <1>4, <1>5
<1>7. Water(s) => Covered(s) = Covered(t)
  BY <1>4, <1>5
<1> HIDE DEF Covered, Stone, Grille, Water, Face
<1>8. Faces(s) = Faces(t)
  BY <1>2, <1>3, <1>6, <1>7
<1>. QED  BY <1>1, <1>8

LEMMA SurfacesAgree ==
    ASSUME NEW s, NEW t, NEW c \in Places,
           \A p \in Places : \A side \in Sides :
               ChunkOf(p) = c => SeenAlike(s, t, p, side[1], side[2])
    PROVE  Surface(s, c) = Surface(t, c)
<1>1. ASSUME NEW p \in PositionsOf(c)
      PROVE  FacesAt(s, p) = FacesAt(t, p)
  <2>1. p \in Places /\ ChunkOf(p) = c
    BY <1>1, InChunk
  <2>2. \A side \in Sides : FacesOf(s, p, side[1], side[2]) = FacesOf(t, p, side[1], side[2])
    BY <2>1, FacesAgree
  <2>. QED  BY <2>2 DEF FacesAt
<1>. QED  BY <1>1 DEF Surface

(* A store is read one chunk at a time. *)
LEMMA ReadAlike ==
    ASSUME NEW s, NEW t, NEW p, ChunkOf(p) \in Coords => s[ChunkOf(p)] = t[ChunkOf(p)]
    PROVE  BlockAt(s, p) = BlockAt(t, p)
BY DEF BlockAt, Holds

(* Nothing is drawn of a chunk that is not there. *)
LEMMA AbsentIsBlank ==
    ASSUME NEW s, NEW c \in Places, ~Holds(s, c)
    PROVE  Surface(s, c) = {}
<1>1. ASSUME NEW p \in PositionsOf(c), NEW a, NEW d
      PROVE  FacesOf(s, p, a, d) = {}
  <2>1. BlockAt(s, p) = "air"
    BY <1>1, InChunk DEF BlockAt
  <2>. QED  BY <2>1 DEF FacesOf, IsWater
<1>. QED  BY <1>1 DEF Surface, FacesAt

(* A task is handed everything its chunk's mesh reads: the six neighbours  *)
(* and the chunks above the four horizontal ones.                          *)
LEMMA HandedDrawsAlike ==
    ASSUME NEW s, NEW c \in Places
    PROVE  Surface(Handed(s, c), c) = Surface(s, c)
<1> DEFINE h == Handed(s, c)
<1>1. \A n \in Coords : n = c \/ n \in Neighbours(c) => h[n] = s[n]
  BY DEF Handed
<1>2. ASSUME NEW p, ChunkOf(p) = c \/ ChunkOf(p) \in Neighbours(c)
      PROVE  BlockAt(h, p) = BlockAt(s, p)
  BY <1>1, <1>2, ReadAlike
<1> HIDE DEF h
<1>3. ASSUME NEW p \in Places, NEW side \in Sides, ChunkOf(p) = c
      PROVE  SeenAlike(h, s, p, side[1], side[2])
  <2> DEFINE a == side[1]
             d == side[2]
             q == Shift(p, a, d)
  <2>0. a \in 1..3 /\ d \in {-1, 1} /\ d \in Int /\ Y \in 1..3 /\ 1 \in {-1, 1} /\ <<Y, 1>> \in Sides
    BY SidesAre DEF Y, Sides
  <2>1. q \in Places /\ Shift(p, Y, 1) \in Places
    <3>1. q \in Places
      BY <2>0, Shifted
    <3>2. Shift(p, Y, 1) \in Places
      BY <2>0, Shifted, 1 \in Int
    <3>. QED  BY <3>1, <3>2
  <2>2. ChunkOf(q) \in {c, Shift(c, a, d)}
    BY <2>0, <1>3, ChunkBeside
  <2>3. Shift(c, a, d) \in Neighbours(c) /\ Shift(c, Y, 1) \in Neighbours(c)
    BY <2>0 DEF Neighbours
  <2>4. ChunkOf(Shift(p, Y, 1)) \in {c, Shift(c, Y, 1)}
    BY <2>0, <1>3, ChunkBeside
  <2>5. BlockAt(h, p) = BlockAt(s, p) /\ BlockAt(h, q) = BlockAt(s, q)
        /\ BlockAt(h, Shift(p, Y, 1)) = BlockAt(s, Shift(p, Y, 1))
    BY <1>2, <1>3, <2>2, <2>3, <2>4
  <2>6. WaterHeight(h, p) = WaterHeight(s, p)
    BY <2>5, HeightsAgree
  <2>7. ASSUME a # Y
        PROVE  WaterHeight(h, q) = WaterHeight(s, q)
    <3>1. ChunkOf(Shift(q, Y, 1)) \in {ChunkOf(q), Shift(ChunkOf(q), Y, 1)}
      BY <2>0, <2>1, ChunkBeside
    <3>2. Shift(Shift(c, a, d), Y, 1) = Shift(Shift(c, Y, 1), a, d)
      BY <2>0, ShiftCommutes
    <3>3. side \in Horizontal
      BY <2>7 DEF Horizontal
    <3>4. Shift(Shift(c, a, d), Y, 1) \in Neighbours(c)
      BY <3>2, <3>3 DEF Neighbours
    <3>5. ChunkOf(Shift(q, Y, 1)) = c \/ ChunkOf(Shift(q, Y, 1)) \in Neighbours(c)
      BY <3>1, <3>4, <2>2, <2>3
    <3>6. BlockAt(h, Shift(q, Y, 1)) = BlockAt(s, Shift(q, Y, 1))
      BY <1>2, <3>5
    <3>. QED  BY <3>6, <2>5, HeightsAgree
  <2>. QED  BY <2>5, <2>6, <2>7 DEF SeenAlike
<1>4. Surface(h, c) = Surface(s, c)
  BY <1>3, SurfacesAgree
<1>. QED  BY <1>4 DEF h

-----------------------------------------------------------------------------
(* Staleness: a chunk that a change does not name looks as it did. *)

(* differs_for_face is false of two revisions whose faces a neighbour      *)
(* draws alike.                                                            *)
LEMMA SameForFace ==
    ASSUME NEW before, NEW after, NEW p, NEW axis, ~DiffersForFace(before, after, p, axis)
    PROVE  /\ IsOpaque(BlockAt(before, p)) <=> IsOpaque(BlockAt(after, p))
           /\ IsWater(BlockAt(before, p)) <=> IsWater(BlockAt(after, p))
           /\ axis # Y => WaterHeight(before, p) = WaterHeight(after, p)
<1>1. /\ IsOpaque(BlockAt(before, p)) = IsOpaque(BlockAt(after, p))
      /\ \/ WaterHeight(before, p) = WaterHeight(after, p)
         \/ axis = Y /\ WaterHeight(before, p) # 0 /\ WaterHeight(after, p) # 0
  BY DEF DiffersForFace, BorderGeometry
<1>. QED  BY <1>1, WaterStands

(* From a voxel of n one step into c: the chunk n is c's neighbour on the  *)
(* way back.                                                               *)
LEMMA WayBack ==
    ASSUME NEW p \in Places, NEW side \in Sides, NEW c, NEW n, n # c,
           ChunkOf(p) = n, ChunkOf(Shift(p, side[1], side[2])) = c
    PROVE  LET q == Shift(p, side[1], side[2])
           IN  /\ q \in Places /\ c \in Places
               /\ Shift(q, side[1], -side[2]) = p
               /\ n = Shift(c, side[1], -side[2])
               /\ q \in BorderLayer(c, side[1], -side[2])
<1> DEFINE a == side[1]
           d == side[2]
           q == Shift(p, a, d)
<1>1. a \in 1..3 /\ d \in Int /\ -d \in {-1, 1}
  BY SidesAre
<1>2. q \in Places /\ c \in Places
  BY <1>1, Shifted, Located
<1>3. Shift(q, a, -d) = p
  BY <1>1, ShiftBack
<1>4. ChunkOf(Shift(q, a, -d)) \in {c, Shift(c, a, -d)}
  BY <1>1, <1>2, ChunkBeside
<1>5. n = Shift(c, a, -d)
  BY <1>3, <1>4
<1>6. q \in PositionsOf(c)
  BY <1>2, InChunk
<1>7. q \in BorderLayer(c, a, -d)
  BY <1>3, <1>6 DEF BorderLayer
<1>. QED  BY <1>2, <1>3, <1>5, <1>7

LEMMA NotNamedAcross ==
    ASSUME NEW before, NEW after, NEW c, NEW n, n # c,
           Holds(after, n), n \notin NotedStale(before, after, c),
           NEW p \in Places, NEW side \in Sides,
           ChunkOf(p) = n, ChunkOf(Shift(p, side[1], side[2])) = c
    PROVE  ~DiffersForFace(before, after, Shift(p, side[1], side[2]), side[1])
<1> DEFINE q == Shift(p, side[1], side[2])
           back == <<side[1], -side[2]>>
           LayerDiffers(s) == \E r \in BorderLayer(c, s[1], s[2]) :
                                  DiffersForFace(before, after, r, s[1])
<1>1. n = Shift(c, side[1], -side[2]) /\ q \in BorderLayer(c, side[1], -side[2])
  BY WayBack
<1>2. back \in Sides /\ back[1] = side[1] /\ back[2] = -side[2]
  BY SidesAre
<1> HIDE DEF back, q
<1>3. n = Shift(c, back[1], back[2]) /\ q \in BorderLayer(c, back[1], back[2])
  BY <1>1, <1>2
<1>4. ASSUME DiffersForFace(before, after, q, side[1])
      PROVE  FALSE
  <2>1. LayerDiffers(back)
    BY <1>2, <1>3, <1>4
  <2>2. n \in {Shift(c, s[1], s[2]) : s \in {s \in Sides : LayerDiffers(s)}}
    BY <1>2, <1>3, <2>1
  <2>. QED  BY <2>2 DEF NotedStale
<1>. QED  BY <1>4 DEF q

(* Insert and unload. *)
LEMMA NotedCovers ==
    ASSUME NEW before, NEW after, NEW c, NEW n \in Coords, n # c,
           \A m \in Coords : m # c => before[m] = after[m],
           Holds(after, n), n \notin NotedStale(before, after, c)
    PROVE  Surface(before, n) = Surface(after, n)
<1>n. n \in Places
  BY SizeIs
<1>1. ASSUME NEW p, ChunkOf(p) # c
      PROVE  BlockAt(before, p) = BlockAt(after, p)
  BY <1>1, ReadAlike
<1>y. /\ <<Y, 1>> \in Sides /\ Y \in 1..3 /\ 1 \in Int /\ 1 \in {-1, 1}
      /\ <<Y, 1>>[1] = Y /\ <<Y, 1>>[2] = 1
  BY DEF Sides, Y
<1>2. ASSUME NEW p \in Places, ChunkOf(p) = n
      PROVE  /\ BlockAt(before, p) = BlockAt(after, p)
             /\ WaterHeight(before, p) = WaterHeight(after, p)
  <2>1. BlockAt(before, p) = BlockAt(after, p)
    BY <1>1, <1>2
  <2>2. IsWater(BlockAt(before, Shift(p, Y, 1))) <=> IsWater(BlockAt(after, Shift(p, Y, 1)))
    <3>1. CASE ChunkOf(Shift(p, Y, 1)) = c
      <4>1. ~DiffersForFace(before, after, Shift(p, <<Y, 1>>[1], <<Y, 1>>[2]), <<Y, 1>>[1])
        BY <1>2, <1>y, <3>1, NotNamedAcross
      <4>. QED  BY <4>1, <1>y, SameForFace
    <3>. QED  BY <3>1, <1>1
  <2>. QED  BY <2>1, <2>2, HeightsAgree
<1>3. ASSUME NEW p \in Places, NEW side \in Sides, ChunkOf(p) = n
      PROVE  SeenAlike(before, after, p, side[1], side[2])
  <2> DEFINE a == side[1]
             d == side[2]
             q == Shift(p, a, d)
             above == Shift(q, Y, 1)
             m == ChunkOf(q)
  <2>0. a \in 1..3 /\ d \in {-1, 1} /\ d \in Int
    BY SidesAre
  <2>1. q \in Places /\ m \in Places
    BY <2>0, Shifted, Located
  <2>2. CASE m = c
    <3>1. ~DiffersForFace(before, after, q, a)
      BY <1>3, <2>2, NotNamedAcross
    <3>. QED  BY <3>1, <1>2, <1>3, SameForFace DEF SeenAlike
  <2>3. CASE m # c
    <3>1. BlockAt(before, q) = BlockAt(after, q)
      BY <1>1, <2>3
    <3>2. ASSUME a # Y, IsWater(BlockAt(before, q))
          PROVE  WaterHeight(before, q) = WaterHeight(after, q)
      <4>1. CASE m = n
        BY <4>1, <1>2, <2>1
      <4>2. CASE m # n /\ ChunkOf(above) # c
        BY <4>2, <1>1, <3>1, HeightsAgree
      <4>3. CASE m # n /\ ChunkOf(above) = c
        <5> DEFINE below == Shift(c, Y, -1)
                   back == <<a, -d>>
        <5>1. /\ m = below
              /\ q \in PositionsOf(m)
              /\ q \in BorderLayer(m, Y, 1)
          <6>1. m = Shift(c, <<Y, 1>>[1], -<<Y, 1>>[2])
            BY <4>3, <2>3, <2>1, <1>y, WayBack
          <6>2. q \in PositionsOf(m)
            BY <2>1, InChunk
          <6>3. ChunkOf(above) # m
            BY <4>3, <2>3
          <6>. QED  BY <6>1, <6>2, <6>3, <1>y DEF BorderLayer
        <5>2. /\ n = Shift(m, a, -d)
              /\ q \in BorderLayer(m, a, -d)
          BY <1>3, <4>3, WayBack
        <5>3. back \in Horizontal /\ back[1] = a /\ back[2] = -d
          BY <3>2, SidesAre
        <5>4. Holds(after, m)
          BY <3>1, <3>2 DEF BlockAt, IsWater
        <5>5. ASSUME FallingDiffers(before, after, below, a, -d)
              PROVE  FALSE
          <6>1. back \in {s \in Horizontal : FallingDiffers(before, after, below, s[1], s[2])}
            BY <5>3, <5>5
          <6>2. n = Shift(below, back[1], back[2])
            BY <5>1, <5>2, <5>3
          <6>3. n \in StaleThroughFalling(before, after, c)
            BY <5>1, <5>4, <6>1, <6>2 DEF StaleThroughFalling
          <6>. QED  BY <6>3 DEF NotedStale
        <5>6. BorderGeometry(before, q) = BorderGeometry(after, q)
          BY <5>1, <5>2, <5>5 DEF FallingDiffers
        <5>. QED  BY <5>6 DEF BorderGeometry
      <4>. QED  BY <4>1, <4>2, <4>3
    <3>. QED  BY <3>1, <3>2, <1>2, <1>3 DEF SeenAlike
  <2>. QED  BY <2>2, <2>3
<1>. QED  BY <1>3, <1>n, SurfacesAgree

(* From a voxel of n one step to the edited one: apply_block names n when  *)
(* the voxel's face changes.                                               *)
LEMMA NotNamedByEdit ==
    ASSUME NEW before, NEW after, NEW pos \in Places, NEW n, n # ChunkOf(pos),
           n \notin EditedStale(before, after, pos),
           NEW side \in Sides, ChunkOf(Shift(pos, side[1], side[2])) = n
    PROVE  ~DiffersForFace(before, after, pos, side[1])
<1> DEFINE c == ChunkOf(pos)
           Touched(s) == /\ ChunkOf(Shift(pos, s[1], s[2])) # c
                         /\ DiffersForFace(before, after, pos, s[1])
<1>1. n = Shift(c, side[1], side[2])
  BY SidesAre, ChunkBeside
<1>2. ASSUME DiffersForFace(before, after, pos, side[1])
      PROVE  FALSE
  <2>1. Touched(side)
    BY <1>2
  <2>2. n \in {Shift(c, s[1], s[2]) : s \in {s \in Sides : Touched(s)}}
    BY <1>1, <2>1
  <2>. QED  BY <2>2 DEF EditedStale
<1>. QED  BY <1>2

(* A block update.  Also of the water under the edited voxel: when it is   *)
(* in the same chunk, its neighbours to the side are the edited voxel's.   *)
LEMMA EditedCovers ==
    ASSUME NEW before, NEW after, NEW pos \in Places, NEW n \in Coords, n # ChunkOf(pos),
           \A p \in Places : p # pos => BlockAt(before, p) = BlockAt(after, p),
           Holds(before, n), Holds(after, n),
           \A m \in Coords : m # ChunkOf(pos) => before[m] = after[m],
           n \notin EditedStale(before, after, pos)
    PROVE  Surface(before, n) = Surface(after, n)
<1> DEFINE c == ChunkOf(pos)
           under == Shift(pos, Y, -1)
<1>n. n \in Places
  BY SizeIs
<1>y. /\ Y \in 1..3 /\ 1 \in Int /\ -1 \in Int /\ 1 \in {-1, 1} /\ -1 \in {-1, 1}
      /\ <<Y, -1>> \in Sides /\ <<Y, -1>>[1] = Y /\ <<Y, -1>>[2] = -1
  <2>1. Y \in 1..3 /\ 1 \in Int /\ -1 \in Int /\ 1 \in {-1, 1} /\ -1 \in {-1, 1}
    BY DEF Y
  <2>2. <<Y, -1>> \in Sides /\ <<Y, -1>>[1] = Y /\ <<Y, -1>>[2] = -1
    BY DEF Sides, Y
  <2>. QED  BY <2>1, <2>2
<1>1. under \in Places /\ Shift(under, Y, 1) = pos
  BY <1>y, Shifted, DownAndUp
<1>2. ASSUME NEW p \in Places, Shift(p, Y, 1) = pos
      PROVE  p = under
  BY <1>2, <1>y, ShiftBack
<1>3. ASSUME ChunkOf(under) = n
      PROVE  IsWater(BlockAt(before, pos)) <=> IsWater(BlockAt(after, pos))
  <2>1. ~DiffersForFace(before, after, pos, <<Y, -1>>[1])
    BY <1>3, <1>y, NotNamedByEdit
  <2>. QED  BY <2>1, SameForFace
<1>4. ASSUME NEW p \in Places, ChunkOf(p) = n
      PROVE  /\ BlockAt(before, p) = BlockAt(after, p)
             /\ WaterHeight(before, p) = WaterHeight(after, p)
  <2>1. BlockAt(before, p) = BlockAt(after, p)
    BY <1>4
  <2>2. Shift(p, Y, 1) \in Places
    BY <1>4, <1>y, Shifted
  <2>3. IsWater(BlockAt(before, Shift(p, Y, 1))) <=> IsWater(BlockAt(after, Shift(p, Y, 1)))
    <3>1. CASE Shift(p, Y, 1) = pos
      BY <3>1, <1>2, <1>3, <1>4
    <3>. QED  BY <3>1, <2>2
  <2>. QED  BY <2>1, <2>3, HeightsAgree
<1>5. ASSUME NEW p \in Places, NEW side \in Sides, ChunkOf(p) = n
      PROVE  SeenAlike(before, after, p, side[1], side[2])
  <2> DEFINE a == side[1]
             d == side[2]
             back == <<a, -d>>
             q == Shift(p, a, d)
             above == Shift(q, Y, 1)
  <2>0. /\ a \in 1..3 /\ d \in {-1, 1} /\ d \in Int /\ -d \in Int /\ -d \in {-1, 1} /\ back \in Sides
        /\ back[1] = a /\ back[2] = -d
    BY SidesAre
  <2>1. q \in Places /\ above \in Places /\ Shift(q, a, -d) = p
    <3>1. q \in Places /\ Shift(q, a, -d) = p
      BY <2>0, Shifted, ShiftBack
    <3>. QED  BY <3>1, <1>y, Shifted
  <2> HIDE DEF a, d, back, q, above
  <2>2. CASE q = pos
    <3>1. ~DiffersForFace(before, after, pos, back[1])
      BY <2>0, <2>1, <2>2, <1>5, NotNamedByEdit
    <3>2. ~DiffersForFace(before, after, q, a)
      BY <3>1, <2>0, <2>2
    <3>. QED  BY <3>2, <1>4, <1>5, SameForFace DEF SeenAlike, a, d, q
  <2>3. CASE q # pos
    <3>1. BlockAt(before, q) = BlockAt(after, q)
      BY <2>1, <2>3
    <3>2. ASSUME a # Y, IsWater(BlockAt(before, q))
          PROVE  WaterHeight(before, q) = WaterHeight(after, q)
      <4>1. CASE above # pos
        BY <4>1, <2>1, <3>1, HeightsAgree DEF above
      <4>2. CASE above = pos /\ ChunkOf(q) = n
        BY <4>2, <1>4, <2>1
      <4>3. CASE above = pos /\ ChunkOf(q) # n /\ ChunkOf(q) = c
        <5>1. q = under
          BY <4>3, <1>2, <2>1 DEF above
        <5>2. Shift(pos, a, -d) = Shift(p, Y, 1)
          <6>1. Shift(Shift(q, Y, 1), a, -d) = Shift(Shift(q, a, -d), Y, 1)
            BY <2>0, <2>1, <1>y, ShiftCommutes
          <6>. QED  BY <6>1, <2>1, <4>3 DEF above
        <5>3. ChunkOf(Shift(pos, a, -d)) = n
          <6> DEFINE r == Shift(pos, a, -d)
                     k == ChunkOf(r)
          <6>1. r \in Places /\ k \in Places
            BY <2>0, Shifted, Located
          <6>2. \A b \in 1..3 : b # a => k[b] = c[b]
            BY <2>0, ChunkBeside
          <6>3. \A b \in 1..3 : b # Y => k[b] = n[b]
            <7>1. \A b \in 1..3 : b # Y => ChunkOf(Shift(p, Y, 1))[b] = ChunkOf(p)[b]
              BY <1>5, <1>y, ChunkBeside
            <7>. QED  BY <7>1, <5>2, <1>5
          <6>4. \A b \in 1..3 : b # a => n[b] = c[b]
            <7>1. \A b \in 1..3 : b # a => ChunkOf(Shift(q, a, -d))[b] = ChunkOf(q)[b]
              BY <2>0, <2>1, ChunkBeside
            <7>. QED  BY <7>1, <2>1, <4>3, <1>5
          <6> HIDE DEF r, k, c
          <6>5. \A b \in 1..3 : k[b] = n[b]
            BY <6>2, <6>3, <6>4, <3>2
          <6>6. k = n
            BY <6>1, <6>5, <1>n, PlaceEqual
          <6>. QED  BY <6>6 DEF r, k
        <5>4. ~DiffersForFace(before, after, pos, back[1])
          BY <5>3, <2>0, NotNamedByEdit
        <5>5. IsWater(BlockAt(before, pos)) <=> IsWater(BlockAt(after, pos))
          BY <5>4, SameForFace
        <5>. QED  BY <5>5, <4>3, <3>1, HeightsAgree DEF above
      <4>4. CASE above = pos /\ ChunkOf(q) # n /\ ChunkOf(q) # c
        <5> DEFINE below == ChunkOf(under)
                   beside == {s \in Horizontal : ChunkOf(Shift(under, s[1], s[2])) # below}
        <5>1. q = under
          BY <4>4, <1>2, <2>1 DEF above
        <5>2. back \in Horizontal /\ ChunkOf(Shift(under, back[1], back[2])) = n
          BY <5>1, <2>0, <2>1, <1>5, <3>2, SidesAre DEF back, a, d
        <5>3. n = Shift(below, back[1], back[2])
          BY <5>1, <5>2, <4>4, <2>0, <1>1, ChunkBeside
        <5>4. back \in beside
          BY <5>1, <5>2, <4>4
        <5>5. Holds(before, below)
          BY <3>2, <5>1 DEF BlockAt, IsWater
        <5>6. BorderGeometry(before, under) = BorderGeometry(after, under)
          <6> DEFINE fell == /\ below # c /\ Holds(before, below)
                             /\ BorderGeometry(before, under) # BorderGeometry(after, under)
          <6>1. n \in {Shift(below, s[1], s[2]) : s \in beside}
            BY <5>3, <5>4
          <6>2. fell => n \in EditedStale(before, after, pos)
            BY <6>1 DEF EditedStale
          <6>. QED  BY <6>2, <5>5, <5>1, <4>4
        <5>. QED  BY <5>1, <5>6 DEF BorderGeometry
      <4>. QED  BY <4>1, <4>2, <4>3, <4>4
    <3>. QED  BY <3>1, <3>2, <1>4, <1>5 DEF SeenAlike, a, d, q
  <2>. QED  BY <2>2, <2>3
<1>. QED  BY <1>5, <1>n, SurfacesAgree

-----------------------------------------------------------------------------
(* The pipeline. *)

Entries == [kind : {"loaded", "unloaded", "neighbours"}, coords : SUBSET Coords]

TypeOK ==
    /\ store \in [Coords -> Chunks \cup {Absent}]
    /\ changes \in Seq(Entries)
    /\ inFlight \in [Coords -> Jobs \cup {NoJob}]

(* The log is empty from start_mesh_jobs to the next frame. *)
LogIsRead == frame # "ingest" => changes = <<>>

(* A task works on the held revision of a chunk, or will be discarded. *)
SourceIsHeld == \A c \in Coords : inFlight[c] # NoJob /\ inFlight[c].held => Holds(store, c)

(* The next start_mesh_jobs will find a chunk in the queue, or the task    *)
(* that runs for it draws it as it is, or it is drawn so and stays so.     *)
Accounted(c) ==
    IF Holds(store, c)
    THEN \/ c \in Queued
         \/ /\ inFlight[c] # NoJob /\ inFlight[c].held
            /\ Surface(inFlight[c].handed, c) = Surface(store, c)
         \/ /\ inFlight[c] = NoJob /\ c \notin Emptied
            /\ Drawn(c) = Surface(store, c)
    ELSE c \in Emptied \/ Drawn(c) = {}

IInv ==
    /\ TypeOK
    /\ LogIsRead
    /\ SourceIsHeld
    /\ \A c \in Coords : Accounted(c)

LEMMA KindsDiffer ==
    /\ \A c : /\ Loaded(c).kind = "loaded" /\ Loaded(c).coords = {c}
              /\ Unloaded(c).kind = "unloaded" /\ Unloaded(c).coords = {c}
    /\ \A s : NeighbourChanged(s).kind = "neighbours" /\ NeighbourChanged(s).coords = s
BY DEF Loaded, Unloaded, NeighbourChanged

LEMMA NotAChunk ==
    /\ \A c : c \in Coords => c \in Places
    /\ \A chunk \in Chunks : chunk # Absent
    /\ \A job \in Jobs : job # NoJob
BY ClientWorldAssumption, SizeIs

(* start_mesh_jobs reads the log in its order. *)
LEMMA QueuedIs ==
    ASSUME NEW x
    PROVE  x \in Queued <=>
               \/ x \in pending /\ \A j \in DOMAIN changes : j > 0 => x \notin Unloads(j)
               \/ \E i \in DOMAIN changes :
                      x \in Stales(i) /\ \A j \in DOMAIN changes : j > i => x \notin Unloads(j)
<1> DEFINE Later(n) == {j \in DOMAIN changes : j > n}
           Behind(n) == UNION {Unloads(i) : i \in Later(n)}
<1>1. Queued = (pending \ Behind(0)) \cup UNION {Stales(i) \ Behind(i) : i \in DOMAIN changes}
  BY DEF Queued
<1>2. \A n : x \in Behind(n) <=> \E j \in DOMAIN changes : j > n /\ x \in Unloads(j)
  OBVIOUS
<1> HIDE DEF Behind
<1>3. x \in UNION {Stales(i) \ Behind(i) : i \in DOMAIN changes}
      <=> \E i \in DOMAIN changes : x \in Stales(i) /\ x \notin Behind(i)
  OBVIOUS
<1>. QED  BY <1>1, <1>2, <1>3

LEMMA EmptiedIs ==
    ASSUME NEW x
    PROVE  x \in Emptied <=> \E i \in DOMAIN changes : x \in Unloads(i)
BY DEF Emptied

LEMMA NamesAre ==
    ASSUME NEW x, NEW i
    PROVE  /\ x \in Unloads(i) <=> changes[i].kind = "unloaded" /\ x \in changes[i].coords
           /\ x \in Stales(i) <=> changes[i].kind \in {"loaded", "neighbours"} /\ x \in changes[i].coords
BY DEF Unloads, Stales, Names

(* Two more entries of the log, of which the second is of neighbours. *)
LEMMA LogGrows ==
    ASSUME NEW L \in Seq(Entries), changes = L,
           NEW e \in Entries, NEW n \in Entries, n.kind = "neighbours",
           changes' = L \o <<e, n>>, pending' = pending,
           NEW x
    PROVE  /\ x \in Queued /\ ~(e.kind = "unloaded" /\ x \in e.coords) => x \in Queued'
           /\ e.kind = "loaded" /\ x \in e.coords => x \in Queued'
           /\ x \in n.coords => x \in Queued'
           /\ x \in Emptied' <=> x \in Emptied \/ (e.kind = "unloaded" /\ x \in e.coords)
<1> DEFINE M == L \o <<e, n>>
           k == Len(L)
           Un(l, i) == l[i].kind = "unloaded" /\ x \in l[i].coords
           St(l, i) == l[i].kind \in {"loaded", "neighbours"} /\ x \in l[i].coords
<1>1. /\ k \in Nat /\ DOMAIN L = 1..k /\ DOMAIN M = 1..k+2
      /\ \A i \in 1..k : M[i] = L[i]
      /\ M[k+1] = e /\ M[k+2] = n
  OBVIOUS
<1>2. x \in Queued <=> \/ x \in pending /\ \A j \in 1..k : j > 0 => ~Un(L, j)
                       \/ \E i \in 1..k : St(L, i) /\ \A j \in 1..k : j > i => ~Un(L, j)
  BY <1>1, QueuedIs, NamesAre
<1>3. x \in Queued' <=> \/ x \in pending /\ \A j \in 1..k+2 : j > 0 => ~Un(M, j)
                        \/ \E i \in 1..k+2 : St(M, i) /\ \A j \in 1..k+2 : j > i => ~Un(M, j)
  <2> DEFINE Unls(i) == {c \in changes'[i].coords : changes'[i].kind \in {"unloaded"}}
             Stls(i) == {c \in changes'[i].coords : changes'[i].kind \in {"loaded", "neighbours"}}
             D == DOMAIN changes'
             Behind(i) == UNION {Unls(j) : j \in {j \in D : j > i}}
             Late == UNION {Stls(i) \ Behind(i) : i \in D}
  <2>1. Queued' = (pending' \ Behind(0)) \cup Late
    BY DEF Queued, Unloads, Stales, Names
  <2>2. \A i : (x \in Unls(i) <=> Un(changes', i)) /\ (x \in Stls(i) <=> St(changes', i))
    OBVIOUS
  <2> HIDE DEF Unls, Stls, D, Un, St
  <2>3. \A i : x \in Behind(i) <=> \E j \in D : j > i /\ Un(changes', j)
    BY <2>2
  <2> HIDE DEF Behind
  <2>4. x \in Late <=> \E i \in D : St(changes', i) /\ x \notin Behind(i)
    <3>1. x \in Late <=> \E i \in D : x \in Stls(i) /\ x \notin Behind(i)
      OBVIOUS
    <3> HIDE DEF Late
    <3>. QED  BY <3>1, <2>2
  <2> HIDE DEF Late
  <2>5. x \in Queued' <=> \/ x \in pending' /\ \A j \in D : j > 0 => ~Un(changes', j)
                          \/ \E i \in D : St(changes', i) /\ \A j \in D : j > i => ~Un(changes', j)
    BY <2>1, <2>3, <2>4
  <2>6. D = 1..k+2 /\ changes' = M
    BY <1>1 DEF D
  <2>. QED  BY <2>5, <2>6
<1>4. x \in Emptied <=> \E i \in 1..k : Un(L, i)
  BY <1>1, EmptiedIs, NamesAre
<1>5. x \in Emptied' <=> \E i \in 1..k+2 : Un(M, i)
  <2> DEFINE Unls(i) == {c \in changes'[i].coords : changes'[i].kind \in {"unloaded"}}
             D == DOMAIN changes'
  <2>1. Emptied' = UNION {Unls(i) : i \in D}
    BY DEF Emptied, Unloads, Names
  <2>2. \A i : x \in Unls(i) <=> Un(changes', i)
    OBVIOUS
  <2> HIDE DEF Unls, D, Un
  <2>3. x \in Emptied' <=> \E i \in D : Un(changes', i)
    BY <2>1, <2>2
  <2>4. D = 1..k+2 /\ changes' = M
    BY <1>1 DEF D
  <2>. QED  BY <2>3, <2>4
<1>6. \A i \in 1..k : (Un(M, i) <=> Un(L, i)) /\ (St(M, i) <=> St(L, i))
  BY <1>1
<1>7. /\ Un(M, k+1) <=> e.kind = "unloaded" /\ x \in e.coords
      /\ e.kind = "loaded" /\ x \in e.coords => St(M, k+1)
      /\ ~Un(M, k+2)
      /\ x \in n.coords => St(M, k+2)
  BY <1>1
<1> HIDE DEF M, k, Un, St
<1>8. /\ \A i \in 1..k : i \in 1..k+2
      /\ \A i \in 1..k+2 : i \in 1..k \/ i = k+1 \/ i = k+2
      /\ k+1 \in 1..k+2 /\ k+2 \in 1..k+2
      /\ \A i \in 1..k+2 : i > k+1 => i = k+2
      /\ \A i \in 1..k+2 : ~(i > k+2)
  BY <1>1
<1>9. x \in Queued /\ ~Un(M, k+1) => x \in Queued'
  BY <1>2, <1>3, <1>6, <1>7, <1>8
<1>10. St(M, k+1) => x \in Queued'
  BY <1>3, <1>7, <1>8
<1>11. St(M, k+2) => x \in Queued'
  BY <1>3, <1>8
<1>12. x \in Emptied' <=> x \in Emptied \/ Un(M, k+1)
  BY <1>4, <1>5, <1>6, <1>7, <1>8
<1>. QED  BY <1>7, <1>9, <1>10, <1>11, <1>12

(* An empty log. *)
LEMMA LogIsEmpty ==
    ASSUME changes = <<>>
    PROVE  Queued = pending /\ Emptied = {}
<1>1. DOMAIN changes = {}
  OBVIOUS
<1>. QED  BY <1>1 DEF Queued, Emptied

LEMMA LogIsEmptied ==
    ASSUME changes' = <<>>
    PROVE  Queued' = pending' /\ Emptied' = {}
<1>1. DOMAIN changes' = {}
  OBVIOUS
<1>. QED  BY <1>1 DEF Queued, Emptied

LEMMA BlankNothing ==
    ASSUME NEW c \in Coords
    PROVE  Surface(NoChunks, c) = {}
<1>1. ~Holds(NoChunks, c)
  BY DEF Holds, NoChunks
<1>. QED  BY <1>1, NotAChunk, AbsentIsBlank

LEMMA HandedIsTyped ==
    ASSUME NEW c, store \in [Coords -> Chunks \cup {Absent}]
    PROVE  Handed(store, c) \in [Coords -> Chunks \cup {Absent}]
BY DEF Handed

(* One update: of the chunk c, of which the log is told, and of its        *)
(* neighbours, of which it is told where they look otherwise.              *)
LEMMA IngestSafe ==
    ASSUME IInv,
           NEW c \in Coords, NEW chunk \in Chunks \cup {Absent},
           NEW entry \in Entries, entry.coords = {c},
           entry.kind = IF chunk = Absent THEN "unloaded" ELSE "loaded",
           NEW dated \in SUBSET Coords,
           Ingest(c, chunk, entry, dated),
           \A n \in Coords : n # c /\ Holds(store', n) /\ n \notin dated
                             => Surface(store, n) = Surface(store', n)
    PROVE  IInv'
<1> DEFINE noted == NeighbourChanged(dated)
<1>1. /\ store' = [store EXCEPT ![c] = chunk]
      /\ changes' = changes \o <<entry, noted>>
      /\ inFlight' = Outdated(c)
      /\ frame = "ingest" /\ frame' = frame /\ pending' = pending /\ meshed' = meshed
  BY DEF Ingest
<1>2. noted \in Entries /\ noted.kind = "neighbours" /\ noted.coords = dated
  BY DEF NeighbourChanged, Entries
<1> HIDE DEF noted
<1>3. /\ store' \in [Coords -> Chunks \cup {Absent}]
      /\ store'[c] = chunk
      /\ \A n \in Coords : n # c => store'[n] = store[n]
  BY <1>1 DEF IInv, TypeOK
<1>4. /\ Holds(store', c) <=> chunk # Absent
      /\ \A n \in Coords : n # c => (Holds(store', n) <=> Holds(store, n))
  BY <1>3 DEF Holds
<1>5. /\ inFlight' \in [Coords -> Jobs \cup {NoJob}]
      /\ \A n \in Coords : n # c => inFlight'[n] = inFlight[n]
      /\ inFlight'[c] # NoJob => ~inFlight'[c].held
  <2>1. CASE inFlight[c] = NoJob
    BY <2>1, <1>1 DEF Outdated, IInv, TypeOK
  <2>2. CASE inFlight[c] # NoJob
    <3>1. inFlight[c] \in Jobs /\ inFlight' = [inFlight EXCEPT ![c] = [inFlight[c] EXCEPT !.held = FALSE]]
      BY <2>2, <1>1 DEF Outdated, IInv, TypeOK
    <3> DEFINE job == [inFlight[c] EXCEPT !.held = FALSE]
    <3>2. job \in Jobs /\ ~job.held
      BY <3>1 DEF Jobs
    <3> HIDE DEF job
    <3>3. inFlight' = [inFlight EXCEPT ![c] = job]
      BY <3>1 DEF job
    <3>. QED  BY <3>2, <3>3 DEF IInv, TypeOK
  <2>. QED  BY <2>1, <2>2
<1>6. changes' \in Seq(Entries)
  BY <1>1, <1>2 DEF IInv, TypeOK
<1>7. \A x : /\ x \in Queued /\ ~(entry.kind = "unloaded" /\ x \in entry.coords) => x \in Queued'
             /\ entry.kind = "loaded" /\ x \in entry.coords => x \in Queued'
             /\ x \in noted.coords => x \in Queued'
             /\ x \in Emptied' <=> x \in Emptied \/ (entry.kind = "unloaded" /\ x \in entry.coords)
  BY <1>1, <1>2, LogGrows DEF IInv, TypeOK
<1>8. TypeOK' /\ LogIsRead'
  BY <1>1, <1>3, <1>5, <1>6 DEF TypeOK, LogIsRead
<1>9. SourceIsHeld'
  BY <1>4, <1>5 DEF SourceIsHeld, IInv
<1>10. Accounted(c)'
  <2>1. CASE chunk = Absent
    BY <2>1, <1>4, <1>7 DEF Accounted
  <2>2. CASE chunk # Absent
    BY <2>2, <1>4, <1>7 DEF Accounted
  <2>. QED  BY <2>1, <2>2
<1>11. ASSUME NEW n \in Coords, n # c
       PROVE  Accounted(n)'
  <2>1. (n \in Queued => n \in Queued') /\ (n \in Emptied' <=> n \in Emptied)
        /\ (n \in dated => n \in Queued')
    BY <1>2, <1>7, <1>11
  <2>2. inFlight'[n] = inFlight[n] /\ meshed'[n] = meshed[n] /\ (Holds(store', n) <=> Holds(store, n))
    BY <1>1, <1>4, <1>5, <1>11
  <2>3. Accounted(n)
    BY DEF IInv
  <2>4. CASE ~Holds(store, n)
    BY <2>1, <2>2, <2>3, <2>4 DEF Accounted, Drawn
  <2>5. CASE Holds(store, n) /\ n \notin dated
    <3>1. Surface(store, n) = Surface(store', n)
      BY <2>2, <2>5, <1>11
    <3>. QED  BY <2>1, <2>2, <2>3, <2>5, <3>1 DEF Accounted, Drawn
  <2>6. CASE Holds(store, n) /\ n \in dated
    BY <2>1, <2>2, <2>6 DEF Accounted
  <2>. QED  BY <2>4, <2>5, <2>6
<1>12. \A n \in Coords : Accounted(n)'
  BY <1>10, <1>11
<1>. QED  BY <1>8, <1>9, <1>12 DEF IInv

LEMMA NotedIsInCoords ==
    ASSUME NEW before, NEW after, NEW c
    PROVE  NotedStale(before, after, c) \in SUBSET Coords
BY DEF NotedStale, Holds

LEMMA EntriesAre ==
    ASSUME NEW c \in Coords
    PROVE  Loaded(c) \in Entries /\ Unloaded(c) \in Entries
BY DEF Loaded, Unloaded, Entries

LEMMA NotedCoversAll ==
    ASSUME NEW before, NEW after, NEW c, \A m \in Coords : m # c => before[m] = after[m]
    PROVE  \A n \in Coords : n # c /\ Holds(after, n) /\ n \notin NotedStale(before, after, c)
                             => Surface(before, n) = Surface(after, n)
<1> SUFFICES ASSUME NEW n \in Coords, n # c, Holds(after, n),
                    n \notin NotedStale(before, after, c)
             PROVE  Surface(before, n) = Surface(after, n)
  OBVIOUS
<1>. QED  BY NotedCovers

(* The store after an update, and what it covers. *)
LEMMA NotedIngestSafe ==
    ASSUME IInv, NEW c \in Coords, NEW chunk \in Chunks \cup {Absent},
           NEW after, after = [store EXCEPT ![c] = chunk],
           NEW entry \in Entries, entry.coords = {c},
           entry.kind = IF chunk = Absent THEN "unloaded" ELSE "loaded",
           Ingest(c, chunk, entry, NotedStale(store, after, c))
    PROVE  IInv'
<1>1. store' = after
  BY DEF Ingest
<1>2. \A m \in Coords : m # c => store[m] = after[m]
  BY DEF IInv, TypeOK
<1>3. \A n \in Coords : n # c /\ Holds(after, n) /\ n \notin NotedStale(store, after, c)
                        => Surface(store, n) = Surface(after, n)
  BY <1>2, NotedCoversAll
<1>. QED  BY <1>1, <1>3, NotedIsInCoords, IngestSafe

LEMMA InsertSafe ==
    ASSUME IInv, NEW c \in Coords, NEW chunk \in Chunks, Insert(c, chunk)
    PROVE  IInv'
<1> DEFINE after == [store EXCEPT ![c] = chunk]
<1>1. Ingest(c, chunk, Loaded(c), NotedStale(store, after, c))
  BY DEF Insert
<1>2. Loaded(c) \in Entries /\ Loaded(c).coords = {c} /\ Loaded(c).kind = "loaded" /\ chunk # Absent
  BY EntriesAre, KindsDiffer, NotAChunk
<1> HIDE DEF after
<1>3. after = [store EXCEPT ![c] = chunk]
  BY DEF after
<1>. QED  BY <1>1, <1>2, <1>3, NotedIngestSafe

LEMMA UnloadSafe ==
    ASSUME IInv, NEW c \in Coords, Unload(c)
    PROVE  IInv'
<1> DEFINE after == [store EXCEPT ![c] = Absent]
<1>1. Ingest(c, Absent, Unloaded(c), NotedStale(store, after, c))
  BY DEF Unload
<1>2. Unloaded(c) \in Entries /\ Unloaded(c).coords = {c} /\ Unloaded(c).kind = "unloaded"
  BY EntriesAre, KindsDiffer
<1> HIDE DEF after
<1>3. after = [store EXCEPT ![c] = Absent]
  BY DEF after
<1>. QED  BY <1>1, <1>2, <1>3, NotedIngestSafe

LEMMA ApplyBlockSafe ==
    ASSUME IInv, NEW pos \in Positions, NEW block \in Palette, ApplyBlock(pos, block)
    PROVE  IInv'
<1> DEFINE c == ChunkOf(pos)
           edited == [store[c] EXCEPT ![CellOf(pos)] = block]
           after == [store EXCEPT ![c] = edited]
           dated == EditedStale(store, after, pos) \cap Coords
<1>1. pos \in Places /\ c \in Coords
  <2>1. PICK d \in Coords : pos \in PositionsOf(d)
    BY DEF Positions
  <2>. QED  BY <2>1, NotAChunk, InChunk
<1>2. Holds(store, c) /\ Ingest(c, edited, Loaded(c), dated)
  BY DEF ApplyBlock
<1>3. store[c] \in Chunks
  BY <1>1, <1>2 DEF Holds, IInv, TypeOK
<1>4. edited \in Chunks
  BY <1>3 DEF Chunks
<1>5. Loaded(c) \in Entries /\ Loaded(c).coords = {c} /\ Loaded(c).kind = "loaded" /\ edited # Absent
  BY <1>1, <1>4, EntriesAre, KindsDiffer, NotAChunk
<1>6. ASSUME NEW p \in Places, p # pos
      PROVE  BlockAt(store, p) = BlockAt(after, p)
  <2>1. CASE ChunkOf(p) # c
    <3>1. ChunkOf(p) \in Coords => store[ChunkOf(p)] = after[ChunkOf(p)]
      BY <2>1 DEF IInv, TypeOK
    <3>. QED  BY <3>1, ReadAlike
  <2>2. CASE ChunkOf(p) = c
    <3>1. CellOf(p) # CellOf(pos) /\ CellOf(p) \in Cells
      BY <2>2, <1>1, <1>6, OnePlace, Located
    <3>2. edited[CellOf(p)] = store[c][CellOf(p)]
      BY <3>1, <1>3 DEF Chunks
    <3>3. after[c] = edited
      BY <1>1 DEF IInv, TypeOK
    <3>4. Holds(after, c)
      BY <3>3, <1>1, <1>5 DEF Holds
    <3>. QED  BY <2>2, <3>2, <3>3, <3>4, <1>2 DEF BlockAt
  <2>. QED  BY <2>1, <2>2
<1>7. \A m \in Coords : m # c => store[m] = after[m]
  BY DEF IInv, TypeOK
<1>8. store' = after
  BY <1>2 DEF Ingest
<1> HIDE DEF after, edited
<1>9. ASSUME NEW n \in Coords, n # c, Holds(after, n), n \notin dated
      PROVE  Surface(store, n) = Surface(after, n)
  <2>1. Holds(store, n)
    BY <1>7, <1>9 DEF Holds
  <2>2. n \notin EditedStale(store, after, pos)
    BY <1>9
  <2>. QED  BY <1>1, <1>6, <1>7, <1>9, <2>1, <2>2, EditedCovers
<1>10. dated \in SUBSET Coords
  OBVIOUS
<1> HIDE DEF dated, c
<1>. QED  BY <1>1, <1>2, <1>4, <1>5, <1>8, <1>9, <1>10, IngestSafe

LEMMA InitSafe == Init => IInv
<1> SUFFICES ASSUME Init
             PROVE  IInv
  OBVIOUS
<1>1. /\ store \in [Coords -> [Cells -> Streamed] \cup {Absent}]
      /\ frame = "ingest" /\ changes = <<>> /\ inFlight = NoJobs
      /\ meshed = [c \in Coords |-> IF Holds(store, c) THEN Handed(store, c) ELSE NoChunks]
  BY DEF Init
<1>2. [Cells -> Streamed] \subseteq Chunks
  BY ClientWorldAssumption DEF Chunks
<1>3. TypeOK
  BY <1>1, <1>2 DEF TypeOK, NoJobs
<1>4. \A c \in Coords : inFlight[c] = NoJob
  BY <1>1 DEF NoJobs
<1>5. ASSUME NEW c \in Coords
      PROVE  Accounted(c)
  <2>1. CASE Holds(store, c)
    <3>1. Drawn(c) = Surface(store, c)
      BY <2>1, <1>1, NotAChunk, HandedDrawsAlike DEF Drawn
    <3>. QED  BY <2>1, <3>1, <1>1, <1>4, LogIsEmpty DEF Accounted
  <2>2. CASE ~Holds(store, c)
    <3>1. Drawn(c) = {}
      BY <2>2, <1>1, BlankNothing DEF Drawn
    <3>. QED  BY <2>2, <3>1 DEF Accounted
  <2>. QED  BY <2>1, <2>2
<1>. QED  BY <1>1, <1>3, <1>4, <1>5 DEF IInv, LogIsRead, SourceIsHeld

LEMMA StartMeshJobsSafe ==
    ASSUME IInv, StartMeshJobs
    PROVE  IInv'
<1> DEFINE startable == {c \in Queued : Holds(store, c) /\ inFlight[c] = NoJob}
           idle == Queued \ (startable \cup Running)
           Job(c) == [handed |-> Handed(store, c), held |-> TRUE]
<1>1. /\ changes' = <<>> /\ store' = store
      /\ meshed' = [c \in Coords |-> IF c \in Emptied THEN NoChunks ELSE meshed[c]]
  BY DEF StartMeshJobs, worldVars
<1>2. PICK started \in SUBSET startable, examined \in SUBSET idle :
          /\ inFlight' = [c \in Coords |-> IF c \in started THEN Job(c) ELSE inFlight[c]]
          /\ pending' = Queued \ (started \cup examined)
  BY DEF StartMeshJobs
<1>3. \A c : c \in started => c \in Queued /\ Holds(store, c) /\ inFlight[c] = NoJob
  OBVIOUS
<1>4. \A c \in Coords : c \in examined => ~Holds(store, c)
  BY DEF Running
<1>5. ASSUME NEW c \in Coords
      PROVE  Job(c) \in Jobs /\ Job(c) # NoJob /\ Job(c).held
             /\ Surface(Job(c).handed, c) = Surface(store, c)
  <2>1. Job(c) \in Jobs
    BY HandedIsTyped DEF Jobs, IInv, TypeOK
  <2>2. Surface(Handed(store, c), c) = Surface(store, c)
    BY NotAChunk, HandedDrawsAlike
  <2>. QED  BY <2>1, <2>2, NotAChunk
<1> HIDE DEF Job, startable, idle
<1>6. TypeOK' /\ LogIsRead'
  <2>1. inFlight' \in [Coords -> Jobs \cup {NoJob}]
    BY <1>2, <1>5 DEF IInv, TypeOK
  <2>. QED  BY <1>1, <2>1 DEF IInv, TypeOK, LogIsRead
<1>7. SourceIsHeld'
  BY <1>1, <1>2, <1>3 DEF SourceIsHeld, IInv
<1>8. Queued' = pending' /\ Emptied' = {}
  BY <1>1, LogIsEmptied
<1>9. ASSUME NEW c \in Coords
      PROVE  Accounted(c)'
  <2>1. Accounted(c)
    BY DEF IInv
  <2>2. CASE ~Holds(store, c)
    <3>1. Drawn(c)' = {}
      BY <2>1, <2>2, <1>1, BlankNothing DEF Accounted, Drawn
    <3>. QED  BY <2>2, <3>1, <1>1 DEF Accounted
  <2>3. CASE Holds(store, c) /\ c \in started
    <3>1. inFlight'[c] = Job(c)
      BY <1>2, <2>3
    <3>. QED  BY <2>3, <3>1, <1>1, <1>5 DEF Accounted
  <2>4. CASE Holds(store, c) /\ c \in Queued /\ c \notin started
    <3>1. c \in Queued'
      BY <2>4, <1>2, <1>4, <1>8
    <3>. QED  BY <2>4, <3>1, <1>1 DEF Accounted
  <2>5. CASE Holds(store, c) /\ c \notin Queued
    <3>1. inFlight'[c] = inFlight[c]
      BY <1>2, <1>3, <2>5
    <3>2. c \notin Emptied => meshed'[c] = meshed[c]
      BY <1>1
    <3>. QED  BY <2>1, <2>5, <3>1, <3>2, <1>1, <1>8 DEF Accounted, Drawn
  <2>. QED  BY <2>2, <2>3, <2>4, <2>5
<1>. QED  BY <1>6, <1>7, <1>9 DEF IInv

LEMMA CollectSafe ==
    ASSUME IInv, NEW collected \in SUBSET Running, Collect(collected)
    PROVE  IInv'
<1>1. /\ frame = "apply"
      /\ store' = store /\ changes' = changes /\ pending' = pending
      /\ meshed' = [c \in Coords |-> IF c \in collected /\ inFlight[c].held
                                     THEN inFlight[c].handed ELSE meshed[c]]
      /\ inFlight' = [c \in Coords |-> IF c \in collected THEN NoJob ELSE inFlight[c]]
  BY DEF Collect, storeVars
<1>2. changes = <<>>
  BY <1>1 DEF IInv, LogIsRead
<1>3. TypeOK' /\ LogIsRead' /\ SourceIsHeld'
  BY <1>1, <1>2 DEF IInv, TypeOK, LogIsRead, SourceIsHeld
<1>4. Queued = pending /\ Emptied = {} /\ Queued' = pending /\ Emptied' = {}
  BY <1>1, <1>2, LogIsEmpty, LogIsEmptied
<1>5. ASSUME NEW c \in Coords
      PROVE  Accounted(c)'
  <2>1. Accounted(c)
    BY DEF IInv
  <2>2. c \in collected => inFlight[c] # NoJob
    BY DEF Running
  <2>3. CASE ~Holds(store, c)
    <3>1. meshed'[c] = meshed[c]
      BY <1>1, <2>2, <2>3 DEF IInv, SourceIsHeld
    <3>. QED  BY <2>1, <2>3, <3>1, <1>1, <1>4 DEF Accounted, Drawn
  <2>4. CASE Holds(store, c) /\ c \in Queued
    BY <2>4, <1>1, <1>4 DEF Accounted
  <2>5. CASE Holds(store, c) /\ c \notin Queued /\ c \in collected
    <3>1. inFlight'[c] = NoJob /\ inFlight[c].held /\ meshed'[c] = inFlight[c].handed
          /\ Surface(inFlight[c].handed, c) = Surface(store, c)
      BY <2>1, <2>2, <2>5, <1>1 DEF Accounted
    <3>. QED  BY <2>5, <3>1, <1>1, <1>4 DEF Accounted, Drawn
  <2>6. CASE Holds(store, c) /\ c \notin Queued /\ c \notin collected
    <3>1. inFlight'[c] = inFlight[c] /\ meshed'[c] = meshed[c]
      BY <2>6, <1>1
    <3>. QED  BY <2>1, <2>6, <3>1, <1>1, <1>4 DEF Accounted, Drawn
  <2>. QED  BY <2>3, <2>4, <2>5, <2>6
<1>. QED  BY <1>3, <1>5 DEF IInv

LEMMA ResetSafe ==
    ASSUME ResetWorld
    PROVE  IInv'
<1>1. /\ store' = NoChunks /\ changes' = <<>> /\ inFlight' = NoJobs /\ meshed' = NothingDrawn
  BY DEF ResetWorld
<1>2. TypeOK' /\ LogIsRead'
  BY <1>1 DEF TypeOK, LogIsRead, NoChunks, NoJobs
<1>3. \A c \in Coords : inFlight'[c] = NoJob /\ ~Holds(store', c) /\ meshed'[c] = NoChunks
  BY <1>1 DEF NoJobs, NoChunks, NothingDrawn, Holds
<1>4. \A c \in Coords : Accounted(c)'
  BY <1>3, BlankNothing DEF Accounted, Drawn
<1>. QED  BY <1>2, <1>3, <1>4 DEF IInv, SourceIsHeld

(* The steps that leave the pipeline alone and do not go on with a frame's *)
(* log.                                                                    *)
LEMMA NothingMoves ==
    ASSUME IInv, UNCHANGED <<store, changes, pending, inFlight, meshed>>,
           frame' # "ingest" => changes = <<>>
    PROVE  IInv'
<1>1. Queued' = Queued /\ Emptied' = Emptied
  BY DEF Queued, Emptied, Unloads, Stales, Names
<1>2. \A c \in Coords : Accounted(c) => Accounted(c)'
  BY <1>1 DEF Accounted, Drawn
<1>. QED  BY <1>2 DEF IInv, TypeOK, LogIsRead, SourceIsHeld

LEMMA StepSafe == IInv /\ [Next]_vars => IInv'
<1> SUFFICES ASSUME IInv, [Next]_vars
             PROVE  IInv'
  OBVIOUS
<1>1. CASE Update
  <2>1. ASSUME NEW c \in Coords, Unload(c)
        PROVE  IInv'
    BY <2>1, UnloadSafe
  <2>2. ASSUME NEW c \in Coords, NEW chunk \in Chunks, Insert(c, chunk)
        PROVE  IInv'
    BY <2>2, InsertSafe
  <2>3. ASSUME NEW pos \in Positions, NEW block \in Palette, ApplyBlock(pos, block)
        PROVE  IInv'
    BY <2>3, ApplyBlockSafe
  <2>. QED  BY <1>1, <2>1, <2>2, <2>3 DEF Update
<1>2. CASE StartMeshJobs
  BY <1>2, StartMeshJobsSafe
<1>3. CASE ApplyFinishedMeshes
  BY <1>3, CollectSafe DEF ApplyFinishedMeshes
<1>4. CASE FinishLoading
  <2>1. CASE session
    BY <1>4, <2>1, NothingMoves DEF FinishLoading, storeVars, jobVars
  <2>2. CASE ~session
    BY <1>4, <2>2, ResetSafe DEF FinishLoading
  <2>. QED  BY <2>1, <2>2
<1>5. CASE Replace
  BY <1>5, ResetSafe DEF Replace
<1>6. CASE NewSession
  BY <1>6, ResetSafe DEF NewSession
<1>7. CASE SessionEnds
  BY <1>7, NothingMoves DEF SessionEnds, storeVars, jobVars, Draining
<1>8. CASE UNCHANGED vars
  BY <1>8, NothingMoves DEF vars, storeVars, jobVars, IInv, LogIsRead
<1>. QED  BY <1>1, <1>2, <1>3, <1>4, <1>5, <1>6, <1>7, <1>8 DEF Next, Systems

(* The inductive invariant. *)
THEOREM Accounts == Spec => []IInv
BY InitSafe, StepSafe, PTL DEF Spec

-----------------------------------------------------------------------------
(* A chunk with nothing left to do for it is drawn as it is among the      *)
(* neighbours it has now, and not at all if it is gone.                    *)
THEOREM SettledIsDrawnAlways == Spec => []SettledIsDrawn
<1>1. IInv => SettledIsDrawn
  <2> SUFFICES ASSUME IInv, NEW c \in Coords, Settled(c)
               PROVE  Drawn(c) = IF Holds(store, c) THEN Surface(store, c) ELSE {}
    BY DEF SettledIsDrawn
  <2>1. Accounted(c) /\ changes = <<>> /\ c \notin pending /\ inFlight[c] = NoJob
    BY DEF IInv, Settled
  <2>2. c \notin Queued /\ Emptied = {}
    BY <2>1, LogIsEmpty
  <2>. QED  BY <2>1, <2>2 DEF Accounted
<1>. QED  BY <1>1, Accounts, PTL

(* The loading screen of a session goes away only over terrain that is     *)
(* drawn as it is.                                                         *)
THEOREM LoadingEndsOnTerrainAlways == Spec => LoadingEndsOnTerrain
<1> DEFINE Arrived == \A c \in Arrival : Holds(store, c) /\ Drawn(c) = Surface(store, c)
           Ends == loading /\ ~loading' /\ session => Arrived
<1>1. IInv /\ [Next]_vars => [Ends]_vars
  <2> SUFFICES ASSUME IInv, Next, loading, ~loading', session
               PROVE  Arrived
    OBVIOUS
  <2>1. FinishLoading
    BY DEF Next, Update, Insert, Unload, ApplyBlock, Ingest, Systems, StartMeshJobs,
           ApplyFinishedMeshes, Collect, Replace, NewSession, SessionEnds, worldVars
  <2>2. ArrivalReady /\ frame = "post"
    BY <2>1 DEF FinishLoading
  <2>3. changes = <<>>
    BY <2>2 DEF IInv, LogIsRead
  <2>4. ASSUME NEW c \in Arrival
        PROVE  Holds(store, c) /\ Drawn(c) = Surface(store, c)
    <3>1. c \in Coords /\ Holds(store, c) /\ c \notin pending /\ inFlight[c] = NoJob
      BY <2>2, ClientWorldAssumption DEF ArrivalReady
    <3>2. Accounted(c) /\ c \notin Queued
      BY <2>3, <3>1, LogIsEmpty DEF IInv
    <3>. QED  BY <3>1, <3>2 DEF Accounted
  <2>. QED  BY <2>4
<1>. QED  BY <1>1, Accounts, PTL DEF Spec, LoadingEndsOnTerrain

-----------------------------------------------------------------------------
(* Session. *)

Questions == {"hello", "play", "create", "leave", "cancel"}
Answers == {"characters", "welcome", "refused", "nameRefused", "arrival", "leaving", "accepted"}
Picks == {"play", "create"}
Orders == Picks \cup {"leave", "cancel", "disconnect"}
Endings == {"refused", "nameRefused", "ended"}
News == {"handshaking", "characters", "established", "leaving", "accepted"} \cup Endings
Phases == {"connecting", "awaitingCharacters", "choosing", "awaitingWelcome", "established",
           "gone"}

Clients == [state : States, form : Forms \cup {NoForm}, rejoining : BOOLEAN, link : BOOLEAN,
            session : BOOLEAN, outbound : BOOLEAN, suspended : BOOLEAN,
            cancellation : {"none", "available", "pending"}]

SessionTypeOK ==
    /\ launch \in {"list", "server", "account"}
    /\ turn \in {"rejoin", "dial", "drain", "act"}
    /\ client \in Clients
    /\ route \in Routes \cup {NoRoute} /\ asked \in BOOLEAN
    /\ thread \in [phase : Phases, leaveSent : BOOLEAN, cancelSent : BOOLEAN]
    /\ commands \in Seq(Orders) /\ events \in Seq(News)
    /\ up \in Seq(Questions) /\ down \in Seq(Answers)
    /\ server \in {"closed", "hello", "character", "world", "leaving"}
    /\ stale \in BOOLEAN /\ lost \in BOOLEAN /\ offended \in BOOLEAN

Among(q, kinds) == \A i \in DOMAIN q : q[i] \in kinds
Has(q, kind) == \E i \in DOMAIN q : q[i] = kind
Sent(leave, cancel) == thread.leaveSent = leave /\ thread.cancelSent = cancel
Alive == thread.phase # "gone"

(* The screen, and what it stands on. *)
ScreenFits ==
    /\ client.session <=> client.state \in {"Connected", "Leaving"}
    /\ client.state = "Choosing" => client.form # NoForm
    /\ client.form # NoForm => /\ client.state \in {"Connecting", "Handshaking", "Choosing"}
                               /\ client.link \/ client.rejoining
    /\ client.state = "Connected" => client.outbound
    /\ client.state = "Leaving" => client.suspended /\ ~client.outbound
                                   /\ client.cancellation # "none"
    /\ client.state # "Leaving" => ~client.suspended /\ client.cancellation = "none"

LinkFits ==
    /\ ~client.link => ~Alive /\ client.state \in Over \cup {"Idle", "Choosing"}
    /\ client.link => client.state # "Idle"
    /\ client.link /\ ~client.session /\ (events # <<>> \/ Alive) => client.outbound
    /\ Reopening => client.state = "Choosing" /\ ~Alive /\ (client.link => events = <<>>)

(* The news come in one order, and none before its time. *)
Rank(kind) ==
    CASE kind = "handshaking" -> 1 [] kind = "characters" -> 2 [] kind = "established" -> 3
      [] kind = "leaving" -> 4 [] kind = "accepted" -> 5 [] OTHER -> 6

InOrder(q) == \A i, j \in DOMAIN q : i < j => Rank(q[i]) < Rank(q[j])

Reported ==
    CASE thread.phase = "connecting" -> {}
      [] thread.phase = "awaitingCharacters" -> {"handshaking"}
      [] thread.phase \in {"choosing", "awaitingWelcome"} -> {"handshaking", "characters"}
      [] thread.phase = "established" -> News \ Endings
      [] OTHER -> News

Expected ==
    IF ~client.session THEN News \ {"leaving", "accepted"}
    ELSE IF client.state = "Connected" THEN Endings ELSE Endings \cup {"leaving", "accepted"}

NewsFit ==
    /\ InOrder(events) /\ Among(events, Reported)
    /\ client.link => Among(events, Expected)
    /\ client.link /\ client.session => thread.phase \in {"established", "gone"}
    /\ client.link /\ ~client.session /\ thread.phase = "established" => Has(events, "established")

(* What is asked of leaving by the commands the thread will still take. *)
Leavish == {"leave", "cancel"}
Stopping(q) == Has(q, "disconnect")
NoneAsked(q) ==
    \A i \in DOMAIN q : (\A j \in 1..i : q[j] # "disconnect") => q[i] \notin Leavish
OneAsked(q, kind) ==
    \E i \in DOMAIN q : q[i] = kind /\ \A j \in DOMAIN q : j # i => q[j] \notin Leavish
BothAsked(q) ==
    \E i, j \in DOMAIN q :
        /\ i < j /\ q[i] = "leave" /\ q[j] = "cancel"
        /\ \A n \in DOMAIN q : n # i /\ n # j => q[n] \notin Leavish

Unheard == ~Has(events, "leaving") /\ ~Has(events, "accepted")

Waiting ==
    \/ OneAsked(commands, "leave") /\ Sent(FALSE, FALSE) /\ Unheard
    \/ NoneAsked(commands) /\ Sent(TRUE, FALSE) /\ ~Has(events, "accepted")

Cancelling ==
    \/ BothAsked(commands) /\ Sent(FALSE, FALSE) /\ Unheard
    \/ OneAsked(commands, "cancel") /\ Sent(TRUE, FALSE) /\ ~Has(events, "accepted")
    \/ NoneAsked(commands) /\ Sent(TRUE, TRUE) /\ ~Has(events, "accepted")
    \/ NoneAsked(commands) /\ Sent(FALSE, FALSE) /\ Has(events, "accepted")

LeaveFits ==
    client.link /\ Alive =>
        IF client.state # "Leaving" THEN NoneAsked(commands) /\ Sent(FALSE, FALSE)
        ELSE IF Stopping(commands) THEN NoneAsked(commands) /\ Sent(FALSE, FALSE) /\ Unheard
        ELSE IF client.cancellation = "available" THEN Waiting ELSE Cancelling

(* The connection. *)
WithLeave == {<<"leave">>, <<"leave", "cancel">>}
Chosen == {<<"play">>, <<"create">>}

UpFits ==
    /\ thread.cancelSent => thread.leaveSent
    /\ thread.leaveSent => /\ thread.phase \in {"established", "gone"}
                           /\ server \in {"world", "leaving", "closed"}
    /\ ~thread.leaveSent => up \in {<<>>, <<"hello">>} \cup Chosen
    /\ Sent(TRUE, FALSE) => up \in {<<>>, <<"leave">>}
    /\ Sent(TRUE, TRUE) => up \in {<<>>, <<"cancel">>, <<"leave", "cancel">>}
    /\ up = <<"hello">> => server \in {"hello", "closed"}
    /\ up \in Chosen => server \in {"character", "closed"}
    /\ up \in WithLeave => server \in {"world", "closed"}
                           /\ (Alive => ~Has(events, "leaving"))
    /\ server = "leaving" => thread.leaveSent /\ (thread.cancelSent => up = <<"cancel">>)

(* One answer to a leave, and one to its cancellation behind it. *)
Answering(q) ==
    \A i, j \in DOMAIN q : i < j =>
        /\ q[i] = "leaving" => q[j] # "leaving"
        /\ q[i] = "accepted" => q[j] \notin {"leaving", "accepted"}

DownFits ==
    /\ Has(down, "leaving") =>
           thread.leaveSent /\ up \notin WithLeave /\ (Alive => ~Has(events, "leaving"))
    /\ Has(down, "accepted") =>
           thread.cancelSent /\ up = <<>> /\ server \in {"world", "closed"}
    /\ Answering(down)

Handshake ==
    /\ thread.phase = "connecting" => up = <<>> /\ down = <<>> /\ server = "closed"
    /\ thread.phase = "awaitingCharacters" =>
           \/ up = <<"hello">> /\ server \in {"hello", "closed"} /\ down = <<>>
           \/ up = <<>> /\ server \in {"character", "closed"} /\ down = <<"characters">>
           \/ up = <<>> /\ server = "closed" /\ down = <<"refused">>
    /\ thread.phase = "choosing" =>
           up = <<>> /\ server \in {"character", "closed"} /\ down = <<>>
    /\ thread.phase = "awaitingWelcome" =>
           \/ up \in Chosen /\ server \in {"character", "closed"} /\ down = <<>>
           \/ up = <<>> /\ server = "closed" /\ down \in {<<"refused">>, <<"nameRefused">>}
           \/ /\ up = <<>> /\ server \in {"world", "closed"}
              /\ ~lost => down # <<>> /\ down[1] = "welcome"
              /\ \A i \in DOMAIN down :
                     down[i] \in {"welcome", "arrival"} /\ (i > 1 => down[i] = "arrival")
    /\ thread.phase = "established" =>
           /\ server \in {"world", "leaving", "closed"}
           /\ ~thread.leaveSent => up = <<>>
           /\ Among(down, {"arrival", "leaving", "accepted"})

(* What both ends make of it, unless a frame was lost. *)
Agreed ==
    ~lost =>
        /\ ~offended
        /\ up = <<"cancel">> => server \in {"leaving", "closed"}
        /\ Sent(TRUE, FALSE) /\ up = <<>> => server \in {"leaving", "closed"}
        /\ Sent(TRUE, TRUE) /\ up = <<>> /\ Alive => Has(down, "accepted") \/ server = "closed"

Screen == ScreenFits /\ LinkFits /\ NewsFit /\ LeaveFits
Connection == UpFits /\ DownFits /\ Handshake /\ Agreed
SessionInv == SessionTypeOK /\ Screen /\ Connection

-----------------------------------------------------------------------------
(* Queues. *)

LEMMA AppendFits ==
    ASSUME NEW S, NEW q \in Seq(S), NEW x \in S
    PROVE  /\ Append(q, x) \in Seq(S) /\ Len(Append(q, x)) = Len(q) + 1
           /\ DOMAIN Append(q, x) = 1..(Len(q) + 1)
           /\ \A i \in 1..Len(q) : Append(q, x)[i] = q[i]
           /\ Append(q, x)[Len(q) + 1] = x
  OBVIOUS

LEMMA TailFits ==
    ASSUME NEW S, NEW q \in Seq(S), q # <<>>
    PROVE  /\ Tail(q) \in Seq(S) /\ Len(Tail(q)) = Len(q) - 1 /\ Len(q) > 0
           /\ DOMAIN Tail(q) = 1..(Len(q) - 1)
           /\ \A i \in 1..(Len(q) - 1) : Tail(q)[i] = q[i + 1]
           /\ Head(q) = q[1] /\ Head(q) \in S
  OBVIOUS

LEMMA HasAppend ==
    ASSUME NEW S, NEW q \in Seq(S), NEW x \in S, NEW k
    PROVE  Has(Append(q, x), k) <=> Has(q, k) \/ x = k
<1> DEFINE r == Append(q, x)
<1>1. /\ DOMAIN r = 1..(Len(q) + 1) /\ \A i \in 1..Len(q) : r[i] = q[i]
      /\ r[Len(q) + 1] = x /\ DOMAIN q = 1..Len(q) /\ Len(q) \in Nat
  BY AppendFits
<1> HIDE DEF r
<1>2. Has(r, k) <=> Has(q, k) \/ x = k
  BY <1>1 DEF Has
<1> QED BY <1>2 DEF r

LEMMA HasTail ==
    ASSUME NEW S, NEW q \in Seq(S), q # <<>>, NEW k
    PROVE  Has(q, k) <=> Head(q) = k \/ Has(Tail(q), k)
<1> DEFINE r == Tail(q)
<1>1. /\ DOMAIN r = 1..(Len(q) - 1) /\ \A i \in 1..(Len(q) - 1) : r[i] = q[i + 1]
      /\ Head(q) = q[1] /\ DOMAIN q = 1..Len(q) /\ Len(q) \in Nat /\ Len(q) > 0
  BY TailFits
<1> HIDE DEF r
<1>2. ASSUME Has(q, k) PROVE Head(q) = k \/ Has(r, k)
  <2>1. PICK i \in 1..Len(q) : q[i] = k
    BY <1>1, <1>2 DEF Has
  <2>2. CASE i = 1
    BY <2>1, <2>2, <1>1
  <2>3. CASE i # 1
    <3>1. i - 1 \in 1..(Len(q) - 1) /\ r[i - 1] = q[i]
      BY <2>1, <2>3, <1>1
    <3> QED BY <3>1, <2>1, <1>1 DEF Has
  <2> QED BY <2>2, <2>3
<1>3. ASSUME Head(q) = k \/ Has(r, k) PROVE Has(q, k)
  BY <1>1, <1>3 DEF Has
<1> QED BY <1>2, <1>3 DEF r

LEMMA AmongTail ==
    ASSUME NEW S, NEW q \in Seq(S), q # <<>>, NEW K, Among(q, K)
    PROVE  Among(Tail(q), K) /\ Head(q) \in K
  BY TailFits DEF Among

LEMMA AmongAppend ==
    ASSUME NEW S, NEW q \in Seq(S), NEW x \in S, NEW K, Among(q, K), x \in K
    PROVE  Among(Append(q, x), K)
<1> DEFINE r == Append(q, x)
<1>1. /\ DOMAIN r = 1..(Len(q) + 1) /\ \A i \in 1..Len(q) : r[i] = q[i]
      /\ r[Len(q) + 1] = x /\ DOMAIN q = 1..Len(q) /\ Len(q) \in Nat
  BY AppendFits
<1> HIDE DEF r
<1>2. Among(r, K)
  BY <1>1 DEF Among
<1> QED BY <1>2 DEF r

LEMMA AmongNothing ==
    ASSUME NEW S, NEW q \in Seq(S), Among(q, {})
    PROVE  q = <<>>
<1>1. DOMAIN q = 1..Len(q) /\ Len(q) \in Nat
  OBVIOUS
<1>2. Len(q) = 0
  BY <1>1 DEF Among
<1> QED BY <1>2

(* A queue of two, which is as long as the one to the server gets. *)
LEMMA AppendTwo ==
    ASSUME NEW S, NEW a \in S, NEW b \in S
    PROVE  Append(<<a>>, b) = <<a, b>>
<1> DEFINE r == Append(<<a>>, b)
<1>1. <<a>> \in Seq(S) /\ Len(<<a>>) = 1 /\ <<a>>[1] = a
  OBVIOUS
<1>2. /\ r \in Seq(S) /\ Len(r) = 2 /\ r[1] = a /\ r[2] = b
  BY <1>1, AppendFits
<1> HIDE DEF r
<1>3. r = <<a, b>>
  BY <1>2
<1> QED BY <1>3 DEF r

LEMMA Short ==
    ASSUME NEW a, NEW b
    PROVE  /\ Append(<<>>, a) = <<a>>
           /\ Tail(<<a>>) = <<>> /\ Tail(<<a, b>>) = <<b>>
           /\ Head(<<a>>) = a /\ Head(<<a, b>>) = a
           /\ <<a>> # <<>> /\ <<a, b>> # <<>> /\ <<a, b>> # <<a>> /\ <<a, b>> # <<b>>
<1>1. Append(<<>>, a) = <<a>>
  OBVIOUS
<1>2. Tail(<<a>>) = <<>> /\ Head(<<a>>) = a /\ <<a>> # <<>>
  OBVIOUS
<1>3. Tail(<<a, b>>) = <<b>> /\ Head(<<a, b>>) = a
  OBVIOUS
<1>4. <<a, b>> # <<>> /\ <<a, b>> # <<a>> /\ <<a, b>> # <<b>>
  OBVIOUS
<1> QED BY <1>1, <1>2, <1>3, <1>4

(* The order of the news. *)
LEMMA InOrderTail ==
    ASSUME NEW q \in Seq(News), q # <<>>, InOrder(q)
    PROVE  InOrder(Tail(q)) /\ Among(Tail(q), {k \in News : Rank(k) > Rank(Head(q))})
<1> DEFINE r == Tail(q)
<1>1. /\ DOMAIN r = 1..(Len(q) - 1) /\ \A i \in 1..(Len(q) - 1) : r[i] = q[i + 1]
      /\ Head(q) = q[1] /\ DOMAIN q = 1..Len(q) /\ Len(q) \in Nat /\ Len(q) > 0
      /\ r \in Seq(News)
  BY TailFits
<1>2. \A i \in DOMAIN r : r[i] \in News
  BY <1>1
<1> HIDE DEF r
<1>3. ASSUME NEW i \in DOMAIN r, NEW j \in DOMAIN r, i < j PROVE Rank(r[i]) < Rank(r[j])
  <2>1. i + 1 \in DOMAIN q /\ j + 1 \in DOMAIN q /\ i + 1 < j + 1
    BY <1>1, <1>3
  <2>2. r[i] = q[i + 1] /\ r[j] = q[j + 1]
    BY <1>1
  <2> QED BY <2>1, <2>2 DEF InOrder
<1>4. ASSUME NEW i \in DOMAIN r PROVE r[i] \in {k \in News : Rank(k) > Rank(Head(q))}
  <2>1. i + 1 \in DOMAIN q /\ 1 \in DOMAIN q /\ 1 < i + 1 /\ r[i] = q[i + 1]
    BY <1>1
  <2>2. Rank(q[1]) < Rank(q[i + 1])
    BY <2>1 DEF InOrder
  <2>3. Rank(r[i]) \in Nat /\ Rank(Head(q)) \in Nat
    BY DEF Rank
  <2> QED BY <1>1, <1>2, <2>1, <2>2, <2>3
<1> QED BY <1>3, <1>4 DEF r, Among, InOrder

LEMMA InOrderAppend ==
    ASSUME NEW q \in Seq(News), InOrder(q), NEW x \in News, NEW K, Among(q, K),
           \A k \in K : Rank(k) < Rank(x)
    PROVE  InOrder(Append(q, x))
<1> DEFINE r == Append(q, x)
<1>1. /\ DOMAIN r = 1..(Len(q) + 1) /\ \A i \in 1..Len(q) : r[i] = q[i]
      /\ r[Len(q) + 1] = x /\ DOMAIN q = 1..Len(q) /\ Len(q) \in Nat
  BY AppendFits
<1> HIDE DEF r
<1>2. ASSUME NEW i \in DOMAIN r, NEW j \in DOMAIN r, i < j PROVE Rank(r[i]) < Rank(r[j])
  <2>1. i \in 1..Len(q) /\ r[i] = q[i] /\ i \in DOMAIN q
    BY <1>1, <1>2
  <2>2. CASE j \in 1..Len(q)
    BY <2>1, <2>2, <1>1, <1>2 DEF InOrder
  <2>3. CASE j = Len(q) + 1
    BY <2>1, <2>3, <1>1 DEF Among
  <2> QED BY <1>1, <2>2, <2>3
<1> QED BY <1>2 DEF InOrder, r

(* Commands about leaving. *)
LEMMA AskedOther ==
    ASSUME NEW q \in Seq(Orders), NEW x \in Orders \ Leavish, NoneAsked(q)
    PROVE  NoneAsked(Append(q, x))
<1> DEFINE r == Append(q, x)
<1>1. /\ DOMAIN r = 1..(Len(q) + 1) /\ \A i \in 1..Len(q) : r[i] = q[i]
      /\ r[Len(q) + 1] = x /\ DOMAIN q = 1..Len(q) /\ Len(q) \in Nat
  BY AppendFits
<1> HIDE DEF r
<1>2. ASSUME NEW i \in DOMAIN r, \A j \in 1..i : r[j] # "disconnect" PROVE r[i] \notin Leavish
  <2>1. CASE i = Len(q) + 1
    BY <2>1, <1>1
  <2>2. CASE i \in 1..Len(q)
    <3>1. \A j \in 1..i : q[j] # "disconnect"
      BY <1>1, <1>2, <2>2
    <3> QED BY <3>1, <1>1, <2>2 DEF NoneAsked
  <2> QED BY <1>1, <2>1, <2>2
<1> QED BY <1>2 DEF NoneAsked, r

LEMMA AskedTooLate ==
    ASSUME NEW q \in Seq(Orders), NEW x \in Orders, NoneAsked(q), Stopping(q)
    PROVE  NoneAsked(Append(q, x)) /\ Stopping(Append(q, x))
<1> DEFINE r == Append(q, x)
<1>1. /\ DOMAIN r = 1..(Len(q) + 1) /\ \A i \in 1..Len(q) : r[i] = q[i]
      /\ r[Len(q) + 1] = x /\ DOMAIN q = 1..Len(q) /\ Len(q) \in Nat
  BY AppendFits
<1> HIDE DEF r
<1>2. PICK n \in 1..Len(q) : q[n] = "disconnect"
  BY <1>1 DEF Stopping, Has
<1>3. ASSUME NEW i \in DOMAIN r, \A j \in 1..i : r[j] # "disconnect" PROVE r[i] \notin Leavish
  <2>1. i \in 1..Len(q)
    BY <1>1, <1>2, <1>3
  <2>2. \A j \in 1..i : q[j] # "disconnect"
    BY <1>1, <1>3, <2>1
  <2> QED BY <2>1, <2>2, <1>1 DEF NoneAsked
<1>4. Stopping(r)
  BY <1>1, <1>2 DEF Stopping, Has
<1> QED BY <1>3, <1>4 DEF NoneAsked, r

LEMMA AskedNow ==
    ASSUME NEW q \in Seq(Orders), NoneAsked(q), ~Stopping(q), NEW k \in Leavish
    PROVE  OneAsked(Append(q, k), k) /\ ~Stopping(Append(q, k))
<1> DEFINE r == Append(q, k)
<1>1. /\ DOMAIN r = 1..(Len(q) + 1) /\ \A i \in 1..Len(q) : r[i] = q[i]
      /\ r[Len(q) + 1] = k /\ DOMAIN q = 1..Len(q) /\ Len(q) \in Nat
  BY AppendFits DEF Leavish, Orders
<1> HIDE DEF r
<1>2. \A i \in 1..Len(q) : q[i] \notin Leavish /\ q[i] # "disconnect"
  BY <1>1 DEF NoneAsked, Stopping, Has
<1>3. k # "disconnect"
  BY DEF Leavish
<1> QED BY <1>1, <1>2, <1>3 DEF OneAsked, Stopping, Has, r

LEMMA AskedBoth ==
    ASSUME NEW q \in Seq(Orders), OneAsked(q, "leave"), ~Stopping(q)
    PROVE  BothAsked(Append(q, "cancel")) /\ ~Stopping(Append(q, "cancel"))
<1> DEFINE r == Append(q, "cancel")
<1>1. /\ DOMAIN r = 1..(Len(q) + 1) /\ \A i \in 1..Len(q) : r[i] = q[i]
      /\ r[Len(q) + 1] = "cancel" /\ DOMAIN q = 1..Len(q) /\ Len(q) \in Nat
  BY AppendFits DEF Orders
<1> HIDE DEF r
<1>2. PICK i \in 1..Len(q) : q[i] = "leave" /\ \A j \in 1..Len(q) : j # i => q[j] \notin Leavish
  BY <1>1 DEF OneAsked
<1>3. BothAsked(r)
  <2>1. i < Len(q) + 1 /\ r[i] = "leave" /\ i \in DOMAIN r /\ Len(q) + 1 \in DOMAIN r
    BY <1>1, <1>2
  <2>2. \A n \in DOMAIN r : n # i /\ n # Len(q) + 1 => r[n] \notin Leavish
    BY <1>1, <1>2
  <2> QED BY <2>1, <2>2, <1>1 DEF BothAsked
<1>4. ~Stopping(r)
  BY <1>1 DEF Stopping, Has
<1> QED BY <1>3, <1>4 DEF r

(* The thread takes one. *)
LEMMA TakenNone ==
    ASSUME NEW q \in Seq(Orders), q # <<>>, Head(q) # "disconnect", NoneAsked(q)
    PROVE  NoneAsked(Tail(q)) /\ Head(q) \notin Leavish
<1> DEFINE r == Tail(q)
<1>1. /\ DOMAIN r = 1..(Len(q) - 1) /\ \A i \in 1..(Len(q) - 1) : r[i] = q[i + 1]
      /\ Head(q) = q[1] /\ DOMAIN q = 1..Len(q) /\ Len(q) \in Nat /\ Len(q) > 0
  BY TailFits
<1> HIDE DEF r
<1>2. ASSUME NEW i \in DOMAIN r, \A j \in 1..i : r[j] # "disconnect" PROVE r[i] \notin Leavish
  <2>1. ASSUME NEW j \in 1..(i + 1) PROVE q[j] # "disconnect"
    <3>1. CASE j = 1
      BY <3>1, <1>1
    <3>2. CASE j # 1
      <4>1. j - 1 \in 1..i /\ j - 1 \in 1..(Len(q) - 1) /\ r[j - 1] = q[j]
        BY <3>2, <2>1, <1>1
      <4> QED BY <4>1, <1>2
    <3> QED BY <3>1, <3>2
  <2>2. i + 1 \in DOMAIN q /\ r[i] = q[i + 1]
    BY <1>1
  <2> QED BY <2>1, <2>2 DEF NoneAsked
<1>3. Head(q) \notin Leavish
  <2>1. 1 \in DOMAIN q /\ \A j \in 1..1 : q[j] # "disconnect"
    BY <1>1
  <2> QED BY <2>1, <1>1 DEF NoneAsked
<1> QED BY <1>2, <1>3 DEF NoneAsked, r

LEMMA TakenOne ==
    ASSUME NEW q \in Seq(Orders), q # <<>>, ~Stopping(q), NEW k \in Leavish, OneAsked(q, k)
    PROVE  IF Head(q) = k THEN NoneAsked(Tail(q))
           ELSE OneAsked(Tail(q), k) /\ Head(q) \notin Leavish
<1> DEFINE r == Tail(q)
<1>1. /\ DOMAIN r = 1..(Len(q) - 1) /\ \A i \in 1..(Len(q) - 1) : r[i] = q[i + 1]
      /\ Head(q) = q[1] /\ DOMAIN q = 1..Len(q) /\ Len(q) \in Nat /\ Len(q) > 0
  BY TailFits
<1> HIDE DEF r
<1>2. PICK n \in 1..Len(q) : q[n] = k /\ \A j \in 1..Len(q) : j # n => q[j] \notin Leavish
  BY <1>1 DEF OneAsked
<1>3. CASE n = 1
  <2>1. \A i \in 1..(Len(q) - 1) : r[i] \notin Leavish
    BY <1>1, <1>2, <1>3
  <2> QED BY <1>1, <1>2, <1>3, <2>1 DEF NoneAsked, r
<1>4. CASE n # 1
  <2>1. n - 1 \in DOMAIN r /\ r[n - 1] = k /\ \A j \in DOMAIN r : j # n - 1 => r[j] \notin Leavish
    BY <1>1, <1>2, <1>4
  <2>2. q[1] \notin Leavish
    BY <1>1, <1>2, <1>4
  <2> QED BY <1>1, <2>1, <2>2 DEF OneAsked, r
<1> QED BY <1>3, <1>4

LEMMA TakenBoth ==
    ASSUME NEW q \in Seq(Orders), q # <<>>, BothAsked(q)
    PROVE  /\ Head(q) # "cancel"
           /\ Head(q) = "leave" => OneAsked(Tail(q), "cancel")
           /\ Head(q) # "leave" => BothAsked(Tail(q)) /\ Head(q) \notin Leavish
<1> DEFINE r == Tail(q)
<1>1. /\ DOMAIN r = 1..(Len(q) - 1) /\ \A i \in 1..(Len(q) - 1) : r[i] = q[i + 1]
      /\ Head(q) = q[1] /\ DOMAIN q = 1..Len(q) /\ Len(q) \in Nat /\ Len(q) > 0
  BY TailFits
<1> HIDE DEF r
<1>2. PICK m \in 1..Len(q), n \in 1..Len(q) :
          /\ m < n /\ q[m] = "leave" /\ q[n] = "cancel"
          /\ \A j \in 1..Len(q) : j # m /\ j # n => q[j] \notin Leavish
  BY <1>1 DEF BothAsked
<1>3. CASE m = 1
  <2>1. n - 1 \in DOMAIN r /\ r[n - 1] = "cancel"
        /\ \A j \in DOMAIN r : j # n - 1 => r[j] \notin Leavish
    BY <1>1, <1>2, <1>3
  <2> QED BY <1>1, <1>2, <1>3, <2>1 DEF OneAsked, r
<1>4. CASE m # 1
  <2>1. /\ m - 1 \in DOMAIN r /\ n - 1 \in DOMAIN r /\ m - 1 < n - 1
        /\ r[m - 1] = "leave" /\ r[n - 1] = "cancel"
    BY <1>1, <1>2, <1>4
  <2>4. ASSUME NEW j \in DOMAIN r, j # m - 1, j # n - 1 PROVE r[j] \notin Leavish
    <3>1. j + 1 \in 1..Len(q) /\ j + 1 # m /\ j + 1 # n /\ r[j] = q[j + 1]
      BY <1>1, <2>4
    <3> QED BY <3>1, <1>2
  <2>2. q[1] \notin Leavish
    BY <1>1, <1>2, <1>4
  <2>3. BothAsked(r)
    BY <2>1, <2>4 DEF BothAsked
  <2> QED BY <1>1, <2>2, <2>3 DEF Leavish, r
<1> QED BY <1>3, <1>4

-----------------------------------------------------------------------------
(* Types. *)

Thread3 == [phase : Phases, leaveSent : BOOLEAN, cancelSent : BOOLEAN]

LEMMA EmptyFits ==
    /\ <<>> \in Seq(Orders) /\ <<>> \in Seq(News)
    /\ <<>> \in Seq(Questions) /\ <<>> \in Seq(Answers)
  OBVIOUS

LEMMA StartTypes ==
    ASSUME SessionTypeOK, NEW c \in Clients, StartSession(c)
    PROVE  /\ client' \in Clients /\ thread' \in Thread3
           /\ commands' \in Seq(Orders) /\ events' \in Seq(News)
           /\ up' \in Seq(Questions) /\ down' \in Seq(Answers)
           /\ server' \in {"closed", "hello", "character", "world", "leaving"}
           /\ stale' \in BOOLEAN /\ lost' \in BOOLEAN /\ offended' \in BOOLEAN
<1>1. CASE client' = [c EXCEPT !.state = "Connecting", !.link = TRUE, !.outbound = TRUE]
           /\ thread' = Fresh /\ commands' = <<>> /\ events' = <<>> /\ up' = <<>> /\ down' = <<>>
           /\ server' = "closed" /\ stale' = FALSE /\ lost' = FALSE /\ offended' = FALSE
  <2>1. client' \in Clients
    BY <1>1 DEF Clients, States
  <2>2. thread' \in Thread3
    BY <1>1 DEF Thread3, Fresh, Phases
  <2> QED BY <1>1, <2>1, <2>2, EmptyFits
<1>2. CASE client' = [c EXCEPT !.state = "Rejected", !.form = NoForm] /\ NotDialled
  <2>1. client' \in Clients
    BY <1>2 DEF Clients, States
  <2> QED BY <1>2, <2>1 DEF NotDialled, SessionTypeOK, netVars, historyVars, Thread3
<1> QED BY <1>1, <1>2 DEF StartSession

LEMMA InitTypes == SessionInit => SessionTypeOK
<1> SUFFICES ASSUME SessionInit PROVE SessionTypeOK
  OBVIOUS
<1> USE ClientSessionAssumption
<1>1. client \in Clients
  BY DEF SessionInit, Started, Clients, States
<1>2. thread \in Thread3
  BY DEF SessionInit, Fresh, NoThread, Thread3, Phases
<1>3. route \in Routes \cup {NoRoute}
  BY DEF SessionInit, Routes
<1>4. launch \in {"list", "server", "account"}
  BY DEF SessionInit
<1> QED BY <1>1, <1>2, <1>3, <1>4, EmptyFits DEF SessionInit, SessionTypeOK, Thread3

LEMMA DialTypes == SessionTypeOK /\ Dial => SessionTypeOK'
<1> SUFFICES ASSUME SessionTypeOK, Dial PROVE SessionTypeOK'
  OBVIOUS
<1>1. client \in Clients
  BY DEF SessionTypeOK
<1>2. [client EXCEPT !.rejoining = FALSE] \in Clients /\ Consumed(client) \in Clients
  BY <1>1 DEF Clients, Consumed
<1>3. NoRejoin(client) \in Clients
  BY <1>1 DEF Clients, NoRejoin, States
<1>4. CASE RejoinForACharacter
  <2>1. CASE client' \in {NoRejoin(client), client} /\ NotDialled /\ UNCHANGED asked
             /\ turn' = "dial" /\ UNCHANGED <<launch, route>>
    BY <2>1, <1>1, <1>3 DEF NotDialled, SessionTypeOK, netVars, historyVars
  <2>2. CASE asked' = TRUE /\ NotDialled /\ UNCHANGED client
             /\ turn' = "dial" /\ UNCHANGED <<launch, route>>
    BY <2>2 DEF NotDialled, SessionTypeOK, netVars, historyVars
  <2>3. CASE StartSession([client EXCEPT !.rejoining = FALSE]) /\ UNCHANGED asked
             /\ turn' = "dial" /\ UNCHANGED <<launch, route>>
    BY <2>3, <1>2, StartTypes DEF SessionTypeOK, Thread3
  <2> QED BY <1>4, <2>1, <2>2, <2>3 DEF RejoinForACharacter
<1>5. CASE ReconnectOnRequest
  <2>1. CASE route = "row"
    BY <1>5, <2>1 DEF ReconnectOnRequest, NotDialled, SessionTypeOK, netVars, historyVars
  <2>2. CASE route # "row"
    BY <1>1, <1>5, <2>2, StartTypes DEF ReconnectOnRequest, SessionTypeOK, Thread3
  <2> QED BY <2>1, <2>2
<1>6. CASE ConnectOnRequest
  BY <1>2, <1>6, StartTypes DEF ConnectOnRequest, SessionTypeOK, Thread3, Routes
<1>7. CASE ConnectOnceSignedIn
  BY <1>1, <1>7, StartTypes DEF ConnectOnceSignedIn, SessionTypeOK, Thread3, Routes
<1> QED BY <1>4, <1>5, <1>6, <1>7 DEF Dial

(* An event is taken, and the rest is left. *)
LEMMA EventTypes ==
    ASSUME SessionTypeOK, NEW kind, Event(kind), client' \in Clients, turn' \in {"drain", "act"},
           commands' \in Seq(Orders)
    PROVE  SessionTypeOK'
<1>1. events' \in Seq(News)
  BY TailFits DEF SessionTypeOK, Event
<1> QED BY <1>1 DEF Event, SessionTypeOK, historyVars

LEMMA EndedTypes ==
    ASSUME NEW c \in Clients, NEW s \in States
    PROVE  Ended(c, s) \in Clients
  BY DEF Ended, Clients

LEMMA DrainTypes == SessionTypeOK /\ Drain => SessionTypeOK'
<1> SUFFICES ASSUME SessionTypeOK, Drain PROVE SessionTypeOK'
  OBVIOUS
<1>0. client \in Clients /\ commands \in Seq(Orders)
  BY DEF SessionTypeOK
<1>1. CASE DrainHandshaking
  <2>1. client' \in Clients
    BY <1>0, <1>1 DEF DrainHandshaking, Handled, Clients, States
  <2> QED BY <1>0, <1>1, <2>1, EventTypes DEF DrainHandshaking, Handled
<1>2. CASE DrainCharacters
  <2>1. Form(Refused(client.form)) \in Forms
    BY DEF Form, Refused, Forms
  <2>2. client' \in Clients
    BY <1>0, <1>2, <2>1 DEF DrainCharacters, Handled, Clients, States
  <2> QED BY <1>0, <1>2, <2>2, EventTypes DEF DrainCharacters, Handled
<1>3. CASE DrainEstablished
  <2>1. client' \in Clients
    BY <1>0, <1>3 DEF DrainEstablished, Handled, Clients, States
  <2> QED BY <1>0, <1>3, <2>1, EventTypes DEF DrainEstablished, Handled
<1>4. CASE DrainLeaving
  <2>1. client' \in Clients
    BY <1>0, <1>4 DEF DrainLeaving, Handled, Clients, States
  <2> QED BY <1>0, <1>4, <2>1, EventTypes DEF DrainLeaving, Handled
<1>5. CASE DrainLeaveAccepted
  <2>1. CASE client.suspended
    <3>1. client' \in Clients
      BY <1>0, <1>5, <2>1 DEF DrainLeaveAccepted, Resumed, Clients, States
    <3> QED BY <1>0, <1>5, <2>1, <3>1, EventTypes DEF DrainLeaveAccepted
  <2>2. CASE ~client.suspended
    <3>1. client' \in Clients
      BY <1>0, <1>5, <2>2 DEF DrainLeaveAccepted, Ended, Clients, States
    <3>2. commands' \in Seq(Orders)
      BY <1>0, <1>5, <2>2, AppendFits DEF DrainLeaveAccepted, Orders
    <3> QED BY <1>5, <2>2, <3>1, <3>2, EventTypes DEF DrainLeaveAccepted
  <2> QED BY <2>1, <2>2
<1>6. CASE DrainNameRefused
  <2>1. client' \in Clients
    <3>1. Ended(client, "Choosing") \in Clients /\ Ended(client, "Rejected") \in Clients
      BY <1>0, EndedTypes DEF States
    <3>2. CASE client.form # NoForm /\ client.form.attempted = "create"
      <4> DEFINE e == Ended(client, "Choosing")
      <4>1. e.form \in Forms
        BY <1>0, <3>2 DEF Ended, Clients
      <4>2. [e.form EXCEPT !.refused = TRUE] \in Forms
        BY <4>1 DEF Forms
      <4>3. client' = [e EXCEPT !.form = [e.form EXCEPT !.refused = TRUE], !.rejoining = TRUE]
        BY <1>6, <3>2 DEF DrainNameRefused, Handled
      <4> HIDE DEF e
      <4>4. e \in Clients
        BY <3>1 DEF e
      <4> QED BY <4>2, <4>3, <4>4 DEF Clients
    <3>3. CASE ~(client.form # NoForm /\ client.form.attempted = "create")
      <4>1. client' = [Ended(client, "Rejected") EXCEPT !.form = NoForm]
        BY <1>6, <3>3 DEF DrainNameRefused, Handled
      <4> QED BY <3>1, <4>1 DEF Clients
    <3> QED BY <3>2, <3>3
  <2> QED BY <1>0, <1>6, <2>1, EventTypes DEF DrainNameRefused, Handled
<1>7. CASE DrainRefused
  <2>1. client' \in Clients
    <3>1. Ended(client, "Rejected") \in Clients
      BY <1>0, EndedTypes DEF States
    <3> QED BY <1>7, <3>1 DEF DrainRefused, Handled, Clients
  <2> QED BY <1>0, <1>7, <2>1, EventTypes DEF DrainRefused, Handled
<1>8. CASE DrainEnded
  <2>1. client' \in Clients
    <3>1. Ended(client, "Disconnected") \in Clients /\ Ended(client, client.state) \in Clients
      BY <1>0, EndedTypes DEF States, Clients
    <3> QED BY <1>8, <3>1 DEF DrainEnded, Handled, Clients
  <2> QED BY <1>0, <1>8, <2>1, EventTypes DEF DrainEnded, Handled
<1>9. CASE DrainEmpty
  BY <1>9 DEF DrainEmpty, SessionTypeOK, netVars, historyVars
<1>10. CASE DrainClosed
  <2>1. client' \in Clients
    <3>1. Ended(client, "Disconnected") \in Clients
      BY <1>0, EndedTypes DEF States
    <3> QED BY <1>0, <1>10, <3>1 DEF DrainClosed, Clients
  <2> QED BY <1>10, <2>1 DEF DrainClosed, SessionTypeOK, netVars, historyVars
<1> QED BY <1>1, <1>2, <1>3, <1>4, <1>5, <1>6, <1>7, <1>8, <1>9, <1>10 DEF Drain

LEMMA AskTypes ==
    ASSUME SessionTypeOK, NEW x \in Orders, Asks(x), client' \in Clients
    PROVE  SessionTypeOK'
<1>1. commands' \in Seq(Orders)
  BY AppendFits DEF Asks, SessionTypeOK
<1> QED BY <1>1 DEF Asks, SessionTypeOK, historyVars

LEMMA ActTypes == SessionTypeOK /\ Act => SessionTypeOK'
<1> SUFFICES ASSUME SessionTypeOK, Act PROVE SessionTypeOK'
  OBVIOUS
<1>0. client \in Clients /\ Picks \cup {"cancel", "leave", "disconnect"} \subseteq Orders
  BY DEF SessionTypeOK, Picks, Orders
<1>1. CASE SendCharacterChoice
  <2>1. PICK attempt \in Picks : Asks(attempt)
            /\ client' = [client EXCEPT !.form = [answered |-> TRUE, attempted |-> attempt,
                                                  refused |-> FALSE]]
    BY <1>1 DEF SendCharacterChoice, Picks
  <2>2. client' \in Clients
    BY <1>0, <2>1 DEF Clients, Forms, Picks
  <2> QED BY <1>0, <2>1, <2>2, AskTypes
<1>2. CASE CancelLeaveOnRequest
  <2>1. client' \in Clients
    BY <1>0, <1>2 DEF CancelLeaveOnRequest, Clients
  <2> QED BY <1>0, <1>2, <2>1, AskTypes DEF CancelLeaveOnRequest
<1>3. CASE DisconnectOnRequest
  <2>1. CASE client.state = "Connected"
    <3>2. client.suspended \in BOOLEAN /\ client.outbound \in BOOLEAN
      BY <1>0 DEF Clients
    <3> DEFINE kept == client.suspended \/ client.outbound
    <3>3. kept \in BOOLEAN
      BY <3>2
    <3>4. client' = [client EXCEPT !.rejoining = TRUE, !.form = NoForm, !.suspended = kept,
                                   !.outbound = FALSE, !.cancellation = "available",
                                   !.state = "Leaving"]
      BY <1>3, <2>1 DEF DisconnectOnRequest
    <3> HIDE DEF kept
    <3>1. client' \in Clients
      BY <1>0, <3>3, <3>4 DEF Clients, States
    <3> QED BY <1>0, <1>3, <2>1, <3>1, AskTypes DEF DisconnectOnRequest
  <2>2. CASE client.state # "Connected"
    <3>4. client' = [client EXCEPT !.rejoining = TRUE, !.form = NoForm, !.session = FALSE,
                                   !.suspended = FALSE, !.cancellation = "none",
                                   !.state = "Disconnected"]
      BY <1>3, <2>2 DEF DisconnectOnRequest
    <3>1. client' \in Clients
      BY <1>0, <3>4 DEF Clients, States
    <3> QED BY <1>0, <1>3, <2>2, <3>1, AskTypes DEF DisconnectOnRequest
  <2> QED BY <2>1, <2>2
<1> QED BY <1>1, <1>2, <1>3 DEF Act

LEMMA ThreadTypes == SessionTypeOK /\ (Thread \/ Breaks) => SessionTypeOK'
<1> SUFFICES ASSUME SessionTypeOK, Thread \/ Breaks PROVE SessionTypeOK'
  OBVIOUS
<1>0. /\ thread \in Thread3 /\ commands \in Seq(Orders) /\ events \in Seq(News)
      /\ up \in Seq(Questions) /\ down \in Seq(Answers)
      /\ Picks \cup {"leave", "cancel"} \subseteq Questions
  BY DEF SessionTypeOK, Thread3, Picks, Questions
<1>a. /\ \A p \in Phases : [thread EXCEPT !.phase = p] \in Thread3
      /\ [thread EXCEPT !.leaveSent = TRUE] \in Thread3
      /\ [thread EXCEPT !.cancelSent = TRUE] \in Thread3
      /\ [thread EXCEPT !.cancelSent = FALSE, !.leaveSent = FALSE] \in Thread3
  BY <1>0 DEF Thread3
<1>b. {"awaitingCharacters", "gone", "choosing", "awaitingWelcome", "established"} \subseteq Phases
  BY DEF Phases
<1>c. \A x \in News : Append(events, x) \in Seq(News)
  BY <1>0, AppendFits
<1>1. CASE Connect
  <2>1. thread' \in Thread3
    BY <1>1, <1>a, <1>b DEF Connect
  <2>2. events' \in Seq(News)
    BY <1>1, <1>c DEF Connect, Report, News, Endings
  <2>3. up' \in Seq(Questions)
    <3>1. <<"hello">> \in Seq(Questions)
      BY DEF Questions
    <3> QED BY <1>0, <1>1, <3>1 DEF Connect
  <2> QED BY <1>1, <2>1, <2>2, <2>3 DEF Connect, SessionTypeOK, Thread3, frameVars, historyVars
<1>2. ASSUME NEW x, TakeCommand(x), thread' \in Thread3,
             up' = up \/ \E y \in Picks \cup {"leave", "cancel"} : up' = Append(up, y)
      PROVE  SessionTypeOK'
  <2>1. commands' \in Seq(Orders)
    BY <1>0, <1>2, TailFits DEF TakeCommand
  <2>2. up' \in Seq(Questions)
    <3>1. CASE up' = up
      BY <1>0, <3>1
    <3>2. ASSUME NEW y \in Picks \cup {"leave", "cancel"}, up' = Append(up, y)
          PROVE  up' \in Seq(Questions)
      <4>1. y \in Questions
        BY <1>0
      <4> QED BY <1>0, <3>2, <4>1, AppendFits
    <3> QED BY <1>2, <3>1, <3>2
  <2> QED BY <1>2, <2>1, <2>2 DEF TakeCommand, SessionTypeOK, Thread3, frameVars, historyVars
<1>3. CASE TakeDisconnect
  BY <1>2, <1>3, <1>a, <1>b DEF TakeDisconnect
<1>4. CASE TakeChoice
  <2>1. PICK x \in Picks : /\ TakeCommand(x)
                             /\ \/ thread' = [thread EXCEPT !.phase = "awaitingWelcome"]
                                   /\ up' = Append(up, x)
                                \/ UNCHANGED <<thread, up>>
    BY <1>4 DEF TakeChoice, Picks
  <2> QED BY <1>0, <1>2, <1>a, <1>b, <2>1
<1>5. CASE TakeLeave
  BY <1>0, <1>2, <1>5, <1>a DEF TakeLeave
<1>6. CASE TakeCancel
  BY <1>0, <1>2, <1>6, <1>a DEF TakeCancel
<1>7. CASE ReadFrame
  <2> DEFINE kind == Head(down)
             told == CASE kind = "welcome" -> <<"established">>
                       [] kind = "arrival" -> <<>>
                       [] OTHER -> <<kind>>
  <2>1. down # <<>> /\ down' = Tail(down)
    BY <1>7 DEF ReadFrame
  <2>2. kind \in Answers /\ down' \in Seq(Answers)
    BY <1>0, <2>1, TailFits
  <2>3. events \o told \in Seq(News)
    <3>1. told = <<>> \/ \E x \in News : told = <<x>>
      BY <2>2 DEF Answers, News, Endings
    <3> HIDE DEF told
    <3>2. <<>> \in Seq(News) /\ \A x \in News : <<x>> \in Seq(News)
      BY EmptyFits
    <3>3. told \in Seq(News)
      BY <3>1, <3>2
    <3> QED BY <1>0, <3>3
  <2>4. After(kind) \in Thread3
    BY <1>0, <1>a, <1>b, <2>2 DEF After, Answers
  <2>5. Failure \in News
    BY DEF Failure, News, Endings
  <2>6. \/ thread' = After(kind) /\ events' = events \o told /\ UNCHANGED offended
        \/ thread' = [thread EXCEPT !.phase = "gone"] /\ Report(Failure) /\ offended' = TRUE
    BY <1>7 DEF ReadFrame
  <2> HIDE DEF kind, told
  <2>7. thread' \in Thread3 /\ events' \in Seq(News) /\ offended' \in BOOLEAN
    <3>1. [thread EXCEPT !.phase = "gone"] \in Thread3
      BY <1>a, <1>b
    <3>2. Append(events, Failure) \in Seq(News) /\ offended \in BOOLEAN
      BY <1>c, <2>5 DEF SessionTypeOK
    <3> QED BY <2>3, <2>4, <2>6, <3>1, <3>2 DEF Report
  <2> QED BY <1>7, <2>2, <2>7 DEF ReadFrame, SessionTypeOK, Thread3, frameVars
<1>8. CASE PeerClosed
  BY <1>8, <1>a, <1>b, <1>c DEF PeerClosed, Report, News, Endings, SessionTypeOK, Thread3, frameVars,
     historyVars
<1>9. CASE Breaks
  <2>1. Failure \in News
    BY DEF Failure, News, Endings
  <2>2. thread' \in Thread3
    BY <1>9, <1>a, <1>b DEF Breaks
  <2>3. events' \in Seq(News)
    BY <1>0, <1>9, <1>c, <2>1 DEF Breaks
  <2> QED BY <1>9, <2>2, <2>3 DEF Breaks, SessionTypeOK, Thread3, frameVars, historyVars
<1> QED BY <1>1, <1>3, <1>4, <1>5, <1>6, <1>7, <1>8, <1>9 DEF Thread, Take

Serving == Serve \/ ServerReadsInput \/ ChangeWorld \/ ServerCloses

(* What has been written, and the arrival behind it. *)
LEMMA WrittenFits ==
    ASSUME SessionTypeOK, NEW n \in 0..Len(down), NEW q, q = Append(SubSeq(down, 1, n), "arrival")
    PROVE  /\ q \in Seq(Answers) /\ DOMAIN q = 1..(n + 1) /\ Len(q) = n + 1 /\ n \in Nat
           /\ \A i \in 1..n : q[i] = down[i] /\ i \in DOMAIN down
           /\ q[n + 1] = "arrival"
<1> DEFINE s == SubSeq(down, 1, n)
<1>1. down \in Seq(Answers) /\ Len(down) \in Nat /\ DOMAIN down = 1..Len(down)
  BY DEF SessionTypeOK
<1>2. s \in Seq(Answers) /\ Len(s) = n /\ \A i \in 1..n : s[i] = down[i]
  BY <1>1
<1>3. "arrival" \in Answers
  BY DEF Answers
<1> HIDE DEF s
<1>4. q = Append(s, "arrival")
  BY DEF s
<1> QED BY <1>1, <1>2, <1>3, <1>4, AppendFits

LEMMA ServingTypes == SessionTypeOK /\ Serving => SessionTypeOK'
<1> SUFFICES ASSUME SessionTypeOK, Serving PROVE SessionTypeOK'
  OBVIOUS
<1>0. up \in Seq(Questions) /\ down \in Seq(Answers)
  BY DEF SessionTypeOK
<1>1. \A x \in Answers : down \o <<x>> \in Seq(Answers)
  BY <1>0
<1>2. ASSUME NEW p, NEW K, ServerReads(p, K), down' = down \/ \E x \in Answers : Send(<<x>>),
             server' \in {"closed", "hello", "character", "world", "leaving"},
             stale' \in BOOLEAN, lost' \in BOOLEAN, offended' \in BOOLEAN
      PROVE  SessionTypeOK'
  <2>1. up' \in Seq(Questions)
    BY <1>0, <1>2, TailFits DEF ServerReads
  <2>2. down' \in Seq(Answers)
    BY <1>0, <1>1, <1>2 DEF Send
  <2> QED BY <1>2, <2>1, <2>2 DEF ServerReads, SessionTypeOK, frameVars
<1>3. stale \in BOOLEAN /\ lost \in BOOLEAN /\ offended \in BOOLEAN
  BY DEF SessionTypeOK
<1>4. CASE ServerReadsHello
  BY <1>2, <1>3, <1>4 DEF ServerReadsHello, Answers, historyVars
<1>5. CASE ServerReadsChoice
  BY <1>2, <1>3, <1>5 DEF ServerReadsChoice, Answers, historyVars
<1>6. CASE ServerDropsStale
  BY <1>2, <1>3, <1>6 DEF ServerDropsStale, ServerReads
<1>7. CASE ServerReadsLeave
  BY <1>2, <1>3, <1>7 DEF ServerReadsLeave, Answers, historyVars
<1>8. CASE ServerReadsStrayCancel
  BY <1>2, <1>3, <1>8 DEF ServerReadsStrayCancel
<1>9. CASE ServerReadsCancel
  BY <1>2, <1>3, <1>9 DEF ServerReadsCancel, Answers, historyVars
<1>10. CASE ServerReadsInput
  BY <1>10 DEF ServerReadsInput, SessionTypeOK, frameVars, historyVars
<1>11. CASE ChangeWorld
  <2>1. PICK n \in 0..Len(down) : /\ down' = Append(SubSeq(down, 1, n), "arrival")
                                  /\ lost' = (lost \/ n < Len(down))
    BY <1>11 DEF ChangeWorld
  <2>2. down' \in Seq(Answers)
    BY <2>1, WrittenFits
  <2>3. lost' \in BOOLEAN
    BY <1>3, <2>1
  <2> QED BY <1>11, <2>2, <2>3 DEF ChangeWorld, SessionTypeOK, frameVars
<1>12. CASE ServerCloses
  BY <1>12 DEF ServerCloses, SessionTypeOK, frameVars, historyVars
<1> QED BY <1>4, <1>5, <1>6, <1>7, <1>8, <1>9, <1>10, <1>11, <1>12 DEF Serving, Serve

LEMMA TypesStay == SessionTypeOK /\ [SessionNext]_sessionVars => SessionTypeOK'
<1> SUFFICES ASSUME SessionTypeOK, [SessionNext]_sessionVars PROVE SessionTypeOK'
  OBVIOUS
<1>1. CASE SessionNext
  BY <1>1, DialTypes, DrainTypes, ActTypes, ThreadTypes, ServingTypes DEF SessionNext, Serving
<1>2. CASE UNCHANGED sessionVars
  BY <1>2 DEF SessionTypeOK, sessionVars, netVars, frameVars, historyVars
<1> QED BY <1>1, <1>2

-----------------------------------------------------------------------------
(* The connection. *)

LEMMA AnsweringTail ==
    ASSUME NEW q \in Seq(Answers), q # <<>>, Answering(q)
    PROVE  /\ Answering(Tail(q))
           /\ Head(q) = "leaving" => ~Has(Tail(q), "leaving")
           /\ Head(q) = "accepted" => ~Has(Tail(q), "leaving") /\ ~Has(Tail(q), "accepted")
<1> DEFINE r == Tail(q)
<1>1. /\ DOMAIN r = 1..(Len(q) - 1) /\ \A i \in 1..(Len(q) - 1) : r[i] = q[i + 1]
      /\ Head(q) = q[1] /\ DOMAIN q = 1..Len(q) /\ Len(q) \in Nat /\ Len(q) > 0
  BY TailFits
<1> HIDE DEF r
<1>2. ASSUME NEW i \in DOMAIN r, NEW j \in DOMAIN r, i < j
      PROVE  /\ r[i] = "leaving" => r[j] # "leaving"
             /\ r[i] = "accepted" => r[j] \notin {"leaving", "accepted"}
  <2>1. i + 1 \in DOMAIN q /\ j + 1 \in DOMAIN q /\ i + 1 < j + 1
    BY <1>1, <1>2
  <2>2. r[i] = q[i + 1] /\ r[j] = q[j + 1]
    BY <1>1
  <2> QED BY <2>1, <2>2 DEF Answering
<1>3. ASSUME NEW j \in DOMAIN r
      PROVE  /\ q[1] = "leaving" => r[j] # "leaving"
             /\ q[1] = "accepted" => r[j] \notin {"leaving", "accepted"}
  <2>1. 1 \in DOMAIN q /\ j + 1 \in DOMAIN q /\ 1 < j + 1 /\ r[j] = q[j + 1]
    BY <1>1
  <2> QED BY <2>1 DEF Answering
<1> QED BY <1>1, <1>2, <1>3 DEF Answering, Has, r

LEMMA AnsweringAppend ==
    ASSUME NEW q \in Seq(Answers), Answering(q), NEW x \in Answers,
           x = "leaving" => ~Has(q, "leaving") /\ ~Has(q, "accepted"),
           x = "accepted" => ~Has(q, "accepted")
    PROVE  Answering(Append(q, x))
<1> DEFINE r == Append(q, x)
<1>1. /\ DOMAIN r = 1..(Len(q) + 1) /\ \A i \in 1..Len(q) : r[i] = q[i]
      /\ r[Len(q) + 1] = x /\ DOMAIN q = 1..Len(q) /\ Len(q) \in Nat
  BY AppendFits
<1> HIDE DEF r
<1>2. ASSUME NEW i \in DOMAIN r, NEW j \in DOMAIN r, i < j
      PROVE  /\ r[i] = "leaving" => r[j] # "leaving"
             /\ r[i] = "accepted" => r[j] \notin {"leaving", "accepted"}
  <2>1. i \in DOMAIN q /\ r[i] = q[i]
    BY <1>1, <1>2
  <2>2. CASE j \in DOMAIN q
    <3>1. r[j] = q[j]
      BY <1>1, <2>2
    <3> QED BY <1>2, <2>1, <2>2, <3>1 DEF Answering
  <2>3. CASE j = Len(q) + 1
    BY <2>1, <2>3, <1>1 DEF Has
  <2> QED BY <1>1, <2>2, <2>3
<1> QED BY <1>2 DEF Answering, r

(* What the queue to the server can be, by its first frame. *)
LEMMA UpShape ==
    ASSUME UpFits, SessionTypeOK, up # <<>>
    PROVE  /\ Head(up) = "hello" => up = <<"hello">> /\ ~thread.leaveSent
           /\ Head(up) \in Picks => up \in Chosen /\ ~thread.leaveSent
           /\ Head(up) = "leave" => \/ up = <<"leave">> /\ Sent(TRUE, FALSE)
                                    \/ up = <<"leave", "cancel">> /\ Sent(TRUE, TRUE)
           /\ Head(up) = "cancel" => up = <<"cancel">> /\ Sent(TRUE, TRUE)
<1>1. /\ Head(<<"hello">>) = "hello" /\ Head(<<"play">>) = "play" /\ Head(<<"create">>) = "create"
      /\ Head(<<"leave">>) = "leave" /\ Head(<<"leave", "cancel">>) = "leave"
      /\ Head(<<"cancel">>) = "cancel"
  BY Short
<1>2. thread.leaveSent \in BOOLEAN /\ thread.cancelSent \in BOOLEAN
  BY DEF SessionTypeOK
<1>3. CASE ~thread.leaveSent
  <2>1. up \in {<<"hello">>, <<"play">>, <<"create">>}
    BY <1>3 DEF UpFits, Chosen
  <2> QED BY <1>1, <1>3, <2>1 DEF Picks, Chosen
<1>4. CASE Sent(TRUE, FALSE)
  <2>1. up = <<"leave">>
    BY <1>4 DEF UpFits
  <2> QED BY <1>1, <1>4, <2>1 DEF Picks
<1>5. CASE Sent(TRUE, TRUE)
  <2>1. up \in {<<"cancel">>, <<"leave", "cancel">>}
    BY <1>5 DEF UpFits
  <2> QED BY <1>1, <1>5, <2>1 DEF Picks
<1> QED BY <1>2, <1>3, <1>4, <1>5 DEF Sent

LEMMA ConnectionKept ==
    ASSUME Connection, UNCHANGED <<thread, up, down, server, lost, offended>>,
           Has(events', "leaving") => Has(events, "leaving")
    PROVE  Connection'
<1>1. UpFits'
  BY DEF Connection, UpFits, Alive, Sent
<1>2. DownFits'
  BY DEF Connection, DownFits, Alive
<1>3. Handshake' /\ Agreed'
  BY DEF Connection, Handshake, Agreed, Alive, Sent
<1> QED BY <1>1, <1>2, <1>3 DEF Connection

LEMMA ConnectionFresh ==
    ASSUME thread' \in {Fresh, NoThread}, up' = <<>>, down' = <<>>, server' = "closed",
           lost' = FALSE, offended' = FALSE
    PROVE  Connection'
<1>1. ~thread'.leaveSent /\ ~thread'.cancelSent /\ thread'.phase \in {"connecting", "gone"}
  BY DEF Fresh, NoThread
<1>2. \A k : ~Has(down', k)
  BY DEF Has
<1>3. Answering(down')
  BY DEF Answering
<1>4. up' # <<"hello">> /\ up' \notin Chosen /\ up' \notin WithLeave /\ up' # <<"cancel">>
  BY Short DEF Chosen, WithLeave
<1>5. UpFits'
  BY <1>1, <1>4 DEF UpFits, Sent
<1>6. DownFits'
  BY <1>2, <1>3 DEF DownFits
<1>7. Handshake'
  BY <1>1 DEF Handshake
<1>8. Agreed'
  BY <1>1, <1>4 DEF Agreed, Sent
<1> QED BY <1>5, <1>6, <1>7, <1>8 DEF Connection

(* The thread has gone, whatever it was doing. *)
LEMMA ConnectionGone ==
    ASSUME SessionTypeOK, Connection, thread' = [thread EXCEPT !.phase = "gone"],
           UNCHANGED <<up, server, lost>>, offended' => offended \/ lost,
           down' = down \/ (down # <<>> /\ down' = Tail(down))
    PROVE  Connection'
<1>1. /\ thread'.phase = "gone" /\ thread'.leaveSent = thread.leaveSent
      /\ thread'.cancelSent = thread.cancelSent /\ ~Alive'
  BY DEF SessionTypeOK, Alive
<1>2. Answering(down') /\ \A k : Has(down', k) => Has(down, k)
  <2>1. CASE down' = down
    BY <2>1 DEF Connection, DownFits
  <2>2. CASE down # <<>> /\ down' = Tail(down)
    <3>1. down \in Seq(Answers) /\ Answering(down)
      BY DEF SessionTypeOK, Connection, DownFits
    <3> QED BY <2>2, <3>1, AnsweringTail, HasTail
  <2> QED BY <2>1, <2>2
<1>3. UpFits'
  BY <1>1 DEF Connection, UpFits, Sent
<1>4. DownFits'
  BY <1>1, <1>2 DEF Connection, DownFits
<1>5. Handshake'
  BY <1>1 DEF Handshake
<1>6. Agreed'
  BY <1>1 DEF Connection, Agreed, Sent
<1> QED BY <1>3, <1>4, <1>5, <1>6 DEF Connection

LEMMA SentFits ==
    ASSUME SessionTypeOK, NEW x \in Answers, down' = down \o <<x>>
    PROVE  /\ down' = Append(down, x)
           /\ \A k : Has(down', k) <=> Has(down, k) \/ x = k
<1>1. down \in Seq(Answers)
  BY DEF SessionTypeOK
<1>2. down' = Append(down, x)
  BY <1>1
<1>3. \A k : Has(Append(down, x), k) <=> Has(down, k) \/ x = k
  BY <1>1, HasAppend
<1> QED BY <1>2, <1>3

LEMMA ConnectionServed == SessionTypeOK /\ Connection /\ Serving => Connection'
<1> SUFFICES ASSUME SessionTypeOK, Connection, Serving PROVE Connection'
  OBVIOUS
<1> USE DEF Connection
<1>0. /\ down \in Seq(Answers) /\ thread.leaveSent \in BOOLEAN /\ thread.cancelSent \in BOOLEAN
      /\ Answering(down)
  BY DEF SessionTypeOK, DownFits
<1>s. /\ Tail(<<"hello">>) = <<>> /\ Tail(<<"play">>) = <<>> /\ Tail(<<"create">>) = <<>>
      /\ Tail(<<"leave">>) = <<>> /\ Tail(<<"cancel">>) = <<>>
      /\ Tail(<<"leave", "cancel">>) = <<"cancel">>
  BY Short
<1>d. /\ \A x, y : <<x>> # <<>> /\ <<x, y>> # <<>>
      /\ <<"cancel">> \notin WithLeave \cup Chosen \cup {<<"hello">>}
      /\ <<>> \notin WithLeave \cup Chosen \cup {<<"hello">>, <<"cancel">>}
  BY Short DEF WithLeave, Chosen
<1>1. CASE ServerReadsHello
  <2>1. /\ up = <<"hello">> /\ up' = <<>> /\ ~thread.leaveSent /\ ~thread.cancelSent
        /\ server = "hello"
        /\ UNCHANGED <<thread, events, lost, offended>>
    BY <1>1, <1>s, <1>0, UpShape DEF ServerReadsHello, ServerReads, historyVars, UpFits
  <2>2. thread.phase \notin {"connecting", "choosing", "awaitingWelcome", "established"}
    BY <2>1, <1>d DEF Handshake
  <2>3. thread.phase = "awaitingCharacters" => down = <<>>
    BY <2>1, <1>d DEF Handshake
  <2>4. PICK x \in {"characters", "refused"} :
            /\ down' = down \o <<x>>
            /\ server' = IF x = "characters" THEN "character" ELSE "closed"
    BY <1>1 DEF ServerReadsHello, Send
  <2>5. \A k : Has(down', k) <=> Has(down, k) \/ x = k
    BY SentFits, <2>4 DEF Answers
  <2>6. Answering(down')
    BY AnsweringAppend, SentFits, <1>0, <2>4 DEF Answers
  <2>7. UpFits'
    BY <2>1, <2>4, <1>d DEF UpFits, Sent
  <2>8. DownFits'
    BY <2>1, <2>5, <2>6, <2>4 DEF DownFits
  <2>9. Handshake'
    <3>1. CASE thread.phase = "awaitingCharacters"
      <4>1. down' = <<x>>
        BY <3>1, <2>3, <2>4
      <4> QED BY <3>1, <4>1, <2>1, <2>4 DEF Handshake
    <3>2. CASE thread.phase # "awaitingCharacters"
      BY <3>2, <2>1, <2>2 DEF Handshake
    <3> QED BY <3>1, <3>2
  <2>10. Agreed'
    BY <2>1, <1>d DEF Agreed, Sent
  <2> QED BY <2>7, <2>8, <2>9, <2>10
<1>2. CASE ServerReadsChoice
  <2>1. /\ up \in Chosen /\ up' = <<>> /\ ~thread.leaveSent /\ ~thread.cancelSent
        /\ server = "character"
        /\ UNCHANGED <<thread, events, lost, offended>>
    BY <1>2, <1>s, <1>0, UpShape DEF ServerReadsChoice, ServerReads, historyVars, UpFits, Chosen,
       Picks
  <2>2. thread.phase \notin {"connecting", "awaitingCharacters", "choosing", "established"}
    BY <2>1, <1>d DEF Handshake, Chosen
  <2>3. thread.phase = "awaitingWelcome" => down = <<>>
    BY <2>1, <1>d DEF Handshake
  <2>4. PICK x \in {"welcome", "refused", "nameRefused"} :
            /\ down' = down \o <<x>>
            /\ server' = IF x = "welcome" THEN "world" ELSE "closed"
    BY <1>2 DEF ServerReadsChoice, Send
  <2>5. \A k : Has(down', k) <=> Has(down, k) \/ x = k
    BY SentFits, <2>4 DEF Answers
  <2>6. Answering(down')
    BY AnsweringAppend, SentFits, <1>0, <2>4 DEF Answers
  <2>7. UpFits'
    BY <2>1, <2>4, <1>d DEF UpFits, Sent
  <2>8. DownFits'
    BY <2>1, <2>5, <2>6, <2>4 DEF DownFits
  <2>9. Handshake'
    <3>1. CASE thread.phase = "awaitingWelcome"
      <4>1. down' = <<x>>
        BY <3>1, <2>3, <2>4
      <4>2. down' # <<>> /\ DOMAIN down' = {1} /\ down'[1] = x
        BY <4>1
      <4> QED BY <3>1, <4>1, <4>2, <2>1, <2>4 DEF Handshake
    <3>2. CASE thread.phase # "awaitingWelcome"
      BY <3>2, <2>1, <2>2 DEF Handshake
    <3> QED BY <3>1, <3>2
  <2>10. Agreed'
    BY <2>1, <1>d DEF Agreed, Sent
  <2> QED BY <2>7, <2>8, <2>9, <2>10
<1>3. CASE ServerDropsStale
  <2>1. /\ up' = Tail(up) /\ up # <<>> /\ Head(up) \in {"leave", "cancel"} /\ server = "world"
        /\ lost' = TRUE /\ UNCHANGED <<thread, events, down, server, offended>>
    BY <1>3 DEF ServerDropsStale, ServerReads
  <2>2. \/ Sent(TRUE, FALSE) /\ up' = <<>>
        \/ Sent(TRUE, TRUE) /\ up' \in {<<>>, <<"cancel">>}
    BY <2>1, <1>s, UpShape
  <2>3. UpFits'
    BY <2>1, <2>2, <1>d DEF UpFits, Sent
  <2>4. DownFits'
    BY <2>1, <2>2, <1>d DEF DownFits, Sent, Alive
  <2>5. Handshake'
    <3>1. thread.phase \in {"established", "gone"}
      BY <2>2 DEF Sent, UpFits
    <3> QED BY <2>1, <2>2, <3>1 DEF Handshake, Sent
  <2>6. Agreed'
    BY <2>1 DEF Agreed
  <2> QED BY <2>3, <2>4, <2>5, <2>6
<1>4. CASE ServerReadsLeave
  <2>1. /\ up' = Tail(up) /\ up # <<>> /\ Head(up) = "leave" /\ server = "world"
        /\ down' = down \o <<"leaving">> /\ server' = "leaving"
        /\ UNCHANGED <<thread, events, lost, offended>>
    BY <1>4 DEF ServerReadsLeave, ServerReads, historyVars, Send
  <2>2. /\ up \in WithLeave
        /\ \/ Sent(TRUE, FALSE) /\ up' = <<>>
           \/ Sent(TRUE, TRUE) /\ up' = <<"cancel">>
    BY <2>1, <1>s, UpShape DEF WithLeave
  <2>3. ~Has(down, "leaving") /\ ~Has(down, "accepted") /\ (Alive => ~Has(events, "leaving"))
    BY <2>2, <1>d DEF DownFits, UpFits
  <2>4. (\A k : Has(down', k) <=> Has(down, k) \/ k = "leaving") /\ down' = Append(down, "leaving")
    BY <2>1, SentFits DEF Answers
  <2>5. Answering(down')
    BY <2>3, <2>4, <1>0, AnsweringAppend DEF Answers
  <2>6. UpFits'
    BY <2>1, <2>2, <1>d DEF UpFits, Sent
  <2>7. DownFits'
    BY <2>1, <2>2, <2>3, <2>4, <2>5, <1>d DEF DownFits, Sent, Alive
  <2>8. Handshake'
    <3>1. thread.phase \in {"established", "gone"}
      BY <2>2 DEF Sent, UpFits
    <3>2. CASE thread.phase = "established"
      <4>1. Among(down', {"arrival", "leaving", "accepted"})
        BY <3>2, <2>4, <1>0, AmongAppend DEF Handshake, Answers
      <4> QED BY <3>2, <4>1, <2>1, <2>2 DEF Handshake, Sent
    <3> QED BY <2>1, <3>1, <3>2 DEF Handshake
  <2>9. Agreed'
    BY <2>1, <2>2, <1>d DEF Agreed, Sent
  <2> QED BY <2>6, <2>7, <2>8, <2>9
<1>5. CASE ServerReadsStrayCancel
  <2>1. /\ up' = Tail(up) /\ up # <<>> /\ Head(up) = "cancel" /\ server = "world"
        /\ server' = "closed" /\ UNCHANGED <<thread, events, down, lost>>
    BY <1>5 DEF ServerReadsStrayCancel, ServerReads
  <2>2. up = <<"cancel">> /\ Sent(TRUE, TRUE) /\ up' = <<>>
    BY <2>1, <1>s, UpShape
  <2>3. lost
    BY <2>1, <2>2 DEF Agreed
  <2>4. UpFits'
    BY <2>1, <2>2, <1>d DEF UpFits, Sent
  <2>5. DownFits'
    BY <2>1, <2>2, <1>d DEF DownFits, Alive
  <2>6. Handshake'
    <3>1. thread.phase \in {"established", "gone"}
      BY <2>2 DEF Sent, UpFits
    <3> QED BY <2>1, <2>2, <3>1 DEF Handshake, Sent
  <2>7. Agreed'
    BY <2>1, <2>3 DEF Agreed
  <2> QED BY <2>4, <2>5, <2>6, <2>7
<1>6. CASE ServerReadsCancel
  <2>1. /\ up' = Tail(up) /\ up # <<>> /\ Head(up) = "cancel" /\ server = "leaving"
        /\ UNCHANGED <<thread, events, lost, offended>>
    BY <1>6 DEF ServerReadsCancel, ServerReads, historyVars
  <2>2. up = <<"cancel">> /\ Sent(TRUE, TRUE) /\ up' = <<>>
    BY <2>1, <1>s, UpShape
  <2>3. ~Has(down, "accepted")
    BY <2>2, <1>d DEF DownFits
  <2>4. thread.phase \in {"established", "gone"}
    BY <2>2 DEF Sent, UpFits
  <2>5. CASE down' = down \o <<"accepted">> /\ server' = "world"
    <3>1. /\ \A k : Has(down', k) <=> Has(down, k) \/ k = "accepted"
          /\ down' = Append(down, "accepted")
      BY <2>5, SentFits DEF Answers
    <3>2. Answering(down')
      BY <2>3, <3>1, <1>0, AnsweringAppend DEF Answers
    <3>3. UpFits'
      BY <2>1, <2>2, <2>5, <1>d DEF UpFits, Sent
    <3>4. DownFits'
      BY <2>1, <2>2, <2>5, <3>1, <3>2, <1>d DEF DownFits, Sent, Alive
    <3>5. Handshake'
      <4>1. CASE thread.phase = "established"
        <5>1. Among(down', {"arrival", "leaving", "accepted"})
          BY <4>1, <3>1, <1>0, AmongAppend DEF Handshake, Answers
        <5> QED BY <4>1, <5>1, <2>1, <2>2, <2>5 DEF Handshake, Sent
      <4> QED BY <2>1, <2>4, <4>1 DEF Handshake
    <3>6. Agreed'
      BY <2>1, <2>2, <3>1, <1>d DEF Agreed, Sent
    <3> QED BY <3>3, <3>4, <3>5, <3>6
  <2>6. CASE server' = "closed" /\ down' = down
    <3>1. UpFits'
      BY <2>1, <2>2, <2>6, <1>d DEF UpFits, Sent
    <3>2. DownFits'
      BY <2>1, <2>2, <2>6, <1>d DEF DownFits, Alive
    <3>3. Handshake'
      BY <2>1, <2>2, <2>4, <2>6 DEF Handshake, Sent
    <3>4. Agreed'
      BY <2>1, <2>2, <2>6, <1>d DEF Agreed, Sent
    <3> QED BY <3>1, <3>2, <3>3, <3>4
  <2> QED BY <1>6, <2>5, <2>6 DEF ServerReadsCancel, Send
<1>7. CASE ServerReadsInput
  BY <1>7, ConnectionKept DEF ServerReadsInput, historyVars
<1>8. CASE ChangeWorld
  <2>1. PICK n \in 0..Len(down) : /\ down' = Append(SubSeq(down, 1, n), "arrival")
                                  /\ lost' = (lost \/ n < Len(down))
    BY <1>8 DEF ChangeWorld
  <2>2. server = "world" /\ UNCHANGED <<thread, events, up, server, offended>>
    BY <1>8 DEF ChangeWorld
  <2>3. /\ down' \in Seq(Answers) /\ DOMAIN down' = 1..(n + 1) /\ Len(down') = n + 1 /\ n \in Nat
        /\ \A i \in 1..n : down'[i] = down[i] /\ i \in DOMAIN down
        /\ down'[n + 1] = "arrival"
    BY <2>1, WrittenFits
  <2>4. DOMAIN down = 1..Len(down) /\ Len(down) \in Nat
    BY <1>0
  <2>5. ~lost' => n = Len(down) /\ ~lost
    <3>1. ~lost' => ~lost /\ ~(n < Len(down))
      BY <2>1
    <3>2. n \in 0..Len(down)
      OBVIOUS
    <3>3. ~(n < Len(down)) => n = Len(down)
      BY <3>2, <1>0
    <3> QED BY <3>1, <3>3
  <2>6. \A k : k # "arrival" => /\ Has(down', k) => Has(down, k)
                                /\ ~lost' /\ Has(down, k) => Has(down', k)
    <3> SUFFICES ASSUME NEW k, k # "arrival"
                 PROVE  /\ Has(down', k) => Has(down, k)
                        /\ ~lost' /\ Has(down, k) => Has(down', k)
      OBVIOUS
    <3>1. ASSUME NEW i \in DOMAIN down', down'[i] = k PROVE Has(down, k)
      BY <2>3, <3>1 DEF Has
    <3>2. ASSUME ~lost', NEW i \in DOMAIN down, down[i] = k PROVE Has(down', k)
      <4>1. i \in 1..n /\ i \in 1..(n + 1)
        BY <2>3, <2>4, <2>5, <3>2
      <4> QED BY <2>3, <3>2, <4>1 DEF Has
    <3> QED BY <3>1, <3>2 DEF Has
  <2>7. Answering(down')
    <3>1. ASSUME NEW i \in DOMAIN down', NEW j \in DOMAIN down', i < j
          PROVE  /\ down'[i] = "leaving" => down'[j] # "leaving"
                 /\ down'[i] = "accepted" => down'[j] \notin {"leaving", "accepted"}
      <4>1. i \in 1..n
        BY <3>1, <2>3
      <4>2. CASE j \in 1..n
        BY <4>1, <4>2, <3>1, <2>3, <1>0 DEF Answering
      <4>3. CASE j = n + 1
        BY <4>3, <2>3
      <4> QED BY <4>2, <4>3, <2>3
    <3> QED BY <3>1 DEF Answering
  <2>8. UpFits'
    BY <2>2 DEF UpFits, Sent, Alive
  <2>9. DownFits'
    BY <2>2, <2>6, <2>7 DEF DownFits, Alive
  <2>10. Handshake'
    <3>1. thread.phase \in {"awaitingWelcome", "established", "gone"} \/ thread.phase \notin Phases
      BY <2>2 DEF Handshake, Phases
    <3>2. CASE thread.phase = "awaitingWelcome"
      <4>1. /\ up = <<>>
            /\ ~lost => down # <<>> /\ down[1] = "welcome"
            /\ \A i \in DOMAIN down :
                   down[i] \in {"welcome", "arrival"} /\ (i > 1 => down[i] = "arrival")
        BY <3>2, <2>2 DEF Handshake
      <4>2. ~lost' => down' # <<>> /\ down'[1] = "welcome"
        BY <4>1, <2>3, <2>4, <2>5
      <4>3. \A i \in DOMAIN down' :
                down'[i] \in {"welcome", "arrival"} /\ (i > 1 => down'[i] = "arrival")
        BY <4>1, <2>3
      <4> QED BY <3>2, <4>1, <4>2, <4>3, <2>2 DEF Handshake
    <3>3. CASE thread.phase = "established"
      <4>1. Among(down', {"arrival", "leaving", "accepted"})
        BY <3>3, <2>3, <2>4 DEF Handshake, Among
      <4> QED BY <3>3, <4>1, <2>2 DEF Handshake
    <3> QED BY <3>1, <3>2, <3>3, <2>2 DEF Handshake, Phases
  <2>11. Agreed'
    BY <2>2, <2>5, <2>6 DEF Agreed, Sent, Alive
  <2> QED BY <2>8, <2>9, <2>10, <2>11
<1>9. CASE ServerCloses
  <2>1. server' = "closed" /\ UNCHANGED <<thread, events, up, down, lost, offended>>
    BY <1>9 DEF ServerCloses, historyVars
  <2>2. UpFits' /\ DownFits'
    BY <2>1 DEF UpFits, DownFits, Sent, Alive
  <2>3. Handshake'
    BY <2>1 DEF Handshake
  <2>4. Agreed'
    BY <2>1 DEF Agreed, Sent, Alive
  <2> QED BY <2>2, <2>3, <2>4
<1> QED BY <1>1, <1>2, <1>3, <1>4, <1>5, <1>6, <1>7, <1>8, <1>9 DEF Serving, Serve

(* Whoever leaves anew has heard nothing of an earlier leave. *)
LEMMA LeaveUnheard ==
    ASSUME SessionTypeOK, LinkFits, LeaveFits, Alive, ~thread.leaveSent,
           commands # <<>>, Head(commands) = "leave"
    PROVE  Unheard
<1>0. commands \in Seq(Orders) /\ client.link
  BY DEF SessionTypeOK, LinkFits
<1>1. ~NoneAsked(commands)
  BY <1>0, TakenNone DEF Leavish
<1>2. client.state = "Leaving" /\ ~Stopping(commands) /\ (Waiting \/ Cancelling)
  BY <1>0, <1>1 DEF LeaveFits
<1>3. CASE Waiting
  BY <1>1, <1>3 DEF Waiting
<1>4. CASE Cancelling
  <2>1. (BothAsked(commands) /\ Unheard) \/ OneAsked(commands, "cancel")
    BY <1>1, <1>4 DEF Cancelling
  <2>2. ~OneAsked(commands, "cancel")
    BY <1>0, <1>2, TakenOne DEF Leavish
  <2> QED BY <2>1, <2>2
<1> QED BY <1>2, <1>3, <1>4

LEMMA ConnectionTakes ==
    ASSUME SessionTypeOK, LinkFits, LeaveFits, Connection, Connect \/ Take
    PROVE  Connection'
<1> USE DEF Connection
<1>0. /\ down \in Seq(Answers) /\ events \in Seq(News)
      /\ thread.leaveSent \in BOOLEAN /\ thread.cancelSent \in BOOLEAN /\ Answering(down)
      /\ thread \in Thread3
  BY DEF SessionTypeOK, DownFits, Thread3
<1>d. /\ \A x, y : <<x>> # <<>> /\ <<x, y>> # <<>>
      /\ <<"cancel">> \notin WithLeave \cup Chosen \cup {<<"hello">>}
      /\ <<>> \notin WithLeave \cup Chosen \cup {<<"hello">>, <<"cancel">>}
      /\ <<"leave", "cancel">> \notin Chosen \cup {<<"hello">>, <<"cancel">>}
      /\ <<"leave">> \notin Chosen \cup {<<"hello">>, <<"cancel">>}
      /\ <<"hello">> \notin Chosen \cup WithLeave \cup {<<"cancel">>}
      /\ \A x \in Chosen : x \notin WithLeave \cup {<<"hello">>, <<"cancel">>, <<>>}
  BY Short DEF WithLeave, Chosen
<1>1. CASE Connect
  <2>1. /\ ~thread.leaveSent /\ ~thread.cancelSent /\ up = <<>> /\ down = <<>>
        /\ server = "closed"
    BY <1>0, <1>1 DEF Connect, Handshake, UpFits
  <2>2. \A k : ~Has(down, k)
    BY <2>1 DEF Has
  <2>3. CASE /\ thread' = [thread EXCEPT !.phase = "awaitingCharacters"]
             /\ up' = <<"hello">> /\ server' = "hello"
    <3>1. /\ thread'.phase = "awaitingCharacters" /\ ~thread'.leaveSent /\ ~thread'.cancelSent
          /\ UNCHANGED <<down, lost, offended>>
      BY <1>0, <1>1, <2>1, <2>3 DEF Thread3, Connect, historyVars
    <3>2. UpFits'
      BY <2>3, <3>1, <1>d DEF UpFits, Sent
    <3>3. DownFits'
      BY <2>2, <3>1 DEF DownFits
    <3>4. Handshake'
      BY <2>1, <2>3, <3>1 DEF Handshake
    <3>5. Agreed'
      BY <2>3, <3>1, <1>d DEF Agreed, Sent
    <3> QED BY <3>2, <3>3, <3>4, <3>5
  <2>4. CASE thread' = [thread EXCEPT !.phase = "gone"] /\ UNCHANGED <<up, server>>
    BY <2>4, <1>1, ConnectionGone DEF Connect, historyVars
  <2> QED BY <1>1, <2>3, <2>4 DEF Connect
<1>2. CASE TakeDisconnect
  BY <1>2, ConnectionGone DEF TakeDisconnect, TakeCommand, historyVars
<1>3. ASSUME NEW x, TakeCommand(x), UNCHANGED <<thread, up>> PROVE Connection'
  BY <1>3, ConnectionKept DEF TakeCommand, historyVars
<1>4. CASE TakeChoice
  <2>1. PICK x \in Picks :
            /\ TakeCommand(x)
            /\ IF thread.phase = "choosing"
               THEN thread' = [thread EXCEPT !.phase = "awaitingWelcome"] /\ up' = Append(up, x)
               ELSE UNCHANGED <<thread, up>>
    BY <1>4 DEF TakeChoice, Picks
  <2>2. CASE thread.phase = "choosing"
    <3>1. /\ ~thread.leaveSent /\ ~thread.cancelSent /\ up = <<>> /\ down = <<>>
          /\ server \in {"character", "closed"}
      BY <1>0, <2>2 DEF Handshake, UpFits
    <3>2. /\ thread'.phase = "awaitingWelcome" /\ ~thread'.leaveSent /\ ~thread'.cancelSent
          /\ UNCHANGED <<down, server, lost, offended>>
      BY <1>0, <2>1, <2>2, <3>1 DEF Thread3, TakeCommand, historyVars
    <3>3. up' \in Chosen
      BY <2>1, <2>2, <3>1, Short DEF Picks, Chosen
    <3>4. \A k : ~Has(down, k)
      BY <3>1 DEF Has
    <3>5. UpFits'
      BY <3>1, <3>2, <3>3, <1>d DEF UpFits, Sent
    <3>6. DownFits'
      BY <3>2, <3>4, <1>0 DEF DownFits
    <3>7. Handshake'
      BY <3>1, <3>2, <3>3 DEF Handshake
    <3>8. Agreed'
      BY <3>2, <3>3, <1>d DEF Agreed, Sent
    <3> QED BY <3>5, <3>6, <3>7, <3>8
  <2> QED BY <1>3, <2>1, <2>2
<1>5. CASE TakeLeave
  <2>1. CASE thread.phase = "established" /\ ~thread.leaveSent
    <3>1. /\ ~thread.cancelSent /\ up = <<>> /\ server \in {"world", "closed"}
      BY <1>0, <2>1 DEF Handshake, UpFits
    <3>2. /\ thread' = [thread EXCEPT !.leaveSent = TRUE] /\ up' = Append(up, "leave")
          /\ UNCHANGED <<events, down, server, lost, offended>>
          /\ commands # <<>> /\ Head(commands) = "leave"
      BY <1>5, <2>1 DEF TakeLeave, TakeCommand, historyVars
    <3>3. thread'.phase = "established" /\ thread'.leaveSent /\ ~thread'.cancelSent
      BY <1>0, <2>1, <3>1, <3>2 DEF Thread3
    <3>4. up' = <<"leave">>
      BY <3>1, <3>2, Short
    <3>5. ~Has(events, "leaving") /\ ~Has(down, "leaving") /\ ~Has(down, "accepted")
      BY <2>1, <3>1, <3>2, LeaveUnheard DEF Unheard, Alive, DownFits
    <3>6. UpFits'
      BY <3>1, <3>2, <3>3, <3>4, <3>5, <1>d DEF UpFits, Sent
    <3>7. DownFits'
      BY <3>2, <3>5, <1>0 DEF DownFits
    <3>8. Handshake'
      BY <2>1, <3>1, <3>2, <3>3 DEF Handshake
    <3>9. Agreed'
      BY <3>2, <3>3, <3>4, <1>d DEF Agreed, Sent
    <3> QED BY <3>6, <3>7, <3>8, <3>9
  <2> QED BY <1>3, <1>5, <2>1 DEF TakeLeave
<1>6. CASE TakeCancel
  <2>1. CASE thread.phase = "established" /\ thread.leaveSent /\ ~thread.cancelSent
    <3>1. Sent(TRUE, FALSE) /\ up \in {<<>>, <<"leave">>}
      BY <1>0, <2>1 DEF UpFits, Sent
    <3>2. /\ thread' = [thread EXCEPT !.cancelSent = TRUE] /\ up' = Append(up, "cancel")
          /\ UNCHANGED <<events, down, server, lost, offended>>
      BY <1>6, <2>1 DEF TakeCancel, TakeCommand, historyVars
    <3>3. thread'.phase = "established" /\ thread'.leaveSent /\ thread'.cancelSent
      BY <1>0, <2>1, <3>2 DEF Thread3
    <3>4. IF up = <<>> THEN up' = <<"cancel">> ELSE up' = <<"leave", "cancel">>
      <4>1. "leave" \in Questions /\ "cancel" \in Questions
        BY DEF Questions
      <4>2. Append(<<"leave">>, "cancel") = <<"leave", "cancel">>
        BY <4>1, AppendTwo
      <4>3. Append(<<>>, "cancel") = <<"cancel">>
        BY Short
      <4> QED BY <3>1, <3>2, <4>2, <4>3, <1>d
    <3>5. up = <<>> \/ (up = <<"leave">> /\ up \in WithLeave)
      <4>1. <<"leave">> \in WithLeave
        BY DEF WithLeave
      <4> QED BY <3>1, <4>1
    <3>6. ~Has(down, "accepted")
      BY <2>1 DEF DownFits
    <3>7. UpFits'
      BY <2>1, <3>2, <3>3, <3>4, <3>5, <1>d DEF UpFits, Sent, Alive
    <3>8. DownFits'
      BY <2>1, <3>2, <3>3, <3>4, <3>5, <3>6, <1>0, <1>d DEF DownFits, Alive
    <3>9. Handshake'
      BY <2>1, <3>2, <3>3 DEF Handshake
    <3>10. Agreed'
      BY <3>1, <3>2, <3>3, <3>4, <1>d DEF Agreed, Sent
    <3> QED BY <3>7, <3>8, <3>9, <3>10
  <2> QED BY <1>3, <1>6, <2>1 DEF TakeCancel
<1> QED BY <1>1, <1>2, <1>4, <1>5, <1>6 DEF Take

(* What a frame that is read tells the screen. *)
LEMMA ToldFits ==
    ASSUME SessionTypeOK, ReadFrame
    PROVE  /\ down # <<>> /\ down' = Tail(down) /\ Head(down) \in Answers
           /\ \/ /\ Legal(Head(down), thread.phase) /\ thread' = After(Head(down))
                 /\ \/ Head(down) = "arrival" /\ events' = events
                    \/ Head(down) = "welcome" /\ events' = Append(events, "established")
                    \/ /\ Head(down) \notin {"arrival", "welcome"} /\ Head(down) \in News
                       /\ events' = Append(events, Head(down))
                 /\ UNCHANGED offended
              \/ /\ ~Legal(Head(down), thread.phase)
                 /\ thread' = [thread EXCEPT !.phase = "gone"]
                 /\ events' = Append(events, Failure) /\ offended' = TRUE
<1>1. down # <<>> /\ down' = Tail(down) /\ down \in Seq(Answers) /\ events \in Seq(News)
  BY DEF ReadFrame, SessionTypeOK
<1>2. Head(down) \in Answers
  BY <1>1, TailFits
<1>3. \A x : events \o <<x>> = Append(events, x)
  BY <1>1
<1>4. events \o <<>> = events
  BY <1>1
<1>5. CASE Legal(Head(down), thread.phase)
  <2>1. thread' = After(Head(down)) /\ UNCHANGED offended
    BY <1>5 DEF ReadFrame
  <2>2. CASE Head(down) = "welcome"
    <3>1. events' = events \o <<"established">>
      BY <1>5, <2>2 DEF ReadFrame
    <3> QED BY <1>1, <1>2, <1>3, <1>5, <2>1, <2>2, <3>1
  <2>3. CASE Head(down) = "arrival"
    <3>1. events' = events \o <<>>
      BY <1>5, <2>3 DEF ReadFrame
    <3> QED BY <1>1, <1>2, <1>4, <1>5, <2>1, <2>3, <3>1
  <2>4. CASE Head(down) \notin {"arrival", "welcome"}
    <3>1. events' = events \o <<Head(down)>>
      BY <1>5, <2>4 DEF ReadFrame
    <3>2. Head(down) \in News
      BY <1>2, <2>4 DEF Answers, News, Endings
    <3> QED BY <1>1, <1>2, <1>3, <1>5, <2>1, <2>4, <3>1, <3>2
  <2> QED BY <2>2, <2>3, <2>4
<1>6. CASE ~Legal(Head(down), thread.phase)
  <2>1. thread' = [thread EXCEPT !.phase = "gone"] /\ events' = Append(events, Failure)
        /\ offended' = TRUE
    BY <1>6 DEF ReadFrame, Report
  <2> QED BY <1>1, <1>2, <1>6, <2>1
<1> QED BY <1>5, <1>6

LEMMA ConnectionReads ==
    ASSUME SessionTypeOK, Connection, ReadFrame \/ PeerClosed \/ Breaks
    PROVE  Connection'
<1> USE DEF Connection
<1>0. /\ down \in Seq(Answers) /\ events \in Seq(News)
      /\ thread.leaveSent \in BOOLEAN /\ thread.cancelSent \in BOOLEAN /\ Answering(down)
      /\ thread \in Thread3 /\ thread.phase \in Phases
  BY DEF SessionTypeOK, DownFits, Thread3
<1>1. CASE PeerClosed \/ Breaks
  BY <1>1, ConnectionGone DEF PeerClosed, Breaks, historyVars
<1>2. CASE ReadFrame
  <2> DEFINE kind == Head(down)
  <2>1. /\ down # <<>> /\ down' = Tail(down) /\ kind \in Answers
        /\ UNCHANGED <<up, server, lost>> /\ Pumping
    BY <1>2, ToldFits DEF ReadFrame
  <2>2. /\ \A k : Has(down', k) => Has(down, k)
        /\ \A k : k # kind => (Has(down, k) => Has(down', k))
        /\ Has(down, kind)
    BY <1>0, <2>1, HasTail
  <2>3. /\ Answering(down')
        /\ kind = "leaving" => ~Has(down', "leaving")
        /\ kind = "accepted" => ~Has(down', "leaving") /\ ~Has(down', "accepted")
    BY <1>0, <2>1, AnsweringTail
  <2>4. kind = down[1] /\ 1 \in DOMAIN down
    BY <1>0, <2>1, TailFits
  <2>s. /\ Tail(<<"characters">>) = <<>>
        /\ \A x : <<x>> # <<>> /\ Head(<<x>>) = x
    BY Short
  <2> HIDE DEF kind
  <2>5. CASE ~Legal(kind, thread.phase)
    <3>1. lost
      <4>1. CASE thread.phase = "awaitingCharacters"
        <5>1. kind \in {"characters", "refused"}
          BY <4>1, <2>1, <2>s DEF Handshake, kind
        <5> QED BY <5>1, <4>1, <2>5 DEF Legal
      <4>2. CASE thread.phase = "choosing"
        BY <4>2, <2>1 DEF Handshake
      <4>3. CASE thread.phase = "awaitingWelcome"
        <5>1. kind \notin {"welcome", "refused", "nameRefused"}
          BY <4>3, <2>5 DEF Legal
        <5>2. down \notin {<<"refused">>, <<"nameRefused">>}
          BY <5>1, <2>s DEF kind
        <5> QED BY <4>3, <5>1, <5>2, <2>1, <2>4 DEF Handshake
      <4>4. CASE thread.phase = "established"
        <5>1. kind \in {"arrival", "leaving", "accepted"}
          BY <4>4, <2>4 DEF Handshake, Among
        <5>2. kind = "accepted" /\ ~thread.cancelSent
          BY <4>4, <5>1, <2>5 DEF Legal
        <5> QED BY <5>2, <2>2 DEF DownFits
      <4> QED BY <1>0, <2>1, <4>1, <4>2, <4>3, <4>4 DEF Pumping, Phases
    <3>2. thread' = [thread EXCEPT !.phase = "gone"]
      BY <1>2, <2>5, ToldFits DEF kind
    <3> QED BY <2>1, <3>1, <3>2, ConnectionGone
  <2>6. CASE Legal(kind, thread.phase)
    <3>1. /\ thread' = After(kind) /\ UNCHANGED offended
          /\ \/ kind = "arrival" /\ events' = events
             \/ kind = "welcome" /\ events' = Append(events, "established")
             \/ /\ kind \notin {"arrival", "welcome"} /\ kind \in News
                /\ events' = Append(events, kind)
      BY <1>2, <2>6, ToldFits DEF kind
    <3>2. CASE kind = "characters"
      <4>1. thread.phase = "awaitingCharacters"
        BY <2>6, <3>2 DEF Legal
      <4>2. /\ up = <<>> /\ server \in {"character", "closed"} /\ down' = <<>>
            /\ ~thread.leaveSent /\ ~thread.cancelSent
        BY <1>0, <4>1, <3>2, <2>1, <2>s DEF Handshake, kind, UpFits
      <4>3. thread'.phase = "choosing" /\ ~thread'.leaveSent /\ ~thread'.cancelSent
        BY <1>0, <3>1, <3>2, <4>2 DEF After, Thread3
      <4>4. \A k : ~Has(down', k)
        BY <4>2 DEF Has
      <4>5. up \notin WithLeave \cup Chosen \cup {<<"hello">>, <<"cancel">>}
        BY <4>2, Short DEF WithLeave, Chosen
      <4>6. UpFits'
        BY <2>1, <4>2, <4>3, <4>5 DEF UpFits, Sent
      <4>7. DownFits'
        BY <2>3, <4>4 DEF DownFits
      <4>8. Handshake'
        BY <2>1, <4>2, <4>3 DEF Handshake
      <4>9. Agreed'
        BY <2>1, <3>1, <4>3, <4>5 DEF Agreed, Sent
      <4> QED BY <4>6, <4>7, <4>8, <4>9
    <3>3. CASE kind = "welcome"
      <4>1. thread.phase = "awaitingWelcome"
        BY <2>6, <3>3 DEF Legal
      <4>2. /\ up = <<>> /\ server \in {"world", "closed"}
            /\ ~thread.leaveSent /\ ~thread.cancelSent
            /\ \A i \in DOMAIN down :
                   down[i] \in {"welcome", "arrival"} /\ (i > 1 => down[i] = "arrival")
        <5>1. /\ down \notin {<<"refused">>, <<"nameRefused">>} /\ down # <<>>
          BY <3>3, <2>1, <2>s DEF kind
        <5> QED BY <1>0, <4>1, <5>1 DEF Handshake, UpFits
      <4>3. thread'.phase = "established" /\ ~thread'.leaveSent /\ ~thread'.cancelSent
        BY <1>0, <3>1, <3>3, <4>2 DEF After, Thread3
      <4>4. \A i \in DOMAIN down' : down'[i] = "arrival"
        <5>1. \A i \in 1..(Len(down) - 1) : down'[i] = down[i + 1]
          BY <1>0, <2>1, TailFits
        <5>2. DOMAIN down' = 1..(Len(down) - 1) /\ DOMAIN down = 1..Len(down)
          BY <1>0, <2>1, TailFits
        <5>3. Len(down) \in Nat
          BY <1>0
        <5>4. ASSUME NEW i \in DOMAIN down' PROVE down'[i] = "arrival"
          <6>1. i \in 1..(Len(down) - 1) /\ i + 1 \in DOMAIN down /\ i + 1 > 1
            BY <5>2, <5>3
          <6>2. down[i + 1] = "arrival"
            BY <4>2, <6>1
          <6> QED BY <5>1, <6>1, <6>2
        <5> QED BY <5>4
      <4>5. up \notin WithLeave \cup Chosen \cup {<<"hello">>, <<"cancel">>}
        BY <4>2, Short DEF WithLeave, Chosen
      <4>6. UpFits'
        BY <2>1, <4>2, <4>3, <4>5 DEF UpFits, Sent
      <4>7. DownFits'
        BY <2>3, <4>4 DEF DownFits, Has
      <4>8. Handshake'
        BY <2>1, <4>2, <4>3, <4>4 DEF Handshake, Among
      <4>9. Agreed'
        BY <2>1, <3>1, <4>3, <4>5 DEF Agreed, Sent
      <4> QED BY <4>6, <4>7, <4>8, <4>9
    <3>4. CASE kind \in {"refused", "nameRefused"}
      <4>1. thread' = [thread EXCEPT !.phase = "gone"]
        BY <3>1, <3>4 DEF After
      <4> QED BY <2>1, <3>1, <4>1, ConnectionGone
    <3>5. CASE kind \in {"accepted", "leaving", "arrival"}
      <4>1. /\ thread.phase = "established" /\ Among(down, {"arrival", "leaving", "accepted"})
            /\ server \in {"world", "leaving", "closed"}
        BY <2>6, <3>5 DEF Legal, Handshake
      <4>2. Among(down', {"arrival", "leaving", "accepted"})
        BY <1>0, <2>1, <4>1, AmongTail
      <4>3. \A k : Has(events', k) => Has(events, k) \/ (k = kind)
        <5>1. events' = events \/ (events' = Append(events, kind) /\ kind \in News)
          BY <3>1, <3>5
        <5> QED BY <1>0, <5>1, HasAppend
      <4>4. CASE kind = "accepted"
        <5>1. up = <<>> /\ server \in {"world", "closed"}
          BY <2>2, <4>4 DEF DownFits
        <5>2. thread'.phase = "established" /\ ~thread'.leaveSent /\ ~thread'.cancelSent
          BY <1>0, <3>1, <4>1, <4>4 DEF After, Thread3
        <5>3. up \notin WithLeave \cup Chosen \cup {<<"hello">>, <<"cancel">>}
          BY <5>1, Short DEF WithLeave, Chosen
        <5>4. UpFits'
          BY <2>1, <5>1, <5>2, <5>3 DEF UpFits, Sent
        <5>5. DownFits'
          BY <2>3, <4>4 DEF DownFits
        <5>6. Handshake'
          BY <2>1, <4>2, <5>1, <5>2 DEF Handshake
        <5>7. Agreed'
          BY <2>1, <3>1, <5>2, <5>3 DEF Agreed, Sent
        <5> QED BY <5>4, <5>5, <5>6, <5>7
      <4>5. CASE kind \in {"leaving", "arrival"}
        <5>1. thread' = thread
          BY <3>1, <4>5 DEF After
        <5>2. kind = "leaving" => up \notin WithLeave /\ ~Has(down', "leaving")
          BY <2>2, <2>3 DEF DownFits
        <5>3. kind # "leaving" => (Has(events', "leaving") => Has(events, "leaving"))
          BY <4>3
        <5>4. Has(down, "accepted") <=> Has(down', "accepted")
          BY <2>2, <4>5
        <5>5. UpFits'
          BY <2>1, <5>1, <5>2, <5>3 DEF UpFits, Sent, Alive
        <5>6. DownFits'
          BY <2>1, <2>2, <2>3, <5>1, <5>2, <5>3 DEF DownFits, Alive
        <5>7. Handshake'
          BY <2>1, <4>1, <4>2, <5>1 DEF Handshake
        <5>8. Agreed'
          BY <2>1, <3>1, <5>1, <5>4 DEF Agreed, Sent, Alive
        <5> QED BY <5>5, <5>6, <5>7, <5>8
      <4> QED BY <3>5, <4>4, <4>5
    <3> QED BY <2>1, <3>2, <3>3, <3>4, <3>5 DEF Answers
  <2> QED BY <2>5, <2>6
<1> QED BY <1>1, <1>2

-----------------------------------------------------------------------------
(* The screen. *)

LEMMA ScreenKept ==
    ASSUME Screen, UNCHANGED <<client, thread, commands, events>>
    PROVE  Screen'
<1>1. ScreenFits' /\ LinkFits'
  BY DEF Screen, ScreenFits, LinkFits, Alive, Reopening
<1>2. NewsFit'
  BY DEF Screen, NewsFit, Reported, Expected
<1>3. LeaveFits'
  BY DEF Screen, LeaveFits, Alive, Waiting, Cancelling, Unheard, Sent
<1> QED BY <1>1, <1>2, <1>3 DEF Screen

LEMMA NothingFits ==
    ASSUME NEW q, q = <<>>
    PROVE  InOrder(q) /\ NoneAsked(q) /\ ~Stopping(q) /\ (\A K : Among(q, K)) /\ \A k : ~Has(q, k)
  BY DEF InOrder, NoneAsked, Stopping, Among, Has

(* A client that is over, or on the way to the next dial. *)
LEMMA ScreenOver ==
    ASSUME Screen, client'.state \in Over \cup {"Choosing"},
           ~client'.session, ~client'.suspended, client'.cancellation = "none",
           IF client'.form = NoForm THEN client'.state # "Choosing"
           ELSE client'.state = "Choosing" /\ client'.rejoining,
           ~Alive', UNCHANGED thread, client'.link => events' = <<>>,
           InOrder(events'), Among(events', News)
    PROVE  Screen'
<1>1. ScreenFits'
  BY DEF ScreenFits, Over
<1>2. LinkFits'
  BY DEF LinkFits, Over, Reopening, Refused
<1>3. NewsFit'
  <2>1. Reported' = News /\ thread'.phase = "gone"
    BY DEF Reported, Alive
  <2>2. client'.link => Among(events', Expected')
    BY NothingFits
  <2> QED BY <2>1, <2>2 DEF NewsFit
<1>4. LeaveFits'
  BY DEF LeaveFits
<1> QED BY <1>1, <1>2, <1>3, <1>4 DEF Screen

LEMMA ScreenStarts ==
    ASSUME SessionTypeOK, Screen, NEW c \in Clients, StartSession(c),
           c \in {client, [client EXCEPT !.rejoining = FALSE]},
           client.state \in Over \cup {"Idle", "Choosing"},
           c.rejoining => c.form = NoForm
    PROVE  Screen'
<1>1. /\ ~c.session /\ ~c.suspended /\ c.cancellation = "none"
      /\ c.link = client.link /\ c.outbound = client.outbound /\ c.session = client.session
  BY DEF Screen, ScreenFits, Over, SessionTypeOK, Clients
<1>2. CASE client' = [c EXCEPT !.state = "Connecting", !.link = TRUE, !.outbound = TRUE]
           /\ thread' = Fresh /\ commands' = <<>> /\ events' = <<>>
  <2>1. /\ client'.state = "Connecting" /\ client'.link /\ client'.outbound /\ ~client'.session
        /\ ~client'.suspended /\ client'.cancellation = "none"
        /\ client'.rejoining = c.rejoining /\ client'.form = c.form
    BY <1>1, <1>2 DEF Clients
  <2>2. thread'.phase = "connecting" /\ ~thread'.leaveSent /\ ~thread'.cancelSent
        /\ Sent(FALSE, FALSE)'
    BY <1>2 DEF Fresh, Sent
  <2>3. ScreenFits'
    BY <2>1 DEF ScreenFits
  <2>4. LinkFits'
    BY <2>1 DEF LinkFits, Reopening, Refused
  <2>5. NewsFit'
    BY <1>2, <2>1, <2>2, NothingFits DEF NewsFit
  <2>6. LeaveFits'
    BY <1>2, <2>1, <2>2, NothingFits DEF LeaveFits
  <2> QED BY <2>3, <2>4, <2>5, <2>6 DEF Screen
<1>3. CASE client' = [c EXCEPT !.state = "Rejected", !.form = NoForm] /\ NotDialled
  <2>1. /\ client'.state = "Rejected" /\ client'.link = client.link /\ ~client'.session
        /\ ~client'.suspended /\ client'.cancellation = "none"
        /\ client'.outbound = client.outbound /\ client'.form = NoForm /\ ~client.session
    BY <1>1, <1>3 DEF Clients
  <2>2. UNCHANGED <<thread, commands, events>>
    BY <1>3 DEF NotDialled, netVars
  <2>3. ScreenFits'
    BY <2>1 DEF ScreenFits
  <2>4. LinkFits'
    BY <2>1, <2>2 DEF Screen, LinkFits, Reopening, Refused, Over, Alive
  <2>5. NewsFit'
    BY <2>1, <2>2 DEF Screen, NewsFit, Reported, Expected
  <2>6. LeaveFits'
    <3>1. client.state # "Leaving"
      BY DEF Over
    <3> QED BY <2>1, <2>2, <3>1 DEF Screen, LeaveFits, Alive, Sent
  <2> QED BY <2>3, <2>4, <2>5, <2>6 DEF Screen
<1> QED BY <1>2, <1>3 DEF StartSession

LEMMA ScreenDials == SessionTypeOK /\ Screen /\ Dial => Screen'
<1> SUFFICES ASSUME SessionTypeOK, Screen, Dial PROVE Screen'
  OBVIOUS
<1>0. /\ client \in Clients /\ [client EXCEPT !.rejoining = FALSE] \in Clients
      /\ ~[client EXCEPT !.rejoining = FALSE].rejoining
  BY DEF SessionTypeOK, Clients
<1>a. client.state \in Over \cup {"Idle"} => client.form = NoForm
  BY DEF Screen, ScreenFits, Over
<1>1. CASE RejoinForACharacter
  <2>1. CASE UNCHANGED client /\ NotDialled
    BY <2>1, ScreenKept DEF NotDialled, netVars
  <2>2. CASE ~client.link /\ client' = NoRejoin(client) /\ NotDialled
    <3>1. client.state \in Over \cup {"Idle", "Choosing"} /\ ~Alive
      BY <2>2 DEF Screen, LinkFits
    <3>2. ~client.session /\ ~client.suspended /\ client.cancellation = "none"
      BY <3>1 DEF Screen, ScreenFits, Over
    <3>3. UNCHANGED <<thread, commands, events>>
      BY <2>2 DEF NotDialled, netVars
    <3>4. CASE client.state = "Idle"
      <4>1. client' = [client EXCEPT !.rejoining = FALSE]
        BY <2>2, <3>4 DEF NoRejoin, Over
      <4>2. /\ client'.state = "Idle" /\ ~client'.link /\ ~client'.session /\ ~client'.suspended
            /\ client'.cancellation = "none" /\ client'.form = NoForm
        BY <1>0, <1>a, <2>2, <3>2, <3>4, <4>1 DEF Clients
      <4>3. ScreenFits'
        BY <4>2 DEF ScreenFits
      <4>4. LinkFits'
        BY <3>1, <3>3, <4>2 DEF LinkFits, Alive, Reopening, Refused
      <4>5. NewsFit'
        BY <3>3, <4>2 DEF Screen, NewsFit, Reported
      <4>6. LeaveFits'
        BY <4>2 DEF LeaveFits
      <4> QED BY <4>3, <4>4, <4>5, <4>6 DEF Screen
    <3>5. CASE client.state \in Over \cup {"Choosing"}
      <4>1. client' = [client EXCEPT !.rejoining = FALSE, !.form = NoForm,
                           !.state = IF @ = "Choosing" THEN "Disconnected" ELSE @]
        BY <2>2, <3>5 DEF NoRejoin
      <4>2. /\ client'.state \in Over /\ ~client'.link /\ ~client'.session /\ ~client'.suspended
            /\ client'.cancellation = "none" /\ client'.form = NoForm
        BY <1>0, <2>2, <3>2, <3>5, <4>1 DEF Clients, Over
      <4>3. ~Alive' /\ InOrder(events') /\ Among(events', News)
        BY <3>1, <3>3 DEF Screen, NewsFit, Reported, Alive
      <4> QED BY <3>3, <4>2, <4>3, ScreenOver DEF Over
    <3> QED BY <3>1, <3>4, <3>5
  <2>3. CASE /\ client.state \in Over \cup {"Choosing"}
             /\ StartSession([client EXCEPT !.rejoining = FALSE])
    BY <1>0, <2>3, ScreenStarts
  <2> QED BY <1>1, <2>1, <2>2, <2>3 DEF RejoinForACharacter
<1>2. CASE ReconnectOnRequest
  BY <1>0, <1>2, <1>a, ScreenStarts, ScreenKept DEF ReconnectOnRequest, NotDialled, netVars
<1>3. CASE ConnectOnRequest
  <2>1. StartSession([client EXCEPT !.rejoining = FALSE])
        /\ client.state \in Over \cup {"Idle", "Choosing"}
    BY <1>3 DEF ConnectOnRequest, Consumed
  <2> QED BY <1>0, <2>1, ScreenStarts
<1>4. CASE ConnectOnceSignedIn
  BY <1>0, <1>4, <1>a, ScreenStarts DEF ConnectOnceSignedIn
<1> QED BY <1>1, <1>2, <1>3, <1>4 DEF Dial

(* The next of the news, and what it says of the rest. *)
LEMMA HeardFits ==
    ASSUME SessionTypeOK, Screen, NEW kind, Event(kind)
    PROVE  /\ client.link /\ ~Reopening /\ kind \in News /\ kind \in Reported /\ kind \in Expected
           /\ events # <<>> /\ Head(events) = kind /\ events' = Tail(events) /\ UNCHANGED thread
           /\ InOrder(events') /\ Among(events', Reported) /\ Among(events', Expected)
           /\ Among(events', {k \in News : Rank(k) > Rank(kind)}) /\ events' \in Seq(News)
           /\ \A k : Has(events, k) <=> kind = k \/ Has(events', k)
           /\ ~client.session => client.outbound
<1>1. /\ client.link /\ events # <<>> /\ Head(events) = kind /\ events' = Tail(events)
      /\ UNCHANGED thread
  BY DEF Event, DrainRuns
<1>2. /\ events \in Seq(News) /\ InOrder(events) /\ Among(events, Reported)
      /\ Among(events, Expected)
  BY <1>1 DEF SessionTypeOK, Screen, NewsFit
<1>3. kind \in News /\ events' \in Seq(News)
  BY <1>1, <1>2, TailFits
<1>4. InOrder(events') /\ Among(events', {k \in News : Rank(k) > Rank(kind)})
  BY <1>1, <1>2, InOrderTail
<1>5. Among(events', Reported) /\ kind \in Reported
  BY <1>1, <1>2, AmongTail
<1>6. Among(events', Expected) /\ kind \in Expected
  BY <1>1, <1>2, AmongTail
<1>7. \A k : Has(events, k) <=> kind = k \/ Has(events', k)
  BY <1>1, <1>2, HasTail
<1>8. ~Reopening /\ (~client.session => client.outbound)
  BY <1>1 DEF Screen, LinkFits
<1> QED BY <1>1, <1>3, <1>4, <1>5, <1>6, <1>7, <1>8

(* An ending is the last of the news, of a thread that has gone. *)
LEMMA EndingHeard ==
    ASSUME SessionTypeOK, Screen, NEW kind \in Endings, Event(kind)
    PROVE  events' = <<>> /\ ~Alive' /\ InOrder(events') /\ Among(events', News)
<1>1. /\ kind \in Reported /\ events' \in Seq(News) /\ UNCHANGED thread
      /\ Among(events', {k \in News : Rank(k) > Rank(kind)})
  BY HeardFits
<1>2. thread.phase = "gone" \/ thread.phase \notin Phases
  BY <1>1 DEF Reported, Endings, Phases
<1>3. {k \in News : Rank(k) > Rank(kind)} = {}
  <2>1. Rank(kind) = 6
    BY DEF Endings, Rank
  <2>2. \A k \in News : Rank(k) \in 1..6
    BY DEF Rank
  <2> QED BY <2>1, <2>2
<1>4. events' = <<>>
  BY <1>1, <1>3, AmongNothing
<1>5. thread.phase \in Phases
  BY DEF SessionTypeOK
<1> QED BY <1>1, <1>2, <1>4, <1>5, NothingFits DEF Alive

(* News of a connection that goes on: of the session, nothing is new. *)
LEMMA NewsGoOn ==
    ASSUME SessionTypeOK, Screen, NEW kind, Event(kind),
           client'.link, client'.session = client.session, ~client.session,
           kind # "established"
    PROVE  NewsFit'
<1>1. /\ InOrder(events') /\ Among(events', Reported) /\ Among(events', Expected)
      /\ UNCHANGED thread /\ client.link
      /\ \A k : Has(events, k) <=> kind = k \/ Has(events', k)
  BY HeardFits
<1>2. Reported' = Reported /\ Expected' = Expected
  BY <1>1 DEF Reported, Expected
<1> QED BY <1>1, <1>2 DEF Screen, NewsFit

LEMMA LeaveUntouched ==
    ASSUME Screen, client.state # "Leaving", client'.state # "Leaving", client.link,
           UNCHANGED <<thread, commands>>
    PROVE  LeaveFits'
  BY DEF Screen, LeaveFits, Alive, Sent

LEMMA ScreenDrains == SessionTypeOK /\ Screen /\ Drain => Screen'
<1> SUFFICES ASSUME SessionTypeOK, Screen, Drain PROVE Screen'
  OBVIOUS
<1> USE ClientSessionAssumption
<1>0. client \in Clients /\ client.session \in BOOLEAN /\ thread.phase \in Phases
  BY DEF SessionTypeOK, Clients
<1>1. CASE DrainHandshaking
  <2>1. Event("handshaking") /\ client' = [client EXCEPT !.state = "Handshaking"]
        /\ UNCHANGED commands
    BY <1>1 DEF DrainHandshaking, Handled
  <2>2. ~client.session /\ client.state \notin {"Connected", "Leaving"} /\ client.outbound
        /\ client.link /\ ~Reopening
    <3>1. "handshaking" \in Expected /\ client.link /\ ~Reopening
          /\ (~client.session => client.outbound)
      BY <2>1, HeardFits
    <3>2. ~client.session
      BY <3>1 DEF Expected, Endings
    <3> QED BY <3>1, <3>2 DEF Screen, ScreenFits
  <2>3. /\ client'.state = "Handshaking" /\ client'.link /\ ~client'.session /\ client'.outbound
        /\ ~client'.suspended /\ client'.cancellation = "none"
        /\ client'.form = client.form /\ client'.rejoining = client.rejoining
    BY <1>0, <2>1, <2>2 DEF Clients, Screen, ScreenFits
  <2>4. ScreenFits' /\ LinkFits'
    BY <2>2, <2>3 DEF ScreenFits, LinkFits, Reopening
  <2>5. NewsFit'
    BY <2>1, <2>2, <2>3, NewsGoOn
  <2>6. LeaveFits'
    BY <2>1, <2>2, <2>3, LeaveUntouched DEF Event
  <2> QED BY <2>4, <2>5, <2>6 DEF Screen
<1>2. CASE DrainCharacters
  <2> DEFINE form == Form(Refused(client.form))
  <2>1. /\ Event("characters") /\ UNCHANGED commands
        /\ client' = [client EXCEPT !.form = form, !.state = "Choosing"]
    BY <1>2 DEF DrainCharacters, Handled
  <2>2. ~client.session /\ client.state \notin {"Connected", "Leaving"} /\ client.outbound
        /\ client.link /\ ~Reopening
    <3>1. "characters" \in Expected /\ client.link /\ ~Reopening
          /\ (~client.session => client.outbound)
      BY <2>1, HeardFits
    <3>2. ~client.session
      BY <3>1 DEF Expected, Endings
    <3> QED BY <3>1, <3>2 DEF Screen, ScreenFits
  <2>3. form \in Forms /\ form.refused = Refused(client.form)
    BY DEF Form, Refused, Forms
  <2> HIDE DEF form
  <2>4. /\ client'.state = "Choosing" /\ client'.link /\ ~client'.session /\ client'.outbound
        /\ ~client'.suspended /\ client'.cancellation = "none"
        /\ client'.form = form /\ client'.rejoining = client.rejoining
    BY <1>0, <2>1, <2>2 DEF Clients, Screen, ScreenFits
  <2>5. form # NoForm
    BY <2>3
  <2>6. ScreenFits'
    BY <2>4, <2>5 DEF ScreenFits
  <2>7. ~Reopening'
    BY <2>2, <2>3, <2>4 DEF Reopening, Refused
  <2>8. LinkFits'
    BY <2>4, <2>7 DEF LinkFits
  <2>9. NewsFit'
    BY <2>1, <2>2, <2>4, NewsGoOn
  <2>10. LeaveFits'
    BY <2>1, <2>2, <2>4, LeaveUntouched DEF Event
  <2> QED BY <2>6, <2>8, <2>9, <2>10 DEF Screen
<1>3. CASE DrainEstablished
  <2>1. /\ Event("established") /\ UNCHANGED commands
        /\ client' = [client EXCEPT !.session = TRUE, !.form = NoForm, !.state = "Connected"]
    BY <1>3 DEF DrainEstablished, Handled
  <2>2. ~client.session /\ client.state \notin {"Connected", "Leaving"} /\ client.outbound
        /\ client.link /\ ~Reopening
    <3>1. "established" \in Expected /\ client.link /\ ~Reopening
          /\ (~client.session => client.outbound)
      BY <2>1, HeardFits
    <3>2. ~client.session
      BY <3>1 DEF Expected, Endings
    <3> QED BY <3>1, <3>2 DEF Screen, ScreenFits
  <2>3. /\ client'.state = "Connected" /\ client'.link /\ client'.session /\ client'.outbound
        /\ ~client'.suspended /\ client'.cancellation = "none" /\ client'.form = NoForm
    BY <1>0, <2>1, <2>2 DEF Clients, Screen, ScreenFits
  <2>4. ScreenFits' /\ LinkFits'
    BY <2>3 DEF ScreenFits, LinkFits, Reopening, Refused
  <2>5. NewsFit'
    <3>1. /\ InOrder(events') /\ Among(events', Reported) /\ Among(events', Expected)
          /\ Among(events', {k \in News : Rank(k) > Rank("established")})
          /\ "established" \in Reported /\ UNCHANGED thread
      BY <2>1, HeardFits
    <3>2. thread.phase \in {"established", "gone"}
      BY <1>0, <3>1 DEF Reported, Phases
    <3>3. \A k \in Expected : k \in News /\ Rank(k) > Rank("established") => k \in Endings
      BY <2>2 DEF Expected, Rank, News
    <3>4. Among(events', Endings)
      BY <3>1, <3>3 DEF Among
    <3>5. Expected' = Endings /\ Reported' = Reported
      BY <2>3, <3>1 DEF Expected, Reported
    <3> QED BY <2>3, <3>1, <3>2, <3>4, <3>5 DEF NewsFit
  <2>6. LeaveFits'
    BY <2>1, <2>2, <2>3, LeaveUntouched DEF Event
  <2> QED BY <2>4, <2>5, <2>6 DEF Screen
<1>4. CASE DrainLeaving \/ DrainLeaveAccepted
  <2> DEFINE kind == IF DrainLeaving THEN "leaving" ELSE "accepted"
  <2>1. Event(kind)
    BY <1>4 DEF DrainLeaving, DrainLeaveAccepted, Handled
  <2>2. kind \in {"leaving", "accepted"}
    OBVIOUS
  <2>3. /\ client.session /\ client.state = "Leaving" /\ client.suspended
        /\ client.cancellation # "none" /\ client.form = NoForm /\ client.link
    BY <2>1, <2>2, HeardFits DEF Expected, Endings, Screen, ScreenFits
  <2>4. /\ InOrder(events') /\ Among(events', Reported) /\ Among(events', Expected)
        /\ Among(events', {k \in News : Rank(k) > Rank(kind)})
        /\ kind \in Reported /\ UNCHANGED thread
        /\ \A k : Has(events, k) <=> kind = k \/ Has(events', k)
    BY <2>1, HeardFits
  <2>5. Reported' = Reported /\ thread.phase \in {"established", "gone"}
    BY <2>3, <2>4 DEF Reported, Screen, NewsFit
  <2>6. Alive => ~Stopping(commands) /\ (Waiting \/ Cancelling)
    BY <2>2, <2>3, <2>4 DEF Screen, LeaveFits, Unheard
  <2>7. CASE DrainLeaving
    <3>1. client' = client /\ UNCHANGED commands /\ kind = "leaving"
      <4>1. client' = [client EXCEPT !.state = "Leaving",
                           !.cancellation = IF @ = "none" THEN "available" ELSE @]
            /\ UNCHANGED commands
        BY <2>7 DEF DrainLeaving, Handled
      <4> QED BY <1>0, <2>3, <2>7, <4>1 DEF Clients
    <3>2. ScreenFits' /\ LinkFits'
      BY <2>3, <2>4, <3>1 DEF Screen, ScreenFits, LinkFits, Alive, Reopening, Refused
    <3>3. NewsFit'
      <4>1. Expected' = Expected
        BY <3>1 DEF Expected
      <4> QED BY <2>3, <2>4, <2>5, <3>1, <4>1 DEF NewsFit
    <3>4. LeaveFits'
      <4>1. CASE Alive /\ client.cancellation = "available"
        <5>1. NoneAsked(commands) /\ Sent(TRUE, FALSE) /\ ~Has(events, "accepted")
          BY <2>3, <2>4, <2>6, <3>1, <4>1 DEF Screen, LeaveFits, Waiting, Unheard
        <5>2. Waiting'
          BY <2>4, <3>1, <5>1 DEF Waiting, Sent
        <5> QED BY <2>3, <2>6, <3>1, <4>1, <5>2 DEF LeaveFits, Stopping
      <4>2. CASE Alive /\ client.cancellation # "available"
        <5>1. \/ /\ OneAsked(commands, "cancel") /\ Sent(TRUE, FALSE)
                 /\ ~Has(events, "accepted")
              \/ NoneAsked(commands) /\ Sent(TRUE, TRUE) /\ ~Has(events, "accepted")
              \/ NoneAsked(commands) /\ Sent(FALSE, FALSE) /\ Has(events, "accepted")
          BY <2>3, <2>4, <2>6, <3>1, <4>2 DEF Screen, LeaveFits, Cancelling, Unheard
        <5>2. Cancelling'
          BY <2>4, <3>1, <5>1 DEF Cancelling, Sent
        <5> QED BY <2>3, <2>6, <3>1, <4>2, <5>2 DEF LeaveFits, Stopping
      <4> QED BY <2>4, <4>1, <4>2, <3>1 DEF LeaveFits, Alive
    <3> QED BY <3>2, <3>3, <3>4 DEF Screen
  <2>8. CASE ~DrainLeaving /\ DrainLeaveAccepted
    <3>1. client' = Resumed(client) /\ UNCHANGED commands /\ kind = "accepted"
      BY <2>3, <2>8 DEF DrainLeaveAccepted
    <3>2. /\ client'.state = "Connected" /\ client'.link /\ client'.session /\ client'.outbound
          /\ ~client'.suspended /\ client'.cancellation = "none" /\ client'.form = NoForm
      BY <1>0, <2>3, <3>1 DEF Resumed, Clients
    <3>3. ScreenFits' /\ LinkFits'
      BY <3>2 DEF ScreenFits, LinkFits, Reopening, Refused
    <3>4. NewsFit'
      <4>1. \A k \in News : Rank(k) > Rank("accepted") => k \in Endings
        BY DEF Rank, News
      <4>2. Among(events', Endings)
        BY <2>4, <3>1, <4>1 DEF Among
      <4>3. Expected' = Endings
        BY <3>2 DEF Expected
      <4> QED BY <2>4, <2>5, <3>2, <4>2, <4>3 DEF NewsFit
    <3>5. LeaveFits'
      <4>1. CASE Alive
        <5>1. Has(events, "accepted") /\ ~Unheard
          BY <2>4, <3>1 DEF Unheard
        <5>2. NoneAsked(commands) /\ Sent(FALSE, FALSE)
          BY <2>6, <4>1, <5>1 DEF Waiting, Cancelling
        <5> QED BY <2>4, <3>1, <3>2, <5>2 DEF LeaveFits, Sent
      <4> QED BY <2>4, <4>1 DEF LeaveFits, Alive
    <3> QED BY <3>3, <3>4, <3>5 DEF Screen
  <2> QED BY <1>4, <2>7, <2>8
<1>5. CASE DrainNameRefused
  <2>0. Event("nameRefused") /\ client' =
            IF client.form # NoForm /\ client.form.attempted = "create"
            THEN [Ended(client, "Choosing") EXCEPT !.form.refused = TRUE, !.rejoining = TRUE]
            ELSE [Ended(client, "Rejected") EXCEPT !.form = NoForm]
    BY <1>5 DEF DrainNameRefused, Handled
  <2>1. events' = <<>> /\ ~Alive' /\ InOrder(events') /\ Among(events', News) /\ UNCHANGED thread
    BY <2>0, EndingHeard, HeardFits DEF Endings
  <2>2. CASE client.form # NoForm /\ client.form.attempted = "create"
    <3> DEFINE form == [client.form EXCEPT !.refused = TRUE]
    <3>1. form \in Forms
      BY <1>0, <2>2 DEF Clients, Forms
    <3>2. client' = [Ended(client, "Choosing") EXCEPT !.form = form, !.rejoining = TRUE]
      BY <1>0, <2>0, <2>2 DEF Ended, Clients
    <3> HIDE DEF form
    <3>3. /\ client'.state = "Choosing" /\ ~client'.session /\ ~client'.suspended
          /\ client'.cancellation = "none" /\ client'.form = form /\ client'.rejoining
      BY <1>0, <3>2 DEF Ended, Clients
    <3>4. form # NoForm
      BY <3>1
    <3> QED BY <2>1, <3>3, <3>4, ScreenOver
  <2>3. CASE ~(client.form # NoForm /\ client.form.attempted = "create")
    <3>1. client' = [Ended(client, "Rejected") EXCEPT !.form = NoForm]
      BY <2>0, <2>3
    <3>2. /\ client'.state = "Rejected" /\ ~client'.session /\ ~client'.suspended
          /\ client'.cancellation = "none" /\ client'.form = NoForm
      BY <1>0, <3>1 DEF Ended, Clients
    <3> QED BY <2>1, <3>2, ScreenOver DEF Over
  <2> QED BY <2>2, <2>3
<1>6. CASE DrainRefused
  <2>0. Event("refused") /\ client' = [Ended(client, "Rejected") EXCEPT !.form = NoForm]
    BY <1>6 DEF DrainRefused, Handled
  <2>1. events' = <<>> /\ ~Alive' /\ InOrder(events') /\ Among(events', News) /\ UNCHANGED thread
    BY <2>0, EndingHeard, HeardFits DEF Endings
  <2>2. /\ client'.state = "Rejected" /\ ~client'.session /\ ~client'.suspended
        /\ client'.cancellation = "none" /\ client'.form = NoForm
    BY <1>0, <2>0 DEF Ended, Clients
  <2> QED BY <2>1, <2>2, ScreenOver DEF Over
<1>7. CASE DrainEnded
  <2>0. Event("ended") /\ client' = IF Reopening THEN Ended(client, client.state)
                                    ELSE [Ended(client, "Disconnected") EXCEPT !.form = NoForm]
    BY <1>7 DEF DrainEnded, Handled
  <2>1. /\ events' = <<>> /\ ~Alive' /\ InOrder(events') /\ Among(events', News)
        /\ UNCHANGED thread /\ ~Reopening
    BY <2>0, EndingHeard, HeardFits DEF Endings
  <2>2. /\ client'.state = "Disconnected" /\ ~client'.session /\ ~client'.suspended
        /\ client'.cancellation = "none" /\ client'.form = NoForm
    BY <1>0, <2>0, <2>1 DEF Ended, Clients
  <2> QED BY <2>1, <2>2, ScreenOver DEF Over
<1>8. CASE DrainEmpty
  BY <1>8, ScreenKept DEF DrainEmpty, netVars
<1>9. CASE DrainClosed
  <2>1. /\ events = <<>> /\ thread.phase = "gone" /\ client.link
        /\ UNCHANGED <<thread, commands, events>>
    BY <1>9 DEF DrainClosed, DrainRuns, netVars
  <2>2. ~Alive' /\ InOrder(events') /\ Among(events', News)
    BY <2>1, NothingFits DEF Alive
  <2>3. CASE ~Reopening /\ client.state \notin Over \cup {"Idle"}
    <3>1. client' = [Ended(client, "Disconnected") EXCEPT !.form = NoForm, !.link = FALSE]
      BY <1>9, <2>3 DEF DrainClosed
    <3>2. /\ client'.state = "Disconnected" /\ ~client'.session /\ ~client'.suspended
          /\ client'.cancellation = "none" /\ client'.form = NoForm
      BY <1>0, <3>1 DEF Ended, Clients
    <3> QED BY <2>1, <2>2, <3>2, ScreenOver DEF Over
  <2>4. CASE ~(~Reopening /\ client.state \notin Over \cup {"Idle"})
    <3>1. client' = [client EXCEPT !.link = FALSE]
      BY <1>9, <2>4 DEF DrainClosed
    <3>2. client.state \in Over \/ (client.state = "Choosing" /\ client.rejoining)
      BY <2>1, <2>4 DEF Screen, LinkFits, Reopening
    <3>3. /\ client'.state \in Over \cup {"Choosing"} /\ ~client'.session /\ ~client'.suspended
          /\ client'.cancellation = "none"
          /\ IF client'.form = NoForm THEN client'.state # "Choosing"
             ELSE client'.state = "Choosing" /\ client'.rejoining
      BY <1>0, <3>1, <3>2 DEF Clients, Screen, ScreenFits, Over
    <3> QED BY <2>1, <2>2, <3>3, ScreenOver
  <2> QED BY <2>3, <2>4
<1> QED BY <1>1, <1>2, <1>3, <1>4, <1>5, <1>6, <1>7, <1>8, <1>9 DEF Drain

LEMMA ScreenActs == SessionTypeOK /\ Screen /\ Act => Screen'
<1> SUFFICES ASSUME SessionTypeOK, Screen, Act PROVE Screen'
  OBVIOUS
<1> USE ClientSessionAssumption
<1>0. client \in Clients /\ commands \in Seq(Orders)
  BY DEF SessionTypeOK, Clients
<1>1. CASE SendCharacterChoice
  <2>1. PICK attempt \in Picks : Asks(attempt)
            /\ client' = [client EXCEPT !.form = [answered |-> TRUE, attempted |-> attempt,
                                                  refused |-> FALSE]]
    BY <1>1 DEF SendCharacterChoice, Picks
  <2> DEFINE form == [answered |-> TRUE, attempted |-> attempt, refused |-> FALSE]
  <2>2. form \in Forms /\ ~form.refused
    BY DEF Forms, Picks
  <2> HIDE DEF form
  <2>3. client' = [client EXCEPT !.form = form]
    BY <2>1 DEF form
  <2>4. /\ client.form # NoForm /\ client.link /\ UNCHANGED <<thread, events>>
        /\ commands' = IF Alive THEN Append(commands, attempt) ELSE commands
    BY <1>1, <2>1 DEF SendCharacterChoice, Asks, Alive
  <2>5. /\ client.state \in {"Connecting", "Handshaking", "Choosing"} /\ ~client.session
        /\ ~client.suspended /\ client.cancellation = "none"
    BY <2>4 DEF Screen, ScreenFits
  <2>6. /\ client'.state = client.state /\ client'.link /\ ~client'.session
        /\ client'.outbound = client.outbound /\ ~client'.suspended
        /\ client'.cancellation = "none" /\ client'.form = form
    BY <1>0, <2>3, <2>4, <2>5 DEF Clients
  <2>7. ScreenFits'
    BY <2>2, <2>5, <2>6 DEF ScreenFits
  <2>8. LinkFits'
    BY <2>2, <2>4, <2>5, <2>6 DEF Screen, LinkFits, Alive, Reopening, Refused
  <2>9. NewsFit'
    BY <2>4, <2>5, <2>6 DEF Screen, NewsFit, Reported, Expected
  <2>10. LeaveFits'
    <3>1. CASE Alive
      <4>1. NoneAsked(commands) /\ Sent(FALSE, FALSE)
        BY <2>4, <2>5, <3>1 DEF Screen, LeaveFits
      <4>2. attempt \in Orders \ Leavish
        BY DEF Picks, Orders, Leavish
      <4>3. NoneAsked(commands')
        BY <1>0, <2>4, <3>1, <4>1, <4>2, AskedOther
      <4> QED BY <2>4, <2>5, <2>6, <4>1, <4>3 DEF LeaveFits, Sent
    <3> QED BY <2>4, <3>1 DEF LeaveFits, Alive
  <2> QED BY <2>7, <2>8, <2>9, <2>10 DEF Screen
<1>2. CASE CancelLeaveOnRequest
  <2>1. /\ client.state = "Leaving" /\ client.cancellation = "available" /\ Alive /\ client.link
        /\ client' = [client EXCEPT !.cancellation = "pending"]
        /\ UNCHANGED <<thread, events>> /\ commands' = Append(commands, "cancel")
    BY <1>2 DEF CancelLeaveOnRequest, Asks, Alive
  <2>2. client.session /\ client.suspended /\ ~client.outbound /\ client.form = NoForm
    BY <2>1 DEF Screen, ScreenFits
  <2>3. /\ client'.state = "Leaving" /\ client'.link /\ client'.session /\ client'.suspended
        /\ ~client'.outbound /\ client'.cancellation = "pending" /\ client'.form = NoForm
    BY <1>0, <2>1, <2>2 DEF Clients
  <2>4. ScreenFits' /\ LinkFits'
    BY <2>3 DEF ScreenFits, LinkFits, Reopening, Refused
  <2>5. NewsFit'
    BY <2>1, <2>2, <2>3 DEF Screen, NewsFit, Reported, Expected
  <2>6. LeaveFits'
    <3>1. "cancel" \in Orders /\ "cancel" \in Leavish
      BY DEF Orders, Leavish
    <3>2. CASE Stopping(commands)
      <4>1. NoneAsked(commands) /\ Sent(FALSE, FALSE) /\ Unheard
        BY <2>1, <3>2 DEF Screen, LeaveFits
      <4>2. NoneAsked(commands') /\ Stopping(commands')
        BY <1>0, <2>1, <3>1, <3>2, <4>1, AskedTooLate
      <4>3. Sent(FALSE, FALSE)' /\ Unheard'
        BY <2>1, <4>1 DEF Sent, Unheard
      <4> QED BY <2>3, <4>2, <4>3 DEF LeaveFits
    <3>3. CASE ~Stopping(commands)
      <4>1. Waiting
        BY <2>1, <3>3 DEF Screen, LeaveFits
      <4>2. CASE OneAsked(commands, "leave") /\ Sent(FALSE, FALSE) /\ Unheard
        <5>1. BothAsked(commands') /\ ~Stopping(commands')
          BY <1>0, <2>1, <3>3, <4>2, AskedBoth
        <5>2. Cancelling'
          BY <2>1, <4>2, <5>1 DEF Cancelling, Sent, Unheard
        <5> QED BY <2>3, <5>1, <5>2 DEF LeaveFits
      <4>3. CASE NoneAsked(commands) /\ Sent(TRUE, FALSE) /\ ~Has(events, "accepted")
        <5>1. OneAsked(commands', "cancel") /\ ~Stopping(commands')
          BY <1>0, <2>1, <3>1, <3>3, <4>3, AskedNow
        <5>2. Cancelling'
          BY <2>1, <4>3, <5>1 DEF Cancelling, Sent
        <5> QED BY <2>3, <5>1, <5>2 DEF LeaveFits
      <4> QED BY <4>1, <4>2, <4>3 DEF Waiting
    <3> QED BY <3>2, <3>3
  <2> QED BY <2>4, <2>5, <2>6 DEF Screen
<1>3. CASE DisconnectOnRequest
  <2>0. client.link /\ Alive /\ client.state \notin Over \cup {"Leaving"}
    BY <1>3 DEF DisconnectOnRequest, Asks, Alive
  <2>1. NoneAsked(commands) /\ Sent(FALSE, FALSE)
    BY <2>0 DEF Screen, LeaveFits
  <2>2. CASE client.state = "Connected"
    <3>1. client.session /\ client.outbound
      BY <2>2 DEF Screen, ScreenFits
    <3>2. /\ client' = [client EXCEPT !.rejoining = TRUE, !.form = NoForm,
                                      !.suspended = client.suspended \/ client.outbound,
                                      !.outbound = FALSE, !.cancellation = "available",
                                      !.state = "Leaving"]
          /\ UNCHANGED <<thread, events>> /\ commands' = Append(commands, "leave")
      BY <1>3, <2>0, <2>2 DEF DisconnectOnRequest, Asks, Alive
    <3> DEFINE kept == client.suspended \/ client.outbound
    <3>3. kept
      BY <3>1
    <3>4. client' = [client EXCEPT !.rejoining = TRUE, !.form = NoForm, !.suspended = kept,
                                   !.outbound = FALSE, !.cancellation = "available",
                                   !.state = "Leaving"]
      BY <3>2
    <3> HIDE DEF kept
    <3>5. /\ client'.state = "Leaving" /\ client'.link /\ client'.session /\ client'.suspended
          /\ ~client'.outbound /\ client'.cancellation = "available" /\ client'.form = NoForm
      BY <1>0, <2>0, <3>1, <3>3, <3>4 DEF Clients
    <3>6. ScreenFits' /\ LinkFits'
      BY <3>5 DEF ScreenFits, LinkFits, Reopening, Refused
    <3>7. Among(events, Endings) /\ Expected = Endings
      BY <2>0, <2>2, <3>1 DEF Screen, NewsFit, Expected
    <3>8. NewsFit'
      <4>1. Among(events', Expected')
        BY <3>2, <3>5, <3>7 DEF Among, Expected
      <4> QED BY <2>0, <3>1, <3>2, <3>5, <4>1 DEF Screen, NewsFit, Reported
    <3>9. LeaveFits'
      <4>1. Unheard' /\ Sent(FALSE, FALSE)'
        BY <2>1, <3>2, <3>7 DEF Unheard, Has, Among, Endings, Sent
      <4>2. "leave" \in Orders /\ "leave" \in Leavish
        BY DEF Orders, Leavish
      <4>3. CASE Stopping(commands)
        <5>1. NoneAsked(commands') /\ Stopping(commands')
          BY <1>0, <2>1, <3>2, <4>2, <4>3, AskedTooLate
        <5> QED BY <3>5, <4>1, <5>1 DEF LeaveFits
      <4>4. CASE ~Stopping(commands)
        <5>1. OneAsked(commands', "leave") /\ ~Stopping(commands')
          BY <1>0, <2>1, <3>2, <4>2, <4>4, AskedNow
        <5>2. Waiting'
          BY <4>1, <5>1 DEF Waiting
        <5> QED BY <3>5, <5>1, <5>2 DEF LeaveFits
      <4> QED BY <4>3, <4>4
    <3> QED BY <3>6, <3>8, <3>9 DEF Screen
  <2>3. CASE client.state # "Connected"
    <3>1. /\ client' = [client EXCEPT !.rejoining = TRUE, !.form = NoForm, !.session = FALSE,
                                      !.suspended = FALSE, !.cancellation = "none",
                                      !.state = "Disconnected"]
          /\ UNCHANGED <<thread, events>> /\ commands' = Append(commands, "disconnect")
      BY <1>3, <2>0, <2>3 DEF DisconnectOnRequest, Asks, Alive
    <3>2. ~client.session /\ client.outbound
      BY <2>0, <2>3 DEF Screen, ScreenFits, LinkFits
    <3>3. /\ client'.state = "Disconnected" /\ client'.link /\ ~client'.session
          /\ ~client'.suspended /\ client'.outbound /\ client'.cancellation = "none"
          /\ client'.form = NoForm
      BY <1>0, <2>0, <3>1, <3>2 DEF Clients
    <3>4. ScreenFits' /\ LinkFits'
      BY <3>3 DEF ScreenFits, LinkFits, Reopening, Refused
    <3>5. NewsFit'
      BY <2>0, <3>1, <3>2, <3>3 DEF Screen, NewsFit, Reported, Expected
    <3>6. LeaveFits'
      <4>1. "disconnect" \in Orders \ Leavish
        BY DEF Orders, Leavish
      <4>2. NoneAsked(commands')
        BY <1>0, <2>1, <3>1, <4>1, AskedOther
      <4> QED BY <2>1, <3>1, <3>3, <4>2 DEF LeaveFits, Sent
    <3> QED BY <3>4, <3>5, <3>6 DEF Screen
  <2> QED BY <2>2, <2>3
<1> QED BY <1>1, <1>2, <1>3 DEF Act

(* A thread goes, with its reason or without one. *)
LEMMA ScreenEnds ==
    ASSUME SessionTypeOK, Screen, Alive, thread' = [thread EXCEPT !.phase = "gone"], UNCHANGED client,
           events' = events \/ \E x \in Endings : events' = Append(events, x)
    PROVE  Screen'
<1>0. events \in Seq(News) /\ client.link /\ ~Reopening /\ thread'.phase = "gone"
  BY DEF SessionTypeOK, Screen, LinkFits, Alive
<1>1. ScreenFits'
  BY DEF Screen, ScreenFits
<1>2. LinkFits'
  BY <1>0 DEF Screen, LinkFits, Reopening, Alive
<1>3. /\ InOrder(events) /\ Among(events, Reported) /\ Among(events, Expected)
  BY <1>0 DEF Screen, NewsFit
<1>4. Reported \subseteq News \ Endings
  <2>1. thread.phase \in Phases \ {"gone"}
    BY DEF SessionTypeOK, Alive
  <2> QED BY <2>1 DEF Phases, Reported, News, Endings
<1>5. Expected' = Expected /\ Endings \subseteq Expected /\ Reported' = News /\ Endings \subseteq News
  BY <1>0 DEF Expected, Reported, News, Endings
<1>6. InOrder(events') /\ Among(events', Reported') /\ Among(events', Expected')
  <2>1. Among(events, News)
    BY <1>3, <1>4 DEF Among
  <2>2. CASE events' = events
    BY <1>3, <1>5, <2>1, <2>2
  <2>3. ASSUME NEW x \in Endings, events' = Append(events, x)
        PROVE  InOrder(events') /\ Among(events', Reported') /\ Among(events', Expected')
    <3>1. x \in News /\ Rank(x) = 6
      BY <1>5 DEF Endings, Rank
    <3>2. \A k \in Reported : Rank(k) < Rank(x)
      BY <1>4, <3>1 DEF News, Rank
    <3>3. InOrder(events')
      BY <1>0, <1>3, <2>3, <3>1, <3>2, InOrderAppend
    <3>4. Among(events', News) /\ Among(events', Expected)
      BY <1>0, <1>3, <1>5, <2>1, <2>3, <3>1, AmongAppend
    <3> QED BY <1>5, <3>3, <3>4
  <2> QED BY <2>2, <2>3
<1>7. NewsFit'
  BY <1>0, <1>6 DEF NewsFit
<1>8. LeaveFits'
  BY <1>0 DEF LeaveFits, Alive
<1> QED BY <1>1, <1>2, <1>7, <1>8 DEF Screen

(* A thread that goes on does nothing to the screen. *)
LEMMA ScreenGoesOn ==
    ASSUME SessionTypeOK, Screen, Alive, thread'.phase # "gone", UNCHANGED client, NewsFit', LeaveFits'
    PROVE  Screen'
<1>1. client.link /\ ~Reopening
  BY DEF Screen, LinkFits
<1>2. ScreenFits'
  BY DEF Screen, ScreenFits
<1>3. LinkFits'
  BY <1>1 DEF Screen, LinkFits, Reopening, Alive
<1> QED BY <1>2, <1>3 DEF Screen

(* One more of the news, in its time. *)
LEMMA NewsAppended ==
    ASSUME SessionTypeOK, Screen, Alive, NEW x \in News, events' = Append(events, x), UNCHANGED client,
           \A k \in Reported : Has(events, k) => Rank(k) < Rank(x),
           Reported \subseteq Reported', x \in Reported', x \in Expected
    PROVE  /\ InOrder(events') /\ Among(events', Reported') /\ Among(events', Expected')
           /\ \A k : Has(events', k) <=> Has(events, k) \/ x = k
<1>0. events \in Seq(News) /\ client.link
  BY DEF SessionTypeOK, Screen, LinkFits, Alive
<1>1. /\ InOrder(events) /\ Among(events, Reported) /\ Among(events, Expected)
  BY <1>0 DEF Screen, NewsFit
<1>2. Among(events, {k \in Reported : Has(events, k)})
  BY <1>1 DEF Among, Has
<1>3. InOrder(events')
  BY <1>0, <1>1, <1>2, InOrderAppend
<1>4. Among(events, Reported')
  BY <1>1 DEF Among
<1>5. Among(events', Reported') /\ Among(events', Expected)
  BY <1>0, <1>1, <1>4, AmongAppend
<1>6. Expected' = Expected
  BY DEF Expected
<1>7. \A k : Has(events', k) <=> Has(events, k) \/ x = k
  BY <1>0, HasAppend
<1> QED BY <1>3, <1>5, <1>6, <1>7

LEMMA ScreenThreads == SessionTypeOK /\ Screen /\ Connection /\ (Thread \/ Breaks) => Screen'
<1> SUFFICES ASSUME SessionTypeOK, Screen, Connection, Thread \/ Breaks PROVE Screen'
  OBVIOUS
<1>0. /\ Alive /\ client.link /\ UNCHANGED client
      /\ thread \in Thread3 /\ thread.phase \in Phases /\ commands \in Seq(Orders)
      /\ events \in Seq(News) /\ thread.leaveSent \in BOOLEAN /\ thread.cancelSent \in BOOLEAN
  <2>1. Alive /\ UNCHANGED client
    BY DEF Thread, Breaks, Connect, Take, TakeDisconnect, TakeChoice, TakeLeave, TakeCancel,
       TakeCommand, ReadFrame, PeerClosed, Pumping, Alive, frameVars
  <2> QED BY <2>1 DEF SessionTypeOK, Thread3, Screen, LinkFits
<1>a. Among(events, Reported) /\ Among(events, Expected)
  BY <1>0 DEF Screen, NewsFit
<1>b. client.session => thread.phase = "established"
  BY <1>0 DEF Screen, NewsFit, Alive
<1>c. client.session <=> client.state \in {"Connected", "Leaving"}
  BY DEF Screen, ScreenFits
<1>f. Failure \in Endings
  BY DEF Failure, Endings
<1>1. CASE Connect
  <2>1. CASE thread' = [thread EXCEPT !.phase = "gone"] /\ Report("refused")
    BY <1>0, <2>1, ScreenEnds DEF Report, Endings
  <2>2. CASE thread' = [thread EXCEPT !.phase = "awaitingCharacters"] /\ Report("handshaking")
    <3>1. thread.phase = "connecting" /\ UNCHANGED commands
      BY <1>1 DEF Connect
    <3>2. /\ thread'.phase = "awaitingCharacters" /\ thread'.leaveSent = thread.leaveSent
          /\ thread'.cancelSent = thread.cancelSent
      BY <1>0, <2>2 DEF Thread3
    <3>3. ~client.session
      BY <1>b, <3>1
    <3>4. Reported = {} /\ Reported' = {"handshaking"} /\ "handshaking" \in Expected
          /\ "handshaking" \in News
      BY <3>1, <3>2, <3>3 DEF Reported, Expected, News, Endings
    <3>5. InOrder(events') /\ Among(events', Reported') /\ Among(events', Expected')
      BY <1>0, <2>2, <3>4, NewsAppended DEF Report
    <3>6. NewsFit'
      BY <1>0, <3>2, <3>3, <3>5 DEF NewsFit
    <3>7. LeaveFits'
      BY <1>0, <1>c, <3>1, <3>2, <3>3 DEF Screen, LeaveFits, Sent
    <3> QED BY <1>0, <3>2, <3>6, <3>7, ScreenGoesOn
  <2> QED BY <1>1, <2>1, <2>2 DEF Connect
<1>2. CASE TakeDisconnect
  BY <1>0, <1>2, ScreenEnds DEF TakeDisconnect, TakeCommand
<1>3. CASE TakeChoice \/ TakeLeave \/ TakeCancel
  <2> DEFINE taken == Head(commands)
  <2>1. /\ commands # <<>> /\ commands' = Tail(commands) /\ UNCHANGED events /\ Pumping
        /\ taken \in Picks \cup Leavish
    BY <1>3 DEF TakeChoice, TakeLeave, TakeCancel, TakeCommand, Picks, Leavish
  <2>2. Stopping(commands) <=> Stopping(commands')
    <3>1. taken # "disconnect"
      BY <2>1 DEF Picks, Leavish
    <3> QED BY <1>0, <2>1, <3>1, HasTail DEF Stopping
  <2>3. NoneAsked(commands) => NoneAsked(commands') /\ taken \notin Leavish
    <3>1. taken # "disconnect"
      BY <2>1 DEF Picks, Leavish
    <3> QED BY <1>0, <2>1, <3>1, TakenNone
  <2>4. \A k \in Leavish : OneAsked(commands, k) /\ ~Stopping(commands) =>
            IF taken = k THEN NoneAsked(commands') ELSE OneAsked(commands', k) /\ taken \notin Leavish
    BY <1>0, <2>1, TakenOne
  <2>5. BothAsked(commands) =>
            /\ taken # "cancel"
            /\ taken = "leave" => OneAsked(commands', "cancel")
            /\ taken # "leave" => BothAsked(commands') /\ taken \notin Leavish
    BY <1>0, <2>1, TakenBoth
  <2>6. /\ thread'.phase \in Phases \ {"gone"} /\ Reported' = Reported
        /\ (thread'.phase = "established" <=> thread.phase = "established")
        /\ taken = "leave" \/ thread'.leaveSent = thread.leaveSent
        /\ taken = "cancel" \/ thread'.cancelSent = thread.cancelSent
        /\ taken = "leave" /\ thread.phase = "established" => thread'.leaveSent
        /\ taken = "cancel" /\ thread.phase = "established" /\ thread.leaveSent =>
               thread'.cancelSent
    <3>1. CASE TakeChoice
      <4>1. thread' \in {thread, [thread EXCEPT !.phase = "awaitingWelcome"]}
            /\ (thread' = thread \/ thread.phase = "choosing")
            /\ taken \in Picks
        BY <3>1 DEF TakeChoice, TakeCommand, Picks
      <4> QED BY <1>0, <2>1, <4>1 DEF Thread3, Phases, Reported, Alive, Picks
    <3>2. CASE TakeLeave
      <4>1. /\ taken = "leave"
            /\ IF thread.phase = "established" /\ ~thread.leaveSent
               THEN thread' = [thread EXCEPT !.leaveSent = TRUE] ELSE thread' = thread
        BY <3>2 DEF TakeLeave, TakeCommand
      <4> QED BY <1>0, <4>1 DEF Thread3, Phases, Reported, Alive
    <3>3. CASE TakeCancel
      <4>1. /\ taken = "cancel"
            /\ IF thread.phase = "established" /\ thread.leaveSent /\ ~thread.cancelSent
               THEN thread' = [thread EXCEPT !.cancelSent = TRUE] ELSE thread' = thread
        BY <3>3 DEF TakeCancel, TakeCommand
      <4> QED BY <1>0, <4>1 DEF Thread3, Phases, Reported, Alive
    <3> QED BY <1>3, <3>1, <3>2, <3>3
  <2> HIDE DEF taken
  <2>7. NewsFit'
    <3>1. Expected' = Expected
      BY <1>0 DEF Expected
    <3> QED BY <1>0, <1>b, <2>1, <2>6, <3>1 DEF Screen, NewsFit
  <2>8. LeaveFits'
    <3>1. CASE client.state # "Leaving"
      <4>1. NoneAsked(commands) /\ Sent(FALSE, FALSE)
        BY <1>0, <3>1 DEF Screen, LeaveFits
      <4>2. Sent(FALSE, FALSE)' /\ NoneAsked(commands')
        BY <2>3, <2>6, <4>1 DEF Sent, Leavish
      <4> QED BY <1>0, <3>1, <4>2 DEF LeaveFits
    <3>2. CASE client.state = "Leaving" /\ Stopping(commands)
      <4>1. NoneAsked(commands) /\ Sent(FALSE, FALSE) /\ Unheard
        BY <1>0, <3>2 DEF Screen, LeaveFits
      <4>2. Sent(FALSE, FALSE)' /\ NoneAsked(commands') /\ Unheard'
        BY <2>1, <2>3, <2>6, <4>1 DEF Sent, Leavish, Unheard
      <4> QED BY <1>0, <2>2, <3>2, <4>2 DEF LeaveFits
    <3>3. CASE client.state = "Leaving" /\ ~Stopping(commands)
      <4>1. thread.phase = "established"
        BY <1>b, <1>c, <3>3
      <4>2. CASE client.cancellation = "available"
        <5>1. Waiting
          BY <1>0, <3>3, <4>2 DEF Screen, LeaveFits
        <5>2. Waiting'
          BY <2>1, <2>3, <2>4, <2>6, <3>3, <4>1, <5>1 DEF Waiting, Sent, Leavish, Unheard
        <5> QED BY <1>0, <2>2, <3>3, <4>2, <5>2 DEF LeaveFits
      <4>3. CASE client.cancellation # "available"
        <5>1. Cancelling
          BY <1>0, <3>3, <4>3 DEF Screen, LeaveFits
        <5>2. Cancelling'
          <6>1. CASE BothAsked(commands) /\ Sent(FALSE, FALSE) /\ Unheard
            BY <2>1, <2>5, <2>6, <4>1, <6>1 DEF Cancelling, Sent, Leavish, Unheard
          <6>2. CASE /\ OneAsked(commands, "cancel") /\ Sent(TRUE, FALSE)
                     /\ ~Has(events, "accepted")
            <7>1. \/ taken = "cancel" /\ NoneAsked(commands')
                  \/ taken \notin Leavish /\ OneAsked(commands', "cancel")
              BY <2>4, <3>3, <6>2 DEF Leavish
            <7> QED BY <2>1, <2>6, <4>1, <6>2, <7>1 DEF Cancelling, Sent, Leavish
          <6>3. CASE NoneAsked(commands) /\ Sent(TRUE, TRUE) /\ ~Has(events, "accepted")
            BY <2>1, <2>3, <2>6, <6>3 DEF Cancelling, Sent, Leavish
          <6>4. CASE NoneAsked(commands) /\ Sent(FALSE, FALSE) /\ Has(events, "accepted")
            BY <2>1, <2>3, <2>6, <6>4 DEF Cancelling, Sent, Leavish
          <6> QED BY <5>1, <6>1, <6>2, <6>3, <6>4 DEF Cancelling
        <5> QED BY <1>0, <2>2, <3>3, <4>3, <5>2 DEF LeaveFits
      <4> QED BY <4>2, <4>3
    <3> QED BY <3>1, <3>2, <3>3
  <2> QED BY <1>0, <2>6, <2>7, <2>8, ScreenGoesOn
<1>4. CASE ReadFrame
  <2> DEFINE kind == Head(down)
  <2>1. /\ down # <<>> /\ kind \in Answers /\ UNCHANGED commands
        /\ \/ /\ Legal(kind, thread.phase) /\ thread' = After(kind)
              /\ \/ kind = "arrival" /\ events' = events
                 \/ kind = "welcome" /\ events' = Append(events, "established")
                 \/ /\ kind \notin {"arrival", "welcome"} /\ kind \in News
                    /\ events' = Append(events, kind)
           \/ thread' = [thread EXCEPT !.phase = "gone"] /\ events' = Append(events, Failure)
    BY <1>4, ToldFits DEF ReadFrame
  <2>2. Has(down, kind)
    <3>1. down \in Seq(Answers)
      BY DEF SessionTypeOK
    <3> QED BY <2>1, <3>1, HasTail
  <2> HIDE DEF kind
  <2>3. CASE thread' = [thread EXCEPT !.phase = "gone"] /\ events' = Append(events, Failure)
    BY <1>0, <1>f, <2>3, ScreenEnds
  <2>4. ASSUME Legal(kind, thread.phase), thread' = After(kind), kind = "arrival",
               events' = events
        PROVE  Screen'
    <3>1. UNCHANGED thread
      BY <2>4 DEF After
    <3> QED BY <1>0, <2>1, <2>4, <3>1, ScreenKept
  <2>5. ASSUME Legal(kind, thread.phase), thread' = After(kind), kind = "welcome",
               events' = Append(events, "established")
        PROVE  Screen'
    <3>1. thread.phase = "awaitingWelcome"
      BY <2>5 DEF Legal
    <3>2. /\ thread'.phase = "established" /\ thread'.leaveSent = thread.leaveSent
          /\ thread'.cancelSent = thread.cancelSent
      BY <1>0, <2>5 DEF After, Thread3
    <3>3. ~client.session
      BY <1>b, <3>1
    <3>4. /\ Reported = {"handshaking", "characters"} /\ Reported' = News \ Endings
          /\ "established" \in Expected /\ "established" \in Reported' /\ "established" \in News
          /\ Reported \subseteq Reported'
      BY <3>1, <3>2, <3>3 DEF Reported, Expected, News, Endings
    <3>5. \A k \in Reported : Rank(k) < Rank("established")
      BY <3>4 DEF Rank
    <3>6. /\ InOrder(events') /\ Among(events', Reported') /\ Among(events', Expected')
          /\ Has(events', "established")
      BY <1>0, <2>5, <3>4, <3>5, NewsAppended
    <3>7. NewsFit'
      BY <1>0, <3>2, <3>3, <3>6 DEF NewsFit
    <3>8. LeaveFits'
      BY <1>0, <1>c, <2>1, <3>2, <3>3 DEF Screen, LeaveFits, Sent
    <3> QED BY <1>0, <3>2, <3>7, <3>8, ScreenGoesOn
  <2>6. ASSUME Legal(kind, thread.phase), thread' = After(kind), kind = "characters",
               events' = Append(events, kind)
        PROVE  Screen'
    <3>1. thread.phase = "awaitingCharacters"
      BY <2>6 DEF Legal
    <3>2. /\ thread'.phase = "choosing" /\ thread'.leaveSent = thread.leaveSent
          /\ thread'.cancelSent = thread.cancelSent
      BY <1>0, <2>6 DEF After, Thread3
    <3>3. ~client.session
      BY <1>b, <3>1
    <3>4. /\ Reported = {"handshaking"} /\ Reported' = {"handshaking", "characters"}
          /\ "characters" \in Expected /\ "characters" \in News
      BY <3>1, <3>2, <3>3 DEF Reported, Expected, News, Endings
    <3>5. \A k \in Reported : Rank(k) < Rank("characters")
      BY <3>4 DEF Rank
    <3>6. InOrder(events') /\ Among(events', Reported') /\ Among(events', Expected')
      BY <1>0, <2>6, <3>4, <3>5, NewsAppended
    <3>7. NewsFit'
      BY <1>0, <3>2, <3>3, <3>6 DEF NewsFit
    <3>8. LeaveFits'
      BY <1>0, <1>c, <2>1, <3>2, <3>3 DEF Screen, LeaveFits, Sent
    <3> QED BY <1>0, <3>2, <3>7, <3>8, ScreenGoesOn
  <2>7. ASSUME thread' = After(kind), kind \in {"refused", "nameRefused"},
               events' = Append(events, kind)
        PROVE  Screen'
    <3>1. thread' = [thread EXCEPT !.phase = "gone"] /\ kind \in Endings
      BY <2>7 DEF After, Endings
    <3> QED BY <1>0, <2>7, <3>1, ScreenEnds
  <2>8. ASSUME Legal(kind, thread.phase), thread' = After(kind), kind \in {"leaving", "accepted"},
               events' = Append(events, kind)
        PROVE  Screen'
    <3>1. thread.phase = "established" /\ (kind = "accepted" => thread.cancelSent)
      BY <2>8 DEF Legal
    <3>2. /\ thread.leaveSent
          /\ kind = "leaving" => ~Has(events, "leaving")
      BY <1>0, <2>2, <2>8, <3>1 DEF Connection, UpFits, DownFits
    <3>3. client.state = "Leaving" /\ ~Stopping(commands)
      BY <1>0, <3>2 DEF Screen, LeaveFits, Sent
    <3>4. /\ client.cancellation = "available" =>
                 NoneAsked(commands) /\ Sent(TRUE, FALSE) /\ ~Has(events, "accepted")
          /\ client.cancellation # "available" =>
                 \/ /\ OneAsked(commands, "cancel") /\ Sent(TRUE, FALSE)
                    /\ ~Has(events, "accepted")
                 \/ NoneAsked(commands) /\ Sent(TRUE, TRUE) /\ ~Has(events, "accepted")
      BY <1>0, <3>2, <3>3 DEF Screen, LeaveFits, Waiting, Cancelling, Sent
    <3>5. ~Has(events, "accepted")
      BY <3>4
    <3>6. thread'.phase = "established"
      BY <1>0, <2>8, <3>1 DEF After, Thread3
    <3>7. /\ Reported = News \ Endings /\ Reported' = Reported
          /\ kind \in Expected /\ kind \in News /\ kind \in Reported
      BY <1>c, <2>8, <3>1, <3>3, <3>6 DEF Reported, Expected, News, Endings
    <3>8. \A k \in Reported : Has(events, k) => Rank(k) < Rank(kind)
      <4>1. ASSUME NEW k \in Reported, Has(events, k) PROVE Rank(k) < Rank(kind)
        <5>1. k \in {"handshaking", "characters", "established", "leaving"} /\ k # kind
          BY <2>8, <3>2, <3>5, <3>7, <4>1 DEF News, Endings
        <5> QED BY <2>8, <5>1 DEF Rank
      <4> QED BY <4>1
    <3>9. /\ InOrder(events') /\ Among(events', Reported') /\ Among(events', Expected')
          /\ \A k : Has(events', k) <=> Has(events, k) \/ kind = k
      BY <1>0, <2>8, <3>7, <3>8, NewsAppended
    <3>10. NewsFit'
      BY <1>0, <1>c, <3>3, <3>6, <3>9 DEF NewsFit
    <3>11. LeaveFits'
      <4>1. CASE kind = "leaving"
        <5>1. UNCHANGED thread /\ ~Has(events', "accepted")
          BY <2>8, <3>5, <3>9, <4>1 DEF After
        <5>2. IF client.cancellation = "available" THEN Waiting' ELSE Cancelling'
          BY <2>1, <3>4, <5>1 DEF Waiting, Cancelling, Sent
        <5> QED BY <1>0, <2>1, <3>3, <5>2 DEF LeaveFits
      <4>2. CASE kind = "accepted"
        <5>1. client.cancellation # "available" /\ NoneAsked(commands)
          BY <3>1, <3>4, <4>2 DEF Sent
        <5>2. ~thread'.leaveSent /\ ~thread'.cancelSent /\ Has(events', "accepted")
          BY <1>0, <2>8, <3>9, <4>2 DEF After, Thread3
        <5>3. Sent(FALSE, FALSE)'
          <6>1. thread'.leaveSent = FALSE /\ thread'.cancelSent = FALSE
            BY <1>0, <2>8, <4>2 DEF After, Thread3
          <6> QED BY <6>1 DEF Sent
        <5>4. Cancelling'
          BY <2>1, <5>1, <5>2, <5>3 DEF Cancelling
        <5> QED BY <1>0, <2>1, <3>3, <5>1, <5>4 DEF LeaveFits
      <4> QED BY <2>8, <4>1, <4>2
    <3> QED BY <1>0, <3>6, <3>10, <3>11, ScreenGoesOn
  <2> QED BY <2>1, <2>3, <2>4, <2>5, <2>6, <2>7, <2>8 DEF Answers
<1>5. CASE PeerClosed
  <2>1. thread' = [thread EXCEPT !.phase = "gone"]
        /\ \E x \in {"ended", "refused"} : events' = Append(events, x)
    BY <1>5 DEF PeerClosed, Report
  <2> QED BY <1>0, <2>1, ScreenEnds DEF Endings
<1>6. CASE Breaks
  <2>1. thread' = [thread EXCEPT !.phase = "gone"]
        /\ (events' = events \/ events' = Append(events, Failure))
    BY <1>6 DEF Breaks
  <2> QED BY <1>0, <1>f, <2>1, ScreenEnds
<1> QED BY <1>1, <1>2, <1>3, <1>4, <1>5, <1>6 DEF Thread, Take

-----------------------------------------------------------------------------
(* The invariant. *)

LEMMA ConnectionDials == Connection /\ Dial => Connection'
<1> SUFFICES ASSUME Connection, Dial PROVE Connection'
  OBVIOUS
<1>1. ASSUME NEW c, StartSession(c) PROVE Connection'
  <2>1. CASE /\ thread' = Fresh /\ up' = <<>> /\ down' = <<>> /\ server' = "closed"
             /\ lost' = FALSE /\ offended' = FALSE
    BY <2>1, ConnectionFresh
  <2>2. CASE NotDialled
    BY <2>2, ConnectionKept DEF NotDialled, netVars, historyVars
  <2> QED BY <1>1, <2>1, <2>2 DEF StartSession
<1>2. CASE NotDialled
  BY <1>2, ConnectionKept DEF NotDialled, netVars, historyVars
<1> QED BY <1>1, <1>2 DEF Dial, RejoinForACharacter, ReconnectOnRequest, ConnectOnRequest,
        ConnectOnceSignedIn

(* The frame takes from the queue of events and leaves the rest alone. *)
LEMMA ConnectionWaits == SessionTypeOK /\ Connection /\ (Drain \/ Act) => Connection'
<1> SUFFICES ASSUME SessionTypeOK, Connection, Drain \/ Act PROVE Connection'
  OBVIOUS
<1>0. events \in Seq(News)
  BY DEF SessionTypeOK
<1>1. ASSUME NEW kind, Event(kind) PROVE Connection'
  <2>1. /\ events # <<>> /\ events' = Tail(events)
        /\ UNCHANGED <<thread, up, down, server, lost, offended>>
    BY <1>1 DEF Event, historyVars
  <2>2. Has(events', "leaving") => Has(events, "leaving")
    BY <1>0, <2>1, HasTail
  <2> QED BY <2>1, <2>2, ConnectionKept
<1>2. ASSUME UNCHANGED <<thread, events, up, down, server, historyVars>> PROVE Connection'
  BY <1>2, ConnectionKept DEF historyVars
<1>3. CASE Drain
  BY <1>1, <1>2, <1>3 DEF Drain, DrainHandshaking, DrainCharacters, DrainEstablished, DrainLeaving,
     DrainLeaveAccepted, DrainNameRefused, DrainRefused, DrainEnded, DrainEmpty, DrainClosed,
     Handled, netVars
<1>4. CASE Act
  BY <1>2, <1>4 DEF Act, SendCharacterChoice, CancelLeaveOnRequest, DisconnectOnRequest, Asks
<1> QED BY <1>3, <1>4

LEMMA InitFits == SessionInit => SessionInv
<1> SUFFICES ASSUME SessionInit PROVE SessionInv
  OBVIOUS
<1>1. SessionTypeOK
  BY InitTypes
<1>2. /\ events = <<>> /\ commands = <<>> /\ up = <<>> /\ down = <<>> /\ server = "closed"
      /\ lost = FALSE /\ offended = FALSE
  BY DEF SessionInit
<1>3. /\ client.form = NoForm /\ ~client.session /\ client.outbound = client.link
      /\ ~client.suspended /\ client.cancellation = "none" /\ ~client.rejoining
      /\ IF client.link THEN client.state = "Connecting" ELSE client.state \in {"Rejected", "Idle"}
      /\ thread = IF client.link THEN Fresh ELSE NoThread
  BY DEF SessionInit, Started
<1>4. /\ ~thread.leaveSent /\ ~thread.cancelSent /\ Sent(FALSE, FALSE)
      /\ thread.phase = IF client.link THEN "connecting" ELSE "gone"
  BY <1>3 DEF Fresh, NoThread, Sent
<1>5. ScreenFits
  BY <1>3 DEF ScreenFits
<1>6. LinkFits
  BY <1>3, <1>4 DEF LinkFits, Reopening, Alive, Over
<1>7. NewsFit
  BY <1>2, <1>3, <1>4, NothingFits DEF NewsFit
<1>8. LeaveFits
  BY <1>2, <1>3, <1>4, NothingFits DEF LeaveFits
<1>9. up # <<"hello">> /\ up \notin Chosen /\ up \notin WithLeave /\ up # <<"cancel">>
  BY <1>2, Short DEF Chosen, WithLeave
<1>10. UpFits
  BY <1>2, <1>4, <1>9 DEF UpFits, Sent
<1>11. DownFits
  BY <1>2, NothingFits DEF DownFits, Answering
<1>12. Handshake
  BY <1>2, <1>4 DEF Handshake
<1>13. Agreed
  BY <1>2, <1>4, <1>9 DEF Agreed, Sent
<1> QED BY <1>1, <1>5, <1>6, <1>7, <1>8, <1>10, <1>11, <1>12, <1>13 DEF SessionInv, Screen, Connection

LEMMA NextFits == SessionInv /\ [SessionNext]_sessionVars => SessionInv'
<1> SUFFICES ASSUME SessionInv, [SessionNext]_sessionVars PROVE SessionInv'
  OBVIOUS
<1>0. SessionTypeOK /\ Screen /\ Connection /\ LinkFits /\ LeaveFits
  BY DEF SessionInv, Screen
<1>1. SessionTypeOK'
  BY <1>0, TypesStay
<1>2. CASE Dial
  BY <1>0, <1>1, <1>2, ScreenDials, ConnectionDials DEF SessionInv
<1>3. CASE Drain
  BY <1>0, <1>1, <1>3, ScreenDrains, ConnectionWaits DEF SessionInv
<1>4. CASE Act
  BY <1>0, <1>1, <1>4, ScreenActs, ConnectionWaits DEF SessionInv
<1>5. CASE Thread \/ Breaks
  <2>1. Screen'
    BY <1>0, <1>5, ScreenThreads
  <2>2. Connection'
    BY <1>0, <1>5, ConnectionTakes, ConnectionReads DEF Thread
  <2> QED BY <1>1, <2>1, <2>2 DEF SessionInv
<1>6. CASE Serving
  <2>1. UNCHANGED <<client, thread, commands, events>>
    BY <1>6 DEF Serving, Serve, ServerReadsHello, ServerReadsChoice, ServerDropsStale,
       ServerReadsLeave, ServerReadsStrayCancel, ServerReadsCancel, ServerReadsInput, ChangeWorld,
       ServerCloses, ServerReads, frameVars
  <2> QED BY <1>0, <1>1, <1>6, <2>1, ScreenKept, ConnectionServed DEF SessionInv
<1>7. CASE UNCHANGED sessionVars
  BY <1>0, <1>1, <1>7, ScreenKept, ConnectionKept DEF SessionInv, sessionVars, frameVars, netVars, historyVars
<1> QED BY <1>2, <1>3, <1>4, <1>5, <1>6, <1>7 DEF SessionNext, Serving

LEMMA Inductive == SessionSpec => []SessionInv
<1> QED BY InitFits, NextFits, PTL DEF SessionSpec

-----------------------------------------------------------------------------
(* The screen, the queues and the connection stay well formed: the thread    *)
(* is given only the commands it takes and the client only the news it       *)
(* handles (session.rs pump, mod.rs drain_session_events).                   *)
THEOREM SessionTypeCorrect == SessionSpec => []SessionTypeOK
<1>1. SessionInv => SessionTypeOK
  BY DEF SessionInv
<1> QED BY <1>1, Inductive, PTL

(* At the end of a frame no screen stands over nothing: what looks alive   *)
(* has a thread, a form a thread or a dial that is due, a game a session   *)
(* and a writer, and a leave its writer for a return.                      *)
THEOREM NothingIsEverOrphaned == SessionSpec => []NothingIsOrphaned
<1>1. SessionInv => NothingIsOrphaned
  <2> SUFFICES ASSUME SessionInv PROVE NothingIsOrphaned
    OBVIOUS
  <2>1. ScreenFits /\ LinkFits
    BY DEF SessionInv, Screen
  <2> QED BY <2>1 DEF NothingIsOrphaned, ScreenFits, LinkFits, Over
<1> QED BY <1>1, Inductive, PTL

(* Neither end ever closes on the other for speaking out of turn, unless a *)
(* change of world swallowed a frame.                                      *)
THEOREM NobodyIsEverOffended == SessionSpec => []NobodyIsOffended
<1>1. SessionInv => NobodyIsOffended
  BY DEF SessionInv, Connection, Agreed, NobodyIsOffended
<1> QED BY <1>1, Inductive, PTL

(* With nothing on its way, client and server agree on whether the player  *)
(* is leaving, and no answer is waited for that will not come, unless a    *)
(* change of world swallowed a frame.                                      *)
THEOREM LeavesAreAgreed == SessionSpec => []LeavingIsAgreed
<1>1. SessionInv => LeavingIsAgreed
  <2> SUFFICES ASSUME SessionInv, AtRest, ~lost
               PROVE  \/ client.state = "Connected" /\ server = "world"
                      \/ /\ client.state = "Leaving" /\ server = "leaving"
                         /\ client.cancellation = "available"
    BY DEF LeavingIsAgreed
  <2>1. /\ client.link /\ thread.phase = "established" /\ server # "closed"
        /\ commands = <<>> /\ events = <<>> /\ up = <<>> /\ down = <<>> /\ Alive
    BY DEF AtRest, Alive
  <2>2. ScreenFits /\ LinkFits /\ NewsFit /\ LeaveFits /\ UpFits /\ Handshake /\ Agreed
    BY DEF SessionInv, Screen, Connection
  <2>3. /\ ~Stopping(commands) /\ ~Has(events, "established") /\ ~Has(events, "accepted")
        /\ ~Has(down, "accepted") /\ ~OneAsked(commands, "leave")
        /\ ~OneAsked(commands, "cancel") /\ ~BothAsked(commands)
    BY <2>1 DEF Stopping, Has, OneAsked, BothAsked
  <2>4. client.session /\ server \in {"world", "leaving"}
    BY <2>1, <2>2, <2>3 DEF NewsFit, Handshake
  <2>5. CASE client.state # "Leaving"
    <3>1. client.state = "Connected" /\ ~thread.leaveSent
      BY <2>1, <2>2, <2>4, <2>5 DEF ScreenFits, LeaveFits, Sent
    <3> QED BY <2>2, <2>4, <3>1 DEF UpFits
  <2>6. CASE client.state = "Leaving"
    <3>1. CASE client.cancellation = "available"
      <4>1. Sent(TRUE, FALSE)
        BY <2>1, <2>2, <2>3, <2>6, <3>1 DEF LeaveFits, Waiting
      <4> QED BY <2>1, <2>2, <2>6, <3>1, <4>1 DEF Agreed
    <3>2. CASE client.cancellation # "available"
      <4>1. Sent(TRUE, TRUE)
        BY <2>1, <2>2, <2>3, <2>6, <3>2 DEF LeaveFits, Cancelling
      <4> QED BY <2>1, <2>2, <2>3, <4>1 DEF Agreed
    <3> QED BY <3>1, <3>2
  <2> QED BY <2>5, <2>6
<1> QED BY <1>1, Inductive, PTL
=============================================================================
