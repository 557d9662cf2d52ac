--------------------------- MODULE ChunkStreamProofs ---------------------------
(***************************************************************************)
(* Why the terrain a client shows is the terrain there is, and nothing     *)
(* else, whatever the order of reading, sending, marking, editing,         *)
(* broadcasting, dropping and asking again.  The invariants speak of what  *)
(* the client will show of a chunk once all that is under way has arrived  *)
(* (Shown), so each step changes it at one end only: a send appends to it, *)
(* and a frame of the client, which decodes and drops, leaves it alone but *)
(* for what it turned away or will ask for.                                *)
(***************************************************************************)
EXTENDS ChunkStream, FiniteSetTheorems, SequenceTheorems, WellFoundedInduction, TLAPS

(* What a frame makes of a chunk the client has as b, and what a sequence of *)
(* them makes of it when none is refused.                                    *)
Made(b, u, c) ==
    IF u = WorldEntered THEN Absent
    ELSE IF u.coord # c \/ (u.kind = "block" /\ b = Absent) THEN b ELSE u.block

After(frames, b, c) ==
    LET after[n \in 0..Len(frames)] ==
            IF n = 0 THEN b ELSE Made(after[n - 1], frames[n], c)
    IN  after[Len(frames)]

Values == Blocks \cup {Absent}
Frames == Updates \cup {WorldEntered}

(* What the client will show of a chunk once all that is under way is there. *)
Shown(c) == After(line, After(queue, store[c], c), c)

Streams == [step : {"get", "send", "mark", "peek", "unload", "ended"}, unload : SUBSET Coords,
            load : Seq(Coords), attempt : Nat, repairing : BOOLEAN, chunk : Values,
            arc : {"same", "changed", "gone", "missed"}]

TypeOK ==
    /\ terrain \in [Coords -> Blocks]
    /\ world \in 1..Len(Pristine)
    /\ latest \in Places
    /\ centre \in Places \cup {NoPlace}
    /\ held \in SUBSET Coords
    /\ stream \in Streams /\ again \in BOOLEAN
    /\ posts \in [Editors -> Updates \cup {NoPost}]
    /\ line \in Seq(Frames)
    /\ asks \in Seq(Coords)
    /\ queue \in Seq(Updates)
    /\ store \in [Coords -> Values]

(* What a pass of the stream has still to do, and what of it the view has. *)
AtHead(c, steps) ==
    stream.load # <<>> /\ Head(stream.load) = c /\ stream.step \in steps

StreamFits ==
    /\ stream.step \in {"send", "mark", "peek"} \/ stream.attempt > 0 =>
           stream.unload = {} /\ stream.load # <<>>
    /\ stream.step = "send" => stream.chunk \in Blocks
    /\ subscribed => stream.step # "unload"
    /\ ~subscribed => stream.step \in {"get", "unload"} /\ stream.load = <<>>
    /\ ~subscribed /\ stream.step = "get" => stream.unload = {} /\ world < Len(Pristine)
    /\ ~subscribed /\ stream.step = "unload" => held = {}

ViewFits ==
    /\ stream.unload \cap held = {}
    /\ \A i, j \in DOMAIN stream.load : stream.load[i] = stream.load[j] => i = j
    /\ \A i \in DOMAIN stream.load : stream.load[i] \in held =>
           i = 1 /\ (stream.attempt > 0 \/ stream.step = "peek")
    /\ held \cup ToSet(stream.load) # {} => 
           centre # NoPlace /\ held \cup ToSet(stream.load) \subseteq Visible(centre)

(* What the view neither has, nor forgot, nor is unloading is not shown. *)
OutOfView(c) ==
    c \in held \cup stray \cup stream.unload \/ AtHead(c, {"mark"}) \/ Shown(c) = Absent

IInv == TypeOK /\ StreamFits /\ ViewFits /\ \A c \in Coords : OutOfView(c)

(* No chunk is edited while an edit of it is still to be broadcast: what is  *)
(* to be broadcast is what there is.                                         *)
InTurn ==
    \A e, f \in Editors :
        posts[e] # NoPost /\ posts[f] # NoPost /\ posts[e].coord = posts[f].coord => e = f

Posted(c) == \E e \in Editors : posts[e] # NoPost /\ posts[e].coord = c
Regenerated(c) == \E e \in Editors : PostedBy(e, "chunk") /\ posts[e].coord = c

PostsFit ==
    \A e \in Editors : posts[e] # NoPost =>
        posts[e].kind \in {"block", "chunk"} /\ posts[e].block = terrain[posts[e].coord]

(* The chunk that is being sent is the one there is, or Peek will tell. *)
Dirty == stream.arc \in {"changed", "missed"}

SendFits == stream.step = "send" /\ ~Dirty => stream.chunk = terrain[Head(stream.load)]

(* Something was turned away, or is being asked for, and nothing newer is on *)
(* the way.                                                                  *)
Entering == \E i \in DOMAIN line : line[i] = WorldEntered
Brings(u, c) == u.kind = "chunk" /\ u.coord = c
Bringing(c) == \E i \in DOMAIN line : Brings(line[i], c)
Missed(c, coords) == c \in coords /\ ~Entering /\ ~Bringing(c)

Current(c) == Shown(c) = terrain[c]
Excused(c) == c \in silent \/ Missed(c, turnedAway)
BeingSent(c) ==
    \/ AtHead(c, {"send"})
    \/ AtHead(c, {"get"}) /\ stream.attempt > 0
    \/ AtHead(c, {"mark", "peek"}) /\ Dirty

HeldFits(c) ==
    c \in held =>
        \/ Current(c) \/ Excused(c) \/ Missed(c, ToSet(asks)) \/ BeingSent(c)
        \/ Posted(c) /\ Shown(c) # Absent

(* No edit of the chunk comes behind it. *)
Edits(u, c) == u.kind = "block" /\ u.coord = c
ChunkIsLast(c) ==
    \A i \in DOMAIN line : Edits(line[i], c) =>
        \E j \in DOMAIN line : j > i /\ Brings(line[j], c)

MarkFits(c) ==
    AtHead(c, {"mark"}) =>
        \/ Dirty \/ Excused(c)
        \/ c \in held /\ ~Regenerated(c) /\ (Current(c) \/ Missed(c, ToSet(asks)))
        \/ Current(c) /\ ChunkIsLast(c)

CInv == PostsFit /\ SendFits /\ \A c \in Coords : HeldFits(c) /\ MarkFits(c)
JInv == IInv /\ CInv
-----------------------------------------------------------------------------
(* Sequences, and functions defined along them. *)

LEMMA SetInduction ==
    ASSUME NEW S, 0 \in S, \A n \in Nat : n \in S => n + 1 \in S
    PROVE  \A n \in Nat : n \in S
<1> DEFINE T == {n \in Nat : n \notin S}
<1> SUFFICES ASSUME T # {}
             PROVE  FALSE
  OBVIOUS
<1>1. IsWellFoundedOn(OpToRel(<,Nat), Nat)
  BY NatLessThanWellFounded
<1>2. PICK x \in T : \A y \in T : ~ (<<y, x>> \in OpToRel(<,Nat))
  BY <1>1, WFMin
<1>3. \A y \in T : ~ (y < x)
  BY <1>2 DEF OpToRel
<1>4. x \in Nat /\ x # 0 /\ x - 1 \in Nat /\ x - 1 < x
  OBVIOUS
<1>5. x - 1 \in S
  BY <1>3, <1>4
<1>6. x = (x - 1) + 1
  BY <1>4
<1> QED BY <1>4, <1>5, <1>6

(* What is computed step by step exists. *)
Computes(h, V, b, L, g) ==
    h \in [0..L -> V] /\ h[0] = b /\ \A n \in 1..L : h[n] = g[n][h[n - 1]]

LEMMA Recursion ==
    ASSUME NEW V, NEW b \in V, NEW L \in Nat, NEW g \in [1..L -> [V -> V]]
    PROVE  \E h : Computes(h, V, b, L, g)
<1> DEFINE Reaches(m, h) == h[0] = b /\ \A n \in 1..m : h[n] = g[n][h[n - 1]]
           S == {m \in Nat : m <= L => \E h \in [0..m -> V] : Reaches(m, h)}
<1>1. 0 \in S
  <2>1. [n \in 0..0 |-> b] \in [0..0 -> V] /\ Reaches(0, [n \in 0..0 |-> b])
    OBVIOUS
  <2> QED BY <2>1
<1>2. ASSUME NEW m \in Nat, m \in S
      PROVE  m + 1 \in S
  <2> SUFFICES ASSUME m + 1 <= L
               PROVE  \E h \in [0..(m + 1) -> V] : Reaches(m + 1, h)
    OBVIOUS
  <2>1. PICK h \in [0..m -> V] : Reaches(m, h)
    BY <1>2
  <2> DEFINE v == g[m + 1][h[m]]
             k == [n \in 0..(m + 1) |-> IF n = m + 1 THEN v ELSE h[n]]
  <2>2. h[m] \in V /\ m + 1 \in 1..L
    BY <1>2
  <2>3. v \in V
    BY <2>2
  <2>4. k \in [0..(m + 1) -> V] /\ k[0] = b
    BY <2>1, <2>3
  <2>5. ASSUME NEW n \in 1..(m + 1)
        PROVE  k[n] = g[n][k[n - 1]]
    <3>1. CASE n = m + 1
      <4>1. k[n] = v /\ k[n - 1] = h[m]
        BY <3>1
      <4> QED BY <3>1, <4>1
    <3>2. CASE n # m + 1
      <4>1. n \in 1..m /\ n - 1 \in 0..m /\ k[n] = h[n] /\ k[n - 1] = h[n - 1]
        BY <3>2
      <4> QED BY <2>1, <4>1
    <3> QED BY <3>1, <3>2
  <2> HIDE DEF k
  <2> QED BY <2>4, <2>5
<1>3. L \in S
  <2> HIDE DEF S
  <2> QED BY <1>1, <1>2, SetInduction
<1> QED BY <1>3 DEF Computes

LEMMA AbsentIs == Absent \notin Blocks
  BY DecodeQueueAssumption

(* The frames there are. *)
LEMMA FrameTypes ==
    /\ \A u \in Updates : /\ u.kind \in {"chunk", "unload", "block"} /\ u.coord \in Coords
                          /\ u.block \in Values /\ u # WorldEntered
                          /\ u.kind = "unload" <=> u.block = Absent
                          /\ u.kind # "unload" => u.block \in Blocks
    /\ \A c \in Coords : ChunkUnload(c) \in Updates
    /\ \A c \in Coords, b \in Blocks : ChunkData(c, b) \in Updates /\ BlockUpdate(c, b) \in Updates
    /\ WorldEntered \in Frames /\ Updates \subseteq Frames
<1>1. ASSUME NEW u \in Updates
      PROVE  /\ u.kind \in {"chunk", "unload", "block"} /\ u.coord \in Coords
             /\ u.block \in Values /\ u # WorldEntered
             /\ u.kind = "unload" <=> u.block = Absent
             /\ u.kind # "unload" => u.block \in Blocks
  BY AbsentIs DEF Updates, ChunkData, ChunkUnload, BlockUpdate, WorldEntered, Values
<1> QED BY <1>1 DEF Updates, Frames

LEMMA MadeType ==
    ASSUME NEW u \in Frames, NEW b \in Values, NEW c
    PROVE  Made(b, u, c) \in Values
  BY FrameTypes DEF Made, Frames, Values

(* After, unrolled. *)
Unrolled(k, s, b, c) ==
    /\ k \in [0..Len(s) -> Values]
    /\ k[0] = b
    /\ \A n \in 1..Len(s) : k[n] = Made(k[n - 1], s[n], c)
    /\ After(s, b, c) = k[Len(s)]

LEMMA AfterUnrolls ==
    ASSUME NEW s \in Seq(Frames), NEW b \in Values, NEW c
    PROVE  \E k : Unrolled(k, s, b, c)
<1> DEFINE L == Len(s)
           g == [n \in 1..L |-> [v \in Values |-> Made(v, s[n], c)]]
           Is(h) == h = [n \in 0..Len(s) |-> IF n = 0 THEN b ELSE Made(h[n - 1], s[n], c)]
           k == CHOOSE h : Is(h)
<1>1. g \in [1..L -> [Values -> Values]]
  BY MadeType
<1>2. PICK h \in [0..L -> Values] : h[0] = b /\ \A n \in 1..L : h[n] = g[n][h[n - 1]]
  <2>1. L \in Nat /\ b \in Values
    OBVIOUS
  <2> HIDE DEF g, L
  <2>2. \E h : Computes(h, Values, b, L, g)
    BY <1>1, <2>1, Recursion
  <2> QED BY <2>2 DEF Computes
<1>3. \A n \in 1..L : h[n] = Made(h[n - 1], s[n], c)
  BY <1>2
<1>4. Is(h)
  BY <1>2, <1>3
<1>5. Is(k)
  <2> HIDE DEF Is
  <2> QED BY <1>4
<1>6. After(s, b, c) = k[L]
  BY DEF After
<1> HIDE DEF k
<1>7. k[0] = b /\ \A n \in 1..L : k[n] = Made(k[n - 1], s[n], c)
  BY <1>5
<1> DEFINE S == {n \in Nat : n <= L => k[n] \in Values}
<1>8. \A n \in Nat : n \in S
  <2>1. 0 \in S
    BY <1>7
  <2>2. ASSUME NEW n \in Nat, n \in S
        PROVE  n + 1 \in S
    <3> SUFFICES ASSUME n + 1 <= L
                 PROVE  k[n + 1] \in Values
      OBVIOUS
    <3>1. n + 1 \in 1..L /\ k[n] \in Values /\ s[n + 1] \in Frames /\ (n + 1) - 1 = n
      BY <2>2
    <3>2. k[n + 1] = Made(k[n], s[n + 1], c)
      BY <1>7, <3>1
    <3> QED BY <3>1, <3>2, MadeType
  <2> HIDE DEF S
  <2> QED BY <2>1, <2>2, SetInduction
<1>9. k \in [0..L -> Values]
  BY <1>5, <1>8
<1> QED BY <1>6, <1>7, <1>9 DEF Unrolled

LEMMA AfterType ==
    ASSUME NEW s \in Seq(Frames), NEW b \in Values, NEW c
    PROVE  After(s, b, c) \in Values
  BY AfterUnrolls DEF Unrolled

LEMMA AfterNothing ==
    ASSUME NEW b \in Values, NEW c
    PROVE  After(<<>>, b, c) = b
<1>1. <<>> \in Seq(Frames) /\ Len(<<>>) = 0
  OBVIOUS
<1>2. PICK k : Unrolled(k, <<>>, b, c)
  BY <1>1, AfterUnrolls
<1> QED BY <1>1, <1>2 DEF Unrolled

LEMMA AfterBoth ==
    ASSUME NEW s \in Seq(Frames), NEW t \in Seq(Frames), NEW b \in Values, NEW c
    PROVE  After(s \o t, b, c) = After(t, After(s, b, c), c)
<1> DEFINE x == After(s, b, c)
<1>1. x \in Values /\ s \o t \in Seq(Frames)
  BY AfterType
<1>2. PICK k : Unrolled(k, s, b, c)
  BY AfterUnrolls
<1>3. PICK r : Unrolled(r, t, x, c)
  <2> HIDE DEF x
  <2> QED BY <1>1, AfterUnrolls
<1>4. PICK q : Unrolled(q, s \o t, b, c)
  BY <1>1, AfterUnrolls
<1>5. Len(s \o t) = Len(s) + Len(t) /\ Len(s) \in Nat /\ Len(t) \in Nat
  OBVIOUS
<1> DEFINE S == {n \in Nat : n <= Len(s) => q[n] = k[n]}
<1>6. \A n \in Nat : n \in S
  <2>1. 0 \in S
    BY <1>2, <1>4 DEF Unrolled
  <2>2. ASSUME NEW n \in Nat, n \in S
        PROVE  n + 1 \in S
    <3> SUFFICES ASSUME n + 1 <= Len(s)
                 PROVE  q[n + 1] = k[n + 1]
      OBVIOUS
    <3>1. /\ n + 1 \in 1..Len(s) /\ n + 1 \in 1..Len(s \o t) /\ (n + 1) - 1 = n
          /\ q[n] = k[n] /\ (s \o t)[n + 1] = s[n + 1]
      BY <2>2, <1>5
    <3> QED BY <3>1, <1>2, <1>4 DEF Unrolled
  <2> HIDE DEF S
  <2> QED BY <2>1, <2>2, SetInduction
<1>7. q[Len(s)] = x
  BY <1>2, <1>5, <1>6 DEF Unrolled
<1> DEFINE T == {n \in Nat : n <= Len(t) => q[Len(s) + n] = r[n]}
<1>8. \A n \in Nat : n \in T
  <2>1. 0 \in T
    BY <1>3, <1>5, <1>7 DEF Unrolled
  <2>2. ASSUME NEW n \in Nat, n \in T
        PROVE  n + 1 \in T
    <3> SUFFICES ASSUME n + 1 <= Len(t)
                 PROVE  q[Len(s) + (n + 1)] = r[n + 1]
      OBVIOUS
    <3>1. /\ n + 1 \in 1..Len(t) /\ Len(s) + (n + 1) \in 1..Len(s \o t)
          /\ (n + 1) - 1 = n /\ (Len(s) + (n + 1)) - 1 = Len(s) + n
          /\ q[Len(s) + n] = r[n] /\ (s \o t)[Len(s) + (n + 1)] = t[n + 1]
      BY <2>2, <1>5
    <3> QED BY <3>1, <1>3, <1>4 DEF Unrolled
  <2> HIDE DEF T
  <2> QED BY <2>1, <2>2, SetInduction
<1>9. q[Len(s) + Len(t)] = r[Len(t)]
  BY <1>5, <1>8
<1> QED BY <1>3, <1>4, <1>5, <1>9 DEF Unrolled

LEMMA AfterOne ==
    ASSUME NEW u \in Frames, NEW b \in Values, NEW c
    PROVE  After(<<u>>, b, c) = Made(b, u, c)
<1>1. <<u>> \in Seq(Frames) /\ Len(<<u>>) = 1 /\ <<u>>[1] = u
  OBVIOUS
<1>2. PICK k : Unrolled(k, <<u>>, b, c)
  BY <1>1, AfterUnrolls
<1> QED BY <1>1, <1>2 DEF Unrolled

LEMMA AfterAppend ==
    ASSUME NEW s \in Seq(Frames), NEW u \in Frames, NEW b \in Values, NEW c
    PROVE  After(Append(s, u), b, c) = Made(After(s, b, c), u, c)
<1>1. Append(s, u) = s \o <<u>> /\ <<u>> \in Seq(Frames)
  OBVIOUS
<1>2. After(s, b, c) \in Values
  BY AfterType
<1>3. After(s \o <<u>>, b, c) = After(<<u>>, After(s, b, c), c)
  BY <1>1, AfterBoth
<1>4. After(<<u>>, After(s, b, c), c) = Made(After(s, b, c), u, c)
  BY <1>2, AfterOne
<1> QED BY <1>1, <1>3, <1>4

(* A sequence is what comes before a place of it and what comes after. *)
LEMMA SplitAt ==
    ASSUME NEW T, NEW s \in Seq(T), NEW n \in 0..Len(s)
    PROVE  /\ SubSeq(s, 1, n) \in Seq(T) /\ SubSeq(s, n + 1, Len(s)) \in Seq(T)
           /\ Len(SubSeq(s, 1, n)) = n /\ Len(SubSeq(s, n + 1, Len(s))) = Len(s) - n
           /\ \A i \in 1..n : SubSeq(s, 1, n)[i] = s[i]
           /\ \A i \in 1..(Len(s) - n) : SubSeq(s, n + 1, Len(s))[i] = s[n + i]
           /\ s = SubSeq(s, 1, n) \o SubSeq(s, n + 1, Len(s))
<1>1. Len(s) \in Nat
  OBVIOUS
<1>2. /\ SubSeq(s, 1, n) \in Seq(T) /\ SubSeq(s, n + 1, Len(s)) \in Seq(T)
      /\ Len(SubSeq(s, 1, n)) = n /\ Len(SubSeq(s, n + 1, Len(s))) = Len(s) - n
  BY <1>1
<1>3. \A i \in 1..n : SubSeq(s, 1, n)[i] = s[i]
  BY <1>1
<1>4. \A i \in 1..(Len(s) - n) : SubSeq(s, n + 1, Len(s))[i] = s[n + i]
  BY <1>1
<1>5. 1 \in 1..(Len(s) + 1) /\ n \in (1 - 1)..Len(s) /\ Len(s) \in n..Len(s)
  BY <1>1
<1>6. SubSeq(s, 1, n) \o SubSeq(s, n + 1, Len(s)) = SubSeq(s, 1, Len(s))
  BY <1>5, ConcatAdjacentSubSeq
<1>7. SubSeq(s, 1, Len(s)) = s
  BY SubSeqFull
<1> QED BY <1>2, <1>3, <1>4, <1>6, <1>7

-----------------------------------------------------------------------------
(* What a sequence of frames makes of a chunk. *)

Unloads(u, c) == u.kind = "unload" /\ u.coord = c
Clears(u, c) == u = WorldEntered \/ Unloads(u, c)
States(u, c) == Clears(u, c) \/ Brings(u, c)

LEMMA MadeOf ==
    ASSUME NEW u \in Frames, NEW b \in Values, NEW c
    PROVE  /\ Clears(u, c) => Made(b, u, c) = Absent
           /\ Brings(u, c) => Made(b, u, c) = u.block /\ u.block \in Blocks
           /\ Edits(u, c) => Made(b, u, c) = IF b = Absent THEN Absent ELSE u.block
           /\ Edits(u, c) => u.block \in Blocks
           /\ ~States(u, c) /\ ~Edits(u, c) => Made(b, u, c) = b
<1>1. CASE u = WorldEntered
  BY <1>1 DEF WorldEntered, Made, Clears, Brings, Edits, States
<1>2. CASE u # WorldEntered
  <2>1. u \in Updates
    BY <1>2 DEF Frames
  <2> QED BY <1>2, <2>1, FrameTypes DEF Made, Clears, Unloads, Brings, Edits, States
<1> QED BY <1>1, <1>2

LEMMA AfterIn ==
    ASSUME NEW s \in Seq(Frames), NEW c, NEW P \in SUBSET Values, NEW b \in P,
           \A i \in 1..Len(s) : \A v \in P : Made(v, s[i], c) \in P
    PROVE  After(s, b, c) \in P
<1>1. PICK k : Unrolled(k, s, b, c)
  BY AfterUnrolls
<1> DEFINE S == {n \in Nat : n <= Len(s) => k[n] \in P}
<1>2. \A n \in Nat : n \in S
  <2>1. 0 \in S
    BY <1>1 DEF Unrolled
  <2>2. ASSUME NEW n \in Nat, n \in S
        PROVE  n + 1 \in S
    <3> SUFFICES ASSUME n + 1 <= Len(s)
                 PROVE  k[n + 1] \in P
      OBVIOUS
    <3>1. n + 1 \in 1..Len(s) /\ (n + 1) - 1 = n /\ k[n] \in P
      BY <2>2
    <3> QED BY <1>1, <3>1 DEF Unrolled
  <2> HIDE DEF S
  <2> QED BY <2>1, <2>2, SetInduction
<1>3. Len(s) \in Nat
  OBVIOUS
<1> QED BY <1>1, <1>2, <1>3 DEF Unrolled

LEMMA AfterUntouched ==
    ASSUME NEW s \in Seq(Frames), NEW c, NEW b \in Values,
           \A i \in 1..Len(s) : ~States(s[i], c) /\ ~Edits(s[i], c)
    PROVE  After(s, b, c) = b
<1>1. \A i \in 1..Len(s) : \A v \in {b} : Made(v, s[i], c) \in {b}
  BY MadeOf
<1>2. After(s, b, c) \in {b}
  BY <1>1, AfterIn
<1> QED BY <1>2

LEMMA AfterAbsent ==
    ASSUME NEW s \in Seq(Frames), NEW c, \A i \in 1..Len(s) : ~Brings(s[i], c)
    PROVE  After(s, Absent, c) = Absent
<1>1. {Absent} \in SUBSET Values /\ Absent \in {Absent}
  BY DEF Values
<1>2. \A i \in 1..Len(s) : \A v \in {Absent} : Made(v, s[i], c) \in {Absent}
  BY <1>1, MadeOf DEF States
<1>3. After(s, Absent, c) \in {Absent}
  BY <1>1, <1>2, AfterIn
<1> QED BY <1>3

LEMMA AfterKept ==
    ASSUME NEW s \in Seq(Frames), NEW c, NEW b \in Blocks,
           \A i \in 1..Len(s) : ~Clears(s[i], c)
    PROVE  After(s, b, c) \in Blocks
<1>1. Blocks \in SUBSET Values
  BY DEF Values
<1>2. \A i \in 1..Len(s) : \A v \in Blocks : Made(v, s[i], c) \in Blocks
  <2> SUFFICES ASSUME NEW i \in 1..Len(s), NEW v \in Blocks
               PROVE  Made(v, s[i], c) \in Blocks
    OBVIOUS
  <2>1. s[i] \in Frames /\ v \in Values /\ v # Absent
    BY <1>1, AbsentIs
  <2> QED BY <2>1, MadeOf DEF States
<1> QED BY <1>1, <1>2, AfterIn

(* Once a chunk is stated whole, it does not matter what it was. *)
LEMMA AfterStated ==
    ASSUME NEW s \in Seq(Frames), NEW c, NEW i \in 1..Len(s), States(s[i], c),
           NEW x \in Values, NEW y \in Values
    PROVE  After(s, x, c) = After(s, y, c)
<1> DEFINE p == SubSeq(s, 1, i)
           q == SubSeq(s, i + 1, Len(s))
           r == SubSeq(p, 1, i - 1)
           u == SubSeq(p, i, i)
<1>1. /\ p \in Seq(Frames) /\ q \in Seq(Frames) /\ s = p \o q /\ Len(p) = i
      /\ p[i] = s[i] /\ s[i] \in Frames
  <2>1. i \in 0..Len(s) /\ i \in 1..i
    OBVIOUS
  <2>2. /\ SubSeq(s, 1, i) \in Seq(Frames) /\ SubSeq(s, i + 1, Len(s)) \in Seq(Frames)
        /\ Len(SubSeq(s, 1, i)) = i /\ SubSeq(s, 1, i)[i] = s[i]
        /\ s = SubSeq(s, 1, i) \o SubSeq(s, i + 1, Len(s))
    BY <2>1, SplitAt
  <2> QED BY <2>2
<1>2. r \in Seq(Frames) /\ u \in Seq(Frames) /\ p = r \o u /\ Len(u) = 1 /\ u[1] = p[i]
  <2> HIDE DEF p
  <2>1. i - 1 \in 0..Len(p) /\ (i - 1) + 1 = i /\ Len(p) - (i - 1) = 1 /\ 1 \in 1..1
    BY <1>1
  <2>2. /\ SubSeq(p, (i - 1) + 1, Len(p)) \in Seq(Frames)
        /\ Len(SubSeq(p, (i - 1) + 1, Len(p))) = 1
        /\ SubSeq(p, (i - 1) + 1, Len(p))[1] = p[(i - 1) + 1]
        /\ p = SubSeq(p, 1, i - 1) \o SubSeq(p, (i - 1) + 1, Len(p))
        /\ SubSeq(p, 1, i - 1) \in Seq(Frames)
    BY <1>1, <2>1, SplitAt
  <2> QED BY <1>1, <2>1, <2>2
<1> HIDE DEF p, q, r, u
<1>3. u = <<s[i]>>
  BY <1>1, <1>2
<1>4. ASSUME NEW v \in Values
      PROVE  After(s, v, c) = After(q, Made(After(r, v, c), s[i], c), c)
  <2>1. After(s, v, c) = After(q, After(p, v, c), c)
    BY <1>1, AfterBoth
  <2>2. After(p, v, c) = After(u, After(r, v, c), c) /\ After(r, v, c) \in Values
    BY <1>2, AfterBoth, AfterType
  <2>3. After(u, After(r, v, c), c) = Made(After(r, v, c), s[i], c)
    BY <1>1, <1>3, <2>2, AfterOne
  <2> QED BY <2>1, <2>2, <2>3
<1>5. After(r, x, c) \in Values /\ After(r, y, c) \in Values
  BY <1>2, AfterType
<1>6. Made(After(r, x, c), s[i], c) = Made(After(r, y, c), s[i], c)
  BY <1>1, <1>5, MadeOf DEF States
<1> QED BY <1>4, <1>6

LEMMA AfterUnloaded ==
    ASSUME NEW s \in Seq(Frames), NEW c, NEW i \in 1..Len(s), Clears(s[i], c),
           \A j \in 1..Len(s) : ~Brings(s[j], c), NEW b \in Values
    PROVE  After(s, b, c) = Absent
<1>1. Absent \in Values
  BY DEF Values
<1>2. After(s, b, c) = After(s, Absent, c)
  BY <1>1, AfterStated DEF States
<1> QED BY <1>2, AfterAbsent

LEMMA AfterBrought ==
    ASSUME NEW s \in Seq(Frames), NEW c, NEW i \in 1..Len(s), Brings(s[i], c),
           \A j \in 1..Len(s) : ~Clears(s[j], c), NEW b \in Values
    PROVE  After(s, b, c) # Absent
<1>1. s[i] \in Frames
  OBVIOUS
<1>2. s[i].block \in Blocks /\ s[i].block \in Values
  BY <1>1, MadeOf DEF Values
<1>3. After(s, b, c) = After(s, s[i].block, c)
  BY <1>2, AfterStated DEF States
<1> QED BY <1>2, <1>3, AfterKept, AbsentIs

(* What is cleared of a chunk that is there is cleared of any. *)
LEMMA AfterCleared ==
    ASSUME NEW s \in Seq(Frames), NEW c, NEW x \in Values, NEW y \in Values, x # Absent,
           After(s, x, c) = Absent
    PROVE  After(s, y, c) = Absent
<1>1. CASE \E i \in 1..Len(s) : States(s[i], c)
  BY <1>1, AfterStated
<1>2. CASE ~ \E i \in 1..Len(s) : States(s[i], c)
  <2>1. x \in Blocks /\ \A i \in 1..Len(s) : ~Clears(s[i], c)
    BY <1>2 DEF Values, States
  <2> QED BY <2>1, AfterKept, AbsentIs
<1> QED BY <1>1, <1>2

-----------------------------------------------------------------------------
(* What is picked from a sequence, and what the drain makes of one. *)

PicksOf(k, seq, places, T) ==
    /\ k \in [0..Len(seq) -> Seq(T)]
    /\ k[0] = <<>>
    /\ \A n \in 1..Len(seq) : k[n] = IF n \in places THEN Append(k[n - 1], seq[n]) ELSE k[n - 1]
    /\ Picked(seq, places) = k[Len(seq)]

Put(v, n, seq, places) == IF n \in places THEN Append(v, seq[n]) ELSE v

LEMMA PickedUnrolls ==
    ASSUME NEW T, NEW seq \in Seq(T), NEW places
    PROVE  \E k : PicksOf(k, seq, places, T)
<1> DEFINE L == Len(seq)
           V == Seq(T)
           g == [n \in 1..L |-> [v \in V |-> Put(v, n, seq, places)]]
           Is(h) == h = [n \in 0..Len(seq) |-> IF n = 0 THEN <<>> ELSE Put(h[n - 1], n, seq, places)]
           k == CHOOSE h : Is(h)
<1>0. L \in Nat /\ <<>> \in V
  OBVIOUS
<1>1. \A n \in 1..L : \A v \in V : Put(v, n, seq, places) \in V
  BY DEF Put
<1>7. Picked(seq, places) = k[L]
  BY DEF Picked, Put
<1> HIDE DEF V
<1>2. g \in [1..L -> [V -> V]]
  BY <1>1
<1>3. PICK h : Computes(h, V, <<>>, L, g)
  <2> HIDE DEF g, L
  <2> QED BY <1>0, <1>2, Recursion
<1>4. h \in [0..L -> V] /\ h[0] = <<>> /\ \A n \in 1..L : h[n] = Put(h[n - 1], n, seq, places)
  <2>1. h \in [0..L -> V] /\ h[0] = <<>> /\ \A n \in 1..L : h[n] = g[n][h[n - 1]]
    <3> HIDE DEF g, L
    <3> QED BY <1>3 DEF Computes
  <2>2. \A n \in 1..L : n - 1 \in 0..L /\ h[n - 1] \in V
    BY <1>0, <2>1
  <2>3. \A n \in 1..L : \A v \in V : g[n][v] = Put(v, n, seq, places)
    OBVIOUS
  <2> HIDE DEF g
  <2> QED BY <2>1, <2>2, <2>3
<1>5. Is(h)
  BY <1>4
<1>6. Is(k)
  <2> HIDE DEF Is
  <2> QED BY <1>5
<1> HIDE DEF k
<1>8. k[0] = <<>> /\ \A n \in 1..L : k[n] = Put(k[n - 1], n, seq, places)
  BY <1>6
<1> DEFINE S == {n \in Nat : n <= L => k[n] \in V}
<1>9. \A n \in Nat : n \in S
  <2>1. 0 \in S
    BY <1>0, <1>8
  <2>2. ASSUME NEW n \in Nat, n \in S
        PROVE  n + 1 \in S
    <3> SUFFICES ASSUME n + 1 <= L
                 PROVE  k[n + 1] \in V
      OBVIOUS
    <3>1. n + 1 \in 1..L /\ k[n] \in V /\ (n + 1) - 1 = n
      BY <2>2
    <3> QED BY <1>1, <1>8, <3>1
  <2> HIDE DEF S
  <2> QED BY <2>1, <2>2, SetInduction
<1>10. k \in [0..L -> V]
  BY <1>6, <1>9
<1> QED BY <1>7, <1>8, <1>10 DEF PicksOf, Put, V

LEMMA PickedType ==
    ASSUME NEW T, NEW seq \in Seq(T), NEW places
    PROVE  Picked(seq, places) \in Seq(T)
<1>1. PICK k : PicksOf(k, seq, places, T)
  BY PickedUnrolls
<1> QED BY <1>1 DEF PicksOf

(* It keeps the elements apart, and has no others. *)
LEMMA PickedInjective ==
    ASSUME NEW T, NEW seq \in Seq(T), NEW places, IsInjective(seq)
    PROVE  /\ \A i \in 1..Len(Picked(seq, places)) :
                  \E j \in 1..Len(seq) : j \in places /\ Picked(seq, places)[i] = seq[j]
           /\ \A i, j \in 1..Len(Picked(seq, places)) :
                  Picked(seq, places)[i] = Picked(seq, places)[j] => i = j
<1>1. PICK k : PicksOf(k, seq, places, T)
  BY PickedUnrolls
<1>2. \A i, j \in 1..Len(seq) : seq[i] = seq[j] => i = j
  BY DEF IsInjective
<1> DEFINE Fits(n) == /\ \A i \in 1..Len(k[n]) : \E j \in 1..n : j \in places /\ k[n][i] = seq[j]
                      /\ \A i, j \in 1..Len(k[n]) : k[n][i] = k[n][j] => i = j
           S == {n \in Nat : n <= Len(seq) => Fits(n)}
<1>3. \A n \in Nat : n \in S
  <2>1. 0 \in S
    BY <1>1 DEF PicksOf
  <2>2. ASSUME NEW n \in Nat, n \in S
        PROVE  n + 1 \in S
    <3> SUFFICES ASSUME n + 1 <= Len(seq)
                 PROVE  Fits(n + 1)
      OBVIOUS
    <3>1. /\ n + 1 \in 1..Len(seq) /\ n \in 0..Len(seq) /\ (n + 1) - 1 = n
          /\ k[n] \in Seq(T) /\ seq[n + 1] \in T
      <4>1. k \in [0..Len(seq) -> Seq(T)]
        BY <1>1 DEF PicksOf
      <4>2. Len(seq) \in Nat /\ n + 1 \in 1..Len(seq) /\ n \in 0..Len(seq) /\ (n + 1) - 1 = n
        OBVIOUS
      <4> QED BY <4>1, <4>2
    <3>2. Fits(n)
      <4>1. n <= Len(seq)
        BY <3>1
      <4> HIDE DEF Fits
      <4> QED BY <2>2, <4>1
    <3>3. k[n + 1] = IF n + 1 \in places THEN Append(k[n], seq[n + 1]) ELSE k[n]
      BY <1>1, <3>1 DEF PicksOf
    <3>4. CASE n + 1 \notin places
      <4>1. k[n + 1] = k[n] /\ 1..n \subseteq 1..(n + 1)
        BY <3>3, <3>4
      <4> QED BY <3>2, <4>1
    <3>5. CASE n + 1 \in places
      <4> DEFINE p == k[n]
                 q == k[n + 1]
      <4>1. /\ p \in Seq(T) /\ Len(p) \in Nat /\ Len(q) = Len(p) + 1
            /\ q[Len(p) + 1] = seq[n + 1] /\ \A i \in 1..Len(p) : q[i] = p[i]
        BY <3>1, <3>3, <3>5
      <4>2. \A i \in 1..Len(p) : \E j \in 1..n : j \in places /\ p[i] = seq[j]
        BY <3>2
      <4>3. \A i, j \in 1..Len(p) : p[i] = p[j] => i = j
        BY <3>2
      <4> HIDE DEF p, q
      <4>4. \A i \in 1..Len(p) : q[i] # seq[n + 1]
        BY <1>2, <3>1, <4>1, <4>2
      <4>5. \A i \in 1..Len(q) : \E j \in 1..(n + 1) : j \in places /\ q[i] = seq[j]
        <5> TAKE i \in 1..Len(q)
        <5>1. CASE i = Len(p) + 1
          <6>1. n + 1 \in 1..(n + 1) /\ q[i] = seq[n + 1]
            BY <4>1, <5>1
          <6> QED BY <3>5, <6>1
        <5>2. CASE i # Len(p) + 1
          <6>1. i \in 1..Len(p) /\ 1..n \subseteq 1..(n + 1)
            BY <4>1, <5>2
          <6> QED BY <4>1, <4>2, <6>1
        <5> QED BY <5>1, <5>2
      <4>6. \A i, j \in 1..Len(q) : q[i] = q[j] => i = j
        BY <4>1, <4>3, <4>4
      <4> QED BY <4>5, <4>6 DEF q
    <3> QED BY <3>4, <3>5
  <2> HIDE DEF S
  <2> QED BY <2>1, <2>2, SetInduction
<1>4. Fits(Len(seq))
  <2>1. Len(seq) \in Nat
    OBVIOUS
  <2> QED BY <1>3, <2>1
<1>5. Picked(seq, places) = k[Len(seq)]
  BY <1>1 DEF PicksOf
<1> QED BY <1>4, <1>5

(* Of a chunk it says what the whole sequence says, or nothing at all, if it *)
(* has all the frames of that chunk or none.                                 *)
LEMMA PickedSaysTheSame ==
    ASSUME NEW s \in Seq(Frames), NEW places, NEW b \in Values, NEW c,
           \A i \in 1..Len(s) : States(s[i], c) \/ Edits(s[i], c) => i \in places
    PROVE  After(Picked(s, places), b, c) = After(s, b, c)
<1>1. PICK k : PicksOf(k, s, places, Frames)
  BY PickedUnrolls
<1>2. PICK a : Unrolled(a, s, b, c)
  BY AfterUnrolls
<1> DEFINE S == {n \in Nat : n <= Len(s) => After(k[n], b, c) = a[n]}
<1>3. \A n \in Nat : n \in S
  <2>1. 0 \in S
    BY <1>1, <1>2, AfterNothing DEF PicksOf, Unrolled
  <2>2. ASSUME NEW n \in Nat, n \in S
        PROVE  n + 1 \in S
    <3> SUFFICES ASSUME n + 1 <= Len(s)
                 PROVE  After(k[n + 1], b, c) = a[n + 1]
      OBVIOUS
    <3>1. /\ n + 1 \in 1..Len(s) /\ n \in 0..Len(s) /\ (n + 1) - 1 = n
          /\ k[n] \in Seq(Frames) /\ s[n + 1] \in Frames /\ a[n] \in Values
          /\ After(k[n], b, c) = a[n]
      BY <1>1, <1>2, <2>2 DEF PicksOf, Unrolled
    <3>2. k[n + 1] = IF n + 1 \in places THEN Append(k[n], s[n + 1]) ELSE k[n]
      BY <1>1, <3>1 DEF PicksOf
    <3>3. a[n + 1] = Made(a[n], s[n + 1], c)
      BY <1>2, <3>1 DEF Unrolled
    <3>4. CASE n + 1 \in places
      BY <3>1, <3>2, <3>3, <3>4, AfterAppend
    <3>5. CASE n + 1 \notin places
      <4>1. ~States(s[n + 1], c) /\ ~Edits(s[n + 1], c)
        BY <3>1, <3>5
      <4>2. Made(a[n], s[n + 1], c) = a[n]
        BY <3>1, <4>1, MadeOf
      <4> QED BY <3>1, <3>2, <3>3, <3>5, <4>2
    <3> QED BY <3>4, <3>5
  <2> HIDE DEF S
  <2> QED BY <2>1, <2>2, SetInduction
<1>4. Len(s) \in Nat
  OBVIOUS
<1> QED BY <1>1, <1>2, <1>3, <1>4 DEF PicksOf, Unrolled

LEMMA PickedSaysNothing ==
    ASSUME NEW s \in Seq(Frames), NEW places, NEW b \in Values, NEW c,
           \A i \in 1..Len(s) : i \in places => ~States(s[i], c) /\ ~Edits(s[i], c)
    PROVE  After(Picked(s, places), b, c) = b
<1>1. PICK k : PicksOf(k, s, places, Frames)
  BY PickedUnrolls
<1> DEFINE S == {n \in Nat : n <= Len(s) => After(k[n], b, c) = b}
<1>3. \A n \in Nat : n \in S
  <2>1. 0 \in S
    BY <1>1, AfterNothing DEF PicksOf
  <2>2. ASSUME NEW n \in Nat, n \in S
        PROVE  n + 1 \in S
    <3> SUFFICES ASSUME n + 1 <= Len(s)
                 PROVE  After(k[n + 1], b, c) = b
      OBVIOUS
    <3>1. /\ n + 1 \in 1..Len(s) /\ n \in 0..Len(s) /\ (n + 1) - 1 = n
          /\ k[n] \in Seq(Frames) /\ s[n + 1] \in Frames
          /\ After(k[n], b, c) = b
      BY <1>1, <2>2 DEF PicksOf
    <3>2. k[n + 1] = IF n + 1 \in places THEN Append(k[n], s[n + 1]) ELSE k[n]
      BY <1>1, <3>1 DEF PicksOf
    <3>3. CASE n + 1 \in places
      <4>1. Made(b, s[n + 1], c) = b
        BY <3>1, <3>3, MadeOf
      <4> QED BY <3>1, <3>2, <3>3, <4>1, AfterAppend
    <3> QED BY <3>1, <3>2, <3>3
  <2> HIDE DEF S
  <2> QED BY <2>1, <2>2, SetInduction
<1>4. Len(s) \in Nat
  OBVIOUS
<1> QED BY <1>1, <1>3, <1>4 DEF PicksOf

LEMMA AppliedMakes ==
    ASSUME NEW m \in [Coords -> Values], NEW u \in Updates
    PROVE  /\ Applied(m, u) \in [Coords -> Values]
           /\ \A c \in Coords : Applied(m, u)[c] = Made(m[c], u, c)
  BY FrameTypes DEF Applied, Made

(* The drain applies one update after the other, to each chunk its own. *)
LEMMA DrainedIsAfter ==
    ASSUME NEW m \in [Coords -> Values], NEW s \in Seq(Updates)
    PROVE  /\ Drained(m, s) \in [Coords -> Values]
           /\ \A c \in Coords : Drained(m, s)[c] = After(s, m[c], c)
<1> DEFINE L == Len(s)
           V == [Coords -> Values]
           g == [n \in 1..L |-> [v \in V |-> Applied(v, s[n])]]
           Is(h) == h = [n \in 0..Len(s) |-> IF n = 0 THEN m ELSE Applied(h[n - 1], s[n])]
           k == CHOOSE h : Is(h)
<1>0. L \in Nat /\ m \in V /\ \A n \in 1..L : s[n] \in Updates
  OBVIOUS
<1>1. \A n \in 1..L : \A v \in V : Applied(v, s[n]) \in V
  BY <1>0, AppliedMakes
<1>2. g \in [1..L -> [V -> V]]
  <2> HIDE DEF V
  <2> QED BY <1>1
<1>3. PICK h : Computes(h, V, m, L, g)
  <2> HIDE DEF g, L, V
  <2> QED BY <1>0, <1>2, Recursion
<1>4. h \in [0..L -> V] /\ h[0] = m /\ \A n \in 1..L : h[n] = Applied(h[n - 1], s[n])
  <2> HIDE DEF V
  <2>1. h \in [0..L -> V] /\ h[0] = m /\ \A n \in 1..L : h[n] = g[n][h[n - 1]]
    <3> HIDE DEF g, L
    <3> QED BY <1>3 DEF Computes
  <2>2. \A n \in 1..L : n - 1 \in 0..L /\ h[n - 1] \in V
    BY <1>0, <2>1
  <2>3. \A n \in 1..L : \A v \in V : g[n][v] = Applied(v, s[n])
    OBVIOUS
  <2> HIDE DEF g
  <2> QED BY <2>1, <2>2, <2>3
<1>5. Is(h)
  <2> HIDE DEF V
  <2> QED BY <1>4
<1>6. Is(k)
  <2> HIDE DEF Is
  <2> QED BY <1>5
<1>7. Drained(m, s) = k[L]
  BY DEF Drained
<1> HIDE DEF k
<1>8. k[0] = m /\ \A n \in 1..L : k[n] = Applied(k[n - 1], s[n])
  BY <1>6
<1> DEFINE S == {n \in Nat : n <= L => k[n] \in V}
<1>9. \A n \in Nat : n \in S
  <2>1. 0 \in S
    BY <1>8
  <2>2. ASSUME NEW n \in Nat, n \in S
        PROVE  n + 1 \in S
    <3> SUFFICES ASSUME n + 1 <= L
                 PROVE  k[n + 1] \in V
      OBVIOUS
    <3>1. n + 1 \in 1..L /\ k[n] \in V /\ (n + 1) - 1 = n
      BY <2>2
    <3> QED
      <4> HIDE DEF V
      <4> QED BY <1>1, <1>8, <3>1
  <2> HIDE DEF S
  <2> QED BY <2>1, <2>2, SetInduction
<1>10. ASSUME NEW c \in Coords
       PROVE  k[L][c] = After(s, m[c], c)
  <2>1. s \in Seq(Frames) /\ m[c] \in Values
    BY FrameTypes, SeqMonotonic
  <2>2. PICK a : Unrolled(a, s, m[c], c)
    BY <2>1, AfterUnrolls
  <2> DEFINE A == {n \in Nat : n <= L => k[n][c] = a[n]}
  <2>3. \A n \in Nat : n \in A
    <3>1. 0 \in A
      BY <1>8, <2>2 DEF Unrolled
    <3>2. ASSUME NEW n \in Nat, n \in A
          PROVE  n + 1 \in A
      <4> SUFFICES ASSUME n + 1 <= L
                   PROVE  k[n + 1][c] = a[n + 1]
        OBVIOUS
      <4>1. n + 1 \in 1..L /\ k[n] \in V /\ (n + 1) - 1 = n /\ k[n][c] = a[n]
        BY <1>9, <3>2
      <4>2. k[n + 1] = Applied(k[n], s[n + 1]) /\ s[n + 1] \in Updates
        BY <1>8, <4>1
      <4>3. k[n + 1][c] = Made(k[n][c], s[n + 1], c)
        BY <4>1, <4>2, AppliedMakes
      <4>4. a[n + 1] = Made(a[n], s[n + 1], c)
        BY <2>2, <4>1 DEF Unrolled
      <4> QED BY <4>1, <4>3, <4>4
    <3> HIDE DEF A
    <3> QED BY <3>1, <3>2, SetInduction
  <2> QED BY <1>0, <2>2, <2>3 DEF Unrolled
<1>11. k[L] \in V
  BY <1>0, <1>9
<1> QED BY <1>7, <1>10, <1>11

(* The prediction's order is whatever SetToSeq takes, but it is all of them. *)
LEMMA SetToSeqHasAll ==
    ASSUME NEW S, IsFiniteSet(S)
    PROVE  SetToSeq(S) \in Seq(S) /\ \A x : x \in S => \E i \in 1..Len(SetToSeq(S)) : SetToSeq(S)[i] = x
<1> DEFINE n == Cardinality(S)
           Is(f) == f \in [1..n -> S] /\ IsInjective(f)
           f == CHOOSE h \in [1..n -> S] : IsInjective(h)
<1>1. n \in Nat /\ ExistsBijection(1..n, S)
  BY FS_CardinalityType
<1>2. PICK h \in Bijection(1..n, S) : TRUE
  BY <1>1 DEF ExistsBijection
<1>3. h \in [1..n -> S] /\ IsInjective(h)
  BY <1>2 DEF Bijection, Injection, IsInjective
<1>4. f \in [1..n -> S] /\ IsInjective(f)
  <2> HIDE DEF n
  <2> QED BY <1>3
<1>5. SetToSeq(S) = f
  BY DEF SetToSeq
<1> HIDE DEF f
<1>6. f \in Injection(1..n, S)
  BY <1>4 DEF Injection, IsInjective
<1>7. IsFiniteSet(1..n) /\ Cardinality(1..n) = n
  BY <1>1, FS_Interval
<1>8. f \in Surjection(1..n, S)
  BY <1>6, <1>7, FS_Injection
<1>9. f \in Seq(S) /\ Len(f) = n
  BY <1>1, <1>4
<1>10. \A x \in S : \E i \in 1..n : f[i] = x
  BY <1>8 DEF Surjection
<1> QED BY <1>5, <1>9, <1>10

-----------------------------------------------------------------------------
(* A frame of the client.  What admit makes of what has arrived. *)

LEMMA UpdatesAreFrames ==
    ASSUME NEW s \in Seq(Updates)
    PROVE  s \in Seq(Frames) /\ \A i \in 1..Len(s) : s[i] \in Updates /\ s[i] # WorldEntered
<1>1. s \in Seq(Frames)
  BY FrameTypes, SeqMonotonic
<1> QED BY <1>1, FrameTypes

LEMMA UpdateOf ==
    ASSUME NEW u \in Updates, NEW c
    PROVE  /\ u.coord = c <=> States(u, c) \/ Edits(u, c)
           /\ Clears(u, c) <=> Unloads(u, c)
  BY FrameTypes DEF States, Clears, Unloads, Brings, Edits

LEMMA FittingIs ==
    ASSUME NEW q \in Seq(Updates), NEW a \in Seq(Updates)
    PROVE  Fitting(q, a) \in 0..Len(a)
<1>1. Len(q) \in Nat /\ Len(a) \in Nat /\ MaxBacklog \in Nat
  BY DecodeQueueAssumption
<1> DEFINE room == Max({0, MaxBacklog - Len(q)})
<1>2. room \in Nat
  <2>1. \E x \in {0, MaxBacklog - Len(q)} : \A y \in {0, MaxBacklog - Len(q)} : x >= y
    BY <1>1
  <2>2. room \in {0, MaxBacklog - Len(q)} /\ room >= 0
    BY <2>1 DEF Max
  <2> QED BY <1>1, <2>2
<1> HIDE DEF room
<1>3. \E x \in {Len(a), room} : \A y \in {Len(a), room} : x <= y
  BY <1>1, <1>2
<1>4. Min({Len(a), room}) \in {Len(a), room} /\ Min({Len(a), room}) <= Len(a)
  BY <1>3 DEF Min
<1> QED BY <1>1, <1>2, <1>4 DEF Fitting, room

LEMMA CoordsOfIs ==
    ASSUME NEW s \in Seq(Updates), NEW kind, NEW c
    PROVE  c \in CoordsOf(s, kind) <=> \E i \in 1..Len(s) : s[i].kind = kind /\ s[i].coord = c
<1>1. DOMAIN s = 1..Len(s)
  OBVIOUS
<1> QED BY <1>1 DEF CoordsOf, ToSet

(* What has come, in the room there is and beyond it. *)
LEMMA Overflow ==
    ASSUME NEW q \in Seq(Updates), NEW a \in Seq(Updates)
    PROVE  /\ SubSeq(a, 1, Fitting(q, a)) \in Seq(Updates) /\ Overflowing(q, a) \in Seq(Updates)
           /\ a = SubSeq(a, 1, Fitting(q, a)) \o Overflowing(q, a)
           /\ \A i \in 1..Len(Overflowing(q, a)) :
                 Overflowing(q, a)[i] = a[Fitting(q, a) + i] /\ Fitting(q, a) + i \in 1..Len(a)
           /\ \A i \in 1..Len(a) : i > Fitting(q, a) =>
                 i - Fitting(q, a) \in 1..Len(Overflowing(q, a))
<1> DEFINE n == Fitting(q, a)
<1>1. n \in 0..Len(a) /\ Len(a) \in Nat
  BY FittingIs
<1> HIDE DEF n
<1>2. /\ SubSeq(a, 1, n) \in Seq(Updates) /\ SubSeq(a, n + 1, Len(a)) \in Seq(Updates)
      /\ Len(SubSeq(a, n + 1, Len(a))) = Len(a) - n
      /\ \A i \in 1..(Len(a) - n) : SubSeq(a, n + 1, Len(a))[i] = a[n + i]
      /\ a = SubSeq(a, 1, n) \o SubSeq(a, n + 1, Len(a))
  BY <1>1, SplitAt
<1>3. \A i \in 1..(Len(a) - n) : n + i \in 1..Len(a)
  BY <1>1
<1>4. \A i \in 1..Len(a) : i > n => i - n \in 1..(Len(a) - n)
  BY <1>1
<1>5. Overflowing(q, a) = SubSeq(a, n + 1, Len(a))
  BY DEF Overflowing, n
<1> QED BY <1>2, <1>3, <1>4, <1>5 DEF n

LEMMA RefusedIs ==
    ASSUME NEW q \in Seq(Updates), NEW a \in Seq(Updates), NEW c
    PROVE  /\ c \in Resendable(q, a) => \E i \in 1..Len(a) : i > Fitting(q, a) /\ Edits(a[i], c)
           /\ \A i \in 1..Len(a) : i > Fitting(q, a) /\ Brings(a[i], c) => c \in Refused(q, a)
           /\ c \in Refused(q, a) => \E i \in 1..Len(a) : Brings(a[i], c)
<1> DEFINE o == Overflowing(q, a)
           n == Fitting(q, a)
<1>1. /\ o \in Seq(Updates) /\ n \in 0..Len(a) /\ Len(a) \in Nat
      /\ \A i \in 1..Len(o) : o[i] = a[n + i] /\ n + i \in 1..Len(a)
      /\ \A i \in 1..Len(a) : i > n => i - n \in 1..Len(o)
  <2>1. n \in 0..Len(a) /\ Len(a) \in Nat
    BY FittingIs
  <2>2. /\ o \in Seq(Updates)
        /\ \A i \in 1..Len(o) : o[i] = a[n + i] /\ n + i \in 1..Len(a)
        /\ \A i \in 1..Len(a) : i > n => i - n \in 1..Len(o)
    <3> HIDE DEF o, n
    <3> QED BY Overflow DEF o, n
  <2> QED BY <2>1, <2>2
<1> HIDE DEF o, n
<1>2. ASSUME c \in Resendable(q, a)
      PROVE  \E i \in 1..Len(a) : i > n /\ Edits(a[i], c)
  <2>1. c \in CoordsOf(o, "block")
    BY <1>2 DEF Resendable, Evicted, o
  <2>2. PICK i \in 1..Len(o) : o[i].kind = "block" /\ o[i].coord = c
    BY <1>1, <2>1, CoordsOfIs
  <2>3. n + i \in 1..Len(a) /\ n + i > n /\ Edits(a[n + i], c)
    BY <1>1, <2>2 DEF Edits
  <2> QED BY <2>3
<1>3. ASSUME NEW i \in 1..Len(a), i > n, Brings(a[i], c)
      PROVE  c \in Refused(q, a)
  <2>1. i - n \in 1..Len(o) /\ n + (i - n) = i
    BY <1>1, <1>3
  <2>2. o[i - n].kind = "chunk" /\ o[i - n].coord = c
    BY <1>1, <1>3, <2>1 DEF Brings
  <2>3. c \in CoordsOf(o, "chunk")
    BY <1>1, <2>1, <2>2, CoordsOfIs
  <2> QED BY <2>3 DEF Refused, o
<1>4. ASSUME c \in Refused(q, a)
      PROVE  \E i \in 1..Len(a) : Brings(a[i], c)
  <2>1. PICK i \in 1..Len(o) : o[i].kind = "chunk" /\ o[i].coord = c
    BY <1>1, <1>4, CoordsOfIs DEF Refused, o
  <2> QED BY <1>1, <2>1 DEF Brings
<1> QED BY <1>2, <1>3, <1>4 DEF n

(* The refused and the evicted of it aside, the backlog that is kept makes   *)
(* the same of a chunk as all that has come; and it shows none where that    *)
(* would leave nothing for good.                                             *)
LEMMA Admission ==
    ASSUME NEW m \in [Coords -> Values], NEW q \in Seq(Updates), NEW a \in Seq(Updates),
           NEW c \in Coords
    PROVE  LET all == After(a, After(q, m[c], c), c)
               kept == After(Admitted(q, a), Dropped(m, Evicted(q, a))[c], c)
           IN  /\ Admitted(q, a) \in Seq(Updates)
               /\ Dropped(m, Evicted(q, a)) \in [Coords -> Values]
               /\ kept \in Values /\ all \in Values
               /\ kept = all \/ c \in Refused(q, a) \/ c \in Resendable(q, a)
               /\ kept = all \/ kept = Absent \/ all # Absent
<1> DEFINE n == Fitting(q, a)
           f == SubSeq(a, 1, n)
           o == Overflowing(q, a)
           e == Evicted(q, a)
           whole == q \o f
           places == {i \in DOMAIN whole : whole[i].coord \notin e}
           all == After(a, After(q, m[c], c), c)
           kept == After(Admitted(q, a), Dropped(m, e)[c], c)
           base == After(q, m[c], c)
<1>1. f \in Seq(Updates) /\ o \in Seq(Updates) /\ a = f \o o
  BY Overflow
<1> HIDE DEF f, o, n
<1>2. whole \in Seq(Updates) /\ DOMAIN whole = 1..Len(whole)
  BY <1>1
<1>3. Admitted(q, a) = Picked(whole, places)
  BY DEF Admitted, f, n
<1> HIDE DEF whole, e
<1>4. Admitted(q, a) \in Seq(Updates)
  BY <1>2, <1>3, PickedType
<1>5. /\ Dropped(m, e) \in [Coords -> Values]
      /\ Dropped(m, e)[c] = IF c \in e THEN Absent ELSE m[c]
  BY DEF Dropped, Values
<1>6. /\ q \in Seq(Frames) /\ a \in Seq(Frames) /\ f \in Seq(Frames) /\ o \in Seq(Frames)
      /\ whole \in Seq(Frames) /\ Admitted(q, a) \in Seq(Frames)
  BY <1>1, <1>2, <1>4, UpdatesAreFrames
<1>7. m[c] \in Values /\ base \in Values /\ all \in Values /\ kept \in Values
  BY <1>5, <1>6, AfterType
<1>8. all = After(o, After(whole, m[c], c), c) /\ After(whole, m[c], c) \in Values
  <2>1. all = After(o, After(f, base, c), c)
    BY <1>1, <1>6, <1>7, AfterBoth
  <2>2. After(whole, m[c], c) = After(f, base, c)
    BY <1>6, <1>7, AfterBoth DEF whole
  <2> QED BY <1>6, <1>7, <2>1, <2>2, AfterType
<1>9. \A i \in 1..Len(whole) : States(whole[i], c) \/ Edits(whole[i], c) <=> whole[i].coord = c
  BY <1>2, UpdatesAreFrames, UpdateOf
<1>10. \A i \in 1..Len(o) : /\ States(o[i], c) \/ Edits(o[i], c) <=> o[i].coord = c
                            /\ Clears(o[i], c) <=> Unloads(o[i], c)
                            /\ o[i].kind \in {"chunk", "unload", "block"}
  BY <1>1, UpdatesAreFrames, UpdateOf, FrameTypes
<1>11. /\ c \in e <=> \E i \in 1..Len(o) : Unloads(o[i], c) \/ Edits(o[i], c)
       /\ c \in Refused(q, a) <=> \E i \in 1..Len(o) : Brings(o[i], c)
       /\ c \in Resendable(q, a) <=> c \in e /\ ~ \E i \in 1..Len(o) : Unloads(o[i], c)
  <2>1. ASSUME NEW kind
        PROVE  c \in CoordsOf(o, kind) <=> \E i \in 1..Len(o) : o[i].kind = kind /\ o[i].coord = c
    <3>1. o \in Seq(Updates)
      BY <1>1
    <3> QED BY <3>1, CoordsOfIs
  <2>2. /\ c \in CoordsOf(o, "unload") <=> \E i \in 1..Len(o) : Unloads(o[i], c)
        /\ c \in CoordsOf(o, "block") <=> \E i \in 1..Len(o) : Edits(o[i], c)
        /\ c \in CoordsOf(o, "chunk") <=> \E i \in 1..Len(o) : Brings(o[i], c)
    BY <2>1 DEF Unloads, Edits, Brings
  <2>3. /\ e = CoordsOf(o, "unload") \cup CoordsOf(o, "block")
        /\ Refused(q, a) = CoordsOf(o, "chunk")
        /\ Resendable(q, a) = e \ CoordsOf(o, "unload")
    BY DEF e, o, Evicted, Refused, Resendable
  <2> QED BY <2>2, <2>3
<1>12. CASE c \in e
  <2>1. \A i \in 1..Len(whole) : i \in places => ~States(whole[i], c) /\ ~Edits(whole[i], c)
    BY <1>9, <1>12
  <2>2. Absent \in Values
    BY DEF Values
  <2>3. kept = Absent
    <3> HIDE DEF places
    <3> QED BY <1>3, <1>5, <1>6, <1>12, <2>1, <2>2, PickedSaysNothing
  <2>4. CASE \E i \in 1..Len(o) : Brings(o[i], c)
    BY <1>4, <1>5, <1>7, <1>11, <2>3, <2>4 DEF e
  <2>5. CASE /\ ~ \E i \in 1..Len(o) : Brings(o[i], c)
             /\ \E i \in 1..Len(o) : Unloads(o[i], c)
    <3>1. all = Absent
      BY <1>6, <1>8, <1>10, <2>5, AfterUnloaded
    <3> QED BY <1>4, <1>5, <1>7, <2>3, <3>1 DEF e
  <2>6. CASE ~ \E i \in 1..Len(o) : Unloads(o[i], c)
    BY <1>4, <1>5, <1>7, <1>11, <1>12, <2>3, <2>6 DEF e
  <2> QED BY <2>4, <2>5, <2>6
<1>13. CASE c \notin e
  <2>1. \A i \in 1..Len(whole) : States(whole[i], c) \/ Edits(whole[i], c) => i \in places
    BY <1>2, <1>9, <1>13
  <2>2. kept = After(whole, m[c], c)
    <3> HIDE DEF places
    <3> QED BY <1>3, <1>5, <1>6, <1>7, <1>13, <2>1, PickedSaysTheSame
  <2>3. CASE \E i \in 1..Len(o) : Brings(o[i], c)
    <3>1. \A i \in 1..Len(o) : ~Clears(o[i], c)
      BY <1>10, <1>11, <1>13
    <3>2. all # Absent
      BY <1>6, <1>8, <2>3, <3>1, AfterBrought
    <3> QED BY <1>4, <1>5, <1>7, <1>11, <2>3, <3>2 DEF e
  <2>4. CASE ~ \E i \in 1..Len(o) : Brings(o[i], c)
    <3>1. \A i \in 1..Len(o) : ~States(o[i], c) /\ ~Edits(o[i], c)
      BY <1>10, <1>11, <1>13, <2>4 DEF States
    <3>2. all = kept
      BY <1>6, <1>8, <2>2, <3>1, AfterUntouched
    <3> QED BY <1>4, <1>5, <1>7, <3>2 DEF e
  <2> QED BY <2>3, <2>4
<1> QED BY <1>12, <1>13

(* Where the last world begins. *)
LEMMA LastEntryIs ==
    ASSUME NEW s \in Seq(Frames)
    PROVE  /\ LastEntry(s) \in 0..Len(s)
           /\ LastEntry(s) > 0 => s[LastEntry(s)] = WorldEntered
           /\ \A i \in 1..Len(s) : i > LastEntry(s) => s[i] # WorldEntered
<1> DEFINE entries == {i \in DOMAIN s : s[i] = WorldEntered}
           L == Len(s)
<1>1. L \in Nat /\ DOMAIN s = 1..L
  OBVIOUS
<1>2. CASE entries = {}
  BY <1>1, <1>2 DEF LastEntry
<1>3. CASE entries # {}
  <2> DEFINE T == {n \in Nat : n <= L /\ L - n \in entries}
             A == {n \in Nat : \A k \in Nat : k <= n => k \notin T}
  <2>1. PICK i \in entries : TRUE
    BY <1>3
  <2>2. i \in 1..L /\ L - i \in T
    BY <1>1, <2>1
  <2>3. \E k \in entries : \A j \in entries : j <= k
    <3> SUFFICES ASSUME \A k \in entries : \E j \in entries : j > k
                 PROVE  FALSE
      BY <1>1
    <3>1. \A n \in T : \E k \in T : k < n
      <4> TAKE n \in T
      <4>1. n \in Nat /\ n <= L /\ L - n \in entries
        OBVIOUS
      <4>2. PICK j \in entries : j > L - n
        BY <4>1
      <4>3. j \in 1..L /\ L - j \in Nat /\ L - j <= L /\ L - (L - j) = j /\ L - j < n
        <5>1. j \in 1..L
          BY <1>1
        <5> HIDE DEF entries, L
        <5> QED BY <1>1, <4>1, <4>2, <5>1
      <4> QED BY <4>2, <4>3
    <3> HIDE DEF T
    <3>2. 0 \in A
      <4>1. 0 \notin T
        BY <3>1 DEF T
      <4> QED BY <4>1
    <3>3. ASSUME NEW n \in Nat, n \in A
          PROVE  n + 1 \in A
      <4>1. n + 1 \notin T
        <5> SUFFICES ASSUME n + 1 \in T
                     PROVE  FALSE
          OBVIOUS
        <5>1. PICK k \in T : k < n + 1
          BY <3>1
        <5>2. k \in Nat /\ k <= n
          BY <5>1 DEF T
        <5> QED BY <3>3, <5>1, <5>2
      <4>2. \A k \in Nat : k <= n + 1 => k <= n \/ k = n + 1
        OBVIOUS
      <4> QED BY <3>3, <4>1, <4>2
    <3>4. \A n \in Nat : n \in A
      <4> HIDE DEF A
      <4> QED BY <3>2, <3>3, SetInduction
    <3>5. L - i \in Nat
      BY <1>1, <2>2
    <3> QED BY <2>2, <3>4, <3>5
  <2>4. /\ LastEntry(s) \in entries /\ \A j \in entries : j <= LastEntry(s)
    BY <1>3, <2>3 DEF LastEntry
  <2> QED BY <1>1, <2>4
<1> QED BY <1>2, <1>3

(* What comes of the updates that are evicted is asked for. *)
LEMMA FiniteImage ==
    ASSUME NEW S, IsFiniteSet(S), NEW f, f = [x \in S |-> f[x]]
    PROVE  IsFiniteSet({f[x] : x \in S})
<1> DEFINE T == {f[x] : x \in S}
<1>1. f \in Surjection(S, T)
  BY DEF Surjection
<1> HIDE DEF T
<1>2. IsFiniteSet(T)
  BY <1>1, FS_Surjection
<1> QED BY <1>2 DEF T

LEMMA CoordsOfFinite ==
    ASSUME NEW s \in Seq(Updates), NEW kind
    PROVE  IsFiniteSet(CoordsOf(s, kind)) /\ CoordsOf(s, kind) \subseteq Coords
<1> DEFINE us == {v \in ToSet(s) : v.kind = kind}
           places == 1..Len(s)
<1>1. ToSet(s) = {s[i] : i \in places}
  BY DEF ToSet
<1>2. IsFiniteSet(ToSet(s))
  <2>1. IsFiniteSet(places)
    BY FS_Interval
  <2> HIDE DEF places
  <2> DEFINE f == [i \in places |-> s[i]]
  <2>2. f = [i \in places |-> f[i]] /\ ToSet(s) = {f[i] : i \in places}
    BY <1>1
  <2> HIDE DEF f
  <2> QED BY <2>1, <2>2, FiniteImage
<1>3. IsFiniteSet(us)
  BY <1>2, FS_Subset
<1>4. IsFiniteSet({u.coord : u \in us})
  <2> HIDE DEF us
  <2> DEFINE f == [u \in us |-> u.coord]
  <2>2. f = [u \in us |-> f[u]] /\ {u.coord : u \in us} = {f[u] : u \in us}
    OBVIOUS
  <2> HIDE DEF f
  <2> QED BY <1>3, <2>2, FiniteImage
<1>5. \A v \in ToSet(s) : v.coord \in Coords
  BY <1>1, UpdatesAreFrames, FrameTypes
<1> QED BY <1>4, <1>5 DEF CoordsOf

LEMMA AskedIs ==
    ASSUME NEW q \in Seq(Updates), NEW a \in Seq(Updates),
           NEW S \in SUBSET Resendable(q, a)
    PROVE  /\ SetToSeq(S) \in Seq(Coords)
           /\ \A c \in S : \E i \in 1..Len(SetToSeq(S)) : SetToSeq(S)[i] = c
<1> DEFINE o == Overflowing(q, a)
<1>1. o \in Seq(Updates)
  BY Overflow
<1>2. /\ IsFiniteSet(CoordsOf(o, "block")) /\ IsFiniteSet(CoordsOf(o, "unload"))
      /\ CoordsOf(o, "block") \subseteq Coords /\ CoordsOf(o, "unload") \subseteq Coords
  <2> HIDE DEF o
  <2> QED BY <1>1, CoordsOfFinite
<1>3. S \subseteq CoordsOf(o, "block") \ CoordsOf(o, "unload")
  BY DEF Resendable, Evicted
<1>4. IsFiniteSet(S) /\ S \subseteq Coords
  <2>1. S \subseteq CoordsOf(o, "block")
    BY <1>3
  <2> HIDE DEF o
  <2> QED BY <1>2, <2>1, FS_Subset
<1>5. /\ SetToSeq(S) \in Seq(S)
      /\ \A x : x \in S => \E i \in 1..Len(SetToSeq(S)) : SetToSeq(S)[i] = x
  BY <1>4, SetToSeqHasAll
<1>6. SetToSeq(S) \in Seq(Coords)
  BY <1>4, <1>5, SeqMonotonic
<1> QED BY <1>5, <1>6

(* What Ingest takes in: what of it is of the world it is in, and what that  *)
(* meets.                                                                    *)
Came(n) == SubSeq(line, 1, n)
Entered(n) == LastEntry(Came(n))
Arrived(n) == SubSeq(Came(n), Entered(n) + 1, n)
Before(n) == IF Entered(n) > 0 THEN <<>> ELSE queue
Chunks(n) == IF Entered(n) > 0 THEN Nothing ELSE store

LEMMA Arriving ==
    ASSUME TypeOK, NEW n \in 0..Len(line)
    PROVE  /\ Entered(n) \in 0..n /\ (Entered(n) > 0 => Entering)
           /\ Arrived(n) \in Seq(Updates) /\ Before(n) \in Seq(Updates)
           /\ Chunks(n) \in [Coords -> Values]
           /\ Came(n) \in Seq(Frames)
           /\ \A i \in 1..Len(Arrived(n)) :
                  /\ Entered(n) + i \in 1..n
                  /\ Arrived(n)[i] = line[Entered(n) + i]
           /\ \A i \in 1..n : i > Entered(n) =>
                  /\ i - Entered(n) \in 1..Len(Arrived(n))
                  /\ Arrived(n)[i - Entered(n)] = line[i]
           /\ \A c \in Coords : After(Arrived(n), After(Before(n), Chunks(n)[c], c), c)
                                = After(Came(n), After(queue, store[c], c), c)
<1> DEFINE k == Entered(n)
           s == Came(n)
           a == Arrived(n)
<1>1. /\ line \in Seq(Frames) /\ queue \in Seq(Updates) /\ store \in [Coords -> Values]
      /\ Len(line) \in Nat
  BY DEF TypeOK
<1>2. /\ s \in Seq(Frames) /\ Len(s) = n /\ DOMAIN s = 1..n
      /\ \A i \in 1..n : s[i] = line[i]
  BY <1>1, SplitAt DEF Came
<1>3. /\ k \in 0..n
      /\ k > 0 => s[k] = WorldEntered
      /\ \A i \in 1..n : i > k => s[i] # WorldEntered
  <2> HIDE DEF s
  <2>1. k = LastEntry(s)
    BY DEF Entered, s
  <2> QED BY <1>2, <2>1, LastEntryIs
<1>4. k > 0 => Entering
  <2>1. k > 0 => k \in 1..Len(line) /\ line[k] = WorldEntered
    BY <1>1, <1>2, <1>3
  <2> QED BY <1>1, <2>1 DEF Entering
<1>5. /\ a \in Seq(Frames) /\ Len(a) = n - k
      /\ \A i \in 1..(n - k) : a[i] = s[k + i]
      /\ s = SubSeq(s, 1, k) \o a
      /\ SubSeq(s, 1, k) \in Seq(Frames) /\ Len(SubSeq(s, 1, k)) = k
      /\ \A i \in 1..k : SubSeq(s, 1, k)[i] = s[i]
  <2> HIDE DEF k, s
  <2>1. a = SubSeq(s, k + 1, Len(s))
    BY <1>2 DEF Arrived, s, k
  <2>2. s \in Seq(Frames) /\ k \in 0..Len(s) /\ Len(s) = n
    BY <1>2, <1>3
  <2> HIDE DEF a
  <2> QED BY <2>1, <2>2, SplitAt
<1> HIDE DEF k, s, a
<1>6. /\ \A i \in 1..(n - k) : k + i \in 1..n /\ k + i > k
      /\ \A i \in 1..n : i > k => i - k \in 1..(n - k) /\ k + (i - k) = i
  BY <1>3
<1>7. a \in Seq(Updates)
  <2>1. \A i \in 1..Len(a) : a[i] \in Updates
    BY <1>2, <1>3, <1>5, <1>6 DEF Frames
  <2> QED BY <1>5, <2>1
<1>8. /\ \A i \in 1..Len(a) : k + i \in 1..n /\ a[i] = line[k + i]
      /\ \A i \in 1..n : i > k => i - k \in 1..Len(a) /\ a[i - k] = line[i]
  BY <1>2, <1>5, <1>6
<1>9. Before(n) \in Seq(Updates) /\ Chunks(n) \in [Coords -> Values]
  BY <1>1 DEF Before, Chunks, Nothing, Values
<1>10. ASSUME NEW c \in Coords
       PROVE  After(a, After(Before(n), Chunks(n)[c], c), c)
              = After(s, After(queue, store[c], c), c)
  <2> DEFINE b == After(queue, store[c], c)
             p == SubSeq(s, 1, k)
  <2>1. store[c] \in Values /\ b \in Values
    BY <1>1, UpdatesAreFrames, AfterType
  <2> HIDE DEF b
  <2>2. CASE k = 0
    <3>1. s = a
      BY <1>2, <1>5, <2>2
    <3>2. Before(n) = queue /\ Chunks(n) = store
      BY <2>2 DEF Before, Chunks, k
    <3> QED BY <3>1, <3>2 DEF b
  <2>3. CASE k > 0
    <3>1. Before(n) = <<>> /\ Chunks(n)[c] = Absent
      BY <2>3 DEF Before, Chunks, k, Nothing
    <3>2. After(Before(n), Chunks(n)[c], c) = Absent
      BY <3>1, AfterNothing DEF Values
    <3>3. k \in 1..k /\ k - 1 \in 0..k /\ k - 1 + 1 = k
      BY <1>3, <2>3
    <3>4. p \in Seq(Frames) /\ Len(p) = k /\ p[k] = WorldEntered
      BY <1>3, <1>5, <2>3, <3>3
    <3> HIDE DEF p
    <3>5. After(p, b, c) = Absent
      <4> DEFINE f == SubSeq(p, 1, k - 1)
                 l == SubSeq(p, k - 1 + 1, k)
      <4>1. /\ f \in Seq(Frames) /\ l \in Seq(Frames) /\ Len(l) = 1
            /\ \A i \in 1..1 : l[i] = p[k - 1 + i]
            /\ p = f \o l
        <5>1. k - (k - 1) = 1 /\ k - 1 \in 0..Len(p) /\ Len(p) = k
          BY <3>3, <3>4
        <5> DEFINE m == k - 1
        <5>2. m \in 0..Len(p) /\ Len(p) - m = 1
          BY <5>1
        <5> HIDE DEF m
        <5>3. /\ SubSeq(p, 1, m) \in Seq(Frames) /\ SubSeq(p, m + 1, Len(p)) \in Seq(Frames)
              /\ Len(SubSeq(p, m + 1, Len(p))) = Len(p) - m
              /\ \A i \in 1..(Len(p) - m) : SubSeq(p, m + 1, Len(p))[i] = p[m + i]
              /\ p = SubSeq(p, 1, m) \o SubSeq(p, m + 1, Len(p))
          BY <3>4, <5>2, SplitAt
        <5>4. f = SubSeq(p, 1, m) /\ l = SubSeq(p, m + 1, Len(p))
          BY <5>1 DEF m
        <5> HIDE DEF f, l
        <5>5. \A i \in 1..1 : l[i] = p[m + i]
          BY <5>2, <5>3, <5>4
        <5> QED BY <5>2, <5>3, <5>4, <5>5 DEF m
      <4>2. l = <<WorldEntered>>
        <5>1. l[1] = WorldEntered
          <6>1. 1 \in 1..1
            OBVIOUS
          <6> HIDE DEF l
          <6> QED BY <3>3, <3>4, <4>1, <6>1
        <5> HIDE DEF l
        <5> QED BY <4>1, <5>1
      <4> HIDE DEF f, l
      <4>3. After(f, b, c) \in Values
        BY <2>1, <4>1, AfterType
      <4>4. After(p, b, c) = After(l, After(f, b, c), c)
        BY <2>1, <4>1, AfterBoth
      <4> QED BY <4>2, <4>3, <4>4, FrameTypes, AfterOne DEF Made
    <3>6. After(s, b, c) = After(a, After(p, b, c), c)
      <4>1. s = p \o a
        BY <1>5 DEF p
      <4> QED BY <1>5, <2>1, <3>4, <4>1, AfterBoth
    <3> QED BY <3>2, <3>5, <3>6 DEF b
  <2> QED BY <1>3, <2>2, <2>3
<1> QED BY <1>2, <1>3, <1>4, <1>7, <1>8, <1>9, <1>10 DEF k, s, a

(* What is drained and what is left waiting is what was admitted. *)
LEMMA Draining ==
    ASSUME NEW m \in [Coords -> Values], NEW kept \in Seq(Updates),
           NEW d \in (IF kept = <<>> THEN {0} ELSE 1..Len(kept)), NEW c \in Coords
    PROVE  LET now == Drained(m, SubSeq(kept, 1, d))
               left == SubSeq(kept, d + 1, Len(kept))
           IN  /\ now \in [Coords -> Values] /\ left \in Seq(Updates)
               /\ After(left, now[c], c) = After(kept, m[c], c)
<1> DEFINE f == SubSeq(kept, 1, d)
           l == SubSeq(kept, d + 1, Len(kept))
<1>1. d \in 0..Len(kept)
  BY EmptySeq
<1>2. f \in Seq(Updates) /\ l \in Seq(Updates) /\ kept = f \o l
  BY <1>1, SplitAt
<1> HIDE DEF f, l
<1>3. /\ Drained(m, f) \in [Coords -> Values]
      /\ Drained(m, f)[c] = After(f, m[c], c)
  BY <1>2, DrainedIsAfter
<1>4. f \in Seq(Frames) /\ l \in Seq(Frames)
  BY <1>2, UpdatesAreFrames
<1>5. After(kept, m[c], c) = After(l, After(f, m[c], c), c)
  BY <1>2, <1>4, AfterBoth
<1> QED BY <1>2, <1>3, <1>5 DEF f, l

(* A frame that takes in the first n frames of the line. *)
Takes(n) ==
    /\ line' = SubSeq(line, n + 1, Len(line))
    /\ \E d \in (IF Admitted(Before(n), Arrived(n)) = <<>> THEN {0}
                 ELSE 1..Len(Admitted(Before(n), Arrived(n)))) :
           /\ store' = Drained(Dropped(Chunks(n), Evicted(Before(n), Arrived(n))),
                               SubSeq(Admitted(Before(n), Arrived(n)), 1, d))
           /\ queue' = SubSeq(Admitted(Before(n), Arrived(n)), d + 1,
                              Len(Admitted(Before(n), Arrived(n))))
    /\ \E sent \in SUBSET Resendable(Before(n), Arrived(n)) :
           /\ asks' = asks \o SetToSeq(sent)
           /\ turnedAway' =
                  ((IF Entered(n) > 0 THEN {} ELSE turnedAway) \ CoordsOf(Arrived(n), "chunk"))
                  \cup Refused(Before(n), Arrived(n))
                  \cup (Resendable(Before(n), Arrived(n)) \ sent)

LEMMA IngestTakes ==
    ASSUME Ingest
    PROVE  \E n \in 0..Len(line) : Takes(n)
<1>1. PICK n \in 0..Len(line) :
          LET came == SubSeq(line, 1, n)
              reset == LastEntry(came) > 0
              arrived == SubSeq(came, LastEntry(came) + 1, n)
              before == IF reset THEN <<>> ELSE queue
              chunks == IF reset THEN Nothing ELSE store
              asked == Resendable(before, arrived)
          IN  /\ line' = SubSeq(line, n + 1, Len(line))
              /\ \E kept \in {Admitted(before, arrived)} :
                 \E d \in (IF kept = <<>> THEN {0} ELSE 1..Len(kept)) :
                     /\ store' = Drained(Dropped(chunks, Evicted(before, arrived)),
                                         SubSeq(kept, 1, d))
                     /\ queue' = SubSeq(kept, d + 1, Len(kept))
              /\ \E sent \in SUBSET asked :
                     /\ asks' = asks \o SetToSeq(sent)
                     /\ turnedAway' =
                            ((IF reset THEN {} ELSE turnedAway) \ CoordsOf(arrived, "chunk"))
                            \cup Refused(before, arrived) \cup (asked \ sent)
  BY DEF Ingest
<1> QED BY <1>1 DEF Takes, Came, Entered, Arrived, Before, Chunks

LEMMA TakesType ==
    ASSUME TypeOK, NEW n \in 0..Len(line), Takes(n)
    PROVE  /\ line' \in Seq(Frames) /\ asks' \in Seq(Coords) /\ queue' \in Seq(Updates)
           /\ store' \in [Coords -> Values]
           /\ Len(line') = Len(line) - n
           /\ \A i \in 1..Len(line') : line'[i] = line[n + i] /\ n + i \in 1..Len(line)
           /\ \A i \in 1..Len(line) : i > n => i - n \in 1..Len(line') /\ line'[i - n] = line[i]
           /\ line = Came(n) \o line'
           /\ \A c \in ToSet(asks) : c \in ToSet(asks')
           /\ \A c \in Resendable(Before(n), Arrived(n)) :
                  c \in ToSet(asks') \/ c \in turnedAway'
<1> DEFINE q == Before(n)
           a == Arrived(n)
<1>1. line \in Seq(Frames) /\ asks \in Seq(Coords) /\ Len(line) \in Nat
  BY DEF TypeOK
<1>2. q \in Seq(Updates) /\ a \in Seq(Updates) /\ Chunks(n) \in [Coords -> Values]
  BY Arriving
<1> HIDE DEF q, a
<1>3. Admitted(q, a) \in Seq(Updates)
  <2> DEFINE f == SubSeq(a, 1, Fitting(q, a))
             all == q \o f
  <2>1. f \in Seq(Updates)
    BY <1>2, Overflow
  <2>2. all \in Seq(Updates)
    <3> HIDE DEF f
    <3> QED BY <1>2, <2>1
  <2>3. Admitted(q, a) = Picked(all, {i \in DOMAIN all : all[i].coord \notin Evicted(q, a)})
    BY DEF Admitted
  <2> HIDE DEF all
  <2> QED BY <2>2, <2>3, PickedType
<1>5. PICK S \in SUBSET Resendable(q, a) :
          asks' = asks \o SetToSeq(S) /\ Resendable(q, a) \ S \subseteq turnedAway'
  BY DEF Takes, q, a
<1>4. /\ SetToSeq(S) \in Seq(Coords)
      /\ \A c \in S : \E i \in 1..Len(SetToSeq(S)) : SetToSeq(S)[i] = c
  BY <1>2, AskedIs
<1>6. /\ asks' \in Seq(Coords) /\ Len(asks') = Len(asks) + Len(SetToSeq(S))
      /\ \A i \in 1..Len(asks) : asks'[i] = asks[i]
      /\ \A i \in 1..Len(SetToSeq(S)) : asks'[Len(asks) + i] = SetToSeq(S)[i]
  BY <1>1, <1>4, <1>5
<1>7. \A c \in ToSet(asks) \cup S : c \in ToSet(asks')
  <2>1. DOMAIN asks = 1..Len(asks) /\ DOMAIN asks' = 1..Len(asks')
    BY <1>1, <1>6
  <2>2. \A i \in 1..Len(asks) : i \in DOMAIN asks'
    BY <1>1, <1>4, <1>6, <2>1
  <2>3. \A i \in 1..Len(SetToSeq(S)) : Len(asks) + i \in DOMAIN asks'
    BY <1>1, <1>4, <1>6, <2>1
  <2>4. \A c \in ToSet(asks) : c \in ToSet(asks')
    BY <1>6, <2>1, <2>2 DEF ToSet
  <2>5. ASSUME NEW c \in S
        PROVE  c \in ToSet(asks')
    <3>1. PICK i \in 1..Len(SetToSeq(S)) : SetToSeq(S)[i] = c
      BY <1>4
    <3>2. asks'[Len(asks) + i] = c /\ Len(asks) + i \in DOMAIN asks'
      BY <1>6, <2>3, <3>1
    <3> QED BY <3>2 DEF ToSet
  <2> QED BY <2>4, <2>5
<1>8. line' = SubSeq(line, n + 1, Len(line))
  BY DEF Takes
<1>9. /\ line' \in Seq(Frames) /\ Len(line') = Len(line) - n
      /\ \A i \in 1..(Len(line) - n) : line'[i] = line[n + i]
      /\ line = Came(n) \o line'
  BY <1>1, <1>8, SplitAt DEF Came
<1>10. /\ \A i \in 1..Len(line') : n + i \in 1..Len(line)
       /\ \A i \in 1..Len(line) : i > n => i - n \in 1..Len(line') /\ n + (i - n) = i
  BY <1>1, <1>9
<1>11. queue' \in Seq(Updates) /\ store' \in [Coords -> Values]
  <2>1. PICK d \in (IF Admitted(q, a) = <<>> THEN {0} ELSE 1..Len(Admitted(q, a))) :
            /\ store' = Drained(Dropped(Chunks(n), Evicted(q, a)), SubSeq(Admitted(q, a), 1, d))
            /\ queue' = SubSeq(Admitted(q, a), d + 1, Len(Admitted(q, a)))
    BY DEF Takes, q, a
  <2>2. d \in 0..Len(Admitted(q, a))
    BY <1>3, EmptySeq
  <2>3. SubSeq(Admitted(q, a), 1, d) \in Seq(Updates) /\ queue' \in Seq(Updates)
    BY <1>3, <2>1, <2>2, SplitAt
  <2>4. Dropped(Chunks(n), Evicted(q, a)) \in [Coords -> Values]
    BY <1>2 DEF Dropped, Values
  <2> QED BY <2>1, <2>3, <2>4, DrainedIsAfter
<1>12. \A c \in Resendable(q, a) : c \in ToSet(asks') \/ c \in turnedAway'
  BY <1>5, <1>7
<1> QED BY <1>6, <1>7, <1>9, <1>10, <1>11, <1>12 DEF q, a

LEMMA TakesShows ==
    ASSUME TypeOK, NEW n \in 0..Len(line), Takes(n), NEW c \in Coords
    PROVE  \E x, y \in Values :
               /\ Shown(c) = After(line', x, c) /\ Shown(c)' = After(line', y, c)
               /\ y = x \/ c \in Refused(Before(n), Arrived(n))
                        \/ c \in Resendable(Before(n), Arrived(n))
               /\ y = x \/ y = Absent \/ x # Absent
<1> DEFINE q == Before(n)
           a == Arrived(n)
           m == Chunks(n)
           x == After(Came(n), After(queue, store[c], c), c)
           y == After(queue', store'[c], c)
           kept == After(Admitted(q, a), Dropped(m, Evicted(q, a))[c], c)
<1>1. /\ line' \in Seq(Frames) /\ queue' \in Seq(Frames) /\ store'[c] \in Values
      /\ line = Came(n) \o line'
  BY TakesType, UpdatesAreFrames
<1>2. queue \in Seq(Frames) /\ store[c] \in Values
  BY UpdatesAreFrames DEF TypeOK
<1>3. /\ q \in Seq(Updates) /\ a \in Seq(Updates) /\ m \in [Coords -> Values]
      /\ Came(n) \in Seq(Frames)
      /\ x = After(a, After(q, m[c], c), c)
  BY Arriving
<1>4. x \in Values /\ y \in Values
  BY <1>1, <1>2, <1>3, AfterType
<1>5. Shown(c) = After(line', x, c)
  <2>1. After(queue, store[c], c) \in Values
    BY <1>2, AfterType
  <2> QED BY <1>1, <1>3, <2>1, AfterBoth DEF Shown
<1>6. Shown(c)' = After(line', y, c)
  BY DEF Shown
<1>7. /\ Admitted(q, a) \in Seq(Updates)
      /\ Dropped(m, Evicted(q, a)) \in [Coords -> Values]
      /\ kept = x \/ c \in Refused(q, a) \/ c \in Resendable(q, a)
      /\ kept = x \/ kept = Absent \/ x # Absent
  <2> HIDE DEF q, a, m, x
  <2> QED BY <1>3, Admission
<1>8. y = kept
  <2>1. PICK d \in (IF Admitted(q, a) = <<>> THEN {0} ELSE 1..Len(Admitted(q, a))) :
            /\ store' = Drained(Dropped(m, Evicted(q, a)), SubSeq(Admitted(q, a), 1, d))
            /\ queue' = SubSeq(Admitted(q, a), d + 1, Len(Admitted(q, a)))
    BY DEF Takes
  <2> HIDE DEF q, a, m
  <2> QED BY <1>7, <2>1, Draining
<1> QED BY <1>4, <1>5, <1>6, <1>7, <1>8

(* What a frame may do to what will be shown: nothing, but for a chunk that  *)
(* was turned away, or an edit of it that was: that is asked for, or was     *)
(* turned away with its request.                                             *)
Ingested(c) ==
    /\ Shown(c) = Absent => Shown(c)' = Absent
    /\ Shown(c)' = Shown(c) \/ Missed(c, turnedAway)' \/ Missed(c, ToSet(asks))'
    /\ ChunkIsLast(c) =>
           ChunkIsLast(c)' /\ (Shown(c)' = Shown(c) \/ Missed(c, turnedAway)')
    /\ Missed(c, turnedAway) => Missed(c, turnedAway)'
    /\ Missed(c, ToSet(asks)) => Missed(c, ToSet(asks))'

LEMMA IngestStep ==
    ASSUME TypeOK, Ingest
    PROVE  /\ line' \in Seq(Frames) /\ asks' \in Seq(Coords) /\ queue' \in Seq(Updates)
           /\ store' \in [Coords -> Values]
           /\ \A c \in Coords : Ingested(c)
<1>1. PICK n \in 0..Len(line) : Takes(n)
  BY IngestTakes
<1>2. /\ line' \in Seq(Frames) /\ asks' \in Seq(Coords) /\ queue' \in Seq(Updates)
      /\ store' \in [Coords -> Values] /\ Len(line') = Len(line) - n
      /\ \A i \in 1..Len(line') : line'[i] = line[n + i] /\ n + i \in 1..Len(line)
      /\ \A i \in 1..Len(line) : i > n => i - n \in 1..Len(line') /\ line'[i - n] = line[i]
      /\ \A c \in ToSet(asks) : c \in ToSet(asks')
      /\ \A c \in Resendable(Before(n), Arrived(n)) :
             c \in ToSet(asks') \/ c \in turnedAway'
  BY <1>1, TakesType
<1> DEFINE q == Before(n)
           a == Arrived(n)
           k == Entered(n)
<1>3. line \in Seq(Frames) /\ Len(line) \in Nat /\ DOMAIN line = 1..Len(line)
  BY DEF TypeOK
<1>4. DOMAIN line' = 1..Len(line')
  BY <1>2
<1>5. /\ k \in 0..n /\ (k > 0 => Entering)
      /\ q \in Seq(Updates) /\ a \in Seq(Updates)
      /\ \A i \in 1..Len(a) : k + i \in 1..n /\ a[i] = line[k + i]
      /\ \A i \in 1..n : i > k => i - k \in 1..Len(a) /\ a[i - k] = line[i]
  BY Arriving
<1>6. /\ (IF k > 0 THEN {} ELSE turnedAway) \ CoordsOf(a, "chunk") \subseteq turnedAway'
      /\ Refused(q, a) \subseteq turnedAway'
  BY <1>1 DEF Takes
<1> SUFFICES ASSUME NEW c \in Coords
             PROVE  Ingested(c)
  BY <1>2
<1>7. PICK x, y \in Values :
               /\ Shown(c) = After(line', x, c) /\ Shown(c)' = After(line', y, c)
               /\ y = x \/ c \in Refused(q, a) \/ c \in Resendable(q, a)
               /\ y = x \/ y = Absent \/ x # Absent
  BY <1>1, TakesShows
<1> HIDE DEF q, a, k
<1>8. Entering' \/ Bringing(c)' => Shown(c)' = Shown(c)
  <2> SUFFICES ASSUME Entering' \/ Bringing(c)'
               PROVE  Shown(c)' = Shown(c)
    OBVIOUS
  <2>1. PICK i \in 1..Len(line') : States(line'[i], c)
    BY <1>4 DEF Entering, Bringing, States, Clears
  <2> QED BY <1>2, <1>7, <2>1, AfterStated
<1>9. Shown(c) = Absent => Shown(c)' = Absent
  <2> SUFFICES ASSUME Shown(c) = Absent
               PROVE  Shown(c)' = Absent
    OBVIOUS
  <2>1. CASE x # Absent
    BY <1>2, <1>7, <2>1, AfterCleared
  <2>2. CASE y = x
    BY <1>7, <2>2
  <2> QED BY <1>7, <2>1, <2>2
<1>10. c \in Refused(q, a) => Shown(c)' = Shown(c) \/ Missed(c, turnedAway)'
  BY <1>6, <1>8 DEF Missed
<1>11. c \in Resendable(q, a) =>
           Shown(c)' = Shown(c) \/ Missed(c, turnedAway)' \/ Missed(c, ToSet(asks))'
  BY <1>2, <1>8 DEF Missed, q, a
<1>12. Shown(c)' = Shown(c) \/ Missed(c, turnedAway)' \/ Missed(c, ToSet(asks))'
  BY <1>7, <1>10, <1>11
<1>13. ~Entering /\ ~Bringing(c) => ~Entering' /\ ~Bringing(c)'
  BY <1>2, <1>3, <1>4 DEF Entering, Bringing
<1>14. Missed(c, turnedAway) => Missed(c, turnedAway)'
  <2> SUFFICES ASSUME Missed(c, turnedAway)
               PROVE  Missed(c, turnedAway)'
    OBVIOUS
  <2>1. ~(k > 0) /\ \A i \in 1..Len(line) : ~Brings(line[i], c)
    <3>1. ~(k > 0)
      BY <1>5 DEF Missed
    <3>2. \A i \in 1..Len(line) : ~Brings(line[i], c)
      BY <1>3 DEF Missed, Bringing
    <3> QED BY <3>1, <3>2
  <2>2. \A i \in 1..Len(a) : k + i \in 1..Len(line)
    BY <1>3, <1>5
  <2>3. \A i \in 1..Len(a) : ~Brings(a[i], c)
    BY <1>5, <2>1, <2>2
  <2>4. c \notin CoordsOf(a, "chunk")
    BY <1>5, <2>3, CoordsOfIs DEF Brings
  <2> QED BY <1>6, <1>13, <2>1, <2>4 DEF Missed
<1>15. Missed(c, ToSet(asks)) => Missed(c, ToSet(asks))'
  BY <1>2, <1>13 DEF Missed
<1>16. ASSUME ChunkIsLast(c)
       PROVE  ChunkIsLast(c)' /\ (Shown(c)' = Shown(c) \/ Missed(c, turnedAway)')
  <2>1. \A i \in 1..Len(line) : Edits(line[i], c) =>
            \E j \in 1..Len(line) : j > i /\ Brings(line[j], c)
    BY <1>3, <1>16 DEF ChunkIsLast
  <2>2. ASSUME NEW i \in 1..Len(line'), Edits(line'[i], c)
        PROVE  \E j \in 1..Len(line') : j > i /\ Brings(line'[j], c)
    <3>1. PICK j \in 1..Len(line) : j > n + i /\ Brings(line[j], c)
      BY <1>2, <2>1, <2>2
    <3>2. j > n /\ j - n > i
      BY <1>3, <3>1
    <3>3. j - n \in 1..Len(line') /\ line'[j - n] = line[j]
      BY <1>2, <3>2
    <3> QED BY <3>1, <3>2, <3>3
  <2>3. ChunkIsLast(c)'
    BY <1>4, <2>2 DEF ChunkIsLast
  <2>4. ASSUME c \in Resendable(q, a)
        PROVE  c \in Refused(q, a) \/ Bringing(c)'
    <3>1. PICK i \in 1..Len(a) : i > Fitting(q, a) /\ Edits(a[i], c)
      BY <1>5, <2>4, RefusedIs
    <3>2. k + i \in 1..Len(line) /\ Edits(line[k + i], c)
      BY <1>3, <1>5, <3>1
    <3>3. PICK j \in 1..Len(line) : j > k + i /\ Brings(line[j], c)
      BY <2>1, <3>2
    <3>4. CASE j > n
      <4>1. j - n \in 1..Len(line') /\ Brings(line'[j - n], c)
        BY <1>2, <3>3, <3>4
      <4> QED BY <1>4, <4>1 DEF Bringing
    <3>5. CASE ~(j > n)
      <4>0. Len(line) \in Nat /\ k \in 0..n /\ Len(a) \in Nat
        BY <1>3, <1>5
      <4>1. j \in 1..n /\ j > k
        BY <4>0, <3>3, <3>5
      <4>2. j - k \in 1..Len(a) /\ Brings(a[j - k], c)
        BY <1>5, <3>3, <4>1
      <4>3. j - k > Fitting(q, a)
        <5>1. Fitting(q, a) \in Nat
          BY <1>5, FittingIs
        <5> QED BY <4>0, <3>1, <3>3, <5>1
      <4> QED BY <1>5, <4>2, <4>3, RefusedIs
    <3> QED BY <3>4, <3>5
  <2> QED BY <1>7, <1>8, <1>10, <2>3, <2>4
<1> QED BY <1>9, <1>12, <1>14, <1>15, <1>16 DEF Ingested

-----------------------------------------------------------------------------
(* What is never shown: each step, at its end of what is under way. *)

LEMMA ShownType ==
    ASSUME TypeOK, NEW c \in Coords
    PROVE  Shown(c) \in Values
<1>1. line \in Seq(Frames) /\ queue \in Seq(Frames) /\ store[c] \in Values
  BY UpdatesAreFrames DEF TypeOK
<1>2. After(queue, store[c], c) \in Values
  BY <1>1, AfterType
<1> QED BY <1>1, <1>2, AfterType DEF Shown

LEMMA Unsent ==
    ASSUME line' = line, clientVars' = clientVars
    PROVE  /\ \A c \in Coords : Shown(c)' = Shown(c)
           /\ Entering' = Entering
           /\ \A c \in Coords : Bringing(c)' = Bringing(c) /\ ChunkIsLast(c)' = ChunkIsLast(c)
  BY DEF Shown, clientVars, Entering, Bringing, ChunkIsLast

LEMMA Sent ==
    ASSUME TypeOK, NEW u \in Frames, line' = Append(line, u), clientVars' = clientVars
    PROVE  /\ line' \in Seq(Frames)
           /\ \A c \in Coords : Shown(c)' = Made(Shown(c), u, c)
<1>1. line \in Seq(Frames) /\ line' \in Seq(Frames) /\ queue \in Seq(Frames)
  BY UpdatesAreFrames DEF TypeOK
<1>2. ASSUME NEW c \in Coords
      PROVE  Shown(c)' = Made(Shown(c), u, c)
  <2> DEFINE b == After(queue, store[c], c)
  <2>1. b \in Values
    BY <1>1, AfterType DEF TypeOK
  <2>2. Shown(c)' = After(line', b, c) /\ Shown(c) = After(line, b, c)
    BY DEF Shown, clientVars
  <2> HIDE DEF b
  <2> QED BY <1>1, <2>1, <2>2, AfterAppend
<1> QED BY <1>1, <1>2

(* The streamer's list, and what is left of it. *)
LEMMA ListIs ==
    ASSUME TypeOK, stream.load # <<>>
    PROVE  /\ Len(stream.load) \in Nat \ {0} /\ DOMAIN stream.load = 1..Len(stream.load)
           /\ Head(stream.load) \in Coords /\ Head(stream.load) = stream.load[1]
           /\ Tail(stream.load) \in Seq(Coords)
           /\ DOMAIN Tail(stream.load) = 1..(Len(stream.load) - 1)
           /\ \A i \in 1..(Len(stream.load) - 1) :
                  /\ Tail(stream.load)[i] = stream.load[i + 1]
                  /\ i + 1 \in DOMAIN stream.load /\ i + 1 # 1
<1> DEFINE l == stream.load
<1>1. l \in Seq(Coords) /\ l # <<>>
  BY DEF TypeOK, Streams
<1> HIDE DEF l
<1>2. Len(l) \in Nat /\ Len(l) # 0 /\ DOMAIN l = 1..Len(l)
  BY <1>1, EmptySeq
<1>3. 1 \in 1..Len(l)
  BY <1>2
<1>4. Head(l) = l[1] /\ l[1] \in Coords
  BY <1>1, <1>3
<1>5. /\ Tail(l) \in Seq(Coords) /\ Len(Tail(l)) = Len(l) - 1
      /\ \A i \in 1..(Len(l) - 1) : Tail(l)[i] = l[i + 1]
  BY <1>1, HeadTailProperties
<1>6. DOMAIN Tail(l) = 1..(Len(l) - 1)
  BY <1>5
<1>7. \A i \in 1..(Len(l) - 1) : i + 1 \in 1..Len(l) /\ i + 1 # 1
  BY <1>2
<1> QED BY <1>2, <1>4, <1>5, <1>6, <1>7 DEF l

LEMMA VisibleIs ==
    ASSUME NEW p \in Places
    PROVE  /\ Nearest[p] \in Seq(Coords) /\ IsInjective(Nearest[p]) /\ p # NoPlace
           /\ Visible(p) = {Nearest[p][i] : i \in 1..Len(Nearest[p])} /\ Visible(p) \subseteq Coords
  BY ChunkStreamAssumption DEF Visible, ToSet

LEMMA RestingIs ==
    /\ Resting \in Streams /\ Resting.step = "get" /\ Resting.unload = {}
    /\ Resting.load = <<>> /\ Resting.attempt = 0 /\ Resting.arc = "same"
<1>1. <<>> \in Seq(Coords)
  OBVIOUS
<1> QED BY <1>1 DEF Resting, Streams, Values

LEMMA GeneratedIs ==
    ASSUME NEW w \in 1..Len(Pristine)
    PROVE  Generated(w) \in [Coords -> Blocks] /\ Pristine[w] \in Blocks
  BY ChunkStreamAssumption DEF Generated

LEMMA InitFits == Init => IInv
<1> SUFFICES ASSUME Init
             PROVE  IInv
  OBVIOUS
<1>1. TypeOK
  <2>1. /\ <<>> \in Seq(Frames) /\ <<>> \in Seq(Coords) /\ <<>> \in Seq(Updates)
        /\ Nothing \in [Coords -> Values]
        /\ [e \in Editors |-> NoPost] \in [Editors -> Updates \cup {NoPost}]
    BY DEF Nothing, Values
  <2>2. 1 \in 1..Len(Pristine)
    BY ChunkStreamAssumption, EmptySeq
  <2> QED BY <2>1, <2>2, ChunkStreamAssumption, RestingIs, GeneratedIs DEF Init, TypeOK
<1>2. StreamFits
  BY RestingIs DEF Init, StreamFits
<1>3. ViewFits
  <2>1. DOMAIN stream.load = {} /\ ToSet(stream.load) = {} /\ held = {}
    BY RestingIs DEF Init, ToSet
  <2> QED BY <2>1 DEF ViewFits
<1>4. ASSUME NEW c \in Coords
      PROVE  Shown(c) = Absent
  BY AfterNothing DEF Init, Shown, Nothing, Values
<1> QED BY <1>1, <1>2, <1>3, <1>4 DEF IInv, OutOfView

LEMMA NextChunkFits == ASSUME IInv, NextChunk PROVE IInv'
<1> DEFINE order == Nearest[latest]
           places == {i \in DOMAIN order : order[i] \notin held}
           load == Picked(order, places)
<1>1. /\ order \in Seq(Coords) /\ IsInjective(order) /\ latest \in Places /\ latest # NoPlace
      /\ Visible(latest) = {order[i] : i \in 1..Len(order)} /\ Visible(latest) \subseteq Coords
  BY VisibleIs DEF IInv, TypeOK
<1>2. stream' = [Resting EXCEPT !.unload = held \ Visible(latest), !.load = load, !.repairing = again]
  BY DEF NextChunk
<1> HIDE DEF order, places, load
<1>3. load \in Seq(Coords) /\ DOMAIN load = 1..Len(load)
  BY <1>1, PickedType DEF load
<1>4. /\ \A i \in 1..Len(load) : load[i] \in Visible(latest) /\ load[i] \notin held
      /\ \A i, j \in 1..Len(load) : load[i] = load[j] => i = j
  <2>1. /\ \A i \in 1..Len(load) : \E j \in 1..Len(order) : j \in places /\ load[i] = order[j]
        /\ \A i, j \in 1..Len(load) : load[i] = load[j] => i = j
    BY <1>1, PickedInjective DEF load
  <2> QED BY <1>1, <2>1 DEF places
<1>5. /\ stream'.step = "get" /\ stream'.unload = held \ Visible(latest) /\ stream'.load = load
      /\ stream'.attempt = 0
  BY <1>2 DEF Resting
<1>6. held' = held \cap Visible(latest) /\ centre' = latest /\ subscribed /\ subscribed'
  BY DEF NextChunk
<1>7. TypeOK'
  <2>1. held \in SUBSET Coords
    BY DEF IInv, TypeOK
  <2>2. stream' \in Streams
    BY <1>2, <1>3, <2>1, RestingIs DEF Resting, Streams, IInv, TypeOK
  <2> QED BY <1>1, <1>6, <2>1, <2>2 DEF IInv, TypeOK, NextChunk, cacheVars, clientVars
<1>8. StreamFits'
  BY <1>5, <1>6 DEF StreamFits
<1>9. ViewFits'
  <2>1. ToSet(stream'.load) \subseteq Visible(latest)
    BY <1>3, <1>4, <1>5 DEF ToSet
  <2> QED BY <1>1, <1>3, <1>4, <1>5, <1>6, <2>1 DEF ViewFits, Visible
<1>10. ASSUME NEW c \in Coords
       PROVE  OutOfView(c)'
  <2>1. Shown(c)' = Shown(c)
    BY Unsent DEF NextChunk
  <2>2. OutOfView(c) /\ stream.unload = {} /\ stream.step = "get"
    BY DEF IInv, NextChunk, Idle
  <2> QED BY <1>5, <1>6, <2>1, <2>2 DEF OutOfView, AtHead, NextChunk
<1> QED BY <1>7, <1>8, <1>9, <1>10 DEF IInv

LEMMA UnloadFits == ASSUME IInv, SendUnload \/ UnloadOldWorld PROVE IInv'
<1>1. PICK d \in stream.unload : /\ line' = Append(line, ChunkUnload(d))
                                 /\ stream' = [stream EXCEPT !.unload = @ \ {d}]
  BY DEF SendUnload, UnloadOldWorld
<1>2. /\ UNCHANGED <<cacheVars, playerVars, viewVars, again, subscribed, asks, clientVars>>
      /\ UNCHANGED historyVars
  BY DEF SendUnload, UnloadOldWorld
<1>3. /\ stream \in Streams /\ stream.unload \subseteq Coords /\ TypeOK
      /\ stream' \in Streams /\ stream'.unload = stream.unload \ {d} /\ stream'.load = stream.load
      /\ stream'.step = stream.step /\ stream'.attempt = stream.attempt
      /\ stream'.chunk = stream.chunk
  BY <1>1 DEF IInv, TypeOK, Streams
<1>4. ChunkUnload(d) \in Frames
  BY <1>3, FrameTypes DEF Frames
<1>5. /\ line' \in Seq(Frames)
      /\ \A c \in Coords : Shown(c)' = Made(Shown(c), ChunkUnload(d), c)
  BY <1>1, <1>2, <1>3, <1>4, Sent
<1>6. TypeOK'
  BY <1>2, <1>3, <1>5 DEF TypeOK, cacheVars, playerVars, viewVars, clientVars
<1>7. StreamFits'
  BY <1>2, <1>3 DEF IInv, StreamFits, viewVars, cacheVars
<1>8. ViewFits'
  BY <1>2, <1>3 DEF IInv, ViewFits, viewVars, Visible
<1>9. ASSUME NEW c \in Coords
      PROVE  OutOfView(c)'
  <2>1. Shown(c)' = IF c = d THEN Absent ELSE Shown(c)
    BY <1>5 DEF Made, ChunkUnload, WorldEntered
  <2>2. OutOfView(c)
    BY DEF IInv
  <2> QED BY <1>2, <1>3, <2>1, <2>2 DEF OutOfView, AtHead, viewVars, historyVars
<1> QED BY <1>6, <1>7, <1>8, <1>9 DEF IInv

LEMMA GetChunkFits == ASSUME IInv, GetChunk PROVE IInv'
<1>1. /\ stream.load # <<>> /\ stream.step = "get" /\ stream.unload = {} /\ subscribed
      /\ stream' = [stream EXCEPT !.step = "send", !.arc = "same",
                                  !.chunk = terrain[Head(stream.load)]]
      /\ UNCHANGED <<cacheVars, playerVars, viewVars, again, subscribed, line, asks,
                     clientVars, historyVars>>
  BY DEF GetChunk, Sending
<1>2. stream \in Streams /\ terrain \in [Coords -> Blocks] /\ Head(stream.load) \in Coords
  BY <1>1, ListIs DEF IInv, TypeOK
<1>3. /\ stream' \in Streams /\ stream'.unload = {} /\ stream'.load = stream.load
      /\ stream'.step = "send" /\ stream'.attempt = stream.attempt /\ stream'.chunk \in Blocks
  BY <1>1, <1>2 DEF Streams, Values
<1>4. TypeOK'
  BY <1>1, <1>3 DEF IInv, TypeOK, cacheVars, playerVars, viewVars, clientVars
<1>5. StreamFits'
  BY <1>1, <1>3 DEF StreamFits
<1>6. ViewFits'
  BY <1>1, <1>3 DEF IInv, ViewFits, viewVars, Visible
<1>7. ASSUME NEW c \in Coords
      PROVE  OutOfView(c)'
  <2>1. Shown(c)' = Shown(c)
    BY <1>1, Unsent
  <2> QED BY <1>1, <1>3, <2>1 DEF IInv, OutOfView, AtHead, viewVars, historyVars
<1> QED BY <1>4, <1>5, <1>6, <1>7 DEF IInv

LEMMA GetFailsFits == ASSUME IInv, GetFails PROVE IInv'
<1>1. /\ stream.step = "get" /\ stream.unload = {} /\ subscribed
      /\ stream' = [Resting EXCEPT !.step = "ended"]
      /\ UNCHANGED <<cacheVars, playerVars, viewVars, again, subscribed, line, asks, clientVars,
                     turnedAway, stray>>
  BY DEF GetFails, Sending
<1>2. /\ stream' \in Streams /\ stream'.unload = {} /\ stream'.load = <<>>
      /\ stream'.step = "ended" /\ stream'.attempt = 0
  BY <1>1, RestingIs DEF Streams
<1>3. TypeOK'
  BY <1>1, <1>2 DEF IInv, TypeOK, cacheVars, playerVars, viewVars, clientVars
<1>4. StreamFits'
  BY <1>1, <1>2 DEF StreamFits
<1>5. ViewFits'
  <2>1. DOMAIN stream'.load = {} /\ ToSet(stream'.load) = {}
    BY <1>2 DEF ToSet
  <2> QED BY <1>1, <1>2, <2>1 DEF IInv, ViewFits, viewVars, Visible
<1>6. ASSUME NEW c \in Coords
      PROVE  OutOfView(c)'
  <2>1. Shown(c)' = Shown(c)
    BY <1>1, Unsent
  <2> QED BY <1>1, <1>2, <2>1 DEF IInv, OutOfView, AtHead, viewVars
<1> QED BY <1>3, <1>4, <1>5, <1>6 DEF IInv

LEMMA SendChunkFits == ASSUME IInv, SendChunk PROVE IInv'
<1> DEFINE d == Head(stream.load)
<1>1. /\ stream.load # <<>> /\ stream.step = "send" /\ stream.unload = {} /\ subscribed
      /\ stream' = [stream EXCEPT !.step = "mark"]
      /\ line' = Append(line, ChunkData(d, stream.chunk))
      /\ UNCHANGED <<cacheVars, playerVars, viewVars, again, subscribed, asks, clientVars>>
      /\ UNCHANGED historyVars
  BY DEF SendChunk, Sending
<1>2. stream \in Streams /\ d \in Coords /\ stream.chunk \in Blocks /\ TypeOK
  BY <1>1, ListIs DEF IInv, TypeOK, StreamFits
<1>3. /\ stream' \in Streams /\ stream'.unload = {} /\ stream'.load = stream.load
      /\ stream'.step = "mark" /\ stream'.attempt = stream.attempt
  BY <1>1, <1>2 DEF Streams
<1> HIDE DEF d
<1>4. ChunkData(d, stream.chunk) \in Frames
  BY <1>2, FrameTypes DEF Frames
<1>5. /\ line' \in Seq(Frames)
      /\ \A c \in Coords : Shown(c)' = Made(Shown(c), ChunkData(d, stream.chunk), c)
  BY <1>1, <1>2, <1>4, Sent
<1>6. TypeOK'
  BY <1>1, <1>2, <1>3, <1>5 DEF TypeOK, cacheVars, playerVars, viewVars, clientVars
<1>7. StreamFits'
  BY <1>1, <1>3 DEF StreamFits
<1>8. ViewFits'
  BY <1>1, <1>3 DEF IInv, ViewFits, viewVars, Visible
<1>9. ASSUME NEW c \in Coords
      PROVE  OutOfView(c)'
  <2>1. c # d => Shown(c)' = Shown(c)
    BY <1>5 DEF Made, ChunkData, WorldEntered
  <2> QED BY <1>1, <1>3, <2>1 DEF IInv, OutOfView, AtHead, viewVars, historyVars, d
<1> QED BY <1>6, <1>7, <1>8, <1>9 DEF IInv

LEMMA MarkLoadedFits == ASSUME IInv, MarkLoaded PROVE IInv'
<1> DEFINE d == Head(stream.load)
<1>1. /\ stream.load # <<>> /\ stream.step = "mark" /\ stream.unload = {} /\ subscribed
      /\ stream' = [stream EXCEPT !.step = "peek"]
      /\ held' = held \cup {d} /\ stray' = stray \ {d}
      /\ UNCHANGED <<cacheVars, playerVars, centre, again, subscribed, line, asks, clientVars>>
  BY DEF MarkLoaded, Sending
<1>2. /\ stream \in Streams /\ d \in Coords /\ d = stream.load[1] /\ 1 \in DOMAIN stream.load
  BY <1>1, ListIs DEF IInv, TypeOK
<1>3. /\ stream' \in Streams /\ stream'.unload = {} /\ stream'.load = stream.load
      /\ stream'.step = "peek" /\ stream'.attempt = stream.attempt
  BY <1>1, <1>2 DEF Streams
<1> HIDE DEF d
<1>4. TypeOK'
  BY <1>1, <1>2, <1>3 DEF IInv, TypeOK, cacheVars, playerVars, viewVars, clientVars
<1>5. StreamFits'
  BY <1>1, <1>3 DEF StreamFits
<1>6. ViewFits'
  <2>1. d \in ToSet(stream.load)
    BY <1>2 DEF ToSet
  <2> QED BY <1>1, <1>2, <1>3, <2>1 DEF IInv, ViewFits, Visible
<1>7. ASSUME NEW c \in Coords
      PROVE  OutOfView(c)'
  <2>1. Shown(c)' = Shown(c)
    BY <1>1, Unsent
  <2> QED BY <1>1, <1>3, <2>1 DEF IInv, OutOfView, AtHead, d
<1> QED BY <1>4, <1>5, <1>6, <1>7 DEF IInv

(* A chunk is done with, and the next is to be got. *)
LEMMA NextLoadFits ==
    ASSUME IInv, stream.load # <<>>, stream' = NextLoad, subscribed' = subscribed, subscribed,
           centre' = centre, held' \subseteq held, stream.unload = {}
    PROVE  /\ stream' \in Streams /\ stream'.step = "get" /\ stream'.unload = {}
           /\ StreamFits' /\ ViewFits'
<1> DEFINE l == stream.load
           t == Tail(l)
<1>1. /\ Len(l) \in Nat \ {0} /\ DOMAIN l = 1..Len(l) /\ t \in Seq(Coords)
      /\ DOMAIN t = 1..(Len(l) - 1)
      /\ \A i \in 1..(Len(l) - 1) : t[i] = l[i + 1] /\ i + 1 \in DOMAIN l /\ i + 1 # 1
  BY ListIs DEF IInv
<1> HIDE DEF t
<1>2. stream' = [Resting EXCEPT !.load = t, !.repairing = stream.repairing]
  BY DEF NextLoad, t
<1>3. /\ stream' \in Streams /\ stream'.step = "get" /\ stream'.unload = {} /\ stream'.load = t
      /\ stream'.attempt = 0
  BY <1>1, <1>2, RestingIs DEF Resting, Streams, IInv, TypeOK
<1>4. StreamFits'
  BY <1>3 DEF StreamFits
<1>5. ViewFits'
  <2>1. \A i \in DOMAIN t : t[i] \notin held
    BY <1>1 DEF IInv, ViewFits
  <2>2. \A i, j \in DOMAIN t : t[i] = t[j] => i = j
    <3> SUFFICES ASSUME NEW i \in 1..(Len(l) - 1), NEW j \in 1..(Len(l) - 1), t[i] = t[j]
                 PROVE  i = j
      BY <1>1
    <3>1. l[i + 1] = l[j + 1] /\ i + 1 \in DOMAIN l /\ j + 1 \in DOMAIN l
      BY <1>1
    <3>2. i + 1 = j + 1
      BY <3>1 DEF IInv, ViewFits
    <3> QED BY <3>2
  <2>3. ToSet(t) \subseteq ToSet(l)
    BY <1>1 DEF ToSet
  <2>4. held \cup ToSet(l) # {} => 
           centre # NoPlace /\ held \cup ToSet(l) \subseteq Visible(centre)
    BY DEF IInv, ViewFits
  <2>5. held' \cup ToSet(t) # {} => 
           centre' # NoPlace /\ held' \cup ToSet(t) \subseteq Visible(centre')
    BY <2>3, <2>4
  <2>6. Visible(centre)' = Visible(centre')
    BY DEF Visible
  <2> QED BY <1>3, <2>1, <2>2, <2>5, <2>6 DEF ViewFits
<1> QED BY <1>3, <1>4, <1>5

LEMMA PeekChunkFits == ASSUME IInv, PeekChunk PROVE IInv'
<1>1. /\ stream.load # <<>> /\ stream.step = "peek" /\ stream.unload = {} /\ subscribed
      /\ UNCHANGED <<cacheVars, playerVars, viewVars, again, subscribed, line, asks,
                     clientVars, turnedAway, stray>>
  BY DEF PeekChunk, Sending
<1>2. stream' = [stream EXCEPT !.step = "get", !.attempt = @ + 1] \/ stream' = NextLoad
  BY DEF PeekChunk
<1>3. /\ stream' \in Streams /\ stream'.step = "get" /\ stream'.unload = {}
      /\ StreamFits' /\ ViewFits'
  <2>1. CASE stream' = [stream EXCEPT !.step = "get", !.attempt = @ + 1]
    <3>1. /\ stream' \in Streams /\ stream'.step = "get" /\ stream'.unload = {}
          /\ stream'.load = stream.load /\ stream'.attempt > 0
      <4>1. stream \in Streams /\ stream.attempt \in Nat
        BY DEF IInv, TypeOK, Streams
      <4>2. stream.attempt + 1 \in Nat /\ stream.attempt + 1 > 0
        BY <4>1
      <4>3. /\ stream'.step = "get" /\ stream'.unload = stream.unload
            /\ stream'.load = stream.load /\ stream'.attempt = stream.attempt + 1
        BY <2>1, <4>1 DEF Streams
      <4>4. stream' \in Streams
        BY <2>1, <4>1, <4>2 DEF Streams
      <4> QED BY <1>1, <4>2, <4>3, <4>4
    <3>2. StreamFits'
      BY <1>1, <3>1 DEF StreamFits
    <3>3. ViewFits'
      BY <1>1, <3>1 DEF IInv, ViewFits, viewVars, Visible
    <3> QED BY <3>1, <3>2, <3>3
  <2>2. CASE stream' = NextLoad
    <3>1. subscribed' = subscribed /\ centre' = centre /\ held' = held
      BY <1>1 DEF viewVars
    <3> QED BY <1>1, <2>2, <3>1, NextLoadFits
  <2> QED BY <1>2, <2>1, <2>2
<1>4. TypeOK'
  BY <1>1, <1>3 DEF IInv, TypeOK, cacheVars, playerVars, viewVars, clientVars
<1>5. ASSUME NEW c \in Coords
      PROVE  OutOfView(c)'
  <2>1. Shown(c)' = Shown(c)
    BY <1>1, Unsent
  <2> QED BY <1>1, <1>3, <2>1 DEF IInv, OutOfView, AtHead, viewVars
<1> QED BY <1>3, <1>4, <1>5 DEF IInv

LEMMA GiveUpFits == ASSUME IInv, GiveUp PROVE IInv'
<1> DEFINE d == Head(stream.load)
<1>1. /\ stream.load # <<>> /\ stream.step = "peek" /\ stream.unload = {} /\ subscribed
      /\ stream' = NextLoad
      /\ held' = held \ {d} /\ stray' = stray \cup {d} /\ (again' = TRUE \/ again' = again)
      /\ UNCHANGED <<cacheVars, latest, centre, subscribed, line, asks, clientVars, moves>>
  BY DEF GiveUp, Sending
<1>3. /\ stream' \in Streams /\ stream'.step = "get" /\ stream'.unload = {}
      /\ StreamFits' /\ ViewFits'
  BY <1>1, NextLoadFits
<1>4. TypeOK'
  BY <1>1, <1>3 DEF IInv, TypeOK, cacheVars, clientVars
<1>5. ASSUME NEW c \in Coords
      PROVE  OutOfView(c)'
  <2>1. Shown(c)' = Shown(c)
    BY <1>1, Unsent
  <2> QED BY <1>1, <1>3, <2>1 DEF IInv, OutOfView, AtHead
<1> QED BY <1>3, <1>4, <1>5 DEF IInv

LEMMA PostFits ==
    ASSUME IInv, NEW e \in Editors, NEW u \in Updates, u.block \in Blocks, Post(e, u)
    PROVE  IInv'
<1>1. /\ stream' = Republished(u.coord)
      /\ terrain' = [terrain EXCEPT ![u.coord] = u.block] /\ posts' = [posts EXCEPT ![e] = u]
      /\ UNCHANGED <<world, playerVars, viewVars, again, subscribed, line, asks,
                     clientVars, historyVars>>
  BY DEF Post
<1>2. stream \in Streams
  BY DEF IInv, TypeOK
<1>3. /\ stream' \in Streams /\ stream'.load = stream.load /\ stream'.step = stream.step
      /\ stream'.attempt = stream.attempt /\ stream'.unload = stream.unload
      /\ stream'.chunk = stream.chunk
  BY <1>1, <1>2 DEF Republished, Streams
<1>4. TypeOK'
  BY <1>1, <1>3, FrameTypes DEF IInv, TypeOK, playerVars, viewVars, clientVars
<1>5. StreamFits'
  BY <1>1, <1>3 DEF IInv, StreamFits, viewVars
<1>6. ViewFits'
  BY <1>1, <1>3 DEF IInv, ViewFits, viewVars, Visible
<1>7. ASSUME NEW c \in Coords
      PROVE  OutOfView(c)'
  <2>1. Shown(c)' = Shown(c)
    BY <1>1, Unsent
  <2> QED BY <1>1, <1>3, <2>1 DEF IInv, OutOfView, AtHead, viewVars, historyVars
<1> QED BY <1>4, <1>5, <1>6, <1>7 DEF IInv

LEMMA EditFits == ASSUME IInv, NEW e \in Editors, Edit(e) \/ Regenerate(e) PROVE IInv'
<1>1. CASE Edit(e)
  <2>1. PICK c \in Coords, b \in Blocks : Post(e, BlockUpdate(c, b))
    BY <1>1 DEF Edit
  <2>2. BlockUpdate(c, b) \in Updates /\ BlockUpdate(c, b).block \in Blocks
    BY FrameTypes DEF BlockUpdate
  <2> QED BY <2>1, <2>2, PostFits
<1>2. CASE Regenerate(e)
  <2>1. PICK c \in Coords : Post(e, ChunkData(c, Pristine[world]))
    BY <1>2 DEF Regenerate
  <2>2. Pristine[world] \in Blocks
    BY GeneratedIs DEF IInv, TypeOK
  <2>3. /\ ChunkData(c, Pristine[world]) \in Updates
        /\ ChunkData(c, Pristine[world]).block \in Blocks
    BY <2>2, FrameTypes DEF ChunkData
  <2> QED BY <2>1, <2>3, PostFits
<1> QED BY <1>1, <1>2

(* The steps that leave the stream alone, and forget what they take from     *)
(* the view.                                                                 *)
LEMMA ForgettingFits ==
    ASSUME IInv, TypeOK', UNCHANGED <<world, stream, centre, subscribed>>,
           held' \subseteq held, held \ held' \subseteq stray', stray \subseteq stray',
           \A c \in Coords : Shown(c) = Absent => Shown(c)' = Absent
    PROVE  IInv'
<1>1. StreamFits'
  BY DEF IInv, StreamFits
<1>2. ViewFits'
  BY DEF IInv, ViewFits, Visible
<1>3. ASSUME NEW c \in Coords
      PROVE  OutOfView(c)'
  <2>1. OutOfView(c)
    BY DEF IInv
  <2> QED BY <2>1 DEF OutOfView, AtHead
<1> QED BY <1>1, <1>2, <1>3 DEF IInv

LEMMA BroadcastFits == ASSUME IInv, NEW e \in Editors, BroadcastChunk(e) PROVE IInv'
<1> DEFINE u == posts[e]
           reached == subscribed /\ u.coord \in held
<1>1. /\ u \in Updates /\ u.kind = "block" /\ u \in Frames
  BY FrameTypes DEF BroadcastChunk, PostedBy, IInv, TypeOK
<1>2. /\ posts' = [posts EXCEPT ![e] = NoPost]
      /\ UNCHANGED <<terrain, world, playerVars, centre, streamerVars, asks, clientVars,
                     edits, turnedAway>>
      /\ \/ held' = held \ {u.coord} /\ stray' = stray \cup {u.coord} /\ line' = line
         \/ line' = line /\ UNCHANGED <<held, stray>>
         \/ line' = Append(line, u) /\ UNCHANGED <<held, stray>>
  BY DEF BroadcastChunk
<1>3. TypeOK
  BY DEF IInv
<1> HIDE DEF u
<1>4. line' \in Seq(Frames) /\ \A c \in Coords : Shown(c) = Absent => Shown(c)' = Absent
  <2>1. CASE line' = line
    BY <1>2, <1>3, <2>1, Unsent DEF TypeOK
  <2>2. CASE line' = Append(line, u)
    <3>1. /\ line' \in Seq(Frames)
          /\ \A c \in Coords : Shown(c)' = Made(Shown(c), u, c)
      BY <1>1, <1>2, <1>3, <2>2, Sent
    <3> QED BY <1>1, <3>1, FrameTypes DEF Made
  <2> QED BY <1>2, <2>1, <2>2
<1>5. TypeOK'
  BY <1>2, <1>3, <1>4 DEF TypeOK, playerVars, streamerVars, clientVars
<1>6. UNCHANGED <<world, stream, centre, subscribed>>
  BY <1>2 DEF streamerVars
<1>7. held' \subseteq held /\ held \ held' \subseteq stray' /\ stray \subseteq stray'
  BY <1>2
<1> QED BY <1>4, <1>5, <1>6, <1>7, ForgettingFits

LEMMA ResendChunkFits == ASSUME IInv, NEW e \in Editors, ResendChunk(e) PROVE IInv'
<1>1. /\ posts' = [posts EXCEPT ![e] = NoPost]
      /\ UNCHANGED <<terrain, world, latest, centre, streamerVars, line, asks, clientVars,
                     edits, moves, turnedAway>>
      /\ held' \subseteq held /\ held \ held' \subseteq stray' /\ stray \subseteq stray'
  BY DEF ResendChunk, Repair
<1>2. TypeOK'
  BY <1>1 DEF IInv, TypeOK, streamerVars, clientVars
<1>3. \A c \in Coords : Shown(c) = Absent => Shown(c)' = Absent
  BY <1>1, Unsent
<1> QED BY <1>1, <1>2, <1>3, ForgettingFits DEF streamerVars

LEMMA EvictFits == ASSUME IInv, Evict PROVE IInv'
<1>1. /\ UNCHANGED <<cacheVars, playerVars, viewVars, again, subscribed, line, asks,
                     clientVars, historyVars>>
      /\ stream' = [stream EXCEPT !.arc = IF @ = "same" THEN "gone" ELSE "missed"]
  BY DEF Evict
<1>2. /\ stream' \in Streams /\ stream'.load = stream.load /\ stream'.step = stream.step
      /\ stream'.attempt = stream.attempt /\ stream'.unload = stream.unload
      /\ stream'.chunk = stream.chunk
  BY <1>1 DEF IInv, TypeOK, Streams
<1>3. TypeOK'
  BY <1>1, <1>2 DEF IInv, TypeOK, cacheVars, playerVars, viewVars, clientVars
<1>4. StreamFits'
  BY <1>1, <1>2 DEF IInv, StreamFits, viewVars, cacheVars
<1>5. ViewFits'
  BY <1>1, <1>2 DEF IInv, ViewFits, viewVars, Visible
<1>6. ASSUME NEW c \in Coords
      PROVE  OutOfView(c)'
  <2>1. Shown(c)' = Shown(c)
    BY <1>1, Unsent
  <2> QED BY <1>1, <1>2, <2>1 DEF IInv, OutOfView, AtHead, viewVars, historyVars
<1> QED BY <1>3, <1>4, <1>5, <1>6 DEF IInv

LEMMA CrossFits == ASSUME IInv, Cross PROVE IInv'
<1>1. /\ UNCHANGED <<cacheVars, viewVars, streamerVars, line, asks, clientVars,
                     historyVars>>
      /\ latest' \in Places
  BY DEF Cross
<1>2. TypeOK'
  BY <1>1 DEF IInv, TypeOK, cacheVars, streamerVars, viewVars, clientVars
<1>3. \A c \in Coords : Shown(c) = Absent => Shown(c)' = Absent
  BY <1>1, Unsent
<1> QED BY <1>1, <1>2, <1>3, ForgettingFits DEF cacheVars, streamerVars, viewVars, historyVars

LEMMA ResendFits == ASSUME IInv, Resend \/ IgnoreAsk PROVE IInv'
<1>1. /\ asks # <<>> /\ asks' = Tail(asks)
      /\ UNCHANGED <<cacheVars, latest, centre, streamerVars, line, clientVars, moves>>
      /\ held' \subseteq held /\ held \ held' \subseteq stray' /\ stray \subseteq stray'
  BY DEF Resend, IgnoreAsk, Repair, playerVars, viewVars
<1>2. TypeOK'
  <2>1. asks' \in Seq(Coords)
    BY <1>1, HeadTailProperties DEF IInv, TypeOK
  <2> QED BY <1>1, <2>1 DEF IInv, TypeOK, cacheVars, streamerVars, clientVars
<1>3. \A c \in Coords : Shown(c) = Absent => Shown(c)' = Absent
  BY <1>1, Unsent
<1> QED BY <1>1, <1>2, <1>3, ForgettingFits DEF cacheVars, streamerVars

LEMMA IngestFits == ASSUME IInv, Ingest PROVE IInv'
<1>1. /\ UNCHANGED <<cacheVars, playerVars, viewVars, streamerVars>> /\ UNCHANGED stray
  BY DEF Ingest
<1>2. /\ line' \in Seq(Frames) /\ asks' \in Seq(Coords) /\ queue' \in Seq(Updates)
      /\ store' \in [Coords -> Values]
      /\ \A c \in Coords : Ingested(c)
  BY IngestStep DEF IInv
<1>3. TypeOK'
  BY <1>1, <1>2 DEF IInv, TypeOK, cacheVars, playerVars, streamerVars, viewVars
<1> QED BY <1>1, <1>2, <1>3, ForgettingFits DEF cacheVars, streamerVars, viewVars, Ingested

LEMMA StopWorldFits == ASSUME IInv, StopWorld PROVE IInv'
<1>1. /\ subscribed /\ world < Len(Pristine) /\ stream.step \in {"get", "send", "ended"}
      /\ subscribed' = FALSE /\ stream' = Resting /\ stray' = stray \cup stream.unload
      /\ UNCHANGED <<cacheVars, latest, wake, viewVars, again, line, asks, clientVars,
                     turnedAway>>
  BY DEF StopWorld
<1>2. TypeOK'
  BY <1>1, RestingIs DEF IInv, TypeOK, cacheVars, viewVars, clientVars
<1>3. StreamFits'
  BY <1>1, RestingIs DEF StreamFits, cacheVars
<1>4. ViewFits'
  <2>1. DOMAIN stream'.load = {} /\ ToSet(stream'.load) = {}
    BY <1>1, RestingIs DEF ToSet
  <2> QED BY <1>1, <2>1, RestingIs DEF IInv, ViewFits, viewVars, Visible
<1>5. ASSUME NEW c \in Coords
      PROVE  OutOfView(c)'
  <2>1. Shown(c)' = Shown(c)
    BY <1>1, Unsent
  <2> QED BY <1>1, <2>1 DEF IInv, OutOfView, AtHead, viewVars
<1> QED BY <1>2, <1>3, <1>4, <1>5 DEF IInv

(* Behind the arrival frame there is nothing. *)
LEMMA EntryShows ==
    ASSUME TypeOK, NEW n \in 0..Len(line), line' = Append(SubSeq(line, 1, n), WorldEntered),
           clientVars' = clientVars
    PROVE  line' \in Seq(Frames) /\ \A c \in Coords : Shown(c)' = Absent
<1> DEFINE s == SubSeq(line, 1, n)
<1>1. s \in Seq(Frames) /\ queue \in Seq(Frames)
  BY SplitAt, UpdatesAreFrames DEF TypeOK
<1> HIDE DEF s
<1>2. line' = Append(s, WorldEntered) /\ line' \in Seq(Frames)
  BY <1>1, FrameTypes DEF s
<1>3. ASSUME NEW c \in Coords
      PROVE  Shown(c)' = Absent
  <2> DEFINE b == After(queue, store[c], c)
  <2>1. b \in Values
    BY <1>1, AfterType DEF TypeOK
  <2>2. Shown(c)' = After(line', b, c)
    BY DEF Shown, clientVars
  <2> HIDE DEF b
  <2>3. Shown(c)' = Made(After(s, b, c), WorldEntered, c)
    BY <1>1, <1>2, <2>1, <2>2, FrameTypes, AfterAppend
  <2> QED BY <2>3 DEF Made
<1> QED BY <1>2, <1>3

LEMMA ChangeWorldFits == ASSUME IInv, ChangeWorld PROVE IInv'
<1>1. /\ ~subscribed /\ stream.step = "get"
      /\ world' = world + 1 /\ terrain' = Generated(world') /\ latest' = Start
      /\ stream' = [Resting EXCEPT !.unload = held, !.step = "unload"]
      /\ held' = {} /\ centre' = NoPlace /\ again' = FALSE
      /\ posts' = [e \in Editors |-> NoPost]
      /\ subscribed' = subscribed /\ asks' = asks /\ clientVars' = clientVars
  BY DEF ChangeWorld
<1>2. PICK n \in 0..Len(line) : line' = Append(SubSeq(line, 1, n), WorldEntered)
  BY DEF ChangeWorld
<1>3. line' \in Seq(Frames) /\ \A c \in Coords : Shown(c)' = Absent
  BY <1>1, <1>2, EntryShows DEF IInv
<1>4. world' \in 1..Len(Pristine)
  <2>1. world \in 1..Len(Pristine) /\ world < Len(Pristine) /\ Len(Pristine) \in Nat
    BY <1>1, ChunkStreamAssumption DEF IInv, TypeOK, StreamFits
  <2> QED BY <1>1, <2>1
<1>5. /\ stream' \in Streams /\ stream'.load = <<>> /\ stream'.step = "unload"
      /\ stream'.attempt = 0
  BY <1>1, RestingIs DEF Streams, IInv, TypeOK
<1>6. TypeOK'
  BY <1>1, <1>3, <1>4, <1>5, GeneratedIs, ChunkStreamAssumption DEF IInv, TypeOK, clientVars
<1>7. StreamFits'
  BY <1>1, <1>5 DEF StreamFits
<1>8. ViewFits'
  <2>1. DOMAIN stream'.load = {} /\ ToSet(stream'.load) = {}
    BY <1>5 DEF ToSet
  <2> QED BY <1>1, <2>1 DEF ViewFits
<1> QED BY <1>3, <1>6, <1>7, <1>8 DEF IInv, OutOfView

LEMMA StartWorldFits == ASSUME IInv, StartWorld PROVE IInv'
<1>1. /\ ~subscribed /\ stream.step = "unload" /\ stream.unload = {} /\ stream' = Resting
      /\ UNCHANGED <<cacheVars, playerVars, viewVars, again, line, asks, clientVars,
                     historyVars>>
  BY DEF StartWorld
<1>2. TypeOK'
  BY <1>1, RestingIs DEF IInv, TypeOK, cacheVars, playerVars, viewVars, clientVars
<1>3. StreamFits'
  BY <1>1, RestingIs DEF StreamFits, StartWorld
<1>4. ViewFits'
  <2>1. DOMAIN stream'.load = {} /\ ToSet(stream'.load) = {}
    BY <1>1, RestingIs DEF ToSet
  <2> QED BY <1>1, <2>1, RestingIs DEF IInv, ViewFits, viewVars, Visible
<1>5. ASSUME NEW c \in Coords
      PROVE  OutOfView(c)'
  <2>1. Shown(c)' = Shown(c)
    BY <1>1, Unsent
  <2> QED BY <1>1, <2>1 DEF IInv, OutOfView, AtHead, viewVars, historyVars
<1> QED BY <1>2, <1>3, <1>4, <1>5 DEF IInv

LEMMA TransferRefusedFits == ASSUME IInv, TransferRefused PROVE IInv'
<1>1. /\ ~subscribed /\ stream.step = "get"
      /\ UNCHANGED <<cacheVars, latest, viewVars, stream, again, line, asks, clientVars,
                     moves, historyVars>>
  BY DEF TransferRefused
<1>2. TypeOK'
  BY <1>1 DEF IInv, TypeOK, cacheVars, viewVars, clientVars
<1>3. StreamFits'
  BY <1>1 DEF IInv, StreamFits, TransferRefused
<1>4. ViewFits'
  BY <1>1 DEF IInv, ViewFits, viewVars, Visible
<1>5. ASSUME NEW c \in Coords
      PROVE  OutOfView(c)'
  <2>1. Shown(c)' = Shown(c)
    BY <1>1, Unsent
  <2> QED BY <1>1, <2>1 DEF IInv, OutOfView, AtHead, viewVars, historyVars
<1> QED BY <1>2, <1>3, <1>4, <1>5 DEF IInv

LEMMA NextFits == IInv /\ [Next]_vars => IInv'
<1> SUFFICES ASSUME IInv, [Next]_vars
             PROVE  IInv'
  OBVIOUS
<1>1. CASE UNCHANGED vars
  <2>1. /\ UNCHANGED <<terrain, world, latest, centre, held, stream, again, posts, line, asks>>
        /\ UNCHANGED <<queue, store, subscribed, stray>>
    BY <1>1 DEF vars, cacheVars, playerVars, viewVars, streamerVars, clientVars, historyVars
  <2>2. TypeOK'
    BY <2>1 DEF IInv, TypeOK
  <2>3. \A c \in Coords : Shown(c) = Absent => Shown(c)' = Absent
    BY <2>1, Unsent DEF clientVars
  <2> QED BY <2>1, <2>2, <2>3, ForgettingFits
<1>2. CASE Streaming
  BY <1>2, NextChunkFits, UnloadFits, GetChunkFits, GetFailsFits, SendChunkFits, MarkLoadedFits,
     PeekChunkFits, GiveUpFits DEF Streaming
<1>3. CASE \E e \in Editors : Editing(e)
  BY <1>3, EditFits, BroadcastFits, ResendChunkFits DEF Editing
<1>4. CASE Evict \/ Cross
  BY <1>4, EvictFits, CrossFits
<1>5. CASE Session
  BY <1>5, ResendFits, StopWorldFits, ChangeWorldFits, UnloadFits, StartWorldFits,
     TransferRefusedFits DEF Session
<1>6. CASE Ingest
  BY <1>6, IngestFits
<1> QED BY <1>1, <1>2, <1>3, <1>4, <1>5, <1>6 DEF Next

(* With nothing under way, what is shown is what the client holds. *)
LEMMA QuietShows ==
    ASSUME TypeOK, Quiet, NEW c \in Coords
    PROVE  Shown(c) = store[c] /\ ~Entering /\ ~Bringing(c) /\ ToSet(asks) = {}
<1>1. store[c] \in Values /\ line = <<>> /\ queue = <<>> /\ asks = <<>>
  BY DEF TypeOK, Quiet
<1>2. Shown(c) = store[c]
  BY <1>1, AfterNothing DEF Shown
<1>3. DOMAIN line = {} /\ DOMAIN asks = {}
  BY <1>1
<1> QED BY <1>2, <1>3 DEF Entering, Bringing, ToSet

(* Nothing outlives the view on the client, nothing of the world before in   *)
(* particular, except what was forgotten without being unloaded: MoveTo's    *)
(* unloads, changeWorld's purge and admit's evictions leave no other, with   *)
(* any number of editors, places and worlds and any backlog.                 *)
THEOREM NothingOutOfViewAlways == Spec => []NothingOutOfView
<1>1. IInv => NothingOutOfView
  <2> SUFFICES ASSUME IInv, Quiet, NEW c \in Coords, store[c] # Absent
               PROVE  c \in held \cup stray
    BY DEF NothingOutOfView
  <2>1. OutOfView(c) /\ Shown(c) = store[c]
    BY QuietShows DEF IInv
  <2>2. stream.unload = {} /\ stream.load = <<>>
    BY DEF Quiet
  <2> QED BY <2>1, <2>2 DEF OutOfView, AtHead
<1> QED BY <1>1, InitFits, NextFits, PTL DEF Spec

-----------------------------------------------------------------------------
(* What the view counts as delivered is what there is: each step. *)

LEMMA SentIs ==
    ASSUME TypeOK, NEW u \in Updates, line' = Append(line, u)
    PROVE  /\ Entering' <=> Entering
           /\ \A c \in Coords :
                  /\ Bringing(c)' <=> Bringing(c) \/ Brings(u, c)
                  /\ ChunkIsLast(c) /\ ~Edits(u, c) => ChunkIsLast(c)'
                  /\ Brings(u, c) => ChunkIsLast(c)'
<1> DEFINE L == Len(line)
<1>1. line \in Seq(Frames) /\ L \in Nat /\ DOMAIN line = 1..L /\ u # WorldEntered
  BY FrameTypes DEF TypeOK
<1>2. /\ DOMAIN line' = 1..(L + 1) /\ line'[L + 1] = u
      /\ \A i \in 1..L : line'[i] = line[i]
  BY <1>1
<1> HIDE DEF L
<1>3. \A i \in 1..(L + 1) : i \in 1..L \/ i = L + 1
  BY <1>1
<1>4. /\ \A i \in 1..L : i \in 1..(L + 1) /\ i < L + 1
      /\ L + 1 \in 1..(L + 1)
  BY <1>1
<1>5. Entering' <=> Entering
  BY <1>1, <1>2, <1>3, <1>4 DEF Entering
<1>6. ASSUME NEW c \in Coords
      PROVE  /\ Bringing(c)' <=> Bringing(c) \/ Brings(u, c)
             /\ ChunkIsLast(c) /\ ~Edits(u, c) => ChunkIsLast(c)'
             /\ Brings(u, c) => ChunkIsLast(c)'
  <2>1. Bringing(c)' <=> Bringing(c) \/ Brings(u, c)
    BY <1>1, <1>2, <1>3, <1>4 DEF Bringing
  <2>2. ASSUME ChunkIsLast(c), ~Edits(u, c)
        PROVE  ChunkIsLast(c)'
    <3> SUFFICES ASSUME NEW i \in 1..(L + 1), Edits(line'[i], c)
                 PROVE  \E j \in 1..(L + 1) : j > i /\ Brings(line'[j], c)
      BY <1>2 DEF ChunkIsLast
    <3>1. i \in 1..L /\ Edits(line[i], c)
      BY <1>2, <1>3, <2>2
    <3>2. PICK j \in 1..L : j > i /\ Brings(line[j], c)
      BY <1>1, <2>2, <3>1 DEF ChunkIsLast
    <3> QED BY <1>2, <1>4, <3>2
  <2>3. ASSUME Brings(u, c)
        PROVE  ChunkIsLast(c)'
    <3> SUFFICES ASSUME NEW i \in 1..(L + 1), Edits(line'[i], c)
                 PROVE  \E j \in 1..(L + 1) : j > i /\ Brings(line'[j], c)
      BY <1>2 DEF ChunkIsLast
    <3>1. i \in 1..L
      BY <1>2, <1>3, <2>3 DEF Edits, Brings
    <3> QED BY <1>2, <1>4, <2>3, <3>1
  <2> QED BY <2>1, <2>2, <2>3
<1> QED BY <1>5, <1>6


LEMMA InitCurrent == Init => CInv
<1> SUFFICES ASSUME Init
             PROVE  CInv
  OBVIOUS
<1>1. stream.load = <<>> /\ stream.step = "get" /\ held = {}
  BY RestingIs DEF Init
<1>2. PostsFit /\ SendFits
  BY <1>1 DEF Init, PostsFit, SendFits
<1> QED BY <1>1, <1>2 DEF CInv, HeldFits, MarkFits, AtHead

LEMMA NextChunkCurrent == ASSUME JInv, NextChunk PROVE CInv'
<1>1. /\ stream.load = <<>> /\ stream.step = "get" /\ stream'.step = "get"
      /\ held' \subseteq held /\ silent' = silent \cap held
      /\ UNCHANGED <<cacheVars, line, asks, clientVars, turnedAway>>
  BY DEF NextChunk, Idle, Resting
<1>2. PostsFit' /\ SendFits'
  BY <1>1 DEF JInv, CInv, PostsFit, SendFits, cacheVars
<1>3. ASSUME NEW c \in Coords
      PROVE  HeldFits(c)' /\ MarkFits(c)'
  <2>1. MarkFits(c)'
    BY <1>1 DEF MarkFits, AtHead
  <2>2. ASSUME c \in held'
        PROVE  HeldFits(c)'
    <3>1. HeldFits(c) /\ c \in held
      BY <1>1, <2>2 DEF JInv, CInv
    <3>2. ~BeingSent(c)
      BY <1>1 DEF BeingSent, AtHead
    <3>3. /\ Shown(c)' = Shown(c) /\ Entering' = Entering /\ Bringing(c)' = Bringing(c)
          /\ terrain' = terrain /\ asks' = asks /\ posts' = posts
      BY <1>1, Unsent DEF cacheVars
    <3> QED BY <1>1, <2>2, <3>1, <3>2, <3>3 DEF HeldFits, Current, Excused, Missed, Posted
  <2> QED BY <2>1, <2>2 DEF HeldFits
<1> QED BY <1>2, <1>3 DEF CInv

LEMMA UnloadCurrent == ASSUME JInv, SendUnload \/ UnloadOldWorld PROVE CInv'
<1>1. PICK d \in stream.unload : /\ line' = Append(line, ChunkUnload(d))
                                 /\ stream' = [stream EXCEPT !.unload = @ \ {d}]
  BY DEF SendUnload, UnloadOldWorld
<1>2. /\ UNCHANGED <<cacheVars, playerVars, viewVars, again, subscribed, asks, clientVars>>
      /\ UNCHANGED historyVars
  BY DEF SendUnload, UnloadOldWorld
<1>3. /\ stream \in Streams /\ d \in Coords /\ TypeOK
      /\ stream'.load = stream.load /\ stream'.step = stream.step /\ stream'.arc = stream.arc
      /\ stream'.attempt = stream.attempt /\ stream'.chunk = stream.chunk
  BY <1>1 DEF JInv, IInv, TypeOK, Streams
<1>4. d \notin held /\ stream.step \notin {"send", "mark", "peek"}
  BY <1>1 DEF JInv, IInv, ViewFits, StreamFits
<1>5. ChunkUnload(d) \in Updates /\ ChunkUnload(d) \in Frames
  BY <1>3, FrameTypes DEF Frames
<1>6. \A c \in Coords : c # d => Shown(c)' = Shown(c)
  BY <1>1, <1>2, <1>3, <1>5, Sent DEF Made, ChunkUnload, WorldEntered
<1>7. (Entering' <=> Entering) /\ \A c \in Coords : Bringing(c)' <=> Bringing(c)
  BY <1>1, <1>3, <1>5, SentIs DEF Brings, ChunkUnload
<1>8. PostsFit' /\ SendFits'
  BY <1>2, <1>3 DEF JInv, CInv, PostsFit, SendFits, cacheVars, Dirty
<1>9. ASSUME NEW c \in Coords
      PROVE  HeldFits(c)' /\ MarkFits(c)'
  <2>1. MarkFits(c)'
    BY <1>3, <1>4 DEF MarkFits, AtHead
  <2>2. ASSUME c \in held'
        PROVE  HeldFits(c)'
    <3>1. HeldFits(c) /\ c \in held /\ c # d
      BY <1>2, <1>4, <2>2 DEF JInv, CInv, viewVars
    <3>2. BeingSent(c) => BeingSent(c)'
      BY <1>3 DEF BeingSent, AtHead, Dirty
    <3> QED BY <1>2, <1>6, <1>7, <2>2, <3>1, <3>2
            DEF HeldFits, Current, Excused, Missed, Posted, cacheVars, historyVars
  <2> QED BY <2>1, <2>2 DEF HeldFits
<1> QED BY <1>8, <1>9 DEF CInv

LEMMA GetChunkCurrent == ASSUME JInv, GetChunk PROVE CInv'
<1> DEFINE h == Head(stream.load)
<1>1. /\ stream.load # <<>> /\ stream.step = "get"
      /\ stream' = [stream EXCEPT !.step = "send", !.arc = "same", !.chunk = terrain[h]]
      /\ UNCHANGED <<cacheVars, viewVars, line, asks, clientVars>>
      /\ UNCHANGED historyVars
  BY DEF GetChunk, Sending
<1>2. /\ stream'.step = "send" /\ stream'.load = stream.load /\ stream'.chunk = terrain[h]
  BY <1>1 DEF JInv, IInv, TypeOK, Streams
<1>3. PostsFit' /\ SendFits'
  BY <1>1, <1>2 DEF JInv, CInv, PostsFit, SendFits, cacheVars
<1>4. ASSUME NEW c \in Coords
      PROVE  HeldFits(c)' /\ MarkFits(c)'
  <2>1. MarkFits(c)'
    BY <1>2 DEF MarkFits, AtHead
  <2>2. CASE c = h
    <3>1. AtHead(c, {"send"})'
      BY <1>1, <1>2, <2>2 DEF AtHead
    <3> QED BY <2>1, <3>1 DEF HeldFits, BeingSent
  <2>3. CASE c # h
    <3>1. HeldFits(c) /\ ~BeingSent(c)
      BY <2>3 DEF JInv, CInv, BeingSent, AtHead
    <3>2. /\ Shown(c)' = Shown(c) /\ Entering' = Entering /\ Bringing(c)' = Bringing(c)
      BY <1>1, Unsent
    <3> QED BY <1>1, <2>1, <3>1, <3>2
            DEF HeldFits, Current, Excused, Missed, Posted, cacheVars, historyVars, viewVars
  <2> QED BY <2>1, <2>2, <2>3
<1> QED BY <1>3, <1>4 DEF CInv

LEMMA SendChunkCurrent == ASSUME JInv, SendChunk PROVE CInv'
<1>0. PICK h \in Coords : h = Head(stream.load)
  BY ListIs DEF JInv, IInv, SendChunk, Sending
<1> DEFINE u == ChunkData(h, stream.chunk)
<1>1. /\ stream.load # <<>> /\ stream.step = "send"
      /\ stream' = [stream EXCEPT !.step = "mark"]
      /\ line' = Append(line, u)
      /\ UNCHANGED <<cacheVars, viewVars, asks, clientVars>>
      /\ UNCHANGED historyVars
  BY <1>0 DEF SendChunk, Sending
<1>2. /\ stream'.step = "mark" /\ stream'.load = stream.load /\ stream'.arc = stream.arc
  BY <1>1 DEF JInv, IInv, TypeOK, Streams
<1>3. TypeOK /\ stream.chunk \in Blocks
  BY <1>1 DEF JInv, IInv, StreamFits
<1>4. u \in Updates /\ u \in Frames
  BY <1>3, FrameTypes DEF Frames
<1>5. \A c \in Coords : Shown(c)' = IF c = h THEN stream.chunk ELSE Shown(c)
  BY <1>1, <1>3, <1>4, Sent DEF Made, ChunkData, WorldEntered
<1>6. /\ Entering' <=> Entering
      /\ \A c \in Coords : c # h => (Bringing(c)' <=> Bringing(c))
      /\ ChunkIsLast(h)'
  BY <1>1, <1>3, <1>4, SentIs DEF Brings, ChunkData
<1> HIDE DEF u
<1>7. PostsFit' /\ SendFits'
  BY <1>1, <1>2 DEF JInv, CInv, PostsFit, SendFits, cacheVars
<1>8. ASSUME NEW c \in Coords
      PROVE  HeldFits(c)' /\ MarkFits(c)'
  <2>1. CASE c = h
    <3>1. Dirty' \/ Current(h)'
      <4>1. ~Dirty => stream.chunk = terrain[h]
        BY <1>0, <1>1 DEF JInv, CInv, SendFits
      <4> QED BY <1>1, <1>2, <1>3, <1>5, <4>1 DEF Current, Dirty, cacheVars
    <3>2. Dirty' => BeingSent(h)'
      BY <1>0, <1>1, <1>2 DEF BeingSent, AtHead
    <3>3. Dirty' \/ (Current(c)' /\ ChunkIsLast(c)')
      BY <1>6, <2>1, <3>1
    <3>4. Dirty' => BeingSent(c)'
      BY <2>1, <3>2
    <3> QED BY <3>3, <3>4 DEF HeldFits, MarkFits
  <2>2. CASE c # h
    <3>1. HeldFits(c) /\ ~BeingSent(c)
      BY <1>0, <2>2 DEF JInv, CInv, BeingSent, AtHead
    <3>2. HeldFits(c)'
      BY <1>1, <1>5, <1>6, <2>2, <3>1
         DEF HeldFits, Current, Excused, Missed, Posted, cacheVars, historyVars, viewVars
    <3>3. MarkFits(c)'
      BY <1>0, <1>2, <2>2 DEF MarkFits, AtHead
    <3> QED BY <3>2, <3>3
  <2> QED BY <2>1, <2>2
<1> QED BY <1>7, <1>8 DEF CInv

LEMMA MarkLoadedCurrent == ASSUME JInv, MarkLoaded PROVE CInv'
<1> DEFINE h == Head(stream.load)
<1>1. /\ stream.load # <<>> /\ stream.step = "mark"
      /\ stream' = [stream EXCEPT !.step = "peek"]
      /\ held' = held \cup {h}
      /\ UNCHANGED <<cacheVars, line, asks, clientVars, turnedAway, silent>>
  BY DEF MarkLoaded, Sending
<1>2. /\ stream'.step = "peek" /\ stream'.load = stream.load /\ stream'.arc = stream.arc
  BY <1>1 DEF JInv, IInv, TypeOK, Streams
<1>3. PostsFit' /\ SendFits'
  BY <1>1, <1>2 DEF JInv, CInv, PostsFit, SendFits, cacheVars
<1>4. ASSUME NEW c \in Coords
      PROVE  HeldFits(c)' /\ MarkFits(c)'
  <2>1. MarkFits(c)'
    BY <1>2 DEF MarkFits, AtHead
  <2>2. /\ Shown(c)' = Shown(c) /\ Entering' = Entering /\ Bringing(c)' = Bringing(c)
    BY <1>1, Unsent
  <2>3. /\ Current(c) => Current(c)'
        /\ Excused(c) => Excused(c)'
        /\ Missed(c, ToSet(asks)) => Missed(c, ToSet(asks))'
        /\ Posted(c) => Posted(c)'
    BY <1>1, <2>2 DEF Current, Excused, Missed, Posted, cacheVars
  <2>4. CASE c = h
    <3>1. MarkFits(c) /\ AtHead(c, {"mark"})
      BY <1>1, <2>4 DEF JInv, CInv, AtHead
    <3>2. Dirty => BeingSent(c)'
      BY <1>1, <1>2, <2>4 DEF BeingSent, AtHead, Dirty
    <3> QED BY <2>1, <2>3, <3>1, <3>2 DEF HeldFits, MarkFits
  <2>5. CASE c # h
    <3>1. HeldFits(c) /\ ~BeingSent(c)
      BY <2>5 DEF JInv, CInv, BeingSent, AtHead
    <3> QED BY <1>1, <2>1, <2>2, <2>3, <2>5, <3>1 DEF HeldFits
  <2> QED BY <2>4, <2>5
<1> QED BY <1>3, <1>4 DEF CInv

LEMMA PeekChunkCurrent == ASSUME JInv, PeekChunk \/ GiveUp PROVE CInv'
<1> DEFINE h == Head(stream.load)
<1>1. /\ stream.load # <<>> /\ stream.step = "peek" /\ held' \subseteq held
      /\ silent \subseteq silent'
      /\ UNCHANGED <<cacheVars, line, asks, clientVars, turnedAway>>
  BY DEF PeekChunk, GiveUp, Sending, viewVars
<1>2. /\ stream'.step = "get"
      /\ h \in held' /\ Dirty =>
             h \in silent' \/ (stream'.load = stream.load /\ stream'.attempt > 0)
  <2>1. CASE GiveUp
    BY <2>1 DEF GiveUp, NextLoad, Resting
  <2>2. CASE PeekChunk /\ stream' = NextLoad /\ ~(Overtaken /\ stream.attempt < MaxChunkResends)
    <3>1. ~Overtaken
      BY <2>2 DEF PeekChunk
    <3>2. Dirty => h \in silent'
      BY <2>2, <3>1 DEF PeekChunk, Dirty, Overtaken
    <3>3. stream'.step = "get"
      BY <2>2 DEF NextLoad, Resting
    <3> QED BY <3>2, <3>3
  <2>3. CASE stream' = [stream EXCEPT !.step = "get", !.attempt = @ + 1]
    <3>1. stream \in Streams /\ stream.attempt \in Nat
      BY DEF JInv, IInv, TypeOK, Streams
    <3>2. /\ stream'.step = "get" /\ stream'.load = stream.load
          /\ stream'.attempt = stream.attempt + 1
      BY <2>3, <3>1 DEF Streams
    <3> QED BY <3>1, <3>2
  <2> QED BY <2>1, <2>2, <2>3 DEF PeekChunk
<1>3. PostsFit' /\ SendFits'
  BY <1>1, <1>2 DEF JInv, CInv, PostsFit, SendFits, cacheVars
<1>4. ASSUME NEW c \in Coords
      PROVE  HeldFits(c)' /\ MarkFits(c)'
  <2>1. MarkFits(c)'
    BY <1>2 DEF MarkFits, AtHead
  <2>2. /\ Shown(c)' = Shown(c) /\ Entering' = Entering /\ Bringing(c)' = Bringing(c)
    BY <1>1, Unsent
  <2>3. /\ Current(c) => Current(c)'
        /\ Excused(c) => Excused(c)'
        /\ Missed(c, ToSet(asks)) => Missed(c, ToSet(asks))'
        /\ Posted(c) => Posted(c)'
    BY <1>1, <2>2 DEF Current, Excused, Missed, Posted, cacheVars
  <2>4. HeldFits(c)
    BY DEF JInv, CInv
  <2>5. ASSUME c \in held', BeingSent(c)
        PROVE  BeingSent(c)' \/ Excused(c)'
    <3>1. c = h /\ Dirty
      BY <1>1, <2>5 DEF BeingSent, AtHead
    <3> QED BY <1>1, <1>2, <2>5, <3>1 DEF BeingSent, AtHead, Excused
  <2> QED BY <1>1, <2>1, <2>2, <2>3, <2>4, <2>5 DEF HeldFits
<1> QED BY <1>3, <1>4 DEF CInv

LEMMA PostCurrent ==
    ASSUME JInv, InTurn, InTurn', NEW e \in Editors, NEW u \in Updates, u.block \in Blocks, Post(e, u)
    PROVE  CInv'
<1>1. /\ posts[e] = NoPost /\ posts' = [posts EXCEPT ![e] = u] /\ u # NoPost
      /\ terrain' = [terrain EXCEPT ![u.coord] = u.block]
      /\ stream' = Republished(u.coord)
      /\ UNCHANGED <<viewVars, line, asks, clientVars>>
      /\ UNCHANGED historyVars
  BY ChunkStreamAssumption DEF Post
<1>2. /\ terrain \in [Coords -> Blocks] /\ posts \in [Editors -> Updates \cup {NoPost}]
      /\ stream \in Streams /\ u.coord \in Coords /\ u.kind \in {"block", "chunk"}
  <2>1. u.kind # "unload"
    BY FrameTypes, AbsentIs
  <2> QED BY <2>1, FrameTypes DEF JInv, IInv, TypeOK
<1>3. /\ posts'[e] = u /\ \A f \in Editors : f # e => posts'[f] = posts[f]
      /\ terrain'[u.coord] = u.block
      /\ \A c \in Coords : c # u.coord => terrain'[c] = terrain[c]
  BY <1>1, <1>2
<1>4. /\ stream'.load = stream.load /\ stream'.step = stream.step
      /\ stream'.attempt = stream.attempt /\ stream'.chunk = stream.chunk
      /\ Dirty => Dirty'
      /\ AtHead(u.coord, {"send", "mark", "peek"}) => Dirty'
  BY <1>1, <1>2 DEF Republished, Streams, AtHead, Dirty
<1>5. \A f \in Editors : f # e /\ posts[f] # NoPost => posts[f].coord # u.coord
  BY <1>1, <1>3 DEF InTurn
<1>6. PostsFit'
  <2> SUFFICES ASSUME NEW f \in Editors, posts'[f] # NoPost
               PROVE  posts'[f].kind \in {"block", "chunk"}
                      /\ posts'[f].block = terrain'[posts'[f].coord]
    BY DEF PostsFit
  <2>1. CASE f = e
    BY <1>2, <1>3, <2>1
  <2>2. CASE f # e
    <3>1. posts[f] # NoPost /\ posts'[f] = posts[f] /\ posts[f].coord # u.coord
      BY <1>3, <1>5, <2>2
    <3>2. posts[f].coord \in Coords
      BY <1>2, <3>1, FrameTypes
    <3> QED BY <1>3, <3>1, <3>2 DEF JInv, CInv, PostsFit
  <2> QED BY <2>1, <2>2
<1>7. SendFits'
  <2> SUFFICES ASSUME stream'.step = "send", ~Dirty'
               PROVE  stream'.chunk = terrain'[Head(stream'.load)]
    BY DEF SendFits
  <2>1. /\ stream.step = "send" /\ ~Dirty /\ stream.load # <<>>
        /\ ~AtHead(u.coord, {"send", "mark", "peek"})
    BY <1>4 DEF JInv, IInv, StreamFits
  <2>2. Head(stream.load) # u.coord /\ Head(stream.load) \in Coords
    BY <2>1, ListIs DEF AtHead, JInv, IInv
  <2> QED BY <1>3, <1>4, <2>1, <2>2 DEF JInv, CInv, SendFits
<1>8. ASSUME NEW c \in Coords
      PROVE  HeldFits(c)' /\ MarkFits(c)'
  <2>1. /\ Shown(c)' = Shown(c) /\ Entering' = Entering /\ Bringing(c)' = Bringing(c)
        /\ ChunkIsLast(c)' = ChunkIsLast(c)
    BY <1>1, Unsent
  <2>2. /\ Excused(c) => Excused(c)'
        /\ Missed(c, ToSet(asks)) => Missed(c, ToSet(asks))'
        /\ BeingSent(c) => BeingSent(c)'
    BY <1>1, <1>4, <2>1 DEF Excused, Missed, historyVars, BeingSent, AtHead
  <2>3. HeldFits(c) /\ MarkFits(c) /\ held' = held
    BY <1>1 DEF JInv, CInv, viewVars
  <2>4. Posted(c) => Posted(c)'
    BY <1>1, <1>3 DEF Posted
  <2>5. CASE c = u.coord
    <3>1. Posted(c)'
      BY <1>1, <1>3, <2>5 DEF Posted
    <3>2. terrain[c] # Absent
      BY <1>2, AbsentIs
    <3>3. HeldFits(c)'
      BY <2>1, <2>2, <2>3, <3>1, <3>2 DEF HeldFits, Current
    <3>4. MarkFits(c)'
      BY <1>4, <2>5 DEF MarkFits, AtHead
    <3> QED BY <3>3, <3>4
  <2>6. CASE c # u.coord
    <3>1. Current(c)' = Current(c)
      BY <1>3, <2>1, <2>6 DEF Current
    <3>2. Regenerated(c)' => Regenerated(c)
      BY <1>3, <2>6 DEF Regenerated, PostedBy
    <3>3. HeldFits(c)'
      BY <2>1, <2>2, <2>3, <2>4, <3>1 DEF HeldFits
    <3>4. MarkFits(c)'
      <4>1. AtHead(c, {"mark"})' = AtHead(c, {"mark"})
        BY <1>4 DEF AtHead
      <4> QED BY <1>4, <2>1, <2>2, <2>3, <3>1, <3>2, <4>1 DEF MarkFits
    <3> QED BY <3>3, <3>4
  <2> QED BY <2>5, <2>6
<1> QED BY <1>6, <1>7, <1>8 DEF CInv

LEMMA EditCurrent ==
    ASSUME JInv, InTurn, InTurn', NEW e \in Editors, Edit(e) \/ Regenerate(e)
    PROVE  CInv'
<1>1. CASE Edit(e)
  <2>1. PICK c \in Coords, b \in Blocks : Post(e, BlockUpdate(c, b))
    BY <1>1 DEF Edit
  <2>2. BlockUpdate(c, b) \in Updates /\ BlockUpdate(c, b).block \in Blocks
    BY FrameTypes DEF BlockUpdate
  <2> QED BY <2>1, <2>2, PostCurrent
<1>2. CASE Regenerate(e)
  <2>1. PICK c \in Coords : Post(e, ChunkData(c, Pristine[world]))
    BY <1>2 DEF Regenerate
  <2>2. Pristine[world] \in Blocks
    BY GeneratedIs DEF JInv, IInv, TypeOK
  <2>3. /\ ChunkData(c, Pristine[world]) \in Updates
        /\ ChunkData(c, Pristine[world]).block \in Blocks
    BY <2>2, FrameTypes DEF ChunkData
  <2> QED BY <2>1, <2>3, PostCurrent
<1> QED BY <1>1, <1>2

(* What an editor has broadcast is broadcast: nobody else had that chunk to. *)
LEMMA Told ==
    ASSUME JInv, InTurn, NEW e \in Editors, posts[e] # NoPost,
           posts' = [posts EXCEPT ![e] = NoPost], terrain' = terrain, NEW d, d = posts[e].coord
    PROVE  /\ PostsFit' /\ d \in Coords /\ posts[e] \in Updates
           /\ posts[e].block = terrain[d] /\ terrain[d] \in Blocks
           /\ ~Posted(d)' /\ ~Regenerated(d)'
           /\ \A c \in Coords : c # d =>
                 (Posted(c)' <=> Posted(c)) /\ (Regenerated(c)' <=> Regenerated(c))
<1>1. /\ posts \in [Editors -> Updates \cup {NoPost}] /\ terrain \in [Coords -> Blocks]
  BY DEF JInv, IInv, TypeOK
<1>2. /\ posts'[e] = NoPost /\ \A f \in Editors : f # e => posts'[f] = posts[f]
  BY <1>1
<1>3. posts[e] \in Updates /\ posts[e].coord \in Coords
  BY <1>1, FrameTypes
<1>4. posts[e].block = terrain[d]
  BY DEF JInv, CInv, PostsFit
<1>5. PostsFit'
  <2> SUFFICES ASSUME NEW f \in Editors, posts'[f] # NoPost
               PROVE  posts'[f].kind \in {"block", "chunk"}
                      /\ posts'[f].block = terrain'[posts'[f].coord]
    BY DEF PostsFit
  <2> QED BY <1>2 DEF JInv, CInv, PostsFit
<1>6. ~Posted(d)' /\ ~Regenerated(d)'
  <2>1. ASSUME NEW f \in Editors, posts'[f] # NoPost
        PROVE  posts'[f].coord # d
    BY <1>2, <2>1 DEF InTurn
  <2> QED BY <2>1 DEF Posted, Regenerated, PostedBy
<1>7. ASSUME NEW c \in Coords, c # d
      PROVE  (Posted(c)' <=> Posted(c)) /\ (Regenerated(c)' <=> Regenerated(c))
  BY <1>2, <1>7 DEF Posted, Regenerated, PostedBy
<1> QED BY <1>1, <1>3, <1>4, <1>5, <1>6, <1>7

LEMMA BroadcastCurrent ==
    ASSUME JInv, InTurn, NEW e \in Editors, BroadcastChunk(e)
    PROVE  CInv'
<1>0. PICK d : d = posts[e].coord
  OBVIOUS
<1> DEFINE u == posts[e]
           lost == held' = held \ {d} /\ d \in silent' /\ line' = line
           sent == line' = Append(line, u) /\ d \in held /\ held' = held
           passed == line' = line /\ held' = held /\ (d \in held => d \in silent')
<1>1. /\ u # NoPost /\ u.kind = "block" /\ u.coord = d
      /\ posts' = [posts EXCEPT ![e] = NoPost] /\ terrain' = terrain /\ stream' = stream
      /\ UNCHANGED <<asks, clientVars, turnedAway>>
      /\ silent \subseteq silent'
  BY <1>0 DEF BroadcastChunk, PostedBy, streamerVars
<1>2. lost \/ sent \/ passed
  BY <1>0 DEF BroadcastChunk
<1>3. /\ PostsFit' /\ d \in Coords /\ u \in Updates
      /\ u.block = terrain[d] /\ terrain[d] \in Blocks
      /\ ~Posted(d)' /\ ~Regenerated(d)'
      /\ \A c \in Coords : c # d => (Posted(c)' <=> Posted(c)) /\ (Regenerated(c)' <=> Regenerated(c))
  BY <1>0, <1>1, Told
<1> HIDE DEF u
<1>4. SendFits'
  BY <1>1 DEF JInv, CInv, SendFits, Dirty
<1>5. TypeOK /\ Absent \notin Blocks
  BY AbsentIs DEF JInv, IInv
<1>6. \A c \in Coords :
          /\ Shown(c)' = IF sent /\ c = d /\ Shown(c) # Absent THEN terrain[c] ELSE Shown(c)
          /\ Entering' <=> Entering
          /\ Bringing(c)' <=> Bringing(c)
          /\ ChunkIsLast(c) /\ (~sent \/ c # d) => ChunkIsLast(c)'
  <2>1. CASE line' = line
    <3>1. ~sent
      <4>1. Len(line) \in Nat /\ Len(Append(line, u)) = Len(line) + 1
        BY <1>5 DEF TypeOK
      <4> QED BY <2>1, <4>1
    <3> QED BY <1>1, <2>1, <3>1, Unsent
  <2>2. CASE sent
    <3>1. u \in Frames
      BY <1>3 DEF Frames
    <3>2. \A c \in Coords : Shown(c)' = Made(Shown(c), u, c)
      BY <1>1, <1>5, <2>2, <3>1, Sent
    <3>3. /\ Entering' <=> Entering
          /\ \A c \in Coords : /\ Bringing(c)' <=> Bringing(c)
                               /\ ChunkIsLast(c) /\ c # d => ChunkIsLast(c)'
      BY <1>1, <1>3, <1>5, <2>2, SentIs DEF Brings, Edits
    <3>4. \A c \in Coords :
              Made(Shown(c), u, c) = IF c = d /\ Shown(c) # Absent THEN terrain[c] ELSE Shown(c)
      BY <1>1, <1>3, <1>5, FrameTypes DEF Made
    <3> QED BY <2>2, <3>2, <3>3, <3>4
  <2> QED BY <1>2, <2>1, <2>2
<1>7. ASSUME NEW c \in Coords
      PROVE  HeldFits(c)' /\ MarkFits(c)'
  <2>1. HeldFits(c) /\ MarkFits(c)
    BY DEF JInv, CInv
  <2>2. /\ Excused(c) => Excused(c)'
        /\ Missed(c, ToSet(asks)) => Missed(c, ToSet(asks))'
        /\ BeingSent(c)' = BeingSent(c) /\ AtHead(c, {"mark"})' = AtHead(c, {"mark"}) /\ Dirty' = Dirty
    BY <1>1, <1>6 DEF Excused, Missed, BeingSent, AtHead, Dirty
  <2>3. Current(c) => Current(c)'
    BY <1>1, <1>6 DEF Current
  <2>4. CASE c # d
    <3>1. (c \in held' <=> c \in held) /\ (Posted(c)' <=> Posted(c))
          /\ (Regenerated(c)' <=> Regenerated(c))
      BY <1>2, <1>3, <2>4
    <3>2. Shown(c)' = Shown(c) /\ (ChunkIsLast(c) => ChunkIsLast(c)')
      BY <1>6, <2>4
    <3>3. HeldFits(c)'
      BY <2>1, <2>2, <2>3, <3>1, <3>2 DEF HeldFits
    <3>4. MarkFits(c)'
      BY <2>1, <2>2, <2>3, <3>1, <3>2 DEF MarkFits
    <3> QED BY <3>3, <3>4
  <2>5. CASE c = d /\ sent
    <3>1. Shown(c) # Absent => Current(c)'
      BY <1>1, <1>6, <2>5 DEF Current
    <3>2. HeldFits(c)'
      BY <2>1, <2>2, <2>3, <2>5, <3>1 DEF HeldFits
    <3>3. MarkFits(c)'
      BY <1>3, <2>1, <2>2, <2>3, <2>5 DEF MarkFits
    <3> QED BY <3>2, <3>3
  <2>6. CASE c = d /\ ~sent
    <3>1. c \in held => Excused(c)'
      BY <1>2, <2>6 DEF Excused
    <3>2. ChunkIsLast(c) => ChunkIsLast(c)'
      BY <1>6, <2>6
    <3>3. held' \subseteq held
      BY <1>2
    <3>4. HeldFits(c)'
      BY <3>1, <3>3 DEF HeldFits
    <3>5. MarkFits(c)'
      BY <2>1, <2>2, <2>3, <3>1, <3>2 DEF MarkFits
    <3> QED BY <3>4, <3>5
  <2> QED BY <2>4, <2>5, <2>6
<1> QED BY <1>3, <1>4, <1>7 DEF CInv

LEMMA ResendChunkCurrent ==
    ASSUME JInv, InTurn, NEW e \in Editors, ResendChunk(e)
    PROVE  CInv'
<1>0. PICK d : d = posts[e].coord
  OBVIOUS
<1>1. /\ posts[e] # NoPost /\ posts[e].kind = "chunk"
      /\ posts' = [posts EXCEPT ![e] = NoPost] /\ terrain' = terrain /\ stream' = stream
      /\ UNCHANGED <<line, asks, clientVars, turnedAway>>
      /\ silent \subseteq silent'
      /\ held' \subseteq held /\ held \ {d} \subseteq held'
      /\ d \in held' => d \in silent'
  BY <1>0 DEF ResendChunk, PostedBy, streamerVars, Repair
<1>2. /\ PostsFit' /\ d \in Coords
      /\ \A c \in Coords : c # d => (Posted(c)' <=> Posted(c)) /\ (Regenerated(c)' <=> Regenerated(c))
  BY <1>0, <1>1, Told
<1>3. Regenerated(d)
  BY <1>0, <1>1 DEF Regenerated, PostedBy
<1>4. SendFits'
  BY <1>1 DEF JInv, CInv, SendFits, Dirty
<1>5. ASSUME NEW c \in Coords
      PROVE  HeldFits(c)' /\ MarkFits(c)'
  <2>1. HeldFits(c) /\ MarkFits(c)
    BY DEF JInv, CInv
  <2>2. /\ Shown(c)' = Shown(c) /\ Entering' = Entering /\ Bringing(c)' = Bringing(c)
        /\ ChunkIsLast(c)' = ChunkIsLast(c)
    BY <1>1, Unsent
  <2>3. /\ Excused(c) => Excused(c)'
        /\ Missed(c, ToSet(asks)) => Missed(c, ToSet(asks))'
        /\ BeingSent(c)' = BeingSent(c) /\ AtHead(c, {"mark"})' = AtHead(c, {"mark"}) /\ Dirty' = Dirty
        /\ Current(c)' = Current(c)
    BY <1>1, <2>2 DEF Excused, Missed, BeingSent, AtHead, Dirty, Current
  <2>4. CASE c # d
    <3>1. (c \in held' <=> c \in held) /\ (Posted(c)' <=> Posted(c))
          /\ (Regenerated(c)' <=> Regenerated(c))
      BY <1>1, <1>2, <2>4
    <3>2. HeldFits(c)'
      BY <2>1, <2>2, <2>3, <3>1 DEF HeldFits
    <3>3. MarkFits(c)'
      BY <2>1, <2>2, <2>3, <3>1 DEF MarkFits
    <3> QED BY <3>2, <3>3
  <2>5. CASE c = d
    <3>1. HeldFits(c)'
      BY <1>1, <2>5 DEF HeldFits, Excused
    <3>2. MarkFits(c)'
      BY <1>3, <2>1, <2>2, <2>3, <2>5 DEF MarkFits
    <3> QED BY <3>1, <3>2
  <2> QED BY <2>4, <2>5
<1> QED BY <1>2, <1>4, <1>5 DEF CInv

(* The steps that change nothing of what is under way. *)
LEMMA StillCurrent ==
    ASSUME JInv, UNCHANGED <<terrain, posts, held, line, asks, clientVars, turnedAway, silent>>,
           stream'.load = stream.load, stream'.step = stream.step,
           stream'.attempt = stream.attempt, stream'.chunk = stream.chunk, Dirty' <=> Dirty
    PROVE  CInv'
<1>1. PostsFit' /\ SendFits'
  BY DEF JInv, CInv, PostsFit, SendFits
<1>2. ASSUME NEW c \in Coords
      PROVE  HeldFits(c)' /\ MarkFits(c)'
  <2>1. HeldFits(c) /\ MarkFits(c)
    BY DEF JInv, CInv
  <2>2. /\ Shown(c)' = Shown(c) /\ Entering' = Entering /\ Bringing(c)' = Bringing(c)
        /\ ChunkIsLast(c)' = ChunkIsLast(c)
    BY Unsent
  <2>3. /\ Excused(c)' = Excused(c)
        /\ Missed(c, ToSet(asks))' = Missed(c, ToSet(asks))
        /\ (BeingSent(c)' <=> BeingSent(c)) /\ AtHead(c, {"mark"})' = AtHead(c, {"mark"})
        /\ Current(c)' = Current(c) /\ Posted(c)' = Posted(c) /\ Regenerated(c)' = Regenerated(c)
    BY <2>2 DEF Excused, Missed, BeingSent, AtHead, Current, Posted, Regenerated, PostedBy
  <2>4. HeldFits(c)'
    BY <2>1, <2>2, <2>3 DEF HeldFits
  <2>5. MarkFits(c)'
    BY <2>1, <2>2, <2>3 DEF MarkFits
  <2> QED BY <2>4, <2>5
<1> QED BY <1>1, <1>2 DEF CInv

LEMMA EvictCurrent == ASSUME JInv, Evict PROVE CInv'
<1>1. /\ UNCHANGED <<terrain, posts, held, line, asks, clientVars, turnedAway, silent>>
      /\ stream.arc \in {"same", "changed"}
      /\ stream' = [stream EXCEPT !.arc = IF @ = "same" THEN "gone" ELSE "missed"]
  BY DEF Evict, cacheVars, viewVars, historyVars
<1>2. /\ stream'.load = stream.load /\ stream'.step = stream.step
      /\ stream'.attempt = stream.attempt /\ stream'.chunk = stream.chunk
      /\ Dirty' <=> Dirty
  BY <1>1 DEF JInv, IInv, TypeOK, Streams, Dirty
<1> QED BY <1>1, <1>2, StillCurrent

LEMMA CrossCurrent == ASSUME JInv, Cross \/ TransferRefused PROVE CInv'
<1>1. /\ UNCHANGED <<terrain, posts, held, line, asks, clientVars, turnedAway, silent>>
      /\ stream' = stream
  BY DEF Cross, TransferRefused, cacheVars, viewVars, historyVars, streamerVars
<1> QED BY <1>1, StillCurrent DEF Dirty

LEMMA ResendCurrent == ASSUME JInv, Resend \/ IgnoreAsk PROVE CInv'
<1>1. /\ asks # <<>> /\ asks' = Tail(asks) /\ subscribed
      /\ UNCHANGED <<terrain, posts, line, clientVars>>
      /\ stream' = stream
  BY DEF Resend, IgnoreAsk, cacheVars, streamerVars
<1>2. PICK h : h = Head(asks)
  OBVIOUS
<1>3. /\ turnedAway \subseteq turnedAway' /\ silent \subseteq silent'
      /\ held' \subseteq held /\ held \ {h} \subseteq held'
      /\ h \in held' => ~Entitled(h) \/ h \in turnedAway'
      /\ h \in held \ held' /\ AtHead(h, {"mark"}) => h \in silent'
  <2>1. stream.step = "mark" => stream.unload = {}
    BY DEF JInv, IInv, StreamFits
  <2>2. CASE Resend
    BY <1>1, <1>2, <2>1, <2>2 DEF Resend, Repair, Sending, AtHead
  <2>3. CASE IgnoreAsk
    BY <1>2, <2>3 DEF IgnoreAsk, viewVars
  <2> QED BY <2>2, <2>3
<1>4. /\ asks \in Seq(Coords) /\ h \in Coords
      /\ \A c \in ToSet(asks) : c = h \/ c \in ToSet(asks')
  <2>1. asks \in Seq(Coords) /\ asks # <<>>
    BY <1>1 DEF JInv, IInv, TypeOK
  <2>2. /\ Len(asks) \in Nat /\ Len(asks) # 0 /\ DOMAIN asks = 1..Len(asks)
    BY <2>1, EmptySeq
  <2>3. h = asks[1] /\ h \in Coords
    BY <1>2, <2>1, <2>2
  <2>4. /\ asks' \in Seq(Coords) /\ Len(asks') = Len(asks) - 1
        /\ \A i \in 1..(Len(asks) - 1) : asks'[i] = asks[i + 1]
    BY <1>1, <2>1, HeadTailProperties
  <2>5. \A i \in 1..Len(asks) : i = 1 \/ (i - 1 \in 1..(Len(asks) - 1) /\ (i - 1) + 1 = i)
    BY <2>2
  <2>6. DOMAIN asks' = 1..(Len(asks) - 1)
    BY <2>4
  <2>7. \A i \in 1..Len(asks) : i = 1 \/ asks[i] \in ToSet(asks')
    <3> SUFFICES ASSUME NEW i \in 1..Len(asks), i # 1
                 PROVE  asks[i] \in ToSet(asks')
      OBVIOUS
    <3>1. i - 1 \in 1..(Len(asks) - 1) /\ (i - 1) + 1 = i
      BY <2>5
    <3>2. asks'[i - 1] = asks[i]
      BY <2>4, <3>1
    <3> QED BY <2>6, <3>1, <3>2 DEF ToSet
  <2> QED BY <2>1, <2>2, <2>3, <2>7 DEF ToSet
<1>5. PostsFit' /\ SendFits'
  BY <1>1 DEF JInv, CInv, PostsFit, SendFits, Dirty
<1>6. ASSUME NEW c \in Coords
      PROVE  HeldFits(c)' /\ MarkFits(c)'
  <2>1. HeldFits(c) /\ MarkFits(c)
    BY DEF JInv, CInv
  <2>2. /\ Shown(c)' = Shown(c) /\ Entering' = Entering /\ Bringing(c)' = Bringing(c)
        /\ ChunkIsLast(c)' = ChunkIsLast(c)
    BY <1>1, Unsent
  <2>3. /\ Excused(c) => Excused(c)'
        /\ BeingSent(c)' = BeingSent(c) /\ AtHead(c, {"mark"})' = AtHead(c, {"mark"}) /\ Dirty' = Dirty
        /\ Current(c)' = Current(c) /\ Posted(c)' = Posted(c) /\ Regenerated(c)' = Regenerated(c)
    BY <1>1, <1>3, <2>2
       DEF Excused, Missed, BeingSent, AtHead, Dirty, Current, Posted, Regenerated, PostedBy
  <2>4. ASSUME c \in held', Missed(c, ToSet(asks))
        PROVE  Missed(c, ToSet(asks))' \/ Excused(c)'
    <3>1. CASE c \in ToSet(asks')
      BY <2>2, <2>4, <3>1 DEF Missed
    <3>2. CASE c = h
      <4>1. Entitled(c)
        BY <1>3, <2>4 DEF JInv, IInv, ViewFits, Entitled
      <4> QED BY <1>3, <2>2, <2>4, <3>2, <4>1 DEF Excused, Missed
    <3> QED BY <1>4, <2>4, <3>1, <3>2 DEF Missed
  <2>5. HeldFits(c)'
    BY <1>3, <2>1, <2>2, <2>3, <2>4 DEF HeldFits
  <2>6. MarkFits(c)'
    <3>1. c \in held /\ c \notin held' => (AtHead(c, {"mark"}) => Excused(c)')
      BY <1>3 DEF Excused
    <3> QED BY <2>1, <2>2, <2>3, <2>4, <3>1 DEF MarkFits
  <2> QED BY <2>5, <2>6
<1> QED BY <1>5, <1>6 DEF CInv

(* The streaming is over, for this world: a change of it, or a failed Get. *)
LEMMA StoppedCurrent == ASSUME JInv, StopWorld \/ GetFails PROVE CInv'
<1>1. /\ stream.step \in {"get", "send", "ended"}
      /\ stream'.load = <<>> /\ stream'.step \in {"get", "ended"}
      /\ UNCHANGED <<terrain, posts, held, line, asks, clientVars, turnedAway>>
      /\ silent \subseteq silent'
      /\ stream.attempt > 0 => Head(stream.load) \in silent'
  BY RestingIs DEF StopWorld, GetFails, Sending, Abandoned, Resting, cacheVars, viewVars
<1>2. PostsFit' /\ SendFits'
  BY <1>1 DEF JInv, CInv, PostsFit, SendFits
<1>3. ASSUME NEW c \in Coords
      PROVE  HeldFits(c)' /\ MarkFits(c)'
  <2>1. MarkFits(c)'
    BY <1>1 DEF MarkFits, AtHead
  <2>2. Shown(c)' = Shown(c) /\ Entering' = Entering /\ Bringing(c)' = Bringing(c)
    BY <1>1, Unsent
  <2>3. /\ Excused(c) => Excused(c)'
        /\ Missed(c, ToSet(asks)) => Missed(c, ToSet(asks))'
        /\ Current(c)' = Current(c) /\ Posted(c)' = Posted(c)
    BY <1>1, <2>2 DEF Excused, Missed, Current, Posted
  <2>4. ASSUME c \in held, BeingSent(c)
        PROVE  Excused(c)'
    <3>1. stream.load # <<>> /\ c = Head(stream.load)
      BY <2>4 DEF BeingSent, AtHead
    <3>2. stream.attempt > 0
      <4>1. CASE stream.step = "get"
        BY <1>1, <2>4, <4>1 DEF BeingSent, AtHead
      <4>2. CASE stream.step = "send"
        <5>1. 1 \in DOMAIN stream.load /\ stream.load[1] = c
          BY <3>1, ListIs DEF JInv, IInv
        <5> QED BY <2>4, <4>2, <5>1 DEF JInv, IInv, ViewFits
      <4>3. stream.step # "ended"
        BY <2>4 DEF BeingSent, AtHead
      <4> QED BY <1>1, <4>1, <4>2, <4>3
    <3> QED BY <1>1, <3>1, <3>2 DEF Excused
  <2> QED BY <1>1, <2>1, <2>2, <2>3, <2>4 DEF JInv, CInv, HeldFits
<1> QED BY <1>2, <1>3 DEF CInv

LEMMA WorldCurrent == ASSUME JInv, ChangeWorld \/ StartWorld PROVE CInv'
<1>1. held' = {} /\ stream'.load = <<>> /\ stream'.step \in {"get", "unload"}
  BY RestingIs DEF ChangeWorld, StartWorld, JInv, IInv, StreamFits, Resting, viewVars
<1>2. PostsFit'
  <2>1. CASE ChangeWorld
    BY <2>1 DEF ChangeWorld, PostsFit
  <2>2. CASE StartWorld
    BY <2>2 DEF StartWorld, JInv, CInv, PostsFit, cacheVars
  <2> QED BY <2>1, <2>2
<1>3. SendFits'
  BY <1>1 DEF SendFits
<1>4. ASSUME NEW c \in Coords
      PROVE  HeldFits(c)' /\ MarkFits(c)'
  BY <1>1 DEF HeldFits, MarkFits, AtHead
<1> QED BY <1>2, <1>3, <1>4 DEF CInv

LEMMA IngestCurrent == ASSUME JInv, Ingest PROVE CInv'
<1>1. /\ UNCHANGED <<terrain, posts, held, silent>> /\ UNCHANGED <<stream>>
  BY DEF Ingest, cacheVars, viewVars, streamerVars
<1>2. PostsFit' /\ SendFits'
  BY <1>1 DEF JInv, CInv, PostsFit, SendFits, Dirty
<1>3. ASSUME NEW c \in Coords
      PROVE  HeldFits(c)' /\ MarkFits(c)'
  <2>1. HeldFits(c) /\ MarkFits(c)
    BY DEF JInv, CInv
  <2>2. Ingested(c)
    BY IngestStep DEF JInv, IInv
  <2>3. /\ BeingSent(c)' = BeingSent(c) /\ AtHead(c, {"mark"})' = AtHead(c, {"mark"}) /\ Dirty' = Dirty
        /\ Posted(c)' = Posted(c) /\ Regenerated(c)' = Regenerated(c)
        /\ Missed(c, turnedAway)' => Excused(c)'
        /\ Excused(c) => Excused(c)'
    BY <1>1, <2>2 DEF Excused, BeingSent, AtHead, Dirty, Posted, Regenerated, PostedBy, Ingested
  <2>4. /\ Current(c) => Current(c)' \/ Excused(c)' \/ Missed(c, ToSet(asks))'
        /\ Missed(c, ToSet(asks)) => Missed(c, ToSet(asks))'
    BY <1>1, <2>2, <2>3 DEF Ingested, Current
  <2>5. Current(c) /\ ChunkIsLast(c) => Excused(c)' \/ (Current(c)' /\ ChunkIsLast(c)')
    BY <1>1, <2>2, <2>3 DEF Ingested, Current
  <2>6. Shown(c) # Absent =>
            (Shown(c) # Absent)' \/ Excused(c)' \/ Missed(c, ToSet(asks))'
    BY <2>2, <2>3 DEF Ingested
  <2>7. HeldFits(c)'
    BY <1>1, <2>1, <2>3, <2>4, <2>6 DEF HeldFits
  <2>8. MarkFits(c)'
    BY <1>1, <2>1, <2>3, <2>4, <2>5 DEF MarkFits
  <2> QED BY <2>7, <2>8
<1> QED BY <1>2, <1>3 DEF CInv

LEMMA NextCurrent == JInv /\ InTurn /\ InTurn' /\ [Next]_vars => JInv'
<1> SUFFICES ASSUME JInv, InTurn, InTurn', [Next]_vars
             PROVE  CInv'
  BY NextFits DEF JInv
<1>1. CASE UNCHANGED vars
  <2>1. /\ UNCHANGED <<terrain, posts, held, line, asks, clientVars, turnedAway, silent>>
        /\ stream' = stream
    BY <1>1 DEF vars, cacheVars, viewVars, streamerVars, historyVars
  <2> QED BY <2>1, StillCurrent DEF Dirty
<1>2. CASE Streaming
  BY <1>2, NextChunkCurrent, UnloadCurrent, GetChunkCurrent, SendChunkCurrent,
     MarkLoadedCurrent, PeekChunkCurrent, StoppedCurrent DEF Streaming
<1>3. CASE \E e \in Editors : Editing(e)
  BY <1>3, EditCurrent, BroadcastCurrent, ResendChunkCurrent DEF Editing
<1>4. CASE Evict \/ Cross
  BY <1>4, EvictCurrent, CrossCurrent
<1>5. CASE Session
  BY <1>5, ResendCurrent, StoppedCurrent, WorldCurrent, UnloadCurrent, CrossCurrent
     DEF Session
<1>6. CASE Ingest
  BY <1>6, IngestCurrent
<1> QED BY <1>1, <1>2, <1>3, <1>4, <1>5, <1>6 DEF Next

(* Once everything has arrived, the client sees what the server composes in  *)
(* every chunk the view counts as delivered, but for those turned away, or   *)
(* asked for in vain, and those an edit missed in silence: sendChunk's Get,  *)
(* which may fail, send, Mark and Peek, the broadcasts, the requests that    *)
(* are lost and those that Resend hears, changeWorld and admit lose no other *)
(* edit in any order, as long as no two editors have the same chunk to       *)
(* broadcast.                                                                *)
THEOREM HeldIsCurrentAlways == Spec /\ []InTurn => []HeldIsCurrent
<1>1. JInv => HeldIsCurrent
  <2> SUFFICES ASSUME JInv, Quiet, NEW c \in held \ (turnedAway \cup silent)
               PROVE  store[c] = terrain[c]
    BY DEF HeldIsCurrent
  <2>1. c \in Coords /\ TypeOK
    BY DEF JInv, IInv, TypeOK
  <2>2. Shown(c) = store[c] /\ ToSet(asks) = {}
    BY <2>1, QuietShows
  <2>3. stream.load = <<>> /\ ~Posted(c)
    BY DEF Quiet, Posted
  <2>4. ~BeingSent(c) /\ ~Excused(c) /\ ~Missed(c, ToSet(asks))
    BY <2>2, <2>3 DEF BeingSent, AtHead, Excused, Missed
  <2> QED BY <2>1, <2>2, <2>3, <2>4 DEF JInv, CInv, HeldFits, Current
<1>2. Init => JInv
  BY InitFits, InitCurrent DEF JInv
<1>3. JInv /\ InTurn /\ InTurn' /\ [Next]_vars => JInv'
  BY NextCurrent
<1> QED BY <1>1, <1>2, <1>3, PTL DEF Spec

(* With one editor that is without a hypothesis on the behaviour: the world  *)
(* of MCChunkStream, for any terrain, backlog, line and number of edits.     *)
THEOREM HeldIsCurrentOfOneEditor ==
    ASSUME \A e, f \in Editors : e = f
    PROVE  Spec => []HeldIsCurrent
<1>1. InTurn
  BY DEF InTurn
<1> QED BY <1>1, HeldIsCurrentAlways, PTL
=============================================================================
