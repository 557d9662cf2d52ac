--------------------------- MODULE ChunkCacheProofs ---------------------------
(***************************************************************************)
(* The chunk cache proved for every set of voxels, blocks and getters and  *)
(* every number of edits and storms, under power loss, without the races   *)
(* of the storm and with removals that are flushed.                        *)
(*                                                                         *)
(* None of the properties is inductive.  A storm lets the edits in memory  *)
(* differ from what is built until its file is gone, so what holds while   *)
(* it is idle is carried across by what holds while it removes the file;   *)
(* and a getter that an eviction has orphaned may restore what it read     *)
(* long ago, which is harmless only because whoever published the chunk    *)
(* since has restored at least as much.                                    *)
(***************************************************************************)
EXTENDS ChunkCache, TLAPS

Disciplined == ~StormRaces /\ Crashes \subseteq {"power"} /\ "unsynced" \notin RemoveOutcomes

Types ==
    /\ deltas \in Edits /\ built \in Edits
    /\ file \in Files(Edits)
    /\ dirty \in BOOLEAN /\ editing \in BOOLEAN
    /\ entry \in Entry \cup {NoEntry}
    /\ revision \in Nat \ {0} /\ looking \in Nat
    /\ generation \in [Getters -> Generation]
    /\ save \in Saving /\ storm \in Storm
    /\ memo \in [chunk : Chunk \cup {NoChunk}, revision : Nat]

(* The chunk is published, or will be by the getter that has its entry. *)
Ready == Published \/ \E g \in Getters : entry = Claimed(g) /\ generation[g].step = "hydrated"

(* What a getter has read and not restored is in memory, or what it still  *)
(* would read.                                                             *)
LoadedIsKnown ==
    \A g \in Getters : generation[g].step = "loaded" =>
        /\ storm.step # "removing"
        /\ deltas # NoEdits \/ Ready => DOMAIN generation[g].stored \subseteq DOMAIN deltas
        /\ deltas = NoEdits => generation[g].stored = file.now

(* Without a storm, memory holds what is built or nothing. *)
IdleAgrees ==
    storm.step = "idle" =>
        /\ deltas = built \/ deltas = NoEdits
        /\ Ready => deltas = built
        /\ deltas = NoEdits => file.now = built

(* A storm that has probed knows the entry that holds the chunk. *)
ProbeKnows ==
    storm.step = "probed" =>
        /\ looking = 0
        /\ Resident => storm.held
        /\ Published \/ memo.chunk = NoChunk

RemovalKnows ==
    storm.step = "removing" =>
        /\ deltas = built
        /\ save.step = "idle"
        /\ built # NoEdits => dirty \/ editing
        /\ looking = 0
        /\ memo.chunk = NoChunk \/ memo.revision < revision

(* There is something to save, and an image is never ahead of memory. *)
SaveKnows ==
    /\ dirty \/ editing \/ save.step # "idle" => deltas # NoEdits
    /\ save.step = "writing" => DOMAIN save.image \subseteq DOMAIN deltas
    /\ storm.step = "idle" /\ ~dirty /\ ~editing /\ save.step = "writing" => save.image = built

NoFileIsDurable == file.now = NoEdits => file.mayBe = {NoEdits}

RevisionsGrow == memo.revision <= revision /\ looking <= revision

IInv ==
    /\ Types /\ LoadedIsKnown /\ IdleAgrees /\ ProbeKnows /\ RemovalKnows /\ SaveKnows
    /\ NoFileIsDurable /\ RevisionsGrow
    /\ ResidentAgrees /\ SavedIsDurable /\ CollisionIsCurrent

-----------------------------------------------------------------------------
(* Edits, and one layer over another. *)

LEMMA EditsShape ==
    \A e : e \in Edits <=> /\ e = [v \in DOMAIN e |-> e[v]]
                           /\ DOMAIN e \subseteq Voxels
                           /\ \A v \in DOMAIN e : e[v] \in Blocks
<1>1. ASSUME NEW e \in Edits
      PROVE  /\ e = [v \in DOMAIN e |-> e[v]] /\ DOMAIN e \subseteq Voxels
             /\ \A v \in DOMAIN e : e[v] \in Blocks
  <2>1. PICK edited \in SUBSET Voxels : e \in [edited -> Blocks]
    BY DEF Edits
  <2> QED BY <2>1
<1>2. ASSUME NEW e, e = [v \in DOMAIN e |-> e[v]], DOMAIN e \subseteq Voxels,
             \A v \in DOMAIN e : e[v] \in Blocks
      PROVE  e \in Edits
  <2>1. e \in [DOMAIN e -> Blocks]
    BY <1>2
  <2> QED BY <1>2, <2>1 DEF Edits
<1> QED BY <1>1, <1>2

LEMMA NoEditsIsEmpty ==
    /\ NoEdits \in Edits /\ DOMAIN NoEdits = {}
    /\ \A e \in Edits : e = NoEdits <=> DOMAIN e = {}
<1>1. NoEdits \in Edits /\ DOMAIN NoEdits = {}
  BY EditsShape DEF NoEdits
<1>2. ASSUME NEW e \in Edits, DOMAIN e = {} PROVE e = NoEdits
  BY <1>2, EditsShape DEF NoEdits
<1> QED BY <1>1, <1>2

LEMMA OverEdits ==
    ASSUME NEW upper \in Edits, NEW lower \in Edits
    PROVE  /\ Over(upper, lower) \in Edits
           /\ DOMAIN Over(upper, lower) = DOMAIN upper \cup DOMAIN lower
           /\ DOMAIN lower \subseteq DOMAIN upper => Over(upper, lower) = upper
           /\ upper = NoEdits => Over(upper, lower) = lower
<1>1. /\ upper = [v \in DOMAIN upper |-> upper[v]] /\ lower = [v \in DOMAIN lower |-> lower[v]]
      /\ DOMAIN upper \subseteq Voxels /\ DOMAIN lower \subseteq Voxels
      /\ \A v \in DOMAIN upper : upper[v] \in Blocks
      /\ \A v \in DOMAIN lower : lower[v] \in Blocks
  BY EditsShape
<1>2. DOMAIN Over(upper, lower) = DOMAIN upper \cup DOMAIN lower
  BY DEF Over
<1>3. Over(upper, lower) \in Edits
  <2>1. /\ Over(upper, lower) = [v \in DOMAIN Over(upper, lower) |-> Over(upper, lower)[v]]
        /\ \A v \in DOMAIN Over(upper, lower) : Over(upper, lower)[v] \in Blocks
    BY <1>1 DEF Over
  <2> QED BY <1>1, <1>2, <2>1, EditsShape
<1>4. DOMAIN lower \subseteq DOMAIN upper => Over(upper, lower) = upper
  BY <1>1 DEF Over
<1>5. upper = NoEdits => Over(upper, lower) = lower
  BY <1>1, NoEditsIsEmpty DEF Over
<1> QED BY <1>2, <1>3, <1>4, <1>5

LEMMA OverBase ==
    /\ Base \in Chunk /\ Over(NoEdits, Base) = Base
    /\ \A e \in Edits : Over(e, Base) \in Chunk
<1>1. Base \in Chunk
  BY DEF Base, Chunk
<1>2. Over(NoEdits, Base) = Base
  BY NoEditsIsEmpty DEF Over, Base
<1>3. ASSUME NEW e \in Edits PROVE Over(e, Base) \in Chunk
  <2>1. DOMAIN e \subseteq Voxels /\ \A v \in DOMAIN e : e[v] \in Blocks
    BY EditsShape
  <2>2. DOMAIN e \cup DOMAIN Base = Voxels
    BY <2>1 DEF Base
  <2> QED BY <2>1, <2>2 DEF Over, Base, Chunk
<1> QED BY <1>1, <1>2, <1>3

LEMMA OverVoxel ==
    ASSUME NEW v \in Voxels, NEW b \in Blocks, NEW e \in Edits
    PROVE  /\ Over([w \in {v} |-> b], e) \in Edits /\ v \in DOMAIN Over([w \in {v} |-> b], e)
           /\ DOMAIN e \subseteq DOMAIN Over([w \in {v} |-> b], e)
           /\ Over(Over([w \in {v} |-> b], e), Base) = [Over(e, Base) EXCEPT ![v] = b]
<1> DEFINE edited == Over([w \in {v} |-> b], e)
<1>1. [w \in {v} |-> b] \in Edits
  BY EditsShape
<1>2. edited \in Edits /\ DOMAIN edited = {v} \cup DOMAIN e
  BY <1>1, OverEdits
<1>3. v \in DOMAIN edited /\ DOMAIN e \subseteq DOMAIN edited
  BY <1>2
<1>4. Over(edited, Base) = [Over(e, Base) EXCEPT ![v] = b]
  <2>1. DOMAIN e \subseteq Voxels /\ DOMAIN edited \subseteq Voxels
    BY <1>2, EditsShape
  <2>2. Over(edited, Base) = [w \in Voxels |-> IF w \in DOMAIN edited THEN edited[w] ELSE Base[w]]
    BY <2>1 DEF Over, Base
  <2>3. Over(e, Base) = [w \in Voxels |-> IF w \in DOMAIN e THEN e[w] ELSE Base[w]]
    BY <2>1 DEF Over, Base
  <2>4. \A w \in DOMAIN edited : edited[w] = IF w = v THEN b ELSE e[w]
    BY DEF Over
  <2>5. \A w \in Voxels : (IF w \in DOMAIN edited THEN edited[w] ELSE Base[w])
            = IF w = v THEN b ELSE IF w \in DOMAIN e THEN e[w] ELSE Base[w]
    BY <1>2, <2>4
  <2> HIDE DEF edited
  <2> QED BY <2>2, <2>3, <2>5
<1> QED BY <1>2, <1>3, <1>4

(* The entry of a getter is its own, and nothing is published in it. *)
LEMMA ClaimedEntry ==
    /\ \A g \in Getters : /\ Claimed(g) \in Entry /\ Claimed(g) # NoEntry
                          /\ Claimed(g).chunk = NoChunk
    /\ \A g, h \in Getters : Claimed(g) = Claimed(h) => g = h
<1>1. \A g \in Getters : Claimed(g) \in Entry /\ Claimed(g).chunk = NoChunk /\ Claimed(g).owner = g
  BY DEF Claimed, Entry
<1> QED BY <1>1, ChunkCacheAssumption

LEMMA WrittenFile ==
    ASSUME NEW old \in Files(Edits), NEW content \in Edits, NEW outcome \in WriteOutcomes
    PROVE  /\ Written(old, content, outcome) \in Files(Edits)
           /\ outcome = "done" => Written(old, content, outcome) = Settled(content)
           /\ outcome # "done" => \/ Written(old, content, outcome).now = content
                                  \/ Written(old, content, outcome) = old
  BY DEF Files, WriteOutcomes, Written, Settled

-----------------------------------------------------------------------------
(* The initial state, and one lemma for each operation. *)
LEMMA CacheInit == Init => IInv
<1> SUFFICES ASSUME Init PROVE IInv
  OBVIOUS
<1>1. Types
  <2>1. IdleGetter \in Generation /\ IdleSave \in Saving /\ NoStorm \in Storm
    BY NoEditsIsEmpty DEF IdleGetter, Generation, IdleSave, Saving, NoStorm, Storm
  <2>2. Settled(NoEdits) \in Files(Edits)
    BY NoEditsIsEmpty DEF Settled, Files
  <2>3. NoMemo \in [chunk : Chunk \cup {NoChunk}, revision : Nat]
    BY DEF NoMemo
  <2>4. /\ deltas \in Edits /\ built \in Edits /\ file \in Files(Edits)
        /\ entry = NoEntry /\ dirty \in BOOLEAN /\ editing \in BOOLEAN
    BY <2>2, NoEditsIsEmpty DEF Init
  <2>5. revision \in Nat \ {0} /\ looking \in Nat
    BY DEF Init
  <2>6. /\ generation \in [Getters -> Generation] /\ save \in Saving /\ storm \in Storm
        /\ memo \in [chunk : Chunk \cup {NoChunk}, revision : Nat]
    BY <2>1, <2>3 DEF Init
  <2> QED BY <2>4, <2>5, <2>6 DEF Types
<1>2. ~Ready /\ ~Published
  BY DEF Init, Ready, Published, Resident, IdleGetter
<1> QED BY <1>1, <1>2
       DEF Init, IInv, LoadedIsKnown, IdleAgrees, ProbeKnows, RemovalKnows, SaveKnows,
        NoFileIsDurable, RevisionsGrow, ResidentAgrees, SavedIsDurable,
        CollisionIsCurrent, Settled, IdleGetter, IdleSave, NoStorm, NoMemo

LEMMA ClaimKeeps ==
    ASSUME Disciplined, IInv, NEW g \in Getters, Claim(g)
    PROVE  IInv'
<1>1. Types'
  BY ClaimedEntry DEF Claim, IInv, Types, Entry, Generation, IdleGetter
<1>2. LoadedIsKnown'
  BY ClaimedEntry
    DEF Claim, IInv, Types, LoadedIsKnown, Ready, Published, Resident, Entry,
     Generation, IdleGetter, IdleAgrees, SaveKnows
<1>3. IdleAgrees'
  BY ClaimedEntry DEF Claim, IInv, IdleAgrees, Ready, Published
<1>4. ProbeKnows'
  BY DEF Claim, ProbeKnows, Disciplined
<1>5. RemovalKnows'
  BY DEF Claim, IInv, Types, RemovalKnows, Generation, IdleGetter
<1>6. ResidentAgrees'
  BY ClaimedEntry
    DEF Claim, IInv, Types, ResidentAgrees, Published, Resident, Entry, LoadedIsKnown,
     ProbeKnows, Ready
<1>7. SaveKnows' /\ NoFileIsDurable' /\ RevisionsGrow' /\ SavedIsDurable' /\ CollisionIsCurrent'
  BY DEF Claim, IInv, SaveKnows, NoFileIsDurable, RevisionsGrow, SavedIsDurable,
     CollisionIsCurrent
<1> QED BY <1>1, <1>2, <1>3, <1>4, <1>5, <1>6, <1>7 DEF IInv

LEMMA LoadKeeps ==
    ASSUME Disciplined, IInv, NEW g \in Getters, LoadChunk(g)
    PROVE  IInv'
<1>1. Types'
  BY NoEditsIsEmpty DEF LoadChunk, IInv, Types, Generation, cacheVars, Files
<1>2. LoadedIsKnown'
  BY ClaimedEntry
    DEF LoadChunk, IInv, LoadedIsKnown, Ready, Published, Resident, IdleAgrees,
     Disciplined, cacheVars
<1>3. IdleAgrees'
  BY DEF LoadChunk, IInv, IdleAgrees, Ready, Published, Resident, cacheVars
<1>4. RemovalKnows'
  BY DEF LoadChunk, RemovalKnows, Disciplined
<1>5. ProbeKnows' /\ SaveKnows' /\ NoFileIsDurable' /\ RevisionsGrow' /\ ResidentAgrees' /\ SavedIsDurable' /\ CollisionIsCurrent'
  BY DEF LoadChunk, IInv, ProbeKnows, SaveKnows, NoFileIsDurable, RevisionsGrow,
     ResidentAgrees, SavedIsDurable, CollisionIsCurrent, Published, Resident, cacheVars
<1> QED BY <1>1, <1>2, <1>3, <1>4, <1>5 DEF IInv

LEMMA RestoreKeeps ==
    ASSUME Disciplined, IInv, NEW g \in Getters, Restore(g)
    PROVE  IInv'
<1> DEFINE stored == generation[g].stored
<1>1. /\ generation[g].step = "loaded" /\ stored \in Edits /\ deltas \in Edits
      /\ deltas' = Over(deltas, stored)
      /\ generation' = [generation EXCEPT ![g] = [step |-> "hydrated", stored |-> NoEdits]]
      /\ UNCHANGED <<file, dirty, entry, revision, editing, save, storm, memo, looking, built>>
  BY DEF Restore, IInv, Types, Generation
<1>2. deltas' \in Edits /\ DOMAIN deltas' = DOMAIN deltas \cup DOMAIN stored
  BY <1>1, OverEdits
<1>3. /\ storm.step # "removing"
      /\ deltas # NoEdits \/ Ready => deltas' = deltas
      /\ deltas = NoEdits => deltas' = stored /\ stored = file.now
  BY <1>1, OverEdits DEF IInv, LoadedIsKnown
<1>4. Types'
  <2>1. [step |-> "hydrated", stored |-> NoEdits] \in Generation
    BY NoEditsIsEmpty DEF Generation
  <2> QED BY <1>1, <1>2, <2>1 DEF IInv, Types
<1>5. LoadedIsKnown'
  <2>1. ASSUME NEW h \in Getters, generation'[h].step = "loaded"
        PROVE  /\ storm'.step # "removing"
               /\ DOMAIN generation'[h].stored \subseteq DOMAIN deltas'
               /\ deltas' = NoEdits => generation'[h].stored = file'.now
    <3>1. h # g /\ generation'[h] = generation[h]
      BY <1>1, <2>1 DEF IInv, Types
    <3>2. CASE deltas # NoEdits
      BY <1>1, <1>3, <2>1, <3>1, <3>2 DEF IInv, LoadedIsKnown
    <3>3. CASE deltas = NoEdits
      BY <1>1, <1>3, <2>1, <3>1, <3>3 DEF IInv, LoadedIsKnown
    <3> QED BY <3>2, <3>3
  <2> QED BY <2>1 DEF LoadedIsKnown
<1>6. IdleAgrees'
  BY <1>1, <1>3 DEF IInv, IdleAgrees
<1>7. SaveKnows'
  BY <1>1, <1>2, <1>3 DEF IInv, SaveKnows
<1>8. ResidentAgrees'
  BY <1>1, <1>3 DEF IInv, ResidentAgrees, Ready, Published, Resident
<1>9. ProbeKnows' /\ RemovalKnows'
  BY <1>1, <1>3 DEF IInv, ProbeKnows, RemovalKnows, Published, Resident
<1>10. NoFileIsDurable' /\ RevisionsGrow' /\ SavedIsDurable' /\ CollisionIsCurrent'
  BY <1>1 DEF IInv, NoFileIsDurable, RevisionsGrow, SavedIsDurable, CollisionIsCurrent
<1> QED BY <1>4, <1>5, <1>6, <1>7, <1>8, <1>9, <1>10 DEF IInv

LEMMA FailKeeps ==
    ASSUME Disciplined, IInv, NEW g \in Getters, FailGet(g)
    PROVE  IInv'
<1>1. Types'
  BY NoEditsIsEmpty DEF FailGet, IInv, Types, Generation, IdleGetter
<1>2. LoadedIsKnown'
  BY ClaimedEntry
    DEF FailGet, IInv, Types, LoadedIsKnown, Ready, Published, Resident, Entry,
     Generation, IdleGetter, IdleAgrees, SaveKnows
<1>3. IdleAgrees'
  BY ClaimedEntry DEF FailGet, IInv, IdleAgrees, Ready, Published, Resident
<1>4. ProbeKnows'
  BY ClaimedEntry DEF FailGet, IInv, Types, ProbeKnows, Published, Resident, Entry
<1>5. RemovalKnows'
  BY DEF FailGet, IInv, Types, RemovalKnows, Generation, IdleGetter
<1>6. ResidentAgrees'
  BY DEF FailGet, IInv, Types, ResidentAgrees, Published, Resident, Entry
<1>7. SaveKnows' /\ NoFileIsDurable' /\ RevisionsGrow' /\ SavedIsDurable' /\ CollisionIsCurrent'
  BY DEF FailGet, IInv, SaveKnows, NoFileIsDurable, RevisionsGrow, SavedIsDurable,
     CollisionIsCurrent
<1> QED BY <1>1, <1>2, <1>3, <1>4, <1>5, <1>6, <1>7 DEF IInv

LEMMA ComposeKeeps ==
    ASSUME Disciplined, IInv, NEW g \in Getters, Compose(g)
    PROVE  IInv'
<1>1. Types'
  BY NoEditsIsEmpty, OverBase DEF Compose, IInv, Types, Entry, Generation, IdleGetter
<1>2. LoadedIsKnown'
  BY DEF Compose, IInv, Types, LoadedIsKnown, Ready, Published, Resident, Entry,
     Generation, IdleGetter
<1>3. IdleAgrees'
  BY DEF Compose, IInv, Types, IdleAgrees, Ready, Published, Resident, Entry,
     Generation, IdleGetter
<1>4. ProbeKnows'
  BY ClaimedEntry DEF Compose, IInv, Types, ProbeKnows, Published, Resident, Entry
<1>5. RemovalKnows'
  BY DEF Compose, IInv, Types, RemovalKnows, Generation, IdleGetter
<1>6. ResidentAgrees'
  BY DEF Compose, IInv, Types, ResidentAgrees, Published, Resident, Entry
<1>7. SaveKnows' /\ NoFileIsDurable' /\ RevisionsGrow' /\ SavedIsDurable' /\ CollisionIsCurrent'
  BY DEF Compose, IInv, SaveKnows, NoFileIsDurable, RevisionsGrow, SavedIsDurable,
     CollisionIsCurrent
<1> QED BY <1>1, <1>2, <1>3, <1>4, <1>5, <1>6, <1>7 DEF IInv

LEMMA EvictKeeps ==
    ASSUME Disciplined, IInv, Evict
    PROVE  IInv'
<1>1. Types'
  BY DEF Evict, IInv, Types, Entry, Storm, NoStorm
<1>2. LoadedIsKnown'
  BY ClaimedEntry
    DEF Evict, IInv, Types, LoadedIsKnown, Ready, Published, Resident, Entry, Storm,
     NoStorm, IdleAgrees, SaveKnows
<1>3. IdleAgrees'
  BY ClaimedEntry DEF Evict, IInv, IdleAgrees, Ready, Published, Resident
<1>4. ProbeKnows'
  BY DEF Evict, ProbeKnows, Disciplined
<1>5. RemovalKnows'
  BY DEF Evict, IInv, Types, RemovalKnows, Storm, NoStorm
<1>6. SaveKnows'
  BY DEF Evict, IInv, Types, SaveKnows, Storm, NoStorm
<1>7. ResidentAgrees'
  BY DEF Evict, IInv, Types, ResidentAgrees, Published, Resident, Entry
<1>8. SavedIsDurable'
  BY DEF Evict, IInv, Types, SavedIsDurable, Storm, NoStorm
<1>9. CollisionIsCurrent'
  BY DEF Evict, IInv, Types, CollisionIsCurrent, Storm, NoStorm
<1>10. NoFileIsDurable' /\ RevisionsGrow'
  BY DEF Evict, IInv, NoFileIsDurable, RevisionsGrow
<1> QED BY <1>1, <1>2, <1>3, <1>4, <1>5, <1>6, <1>7, <1>8, <1>9, <1>10 DEF IInv

LEMMA EditKeeps ==
    ASSUME Disciplined, IInv, NEW v \in Voxels, NEW b \in Blocks, Edit(v, b)
    PROVE  IInv'
<1>1. /\ Published /\ ~editing /\ editing'
      /\ deltas \in Edits /\ built \in Edits
      /\ deltas' = Over([w \in {v} |-> b], deltas) /\ built' = Over([w \in {v} |-> b], built)
      /\ UNCHANGED <<file, dirty, revision, generation, save, storm, memo, looking>>
  BY DEF Edit, ComposeFree, IInv, Types
<1>2. /\ entry \in Entry /\ entry.chunk = Over(deltas, Base) /\ entry.chunk \in Chunk
  BY <1>1, OverBase DEF IInv, Types, ResidentAgrees, Published, Resident
<1>3. /\ deltas' \in Edits /\ deltas' # NoEdits /\ DOMAIN deltas \subseteq DOMAIN deltas'
      /\ Over(deltas', Base) = [entry.chunk EXCEPT ![v] = b]
      /\ built' \in Edits
  <2>1. Over([w \in {v} |-> b], deltas) \in Edits
    BY <1>1, OverVoxel
  <2>2. Over([w \in {v} |-> b], deltas) # NoEdits
    <3>1. v \in DOMAIN Over([w \in {v} |-> b], deltas)
      BY <1>1, OverVoxel
    <3> QED BY <3>1, NoEditsIsEmpty
  <2>3. DOMAIN deltas \subseteq DOMAIN Over([w \in {v} |-> b], deltas)
    BY <1>1, OverVoxel
  <2>4. Over(Over([w \in {v} |-> b], deltas), Base) = [Over(deltas, Base) EXCEPT ![v] = b]
    BY <1>1, OverVoxel
  <2>5. Over([w \in {v} |-> b], built) \in Edits
    BY <1>1, OverVoxel
  <2> QED BY <1>1, <1>2, <2>1, <2>2, <2>3, <2>4, <2>5
<1>4. entry' = [owner |-> entry.owner, chunk |-> Over(deltas', Base)]
  BY <1>2, <1>3 DEF Edit, Entry
<1>5. entry' \in Entry /\ Over(deltas', Base) # NoChunk
  BY <1>2, <1>3, <1>4, OverBase, ChunkCacheAssumption DEF Entry
<1>6. Types'
  BY <1>1, <1>3, <1>5 DEF IInv, Types
<1>7. LoadedIsKnown'
  BY <1>1, <1>3 DEF IInv, LoadedIsKnown, Ready
<1>8. IdleAgrees'
  BY <1>1, <1>3 DEF IInv, IdleAgrees, Ready
<1>9. ProbeKnows'
  <2>1. Published' /\ Resident
    BY <1>1, <1>4, <1>5, ChunkCacheAssumption DEF Published, Resident
  <2> QED BY <1>1, <2>1 DEF IInv, ProbeKnows
<1>10. RemovalKnows' /\ SaveKnows'
  BY <1>1, <1>3 DEF IInv, RemovalKnows, SaveKnows
<1>11. ResidentAgrees'
  BY <1>4 DEF ResidentAgrees
<1>12. NoFileIsDurable' /\ RevisionsGrow' /\ SavedIsDurable' /\ CollisionIsCurrent'
  BY <1>1 DEF IInv, NoFileIsDurable, RevisionsGrow, SavedIsDurable, CollisionIsCurrent
<1> QED BY <1>6, <1>7, <1>8, <1>9, <1>10, <1>11, <1>12 DEF IInv

LEMMA EndEditKeeps ==
    ASSUME Disciplined, IInv, EndEdit
    PROVE  IInv'
<1>1. /\ editing /\ dirty' = TRUE /\ editing' = FALSE
      /\ UNCHANGED <<deltas, file, entry, generation, save, storm, memo, looking, built>>
  BY DEF EndEdit
<1>2. /\ revision' \in Nat \ {0} /\ revision' = revision + 1
      /\ memo.revision < revision' /\ looking <= revision'
  <2>1. revision \in Nat /\ looking \in Nat /\ memo.revision \in Nat
    BY DEF IInv, Types
  <2> QED BY <2>1 DEF EndEdit, IInv, RevisionsGrow
<1>3. memo'.revision # revision' /\ memo'.revision <= revision'
  <2>1. memo.revision \in Nat
    BY DEF IInv, Types
  <2> QED BY <1>1, <1>2, <2>1
<1>4. Types'
  BY <1>1, <1>2 DEF IInv, Types
<1>5. LoadedIsKnown' /\ IdleAgrees' /\ ProbeKnows' /\ ResidentAgrees' /\ NoFileIsDurable'
  BY <1>1
    DEF IInv, LoadedIsKnown, IdleAgrees, ProbeKnows, ResidentAgrees, NoFileIsDurable,
     Ready, Published, Resident
<1>6. RemovalKnows' /\ SaveKnows'
  BY <1>1, <1>2 DEF IInv, RemovalKnows, SaveKnows
<1>7. RevisionsGrow' /\ SavedIsDurable' /\ CollisionIsCurrent'
  BY <1>1, <1>2, <1>3 DEF RevisionsGrow, SavedIsDurable, CollisionIsCurrent
<1> QED BY <1>4, <1>5, <1>6, <1>7 DEF IInv

LEMMA LoadRevisionKeeps ==
    ASSUME Disciplined, IInv, LoadRevision
    PROVE  IInv'
<1>1. Types'
  BY DEF LoadRevision, IInv, Types, cacheVars
<1>2. ProbeKnows'
  BY DEF LoadRevision, IInv, Types, ProbeKnows, Published, Resident
<1>3. RemovalKnows'
  BY DEF LoadRevision, IInv, Types, RemovalKnows
<1>4. RevisionsGrow'
  BY DEF LoadRevision, IInv, Types, RevisionsGrow, cacheVars
<1>5. LoadedIsKnown' /\ IdleAgrees' /\ SaveKnows' /\ NoFileIsDurable' /\ ResidentAgrees' /\ SavedIsDurable' /\ CollisionIsCurrent'
  BY DEF LoadRevision, IInv, LoadedIsKnown, IdleAgrees, SaveKnows, NoFileIsDurable,
     ResidentAgrees, SavedIsDurable, CollisionIsCurrent, Ready, Published, Resident,
     cacheVars
<1> QED BY <1>1, <1>2, <1>3, <1>4, <1>5 DEF IInv

LEMMA PeekKeeps ==
    ASSUME Disciplined, IInv, Peek
    PROVE  IInv'
<1>1. Types'
  BY DEF Peek, IInv, Types, Published, Resident, cacheVars, Entry
<1>2. ProbeKnows'
  BY DEF Peek, IInv, Types, ProbeKnows, Published, Resident, NoMemo
<1>3. RemovalKnows'
  BY DEF Peek, IInv, Types, RemovalKnows, NoMemo
<1>4. RevisionsGrow'
  BY DEF Peek, IInv, Types, RevisionsGrow, cacheVars
<1>5. CollisionIsCurrent'
  BY DEF Peek, IInv, CollisionIsCurrent, ResidentAgrees, IdleAgrees, Ready, cacheVars
<1>6. LoadedIsKnown' /\ IdleAgrees' /\ SaveKnows' /\ NoFileIsDurable' /\ ResidentAgrees' /\ SavedIsDurable'
  BY DEF Peek, IInv, LoadedIsKnown, IdleAgrees, SaveKnows, NoFileIsDurable,
     ResidentAgrees, SavedIsDurable, Ready, Published, Resident, cacheVars
<1> QED BY <1>1, <1>2, <1>3, <1>4, <1>5, <1>6 DEF IInv

LEMMA TakeDirtyKeeps ==
    ASSUME Disciplined, IInv, TakeDirty
    PROVE  IInv'
<1>1. Types'
  BY NoEditsIsEmpty DEF TakeDirty, IInv, Types, Saving, IdleSave
<1>2. RemovalKnows'
  BY DEF TakeDirty, RemovalKnows, SaveFree
<1>3. SaveKnows'
  BY DEF TakeDirty, IInv, Types, SaveKnows, Saving, IdleSave
<1>4. SavedIsDurable'
  BY DEF TakeDirty, IInv, Types, SavedIsDurable, Saving, IdleSave
<1>5. LoadedIsKnown' /\ IdleAgrees' /\ ProbeKnows' /\ NoFileIsDurable' /\ RevisionsGrow' /\ ResidentAgrees' /\ CollisionIsCurrent'
  BY DEF TakeDirty, IInv, LoadedIsKnown, IdleAgrees, ProbeKnows, NoFileIsDurable,
     RevisionsGrow, ResidentAgrees, CollisionIsCurrent, Ready, Published, Resident
<1> QED BY <1>1, <1>2, <1>3, <1>4, <1>5 DEF IInv

LEMMA SnapshotKeeps ==
    ASSUME Disciplined, IInv, Snapshot
    PROVE  IInv'
<1>1. Types'
  BY DEF Snapshot, IInv, Types, Saving, cacheVars
<1>2. RemovalKnows'
  BY DEF Snapshot, IInv, Types, RemovalKnows, Saving, IdleSave
<1>3. SaveKnows'
  BY DEF Snapshot, IInv, SaveKnows, IdleAgrees, cacheVars
<1>4. SavedIsDurable'
  BY DEF Snapshot, IInv, Types, SavedIsDurable, Saving, IdleSave
<1>5. LoadedIsKnown' /\ IdleAgrees' /\ ProbeKnows' /\ NoFileIsDurable' /\ RevisionsGrow' /\ ResidentAgrees' /\ CollisionIsCurrent'
  BY DEF Snapshot, IInv, LoadedIsKnown, IdleAgrees, ProbeKnows, NoFileIsDurable,
     RevisionsGrow, ResidentAgrees, CollisionIsCurrent, Ready, Published, Resident,
     cacheVars
<1> QED BY <1>1, <1>2, <1>3, <1>4, <1>5 DEF IInv

LEMMA SaveChunkKeeps ==
    ASSUME Disciplined, IInv, NEW outcome \in Outcomes, SaveChunk(outcome)
    PROVE  IInv'
<1>1. /\ save.step = "writing" /\ save.image \in Edits
      /\ file' = IF save.image = NoEdits THEN file ELSE Written(file, save.image, outcome)
      /\ dirty' = (dirty \/ (save.image # NoEdits /\ outcome # "done"))
      /\ save' = IdleSave
      /\ UNCHANGED <<deltas, entry, revision, editing, generation, storm, memo, looking, built>>
  BY DEF SaveChunk, IInv, Types, Saving
<1>2. /\ deltas # NoEdits /\ DOMAIN save.image \subseteq DOMAIN deltas
      /\ storm.step # "removing"
  BY <1>1 DEF IInv, SaveKnows, RemovalKnows
<1>3. /\ outcome \in WriteOutcomes /\ file \in Files(Edits)
  BY ChunkCacheAssumption DEF IInv, Types
<1>4. /\ file' \in Files(Edits)
      /\ save.image # NoEdits /\ outcome = "done" => file' = Settled(save.image)
      /\ save.image # NoEdits /\ outcome # "done" => file'.now = save.image \/ file' = file
      /\ save.image = NoEdits => file' = file
  BY <1>1, <1>3, WrittenFile
<1>5. IdleSave \in Saving /\ IdleSave.step = "idle"
  BY NoEditsIsEmpty DEF IdleSave, Saving
<1>6. Types'
  BY <1>1, <1>4, <1>5 DEF IInv, Types
<1>7. LoadedIsKnown' /\ IdleAgrees'
  BY <1>1, <1>2 DEF IInv, LoadedIsKnown, IdleAgrees, Ready, Published, Resident
<1>8. ProbeKnows' /\ RemovalKnows' /\ SaveKnows'
  BY <1>1, <1>2, <1>5
    DEF IInv, ProbeKnows, RemovalKnows, SaveKnows, Published, Resident
<1>9. NoFileIsDurable'
  BY <1>4 DEF IInv, NoFileIsDurable, Settled
<1>10. SavedIsDurable'
  <2>1. ASSUME ~dirty', ~editing', storm'.step = "idle" PROVE file'.mayBe = {built'}
    <3>1. ~dirty /\ ~editing /\ storm.step = "idle" /\ (save.image # NoEdits => outcome = "done")
      BY <1>1, <2>1
    <3>2. save.image = built /\ built = deltas
      BY <1>1, <1>2, <3>1 DEF IInv, SaveKnows, IdleAgrees
    <3> QED BY <1>1, <1>2, <1>4, <3>1, <3>2 DEF Settled
  <2> QED BY <2>1 DEF SavedIsDurable
<1>11. RevisionsGrow' /\ ResidentAgrees' /\ CollisionIsCurrent'
  BY <1>1
    DEF IInv, RevisionsGrow, ResidentAgrees, CollisionIsCurrent, Published, Resident
<1> QED BY <1>6, <1>7, <1>8, <1>9, <1>10, <1>11 DEF IInv

LEMMA StormBeginsKeeps ==
    ASSUME Disciplined, IInv, StormBegins
    PROVE  IInv'
<1>1. Types'
  BY DEF StormBegins, IInv, Types, Storm, cacheVars
<1>2. LoadedIsKnown'
  BY DEF StormBegins, IInv, LoadedIsKnown, Ready, Published, Resident, cacheVars
<1>3. IdleAgrees'
  BY DEF StormBegins, IInv, Types, IdleAgrees, Ready, Published, Resident, Storm,
     NoStorm
<1>4. ProbeKnows'
  BY DEF StormBegins, IInv, Types, ProbeKnows, Published, Resident, Storm, NoStorm
<1>5. RemovalKnows'
  BY DEF StormBegins, IInv, Types, RemovalKnows, Storm, NoStorm
<1>6. SaveKnows'
  BY DEF StormBegins, IInv, SaveKnows, cacheVars
<1>7. SavedIsDurable'
  BY DEF StormBegins, IInv, Types, SavedIsDurable, Storm, NoStorm
<1>8. CollisionIsCurrent'
  BY DEF StormBegins, IInv, Types, CollisionIsCurrent, Storm, NoStorm
<1>9. NoFileIsDurable' /\ RevisionsGrow' /\ ResidentAgrees'
  BY DEF StormBegins, IInv, NoFileIsDurable, RevisionsGrow, ResidentAgrees, Published,
     Resident, cacheVars
<1> QED BY <1>1, <1>2, <1>3, <1>4, <1>5, <1>6, <1>7, <1>8, <1>9 DEF IInv

LEMMA ProbeKeeps ==
    ASSUME Disciplined, IInv, Probe
    PROVE  IInv'
<1>1. Types'
  BY DEF Probe, IInv, Types, Storm, Resident, cacheVars
<1>2. LoadedIsKnown'
  BY DEF Probe, IInv, LoadedIsKnown, Ready, Published, Resident, cacheVars
<1>3. IdleAgrees'
  BY DEF Probe, IInv, Types, IdleAgrees, Ready, Published, Resident, Storm, NoStorm
<1>4. ProbeKnows'
  BY DEF Probe, ProbeKnows, Published, Resident, Disciplined, cacheVars
<1>5. RemovalKnows'
  BY DEF Probe, IInv, Types, RemovalKnows, Storm, NoStorm
<1>6. SaveKnows'
  BY DEF Probe, IInv, SaveKnows, cacheVars
<1>7. SavedIsDurable'
  BY DEF Probe, IInv, Types, SavedIsDurable, Storm, NoStorm
<1>8. CollisionIsCurrent'
  BY DEF Probe, IInv, Types, CollisionIsCurrent, Storm, NoStorm
<1>9. NoFileIsDurable' /\ RevisionsGrow' /\ ResidentAgrees'
  BY DEF Probe, IInv, NoFileIsDurable, RevisionsGrow, ResidentAgrees, Published,
     Resident, cacheVars
<1> QED BY <1>1, <1>2, <1>3, <1>4, <1>5, <1>6, <1>7, <1>8, <1>9 DEF IInv

LEMMA ForgetKeeps ==
    ASSUME Disciplined, IInv, Forget
    PROVE  IInv'
<1> DEFINE composed == storm.held /\ Published
<1>1. /\ storm.step = "probed" /\ ~editing /\ save.step = "idle"
      /\ \A g \in Getters : generation[g].step # "loaded"
      /\ deltas' = NoEdits /\ built' = NoEdits /\ dirty' = FALSE
      /\ entry' = IF composed THEN [entry EXCEPT !.chunk = Base] ELSE entry
      /\ revision' = IF composed THEN revision + 1 ELSE revision
      /\ storm' = [storm EXCEPT !.step = "removing"]
      /\ UNCHANGED <<file, editing, generation, save, memo, looking>>
  BY DEF Forget, ComposeFree, SaveFree, Disciplined
<1>2. /\ looking = 0 /\ (Published => storm.held) /\ (Published \/ memo.chunk = NoChunk)
      /\ composed <=> Published
  BY <1>1 DEF IInv, ProbeKnows, Published
<1>3. /\ revision' \in Nat \ {0} /\ memo.revision <= revision' /\ looking <= revision'
      /\ memo.chunk = NoChunk \/ memo.revision < revision'
  <2>1. /\ revision \in Nat \ {0} /\ memo.revision \in Nat /\ looking = 0
        /\ memo.revision <= revision
    BY <1>2 DEF IInv, Types, RevisionsGrow
  <2>2. CASE Published
    BY <1>1, <1>2, <2>1, <2>2
  <2>3. CASE ~Published
    BY <1>1, <1>2, <2>1, <2>3
  <2> QED BY <2>2, <2>3
<1>4. entry' \in Entry \cup {NoEntry} /\ (Published' => entry'.chunk = Base)
  <2>1. CASE Published
    <3>1. entry \in Entry /\ entry' = [entry EXCEPT !.chunk = Base]
      BY <1>1, <1>2, <2>1 DEF IInv, Types, Published, Resident
    <3> QED BY <3>1, OverBase DEF Entry
  <2>2. CASE ~Published
    BY <1>1, <1>2, <2>2 DEF IInv, Types, Published, Resident
  <2> QED BY <2>1, <2>2
<1>5. storm' \in Storm /\ storm'.step = "removing"
  <2>1. storm \in Storm
    BY DEF IInv, Types
  <2> QED BY <1>1, <2>1 DEF Storm
<1>6. Types'
  BY <1>1, <1>3, <1>4, <1>5, NoEditsIsEmpty DEF IInv, Types
<1>7. LoadedIsKnown' /\ IdleAgrees' /\ ProbeKnows'
  BY <1>1, <1>5 DEF LoadedIsKnown, IdleAgrees, ProbeKnows
<1>8. RemovalKnows' /\ SaveKnows'
  BY <1>1, <1>2, <1>3, <1>5 DEF RemovalKnows, SaveKnows
<1>9. NoFileIsDurable' /\ RevisionsGrow'
  BY <1>1, <1>3 DEF IInv, NoFileIsDurable, RevisionsGrow
<1>10. ResidentAgrees'
  BY <1>1, <1>4, OverBase DEF ResidentAgrees
<1>11. SavedIsDurable' /\ CollisionIsCurrent'
  BY <1>5 DEF SavedIsDurable, CollisionIsCurrent
<1> QED BY <1>6, <1>7, <1>8, <1>9, <1>10, <1>11 DEF IInv

LEMMA RemoveChunkKeeps ==
    ASSUME Disciplined, IInv, NEW outcome \in RemoveOutcomes, RemoveChunk(outcome)
    PROVE  IInv'
<1> DEFINE fails == file.now # NoEdits /\ outcome # "done"
<1>1. /\ storm.step = "removing"
      /\ storm' = [NoStorm EXCEPT !.step = IF fails THEN "due" ELSE "idle"]
      /\ file' = IF file.now = NoEdits THEN file ELSE Written(file, NoEdits, outcome)
      /\ UNCHANGED <<deltas, dirty, entry, revision, editing, generation, save, memo, looking, built>>
  BY DEF RemoveChunk, cacheVars
<1>2. /\ deltas = built /\ save.step = "idle" /\ looking = 0
      /\ built # NoEdits => dirty \/ editing
      /\ memo.chunk = NoChunk \/ memo.revision < revision
      /\ \A g \in Getters : generation[g].step # "loaded"
  BY <1>1 DEF IInv, RemovalKnows, LoadedIsKnown
<1>3. outcome \in {"done", "failed"} /\ file \in Files(Edits)
  BY ChunkCacheAssumption DEF Disciplined, WriteOutcomes, IInv, Types
<1>4. /\ file' \in Files(Edits)
      /\ ~fails => file'.now = NoEdits
      /\ file'.now = NoEdits => file'.mayBe = {NoEdits}
  <2>1. CASE file.now = NoEdits
    BY <1>1, <1>3, <2>1 DEF IInv, NoFileIsDurable
  <2>2. CASE file.now # NoEdits /\ outcome = "done"
    BY <1>1, <2>2, NoEditsIsEmpty DEF Written, Settled, Files
  <2>3. CASE file.now # NoEdits /\ outcome = "failed"
    BY <1>1, <1>3, <2>3 DEF Written
  <2> QED BY <1>3, <2>1, <2>2, <2>3
<1>5. /\ storm' \in Storm /\ storm'.step \in {"due", "idle"}
      /\ storm'.step = "idle" => ~fails
  BY <1>1 DEF NoStorm, Storm
<1>6. Types'
  BY <1>1, <1>4, <1>5 DEF IInv, Types
<1>7. LoadedIsKnown' /\ ProbeKnows' /\ RemovalKnows'
  BY <1>1, <1>2, <1>5 DEF LoadedIsKnown, ProbeKnows, RemovalKnows
<1>8. IdleAgrees'
  BY <1>1, <1>2, <1>4, <1>5 DEF IdleAgrees
<1>9. SaveKnows'
  BY <1>1, <1>2 DEF IInv, SaveKnows
<1>10. NoFileIsDurable' /\ RevisionsGrow' /\ ResidentAgrees'
  BY <1>1, <1>4
    DEF IInv, NoFileIsDurable, RevisionsGrow, ResidentAgrees, Published, Resident
<1>11. SavedIsDurable'
  BY <1>1, <1>2, <1>4, <1>5 DEF SavedIsDurable
<1>12. CollisionIsCurrent'
  BY <1>1, <1>2 DEF IInv, Types, CollisionIsCurrent
<1> QED BY <1>6, <1>7, <1>8, <1>9, <1>10, <1>11, <1>12 DEF IInv

LEMMA CrashKeeps ==
    ASSUME Disciplined, IInv, Crash
    PROVE  IInv'
<1>1. PICK crash \in Crashes : \E after \in FilesAfter(crash, file) :
          /\ file' = after /\ built' = after.now
          /\ deltas' = NoEdits /\ dirty' = FALSE
          /\ entry' = NoEntry /\ revision' = 1 /\ editing' = FALSE
          /\ generation' = [g \in Getters |-> IdleGetter]
          /\ save' = IdleSave /\ storm' = NoStorm
          /\ memo' = NoMemo /\ looking' = 0
  BY DEF Crash
<1>2. PICK content \in file.mayBe : file' = Settled(content) /\ built' = content
  <2>1. FilesAfter(crash, file) = {Settled(content) : content \in file.mayBe}
    BY DEF Disciplined, FilesAfter, AfterPowerLoss
  <2> QED BY <1>1, <2>1 DEF Settled
<1>3. /\ deltas' = NoEdits /\ dirty' = FALSE
      /\ entry' = NoEntry /\ revision' = 1 /\ editing' = FALSE
      /\ generation' = [g \in Getters |-> IdleGetter]
      /\ save' = IdleSave /\ storm' = NoStorm
      /\ memo' = NoMemo /\ looking' = 0
  BY <1>1
<1>4. content \in Edits
  BY <1>2 DEF IInv, Types, Files
<1>5. file' \in Files(Edits) /\ file'.now = content /\ file'.mayBe = {content}
  BY <1>2, <1>4 DEF Settled, Files
<1>6. Types'
  <2>1. IdleGetter \in Generation /\ IdleSave \in Saving /\ NoStorm \in Storm
    BY NoEditsIsEmpty DEF IdleGetter, Generation, IdleSave, Saving, NoStorm, Storm
  <2>2. NoMemo \in [chunk : Chunk \cup {NoChunk}, revision : Nat]
    BY DEF NoMemo
  <2>3. /\ deltas' \in Edits /\ built' \in Edits /\ file' \in Files(Edits)
        /\ entry' = NoEntry /\ dirty' \in BOOLEAN /\ editing' \in BOOLEAN
    BY <1>2, <1>3, <1>4, <1>5, NoEditsIsEmpty
  <2>4. revision' \in Nat \ {0} /\ looking' \in Nat
    BY <1>3
  <2>5. /\ generation' \in [Getters -> Generation] /\ save' \in Saving /\ storm' \in Storm
        /\ memo' \in [chunk : Chunk \cup {NoChunk}, revision : Nat]
    BY <1>3, <2>1, <2>2
  <2> QED BY <2>3, <2>4, <2>5 DEF Types
<1>7. ~Ready' /\ ~Published'
  BY <1>3 DEF Ready, Published, Resident, IdleGetter
<1> QED BY <1>2, <1>3, <1>5, <1>6, <1>7
       DEF IInv, LoadedIsKnown, IdleAgrees, ProbeKnows, RemovalKnows, SaveKnows,
        NoFileIsDurable, RevisionsGrow, ResidentAgrees, SavedIsDurable,
        CollisionIsCurrent, IdleGetter, IdleSave, NoStorm, NoMemo

LEMMA StutterKeeps ==
    ASSUME IInv, UNCHANGED vars
    PROVE  IInv'
  BY DEF vars, IInv, Types, LoadedIsKnown, IdleAgrees, ProbeKnows, RemovalKnows,
     SaveKnows, NoFileIsDurable, RevisionsGrow, ResidentAgrees, SavedIsDurable,
     CollisionIsCurrent, Ready, Published, Resident

LEMMA StepKeeps ==
    ASSUME Disciplined, IInv, [Next]_vars
    PROVE  IInv'
<1>1. CASE GetStep
  BY <1>1, ClaimKeeps, LoadKeeps, RestoreKeeps, ComposeKeeps, FailKeeps DEF GetStep
<1>2. CASE EditStep
  BY <1>2, EditKeeps, EndEditKeeps DEF EditStep
<1>3. CASE Evict \/ LoadRevision \/ Peek
  BY <1>3, EvictKeeps, LoadRevisionKeeps, PeekKeeps
<1>4. CASE SaveStep
  BY <1>4, TakeDirtyKeeps, SnapshotKeeps, SaveChunkKeeps DEF SaveStep
<1>5. CASE StormStep
  BY <1>5, StormBeginsKeeps, ProbeKeeps, ForgetKeeps, RemoveChunkKeeps DEF StormStep
<1>6. CASE Crash
  BY <1>6, CrashKeeps
<1>7. CASE UNCHANGED vars
  BY <1>7, StutterKeeps
<1> QED BY <1>1, <1>2, <1>3, <1>4, <1>5, <1>6, <1>7 DEF Next

LEMMA CacheInvariant ==
    ASSUME Disciplined
    PROVE  Spec => []IInv
<1>1. IInv /\ [Next]_vars => IInv'
  BY StepKeeps
<1> QED BY <1>1, CacheInit, PTL DEF Spec

-----------------------------------------------------------------------------
(* The theorems. *)

(* The resident chunk and the delta layer never disagree: whoever is handed *)
(* the chunk, at any point of any edit, eviction, save or storm, sees every *)
(* accepted edit and no other.                                              *)
THEOREM ReadersSeeEveryEdit ==
    ASSUME Disciplined
    PROVE  Spec => []ResidentAgrees
<1>1. IInv => ResidentAgrees
  BY DEF IInv
<1> QED BY <1>1, CacheInvariant, PTL

(* No eviction, late read of the file, save or restart loses an accepted    *)
(* edit, or brings back one that a storm or a crash has taken.              *)
THEOREM NoEditIsLost ==
    ASSUME Disciplined
    PROVE  Spec => []NothingBuiltIsLost
<1>1. IInv => NothingBuiltIsLost
  BY DEF IInv, IdleAgrees, NothingBuiltIsLost
<1> QED BY <1>1, CacheInvariant, PTL

(* A chunk with no save outstanding survives a power loss with everything   *)
(* that has been built in it, whatever writes and removals failed before.   *)
THEOREM SavedSurvivesPowerLoss ==
    ASSUME Disciplined
    PROVE  Spec => []SavedIsDurable
<1>1. IInv => SavedIsDurable
  BY DEF IInv
<1> QED BY <1>1, CacheInvariant, PTL

(* The collision reader's memo is the chunk as it is, whenever its revision *)
(* is the cache's: loading the revision before the chunk never pairs an old *)
(* chunk with a new revision.                                               *)
THEOREM CollisionMemoIsCurrent ==
    ASSUME Disciplined
    PROVE  Spec => []CollisionIsCurrent
<1>1. IInv => CollisionIsCurrent
  BY DEF IInv
<1> QED BY <1>1, CacheInvariant, PTL
=============================================================================
