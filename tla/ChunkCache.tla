----------------------------- MODULE ChunkCache -----------------------------
(***************************************************************************)
(* One chunk of world.Cache: the edits recorded for it, its file, the      *)
(* composition readers hold, and everyone who touches them at once: the    *)
(* goroutines that generate it (Get), edits (applyResidentGuarded), the    *)
(* save loop (Flush), the storm (Regenerate) and the collision reader's    *)
(* memo (game.CacheTerrain).                                               *)
(*                                                                         *)
(* Chunks meet only in the cache's LRU list, so one is modelled and Evict  *)
(* is the others' pressure.  The generated base is one block per voxel and *)
(* its computation, which is pure, is not a step.  Each lock of the cache  *)
(* is the set of steps it makes one, or a state that excludes the others:  *)
(* composeMu is held between Edit and EndEdit, saveMu from TakeDirty to    *)
(* SaveChunk and from Forget to RemoveChunk.                               *)
(***************************************************************************)
EXTENDS Naturals, FiniteSets, AtomicFile

CONSTANTS
    Voxels,
    Blocks,          \* what an edit may put into a voxel
    Generated,       \* the block the seed puts into every voxel
    Getters,         \* goroutines inside Get
    NoEntry,         \* the chunk is not in the cache
    NoChunk,         \* the composition is not published yet
    MaxEdits,        \* bound: accepted edits
    MaxStorms,       \* bound: storms and their retries
    Outcomes,        \* which outcomes the write of a chunk file has
    RemoveOutcomes,  \* which outcomes its removal has
    Crashes,         \* which crashes happen
    StormRaces       \* a storm may meet the chunk while it changes hands

VARIABLES
    deltas,      \* Deltas.chunks of the chunk
    file,        \* its file; no edits when there is none
    dirty,       \* whether it is in Cache.dirty
    entry,       \* its entry in Cache.entries: who generates it, what is published
    revision,    \* Cache.revision
    editing,     \* an edit is published and not yet counted
    generation,  \* per getter: how far it is, and the edits it has read
    save,        \* the flush in progress
    storm,       \* the regeneration in progress
    memo,        \* CacheTerrain's memo
    looking,     \* the revision it has loaded and not yet used, or 0
    built,       \* history: the edits accepted since the chunk was last pristine
    edits,       \* edits so far
    storms       \* storms and their retries so far

cacheVars == <<deltas, dirty, entry, revision, editing>>
vars == <<deltas, file, dirty, entry, revision, editing, generation, save, storm,
          memo, looking, built, edits, storms>>

-----------------------------------------------------------------------------
Edits == UNION {[edited -> Blocks] : edited \in SUBSET Voxels}
NoEdits == [v \in {} |-> Generated]
Chunk == [Voxels -> Blocks \cup {Generated}]
Base == [v \in Voxels |-> Generated]
Revisions == 1..(MaxEdits + MaxStorms + 1)

Over(upper, lower) ==
    [v \in DOMAIN upper \cup DOMAIN lower |-> IF v \in DOMAIN upper THEN upper[v] ELSE lower[v]]

(* The owner of an entry is the getter generating it, Nobody once published. *)
Nobody == NoEntry
Entry == [owner : Getters \cup {Nobody}, chunk : Chunk \cup {NoChunk}]

Claimed(g) == [owner |-> g, chunk |-> NoChunk]

Generation == [step : {"idle", "claimed", "loaded", "hydrated"}, stored : Edits]
IdleGetter == [step |-> "idle", stored |-> NoEdits]
Saving == [step : {"idle", "taken", "writing"}, image : Edits]
IdleSave == [step |-> "idle", image |-> NoEdits]

(* "held": the entry the probe found is still the resident one. *)
Storm == [step : {"idle", "due", "probed", "removing"}, held : BOOLEAN]
NoStorm == [step |-> "idle", held |-> FALSE]
Memo == [chunk : Chunk \cup {NoChunk}, revision : Revisions]
NoMemo == [chunk |-> NoChunk, revision |-> 1]

ASSUME ChunkCacheAssumption ==
    /\ MaxEdits \in Nat /\ MaxStorms \in Nat
    /\ Outcomes \subseteq WriteOutcomes /\ RemoveOutcomes \subseteq WriteOutcomes
    /\ Crashes \subseteq {"process", "power"}
    /\ StormRaces \in BOOLEAN
    /\ NoChunk \notin Chunk /\ NoEntry \notin Entry /\ NoEntry \notin Getters

Resident == entry # NoEntry
Published == Resident /\ entry.chunk # NoChunk
ComposeFree == ~editing
SaveFree == save.step = "idle" /\ storm.step # "removing"

Init ==
    /\ deltas = NoEdits
    /\ file = Settled(NoEdits)
    /\ dirty = FALSE
    /\ entry = NoEntry
    /\ revision = 1
    /\ editing = FALSE
    /\ generation = [g \in Getters |-> IdleGetter]
    /\ save = IdleSave
    /\ storm = NoStorm
    /\ memo = NoMemo
    /\ looking = 0
    /\ built = NoEdits
    /\ edits = 0
    /\ storms = 0

-----------------------------------------------------------------------------
(* Get, by the goroutine that has to generate. *)

Claim(g) ==
    /\ generation[g].step = "idle" /\ ~Resident
    /\ StormRaces \/ storm.step \notin {"probed", "removing"}
    /\ entry' = Claimed(g)
    /\ generation' = [generation EXCEPT ![g].step = "claimed"]
    /\ UNCHANGED <<deltas, file, dirty, revision, editing, save, storm, memo, looking,
                   built, edits, storms>>

(* The first half of hydrate: nothing is read when edits are known already. *)
LoadChunk(g) ==
    /\ generation[g].step = "claimed"
    /\ StormRaces \/ storm.step = "idle" \/ (storm.step # "removing" /\ entry = Claimed(g))
    /\ generation' = [generation EXCEPT ![g] =
                        IF deltas # NoEdits THEN [step |-> "hydrated", stored |-> NoEdits]
                                            ELSE [step |-> "loaded", stored |-> file.now]]
    /\ UNCHANGED <<cacheVars, file, save, storm, memo, looking, built, edits, storms>>

(* Mutant: what the file said replaces what has been recorded since. *)
MutantRestore(g) ==
    /\ generation[g].step = "loaded"
    /\ deltas' = Over(generation[g].stored, deltas)
    /\ generation' = [generation EXCEPT ![g] = [step |-> "hydrated", stored |-> NoEdits]]
    /\ UNCHANGED <<file, dirty, entry, revision, editing, save, storm, memo, looking,
                   built, edits, storms>>

(* The second half: what is recorded already is the later of the two. *)
Restore(g) ==
    /\ generation[g].step = "loaded"
    /\ deltas' = Over(deltas, generation[g].stored)
    /\ generation' = [generation EXCEPT ![g] = [step |-> "hydrated", stored |-> NoEdits]]
    /\ UNCHANGED <<file, dirty, entry, revision, editing, save, storm, memo, looking,
                   built, edits, storms>>

(* A request given up, or a file that cannot be read: forget drops the       *)
(* entry only while it is still this getter's.                               *)
FailGet(g) ==
    /\ generation[g].step = "claimed"
    /\ entry' = IF entry = Claimed(g) THEN NoEntry ELSE entry
    /\ generation' = [generation EXCEPT ![g] = IdleGetter]
    /\ UNCHANGED <<deltas, file, dirty, revision, editing, save, storm, memo, looking,
                   built, edits, storms>>

(* compose: an evicted entry is published too, and nobody will look it up. *)
Compose(g) ==
    /\ generation[g].step = "hydrated" /\ ComposeFree
    /\ entry' = IF entry = Claimed(g)
                THEN [owner |-> Nobody, chunk |-> Over(deltas, Base)]
                ELSE entry
    /\ generation' = [generation EXCEPT ![g] = IdleGetter]
    /\ UNCHANGED <<deltas, file, dirty, revision, editing, save, storm, memo, looking,
                   built, edits, storms>>

(* evictLocked, for a chunk somebody else asked for. *)
Evict ==
    /\ Resident
    /\ StormRaces \/ storm.step \notin {"probed", "removing"}
    /\ entry' = NoEntry
    /\ storm' = [storm EXCEPT !.held = FALSE]
    /\ UNCHANGED <<deltas, file, dirty, revision, editing, generation, save, memo, looking,
                   built, edits, storms>>

-----------------------------------------------------------------------------
(* Edits. *)

(* applyResidentGuarded up to the published composition: a chunk evicted or  *)
(* being generated refuses the edit.                                         *)
Edit(v, b) ==
    /\ ComposeFree /\ Published /\ edits < MaxEdits
    /\ deltas' = Over([w \in {v} |-> b], deltas)
    /\ entry' = [entry EXCEPT !.chunk[v] = b]
    /\ editing' = TRUE
    /\ built' = Over([w \in {v} |-> b], built)
    /\ edits' = edits + 1
    /\ UNCHANGED <<file, dirty, revision, generation, save, storm, memo, looking, storms>>

(* Mutant: an edit does not count as a change of the world. *)
MutantEndEdit ==
    /\ editing
    /\ dirty' = TRUE
    /\ editing' = FALSE
    /\ UNCHANGED <<deltas, file, entry, revision, generation, save, storm, memo, looking,
                   built, edits, storms>>

(* The rest of it: the revision, then the mark for the next save. *)
EndEdit ==
    /\ editing
    /\ revision' = revision + 1
    /\ dirty' = TRUE
    /\ editing' = FALSE
    /\ UNCHANGED <<deltas, file, entry, generation, save, storm, memo, looking,
                   built, edits, storms>>

-----------------------------------------------------------------------------
(* The collision reader, on the tick goroutine, which runs the storm too. *)

(* cachedBlock loads the revision first ... *)
LoadRevision ==
    /\ looking = 0 /\ storm.step \in {"idle", "due"}
    /\ memo.chunk = NoChunk \/ memo.revision # revision
    /\ looking' = revision
    /\ UNCHANGED <<cacheVars, file, generation, save, storm, memo, built, edits, storms>>

(* ... and then peeks; a miss is not remembered. *)
Peek ==
    /\ looking # 0
    /\ memo' = IF Published THEN [chunk |-> entry.chunk, revision |-> looking] ELSE memo
    /\ looking' = 0
    /\ UNCHANGED <<cacheVars, file, generation, save, storm, built, edits, storms>>

-----------------------------------------------------------------------------
(* Flush. *)

TakeDirty ==
    /\ SaveFree /\ dirty
    /\ dirty' = FALSE
    /\ save' = [IdleSave EXCEPT !.step = "taken"]
    /\ UNCHANGED <<deltas, file, entry, revision, editing, generation, storm, memo, looking,
                   built, edits, storms>>

Snapshot ==
    /\ save.step = "taken"
    /\ save' = [step |-> "writing", image |-> deltas]
    /\ UNCHANGED <<cacheVars, file, generation, storm, memo, looking, built, edits, storms>>

(* Mutant: a write that failed is not marked for the next save. *)
MutantSaveChunk(outcome) ==
    /\ save.step = "writing"
    /\ file' = IF save.image = NoEdits THEN file ELSE Written(file, save.image, outcome)
    /\ save' = IdleSave
    /\ UNCHANGED <<cacheVars, generation, storm, memo, looking, built, edits, storms>>

(* SaveChunk; a chunk whose write fails goes back into the dirty set. *)
SaveChunk(outcome) ==
    /\ save.step = "writing"
    /\ file' = IF save.image = NoEdits THEN file ELSE Written(file, save.image, outcome)
    /\ dirty' = (dirty \/ (save.image # NoEdits /\ outcome # "done"))
    /\ save' = IdleSave
    /\ UNCHANGED <<deltas, entry, revision, editing, generation, storm, memo, looking,
                   built, edits, storms>>

-----------------------------------------------------------------------------
(* The storm: Regenerate, retried by the tick until it succeeds. *)

StormBegins ==
    /\ storm.step = "idle" /\ storms < MaxStorms
    /\ storm' = [storm EXCEPT !.step = "due"]
    /\ storms' = storms + 1
    /\ UNCHANGED <<cacheVars, file, generation, save, memo, looking, built, edits>>

(* A base is generated when the chunk is resident. *)
Probe ==
    /\ storm.step = "due" /\ looking = 0
    /\ StormRaces \/ Published \/ memo.chunk = NoChunk
    /\ storm' = [step |-> "probed", held |-> Resident]
    /\ UNCHANGED <<cacheVars, file, generation, save, memo, looking, built, edits, storms>>

(* Mutant: the mark of a save pending for the chunk is left behind, and the  *)
(* save is not waited for.                                                   *)
MutantForget ==
    /\ storm.step = "probed" /\ ComposeFree
    /\ StormRaces \/ \A g \in Getters : generation[g].step # "loaded"
    /\ deltas' = NoEdits
    /\ built' = NoEdits
    /\ IF storm.held /\ Published
       THEN /\ entry' = [entry EXCEPT !.chunk = Base]
            /\ revision' = revision + 1
       ELSE UNCHANGED <<entry, revision>>
    /\ storm' = [storm EXCEPT !.step = "removing"]
    /\ UNCHANGED <<file, dirty, editing, generation, save, memo, looking, edits, storms>>

(* Under saveMu and composeMu: the edits, the composition that carried them  *)
(* if the probed entry still holds one, and the mark.                        *)
Forget ==
    /\ storm.step = "probed" /\ ComposeFree /\ SaveFree
    /\ StormRaces \/ \A g \in Getters : generation[g].step # "loaded"
    /\ deltas' = NoEdits
    /\ built' = NoEdits
    /\ IF storm.held /\ Published
       THEN /\ entry' = [entry EXCEPT !.chunk = Base]
            /\ revision' = revision + 1
       ELSE UNCHANGED <<entry, revision>>
    /\ dirty' = FALSE
    /\ storm' = [storm EXCEPT !.step = "removing"]
    /\ UNCHANGED <<file, editing, generation, save, memo, looking, edits, storms>>

(* RemoveChunk: a file that is not there needs nothing.  A failed removal    *)
(* leaves the chunk at the head of the storm's queue.                        *)
RemoveChunk(outcome) ==
    /\ storm.step = "removing"
    /\ LET fails == file.now # NoEdits /\ outcome # "done"
       IN  /\ fails => storms < MaxStorms
           /\ storms' = IF fails THEN storms + 1 ELSE storms
           /\ storm' = [NoStorm EXCEPT !.step = IF fails THEN "due" ELSE "idle"]
    /\ file' = IF file.now = NoEdits THEN file ELSE Written(file, NoEdits, outcome)
    /\ UNCHANGED <<cacheVars, generation, save, memo, looking, built, edits>>

-----------------------------------------------------------------------------
(* The next process starts from the file. *)
Crash == \E crash \in Crashes : \E after \in FilesAfter(crash, file) :
    /\ file' = after
    /\ built' = after.now
    /\ deltas' = NoEdits /\ dirty' = FALSE
    /\ entry' = NoEntry /\ revision' = 1 /\ editing' = FALSE
    /\ generation' = [g \in Getters |-> IdleGetter]
    /\ save' = IdleSave /\ storm' = NoStorm
    /\ memo' = NoMemo /\ looking' = 0
    /\ UNCHANGED <<edits, storms>>

GetStep == \E g \in Getters :
    Claim(g) \/ LoadChunk(g) \/ Restore(g) \/ Compose(g) \/ FailGet(g)
EditStep == EndEdit \/ \E v \in Voxels, b \in Blocks : Edit(v, b)
SaveStep == TakeDirty \/ Snapshot \/ \E outcome \in Outcomes : SaveChunk(outcome)
StormStep == StormBegins \/ Probe \/ Forget \/ \E outcome \in RemoveOutcomes : RemoveChunk(outcome)

Next == GetStep \/ Evict \/ EditStep \/ LoadRevision \/ Peek \/ SaveStep \/ StormStep \/ Crash

Spec == Init /\ [][Next]_vars

-----------------------------------------------------------------------------
(* Properties. *)

TypeOK ==
    /\ deltas \in Edits /\ built \in Edits
    /\ file \in Files(Edits)
    /\ dirty \in BOOLEAN /\ editing \in BOOLEAN
    /\ entry \in Entry \cup {NoEntry}
    /\ revision \in Revisions /\ looking \in Revisions \cup {0}
    /\ generation \in [Getters -> Generation]
    /\ save \in Saving /\ storm \in Storm
    /\ memo \in Memo
    /\ edits \in 0..MaxEdits /\ storms \in 0..MaxStorms

(* The delta layer and the resident chunk never disagree (composeMu's rule): *)
(* whoever is handed the chunk sees every accepted edit and no other.        *)
ResidentAgrees == Published => entry.chunk = Over(deltas, Base)

(* What a Get would compose now, the edits in memory or else the file's, is  *)
(* what has been built since the chunk was last pristine: no eviction, late  *)
(* read, save or restart loses an edit or brings one back.  A storm whose    *)
(* removal failed has the file still to remove.                              *)
NothingBuiltIsLost ==
    storm.step = "idle" => (IF deltas # NoEdits THEN deltas ELSE file.now) = built

(* A chunk with no save outstanding is durable: whatever a power loss leaves *)
(* of its file is everything that has been built.  Flush's clear-before-     *)
(* snapshot order, its retry and the storm's saveMu are what this rests on.  *)
SavedIsDurable ==
    ~dirty /\ ~editing /\ save.step = "idle" /\ storm.step = "idle" =>
        file.mayBe = {built}

(* A memo the collision reader would use is the world as it is: between two  *)
(* edits, an unchanged revision means an unchanged chunk.                    *)
CollisionIsCurrent ==
    memo.chunk # NoChunk /\ memo.revision = revision /\ ~editing /\ storm.step = "idle" =>
        memo.chunk = Over(built, Base)

(* There is no interleaving in which a reader sees the deltas gone and the   *)
(* composed chunk still carrying them (Regenerate, step 3).                  *)
ForgottenIsGone ==
    Published => \A v \in Voxels : entry.chunk[v] # Generated => v \in DOMAIN deltas
=============================================================================
