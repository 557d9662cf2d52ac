----------------------------- MODULE ClientWorld -----------------------------
(***************************************************************************)
(* From the chunks the client holds to what is on its screen: ChunkStore   *)
(* and its change log (client/src/world/mod.rs), the meshing pipeline      *)
(* (render.rs) and the replacement of the whole world (transition.rs).     *)
(*                                                                         *)
(* A frame runs its systems in a chain: what the network brought, the      *)
(* ingest, start_mesh_jobs, apply_finished_meshes, finish_loading.  Tasks  *)
(* of the compute pool finish at any time.  The updates are arbitrary:     *)
(* the ones ChunkStream's server sends are among them.                     *)
(***************************************************************************)
EXTENDS ChunkMesh, Sequences

CONSTANTS
    Streamed,    \* bound: the blocks of the chunks that are held at first
    Arrival,     \* the chunks around an arriving body
    Support,     \* the voxel it stands on
    NoJob,       \* no task runs for a chunk
    MaxJobs,     \* MAX_JOBS_PER_FRAME
    MaxApplied,  \* MAX_APPLIED_PER_FRAME
    MaxBatch,    \* bound: updates that one frame ingests
    MaxUpdates,  \* bound: updates in all
    MaxWorlds    \* bound: changes of world and sessions

VARIABLES
    frame,     \* how far the frame is: "ingest", "apply" or "post"
    store,     \* ChunkStore.chunks
    changes,   \* ChunkStore.changes
    pending,   \* MeshJobs.pending
    inFlight,  \* MeshJobs.in_flight: what a task was handed, and whether its source is still held
    meshed,    \* MeshJobs.meshed: what the mesh on the screen was made of
    session,   \* there is a Session
    loading,   \* CurrentWorld.loading
    updates,   \* updates so far
    worlds     \* changes of world and of session so far

storeVars == <<store, changes>>
jobVars == <<pending, inFlight, meshed>>
worldVars == <<session, loading, worlds>>
vars == <<frame, storeVars, jobVars, worldVars, updates>>

-----------------------------------------------------------------------------
Chunks == [Cells -> Palette]
Jobs == [handed : [Coords -> Chunks \cup {Absent}], held : BOOLEAN]
Positions == UNION {PositionsOf(c) : c \in Coords}

ASSUME ClientWorldAssumption ==
    /\ Streamed \subseteq Palette
    /\ Absent \notin Chunks /\ NoJob \notin Jobs
    /\ Arrival \subseteq Coords /\ Support \in Positions
    /\ ChunkOf(Support) \in Arrival
    /\ MaxJobs \in Nat \ {0} /\ MaxApplied \in Nat \ {0}
    /\ MaxBatch \in Nat /\ MaxUpdates \in Nat /\ MaxWorlds \in Nat

NoChunks == [c \in Coords |-> Absent]
NoJobs == [c \in Coords |-> NoJob]
NothingDrawn == [c \in Coords |-> NoChunks]

Loaded(c) == [kind |-> "loaded", coords |-> {c}]
Unloaded(c) == [kind |-> "unloaded", coords |-> {c}]
NeighbourChanged(stale) == [kind |-> "neighbours", coords |-> stale]

Running == {c \in Coords : inFlight[c] # NoJob}

(* mesh_chunk is a function of what it is handed. *)
Drawn(c) == Surface(meshed[c], c)

(* Some part of the world has been streamed and drawn. *)
Init ==
    /\ frame = "ingest"
    /\ store \in [Coords -> [Cells -> Streamed] \cup {Absent}]
    /\ changes = <<>>
    /\ pending = {}
    /\ inFlight = NoJobs
    /\ meshed = [c \in Coords |-> IF Holds(store, c) THEN Handed(store, c) ELSE NoChunks]
    /\ session = TRUE
    /\ loading = FALSE
    /\ updates = 0
    /\ worlds = 0

-----------------------------------------------------------------------------
(* ingest_world_updates: one update of a frame's batch. *)

(* Every revision of a chunk is an allocation of its own: a task's source  *)
(* is not the held one any more.                                           *)
Outdated(c) == IF inFlight[c] = NoJob THEN inFlight
               ELSE [inFlight EXCEPT ![c].held = FALSE]

Ingest(c, chunk, entry, stale) ==
    /\ frame = "ingest" /\ session
    /\ Len(changes) < 2 * MaxBatch
    /\ updates < MaxUpdates /\ updates' = updates + 1
    /\ store' = [store EXCEPT ![c] = chunk]
    /\ changes' = changes \o <<entry, NeighbourChanged(stale)>>
    /\ inFlight' = Outdated(c)
    /\ UNCHANGED <<frame, pending, meshed, worldVars>>

Insert(c, chunk) ==
    LET after == [store EXCEPT ![c] = chunk]
    IN  Ingest(c, chunk, Loaded(c), NotedStale(store, after, c))

(* Also of a chunk that is not held. *)
Unload(c) ==
    LET after == [store EXCEPT ![c] = Absent]
    IN  Ingest(c, Absent, Unloaded(c), NotedStale(store, after, c))

(* An edit of a chunk that is not held is dropped. *)
ApplyBlock(pos, block) ==
    LET c == ChunkOf(pos)
        edited == [store[c] EXCEPT ![CellOf(pos)] = block]
        after == [store EXCEPT ![c] = edited]
    IN  /\ Holds(store, c)
        /\ Ingest(c, edited, Loaded(c), EditedStale(store, after, pos) \cap Coords)

-----------------------------------------------------------------------------
(* start_mesh_jobs: the log in its order, then a task for every pending    *)
(* chunk that has none, as many as the cap allows and in no order.         *)

Names(i, kinds) == {c \in changes[i].coords : changes[i].kind \in kinds}
Unloads(i) == Names(i, {"unloaded"})
Stales(i) == Names(i, {"loaded", "neighbours"})

(* What was pending or is named, and was not unloaded since. *)
Queued ==
    LET UnloadedAfter(n) == UNION {Unloads(i) : i \in {j \in DOMAIN changes : j > n}}
    IN  (pending \ UnloadedAfter(0))
        \cup UNION {Stales(i) \ UnloadedAfter(i) : i \in DOMAIN changes}

Emptied == UNION {Unloads(i) : i \in DOMAIN changes}

StartMeshJobs ==
    LET startable == {c \in Queued : Holds(store, c) /\ inFlight[c] = NoJob}
        idle == Queued \ (startable \cup Running)
        Job(c) == [handed |-> Handed(store, c), held |-> TRUE]
    IN  /\ frame = "ingest" /\ frame' = "apply"
        /\ changes' = <<>>
        /\ \E started \in SUBSET startable :
               /\ Cardinality(started) = Min({MaxJobs, Cardinality(startable)})
               /\ inFlight' = [c \in Coords |-> IF c \in started THEN Job(c) ELSE inFlight[c]]
               /\ \E examined \in SUBSET idle :
                      /\ Cardinality(started) < MaxJobs => examined = idle
                      /\ pending' = Queued \ (started \cup examined)
        /\ meshed' = [c \in Coords |-> IF c \in Emptied THEN NoChunks ELSE meshed[c]]
        /\ UNCHANGED <<store, worldVars, updates>>

(* A discarded result leaves its job where it was. *)
MutantCollectStuck(collected) ==
    /\ frame = "apply" /\ frame' = "post"
    /\ meshed' = [c \in Coords |-> IF c \in collected /\ inFlight[c].held
                                   THEN inFlight[c].handed ELSE meshed[c]]
    /\ inFlight' = [c \in Coords |-> IF c \in collected /\ inFlight[c].held
                                     THEN NoJob ELSE inFlight[c]]
    /\ UNCHANGED <<storeVars, pending, worldVars, updates>>

(* Those tasks that have finished, as many as the cap allows.  A result    *)
(* whose source is not the held revision is discarded.                     *)
Collect(collected) ==
    /\ frame = "apply" /\ frame' = "post"
    /\ meshed' = [c \in Coords |-> IF c \in collected /\ inFlight[c].held
                                   THEN inFlight[c].handed ELSE meshed[c]]
    /\ inFlight' = [c \in Coords |-> IF c \in collected THEN NoJob ELSE inFlight[c]]
    /\ UNCHANGED <<storeVars, pending, worldVars, updates>>

ApplyFinishedMeshes ==
    \E collected \in SUBSET Running :
        /\ Cardinality(collected) <= MaxApplied
        /\ session \/ collected = {}
        /\ Collect(collected)

-----------------------------------------------------------------------------
(* transition.rs. *)

(* reset of the store and of MeshJobs; dropping a task's handle cancels it. *)
ResetWorld ==
    /\ store' = NoChunks
    /\ changes' = <<>>
    /\ pending' = {}
    /\ inFlight' = NoJobs
    /\ meshed' = NothingDrawn

(* The drain of the network comes first in a frame. *)
Draining == frame = "ingest" /\ changes = <<>> /\ worlds < MaxWorlds

Replace ==
    /\ Draining /\ session
    /\ ResetWorld
    /\ loading' = TRUE
    /\ worlds' = worlds + 1
    /\ UNCHANGED <<frame, session, updates>>

NewSession ==
    /\ Draining /\ ~session
    /\ ResetWorld
    /\ session' = TRUE /\ loading' = FALSE
    /\ worlds' = worlds + 1
    /\ UNCHANGED <<frame, updates>>

SessionEnds ==
    /\ Draining /\ session
    /\ session' = FALSE
    /\ UNCHANGED <<frame, storeVars, jobVars, loading, updates, worlds>>

(* Ready as soon as a mesh is there, be another one on its way. *)
MutantArrivalReady ==
    /\ \A c \in Arrival : Holds(store, c) /\ c \notin pending
    /\ IsSolid(BlockAt(store, Support))
    /\ Drawn(ChunkOf(Support)) # {}

(* arrival_ready, once the server has said where the body is. *)
ArrivalReady ==
    /\ \A c \in Arrival : Holds(store, c) /\ c \notin pending /\ inFlight[c] = NoJob
    /\ IsSolid(BlockAt(store, Support))
    /\ Drawn(ChunkOf(Support)) # {}

FinishLoading ==
    /\ frame = "post" /\ frame' = "ingest"
    /\ IF session
       THEN /\ loading' = (loading /\ ~ArrivalReady)
            /\ UNCHANGED <<storeVars, jobVars>>
       ELSE loading' = FALSE /\ ResetWorld
    /\ UNCHANGED <<session, updates, worlds>>

-----------------------------------------------------------------------------
Update == \/ \E c \in Coords : Unload(c) \/ \E chunk \in Chunks : Insert(c, chunk)
          \/ \E pos \in Positions, block \in Palette : ApplyBlock(pos, block)

Systems == StartMeshJobs \/ ApplyFinishedMeshes \/ FinishLoading

Next == Update \/ Systems \/ Replace \/ NewSession \/ SessionEnds

Spec == Init /\ [][Next]_vars

(* Frames go on, and a task that runs finishes and is collected some       *)
(* frame.  Nobody owes an update.                                          *)
FairSpec ==
    /\ Spec
    /\ WF_vars(StartMeshJobs) /\ WF_vars(Collect({})) /\ WF_vars(FinishLoading)
    /\ \A c \in Coords : SF_vars(session /\ c \in Running /\ Collect({c}))

-----------------------------------------------------------------------------
(* Properties. *)

Settled(c) == changes = <<>> /\ c \notin pending /\ inFlight[c] = NoJob

(* A chunk with nothing left to do for it is drawn as it is among the      *)
(* neighbours it has now, and not at all if it is gone: no order of        *)
(* arrivals, edits, unloads and late tasks leaves a hole, a wall inside    *)
(* the terrain or a revision that was replaced (apply_finished_meshes).    *)
SettledIsDrawn ==
    \A c \in Coords : Settled(c) =>
        Drawn(c) = IF Holds(store, c) THEN Surface(store, c) ELSE {}

(* The same of the way its water runs.  The comment of flow_at: a chunk    *)
(* drawn without a neighbour is meshed again when the neighbour arrives.   *)
SettledRunsRight ==
    \A c \in Coords : Settled(c) /\ Holds(store, c) => Flow(meshed[c], c) = Flow(store, c)

(* The loading screen goes away over terrain that is drawn as it is: the   *)
(* chunks around the arriving body, and the one under its feet.            *)
LoadingEndsOnTerrain ==
    [][loading /\ ~loading' /\ session =>
          \A c \in Arrival : Holds(store, c) /\ Drawn(c) = Surface(store, c)]_vars

(* Once the updates stop, every chunk is drawn: the cap of a frame, a task *)
(* that is still running and a result that was discarded lose no work.     *)
(* And the loading screen is gone, unless the server never sent a chunk    *)
(* around the arriving body, or no ground for it to stand on.              *)
EverythingIsDrawn ==
    <>[](session =>
            /\ \A c \in Coords : Settled(c)
            /\ loading => \/ \E c \in Arrival : ~Holds(store, c)
                          \/ ~IsSolid(BlockAt(store, Support)))
=============================================================================
