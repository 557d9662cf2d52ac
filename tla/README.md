# A verification of voxelheim

TLA+ models of the Go server under `src/server/internal` and of the parts of the
Rust client under `src/client/src` that keep state, checked with TLC on small
instances, with theorems the TLA+ proof system checks for all instances.
Every definition is translated from the source; `PROJECT.json` maps each one to
the lines it stands for.

Contents: [the system](#the-system), [the modules](#the-modules),
[the runs](#the-runs), [where the code disagrees](#where-the-code-disagrees),
[the proofs](#the-proofs), [what is not modelled](#what-is-not-modelled),
[the plan](#the-plan).

## The system

Voxelheim is a multiplayer voxel game: a Go server that is authoritative for
everything, and a Bevy client that renders what it is told. One `voxelheimd`
process runs an open world and short-lived dungeon instances, each a `Sim`
stepped by one tick goroutine under one lock, and one goroutine per connection
(`session.Serve`) that calls into them. Everything durable is a set of files,
each replaced as a whole by `world.WriteAtomic`; no two of them are ever written
in one step. Terrain is generated from a seed, and only edits are kept.

What makes it hard: what a boss owes a player crosses three files, three locks
and two goroutines and must survive a crash anywhere; a character's record has
four writers (its session, the autosave, an offline award, a claim); a chunk is
generated, edited, saved, evicted and reset by the storm at once; two players
trade through windows that are always a little out of date; a client keeps a
picture of terrain that changes while it is read, sent, queued, decoded and
meshed; and a player leaves, stays after all, is refused, or loses the connection
while both ends are still writing.

### Inventory

| Component | State it keeps | Operations | Meets | What makes it correct |
|---|---|---|---|---|
| Atomic files (`world.WriteAtomic`) | a file and what a power loss may leave of it | replace, remove | every store | a nil error means durable; an error leaves the old or the new content |
| Boss reward journal (`persist/rewards.go`, `reward_transitions.go`, `reward_expiry.go`) | runs by generation, defeats, shares owed and taken, intents; the write in doubt | AllocateRun, AppendDefeat, PrepareClaim, AcknowledgeClaim, ExpireRuns, acknowledge-all, open | coordinator, run sync, recovery | a share is taken once; an intent is never lost; a generation names one run; one write in doubt |
| Character records and reward barrier (`persist/store.go`, `reward_fence.go`) | records, tokens, epoch floors | Save, ReserveReward, BeginRewardIntent, WritePreparedReward, ReleaseReward, AbortReward | every writer of a record | nothing captured before a reward lands after it; only the sealed image lands |
| Reward coordinator (`session/reward_coordinator.go`) | a task per character, the journal gate | claim, seal, prepare, write, publish, acknowledge, finish, detach | journal, barrier, live player, teardown, run sync | delivered once, never lost; every claim ends; the gate is freed |
| Startup recovery (`persist/reward_recovery.go`) | – | rewrite each record an intent names, acknowledge all | journal, records | a crash at any point, recovery included, delivers once |
| Live character during a claim (`game/boss_reward*.go`, `portal_reconnect.go`) | the frozen pack, the death debt, remembered visits | reserve, publish, abort, disconnect, replace | coordinator, tick | no pack change, death or kill around a claim is lost |
| Identities (`session/identity.go`, `session.go`) | one claim per account: character, finalised | Admit, Select, playing, Remember, Release, RememberCharacters, RememberExperience | records, session, autosave | one session per account; a record never goes back |
| Experience and awards (`game/progression.go`) | taps, pending totals | award, offline award, merge at join, acknowledge | identities, autosave | every kill counts once |
| Autosave (`cmd/voxelheimd/main.go`) | a pass in progress | capture, write, flush awards | identities, sims | – |
| Reward runs (`session/reward_runs.go`, `game/reward_runs.go`, `persist/reward_overlay.go`, `reward_reoffer.go`) | manager runs against journal runs; the saved-sessions file | sync, collect, consume, overlay at start | journal, instances | no defeat is journaled twice or forgotten; a collected run owes nothing anyone can still claim |
| Instances and portals (`game/instance*.go`, `portal*.go`, `world_transfer.go`, `session/world_binding.go`) | runs, members, bindings, entry offers, remembered visits | enter, bind, leave, reset, save, restore, transfer | sims, parties, reward runs | a player is in one world; a member is bound exactly when present at the blow |
| Parties (`game/party.go`) | parties, invitations, leaders, offline grace | invite, accept, leave, kick, promote, expire | instances | a player is in one party, with one leader who is a member |
| Player trade (`game/player_trade*.go`, `client/src/player/trade.rs`) | the session: offers, revision, confirmations; queued closes; each window | open, set, clear, silver, confirm, cancel, review, settle, deliver | inventories, ticks, connection | nothing made or lost; nobody gives what they did not see |
| Chunk cache (`world/cache.go`, `delta.go`, `store.go`, `game/collide.go`, `regenerate.go`) | edits, compositions, dirty marks, files, revision, the collision memo | Get, Apply, Flush, Regenerate, evict, Peek | streamer, tick, save loop, storm | readers hold base plus edits; an edit reaches the disk; the memo is current |
| World registry (`registry/`, `cmd/voxelheimd/announce.go`) | leases | register, refresh, expire | announcer | a live world keeps its name and its lease |
| Session streaming (`session/streaming.go`, broadcasts of `session/session.go`) | the view of chunks a client holds, the doorbell, the repair flag | MoveTo, sendChunk, BroadcastChunk, ResendChunk, Resend, changeWorld | cache, tick, other sessions, connection | what the view counts as delivered is what the client sees; nothing outlives it |
| Client terrain (`client/src/world`) | the decode backlog, the chunks held and their change log, mesh tasks, what is drawn, the loading screen | admit, ingest, insert, unload, apply_block, start and apply meshes, replace, finish_loading | streaming, net thread | what is drawn is what is held, seams included; the backlog stays bounded and loses nothing for good |
| Client connection (`client/src/net/mod.rs`, `session.rs`, `handshake.rs`) | `ConnectionState` and its resources, the recorded route, the net thread's phase | dial, rejoin, reconnect, drain, choose, leave, stay, disconnect, pump | the server's `Serve` | no screen over nothing; both ends agree on a leave; a return is one return |
| Session protocol loop (`session.Serve`) | the phase, the leave deadline, the world epoch of the outstanding read | admit, choose, leave, cancel, change world, close | all of the above | as above |
| Map state (`session/exploration.go`, `markers.go`) | explored map, markers | record, save | connection | – |
| Simulation (movement, combat, mobs, encounters, dungeons, inventory, crafting) | everything in a world | one step per tick | – | sequential under `Sim.mu`, mostly numeric |
| Worldgen, wire codec, transport, tickets, Discord login, bots, the rest of the client | – | – | – | pure, I/O, cryptography or presentation |

### How they interact

* A boss dies in an instance's tick. The next run sync (`SyncRewardRuns`)
  journals the run and the defeat: what each member is owed, *shares*.
* A player opens the corpse, or the sync finds unpaid experience, and
  `ClaimBossReward` starts a task: barrier on the record, the live pack frozen
  and the next record composed, the barrier sealed with that record, an intent
  in the journal, the record written, the life published, the journal
  acknowledged, the barrier released. Each file write may fail or be in doubt
  and is retried verbatim; while a journal write is in doubt `journalWrite`
  refuses everybody but its owner.
* A session that ends asks `detachReward` first: with a claim under way the
  claim inherits the last word and the account, otherwise `Remember` writes the
  record and `Release` frees the account.
* The autosave captures lives under the simulation's lock and writes them with
  no lock of the session held; an award for an absent character goes to its record once
  no session may still write it.
* `Get`, `Apply`, `Flush`, `Regenerate` share the chunk through four mutexes,
  none held across generation and only one across I/O.
* The streamer's goroutine reads a chunk, sends it, marks it in the view and
  looks again; an editor's broadcast asks the view under the registry's lock. The
  two never hold a lock together. What the client had to drop for an edit it could not
  queue it asks for, once; a request may be lost at either end, and nobody asks again.
* The client is a net thread and a frame loop joined by two channels; the thread
  owns the socket and the phase of the handshake, the frame owns everything that
  is drawn. Mesh tasks run on a pool and are collected by a later frame.

## The modules

| Module | Models | State ↔ code | Actions ↔ code |
|---|---|---|---|
| `AtomicFile` | `WriteAtomic` | a file is `now`, what the next reader sees, and `mayBe`, what a power loss may leave | `Written` with outcome done, unsynced (renamed, directory not flushed) or failed |
| `RewardJournal` | `persist.RewardStore` | `journal`, `uncertain`, `journalFile` | one per transaction, through `Commit` (`commitLocked`); `Reopen`, `Crash` |
| `RewardFence` | `persist.Store` as far as rewards reach it | `record`, `fence` (`rewardFences`), `floor` (`rewardFloors`) | `Save` and one per barrier operation |
| `RewardEntitlement` | the promise, with no mechanism in it | `owed`, `delivered`, `closed` shares | `Owe`, `Settle`, `Forget` |
| `RewardCoordinator` | delivery end to end; owns the variables of the two above through `INSTANCE` | `task`, `session`, `live`, `saving`, `visit`, `owner` (the gate), `startup` | one per stage of `runReward`, of `Serve`'s teardown, of the autosave, of recovery, and of the life around them |
| `Identities` | one account's claim, session, autosave and offline awards | `claim`, `session`, `pass`, `pending`, `taps` | one per lock hold: `Recall` and `Playing` are the two halves of `Select`, `Capture`, `RememberCharacters`, `PendingExperienceAwards`, `RememberExperience`, `Acknowledge` of the pass |
| `ChunkCache` | one chunk of `world.Cache` and its readers | `deltas`, `file`, `dirty`, `entry`, `revision`, `memo` | one per lock hold or file operation; composeMu is the state between `Edit` and `EndEdit`, saveMu that between `TakeDirty` and `SaveChunk` and between `Forget` and `RemoveChunk` |
| `PlayerTrade` | the trade of a pair and both windows | `trade`, `closed`, `cooling`, `requests` (on the connection), `window`, `dismissed` | one per request, the tick's review and deliveries, the clients' clicks, other changes of packs |
| `DecodeQueue` | the client's backlog, and one update of the drain | (operators only: a chunk is one block) | `Admitted`, `Evicted`, `Resendable`, `Refused` of `admit`; `Applied` |
| `ChunkStream` | one session's terrain, from the cache to the client's store | `held` (`View.loaded`), `stream` (inside `MoveTo`), `wake`, `again`, `posts` (edits not yet broadcast), `line`, `asks`, `queue`, `store` | one per step of `sendChunk`, failed `Get`, broadcast, resend request heard or ignored, part of `changeWorld`, and frame of the client |
| `ChunkMesh` | what is drawn of a chunk among its neighbours; which neighbours a change makes stale | (operators only) | `Surface`, `Flow`; `NotedStale`, `EditedStale` |
| `ClientWorld` | from the chunks held to the screen | `store`, `changes`, `pending`, `inFlight`, `meshed`, `loading` | the systems of a frame in their order, updates, changes of world |
| `ClientSession` | a client's way into a world and out of it, with the server's end | `client`, `route`, `asked`, `thread`, the four queues, `server`, `stale` | one per dial, event of the drain, press, command, frame read at either end, and ending |
| `RewardJournalProofs`, `RewardFenceProofs`, `RewardCoordinatorProofs`, `IdentitiesProofs`, `ChunkCacheProofs`, `PlayerTradeProofs`, `ChunkStreamProofs`, `ClientProofs` (of `ClientWorld` and `ClientSession`) | theorems | | |

`RewardCoordinator` composes: its actions call those of `RewardJournal` and
`RewardFence`, with the coordinator's order, locks and retries around them, so
an action of the coordinator is the whole step its goroutine makes. The two
inner modules are also specifications of their own, with the most general
caller: what is checked and proved of them holds for any caller that goes
through their operations. Startup does not quite (`RecoverRecord` writes records
before a fence stands, `Restart` reopens the stores without a crash), so the
coordinator's invariants are proved of its own steps, not inherited.
`ChunkStream` composes the server's streaming with `DecodeQueue`; `ClientWorld`
takes over where it ends, with the most general sequence of updates, and draws
with `ChunkMesh`. `ClientSession` composes three processes: frame, thread, server.

Data is abstracted to what the properties tell apart. A life is its reward
epoch, how often each share was granted (twice is the disaster) and counters of
what else happened to it. A share is one roll entry, the silver or the
experience of one defeat. A chunk is a function from voxels to blocks (in
`ChunkStream` one block). A stack is one value. A frame of the protocol is its kind. A pure computation (generation, encoding) is not a step.

History variables, which no guard reads: `earned` and `unsaved` in
`Identities`, `built` in `ChunkCache`, `meant` in `PlayerTrade`, `turnedAway`,
`silent` and `stray` in `ChunkStream` (what the code knowingly or silently gives up
on, which its properties except), `lost` and `offended` in `ClientSession`. The code has no
counterpart of them; they remember what a property compares with.

## The runs

Each run is one question. Bounds are constants named in the module.

| Run | Question | Bounds, and why they are enough |
|---|---|---|
| `journal` | can any sequence of transactions, outcomes and power losses lose a claim, give a share twice, change what is owed, reuse a generation? | 2 characters, 2 runs, 2 generations, 1 boss and part, clock 0–1: two runs with one identity or two, two owners whose intents overlap, one expiry |
| `fence` | can any save reach a record under a barrier, or an older epoch come back? | 2 characters, 2 lives, 2 epochs: two consecutive rewards of one character |
| `coordinator` | do the two files ever disagree so that a share is delivered twice or lost? who keeps the gate? implements `RewardEntitlement` | 1 character, loot and experience of one defeat (two successive or one joint claim), a second run in the journal, one pack change; power loss anywhere |
| `coordinator_life` | does anything happening to the character around a claim get lost, and does everything end? | 1 character, one of each: pack change, death, kill; failed writes; the sync contends for the gate. Liveness |
| `identities` | does any writer put a record back, is an award dropped or counted twice? | 2 characters of one account, 2 sessions, a tap each, experience cap 2. Liveness |
| `chunks` | do readers, edits, saves and storms agree? | 2 voxels, 2 blocks (one equal to the generated one), 2 getters (one may be orphaned by eviction), 2 edits, 2 storms or retries, power loss |
| `trade` | is an exchange exact and what both saw? | one-slot packs, so a player receives only into what is given; a purse that one coin fills; 2 trades, 5 requests with up to 2 per connection on the way, 1 outside change |
| `chunk_stream` | does the client end up with the server's terrain? | 2 chunks, 2 places (one sees both, the other one), 2 blocks, 1 editor with 2 edits or regenerations, a backlog of 1 and a connection of 2 frames (both overflow), 1 re-send, 1 crossing or change of world, 2 worlds; any `Get` may fail, any request be lost. Liveness |
| `client_world` | is what is drawn what is held? | 3 chunks of one voxel, one beside and one over the other: every border case of faces and of falling water; 3 blocks; 2 updates, 1 task started and 1 applied per frame (both caps bind), 1 change of world or session. Liveness |
| `client_session` | do both ends agree on who is in, who is leaving and who is gone? | every kind of launch, any number of connections one after another: nothing is bounded but the arrivals on their way at a time (`MaxArrivals` = 1: what an arrival must not overtake is a leave's answer, on either side of it). Liveness |
| `coordinator_late_claim`, `client_leave` | the disagreements below | the passing run's instance, with the race let in; of `client_session`, as it is |

Larger and other instances were run with the same result: the coordinator with two characters
and one part (`Characters = {c1, c2}`, `Parts = {loot}`, `MaxPack = 0`, outcome
`"failed"` added: 47,414 states; with two runs and unflushed writes: 138,352).

`CHECK_DEADLOCK FALSE` where bounds or the game let the system stop: nobody
has to play.

### What each property is for

* *Journal.* `OneWriteInDoubt`: whatever the next startup reads is the image in
  memory or the one locked for retry. `IntentLeavesOnlyAsTaken`,
  `TakenStaysTaken`, `EntitlementsFrozen`, `GenerationNamesOneRun`: action
  properties across operations, failed writes and restarts alike.
* *Barrier.* `FloorIsDurable`: any content a power loss may leave carries the
  epoch a save must carry. `OnlyTheImageLands`, `SealedImageIsKept`. That floors
  only grow (`FloorsOnlyGrow`) is proved and not run.
* *Delivery.* `DeliveredAtMostOnce` and `FilesAgree` (taken means delivered, on
  offer means not) relate every image the journal may be found with to every
  content the record may be found with, which is what a crash pairs.
  `SealedClaimStaysOwed`: a sealed claim can always be prepared.
  `KeepsThePromise`: refinement. `GateIsHeldByItsRetry`. `LastWordIsAccepted`,
  `LifeLosesNothing`: the teardown and the life. `SealedClaimEnds`,
  `AccountIsReleased`: liveness.
* *Identities.* `RecordNeverGoesBack` (in age and in experience),
  `AcknowledgedIsDurable`, `EveryKillCounts` (at rest, record equals earned),
  `AwardReachesRecord` (liveness).
* *Chunks.* `ResidentAgrees`: what is published is the base with the edits
  recorded. `NothingBuiltIsLost`: an accepted edit is in memory or in the file, and on
  its way to it. `SavedIsDurable`: what is not marked dirty survives a power
  loss. `CollisionIsCurrent`: a memo with the current revision is the world.
* *Trade.* `NothingMadeOrLost`, `GivesWhatThisTradeShowed`, and
  `QuietWindowIsCurrent`: with nothing under way, a window shows the trade.
* *Streaming.* `HeldIsCurrent`: once everything has arrived, a chunk the view
  counts as delivered is on the client as the server composes it.
  `NothingOutOfView`: the client keeps nothing the view has dropped.
  `EventuallyCurrent` (liveness): what is visible is right again and again,
  whoever dropped it, as long as the view is streamed (`StreamEnded`). The three except
  exactly the chunks in `silent`, `turnedAway` (payloads refused, and requests that
  came to nothing) and `stray`; how a chunk gets there is listed under
  [where the code disagrees](#where-the-code-disagrees).
* *Screen.* `SettledIsDrawn`: a chunk nothing is queued for is drawn as it is
  among the neighbours it has now. `LoadingEndsOnTerrain`. `EverythingIsDrawn`
  (liveness): every chunk settles, and the loading screen goes.
* *Connection.* `LeavingIsAgreed`: at rest the two ends agree on whether the
  player is leaving. `NobodyIsOffended`: no legal press makes either end close for
  speaking out of turn. `NothingIsOrphaned`: relates the state, the form, the
  session, the writer and the link at the end of every frame. `LeaveEnds`,
  `RejoinEnds`: liveness.

### Fairness

Only where a liveness property is checked (`FairSpec`), and only what the code
schedules: a claim's and a teardown's goroutine runs to its end (weak fairness
of each stage); the autosave loop ticks for ever; a write that is tried without
end succeeds in the end (strong fairness of the outcome `"done"`): `durably`
retries with a capped delay until the process drains, and the autosave and the
award flush come back at every interval. Without the last, a disk that always
fails would rightly keep every claim. Sessions are not required to open, mobs not to die,
players not to click. `ChunkStream`: the streamer, a broadcast that is due, the
session's own loop and the client's frames go on; edits, crossings and evictions
are nobody's duty, and that a `Get` succeeds, or a request leaves and is heard, is not assumed. `ClientWorld`: frames go on, and a task of the pool that runs is
finished and collected in some frame (strong, as each frame is a new chance);
updates may stop. `ClientSession`: frames go on, the thread takes its commands
and reads, the server reads and its countdown and idle timeout run out; no player
owes a press.

### Constants that let a race in

A passing run leaves out a race of the code that is known to break it, so that it still says
something about everything else. These constants name the races; set them to
see the counterexample.

| Constant | Passing runs | The race |
|---|---|---|
| `LateClaims` | FALSE | a claim between a teardown's `detachReward` and its `Remember` |
| `ExpiryRaces` | FALSE | a run is collected between a claim's sealing and its intent |
| `SlowPass` | FALSE | an autosave pass outlasts a leave and a return of the character it captured |
| `FlushRaces` | FALSE | an award is flushed between `Select`'s read and `playing` |
| `StormRaces` | FALSE | the storm meets a chunk that is just becoming resident, or being read |
| `Crashes` | `{"power"}` or none | with `"process"` added, a power loss may follow a process death whose doubtful rename was re-read as durable |
| `Outcomes` of `identities`, `RemoveOutcomes` of `chunks` | no `"unsynced"` | a rename or removal that happened and was not flushed, retried |

## Where the code disagrees

Two runs show a behaviour a comment of the repository rules out; each is a
finding in `PROJECT.json`.

1. `coordinator_late_claim`: `ClaimBossReward` accepts a claim until the account
   is finalised, so one resolved before the teardown can take the barrier
   between `detachReward` (which answered that there is none) and `Remember`.
   The store refuses the leaving player's record and the claim, whose player
   is gone, is refused too.
2. `client_leave`: after a change of world the server's reader drops the first
   frame that arrives, undecoded. When that is a `LeaveRequest`, the client shows a
   leave that was never begun until the idle timeout, and its Stay button makes
   the server close the connection as malformed.

Others the models show when a constant is set or a property is added to a cfg,
not kept as runs. On the server:

* `FlushRaces = TRUE` (`MCIdentities`, one character, `MaxAge` 2, `MaxSessions` 3:
  `RecordNeverGoesBack`): `Select` reads the record before the claim names the
  character. An award written in between is not seen by the session, whose
  next record write takes the stored total back.
* `SlowPass = TRUE` (`RecordNeverGoesBack`): `RememberCharacters` asks whether the
  account plays the captured character *now* (identity.go:1079). A pass held up
  while the player leaves and returns finds the new session's claim, and puts
  the older life back, against identity.go:885-887.
* `Outcomes` with `"unsynced"` in `MCIdentities.cfg` (`AcknowledgedIsDurable`):
  a retried award finds its own unflushed total in the record
  (identity.go:984-985) and acknowledges it, though a power loss can still take
  it; identity.go:957-958 wants it retained.
* `ExpiryRaces = TRUE` (`SealedClaimStaysOwed`): the collection keeps what the
  journal's intents name (reward_expiry.go:18); a claim sealed but not yet in
  the journal is not among them, and its `PrepareClaim` then fails for ever.
  reward_expiry.go:6-7 says expiry never discards an unresolved claim.
* `Crashes = {"process", "power"}` (`FilesAgree`): a process dies after
  the intent's rename and before its directory flush; recovery reads the intent
  and writes the record (reward_recovery.go:120) while a power loss can still
  take the intent back, which leaves the share delivered and on offer.
  reward_experience.go:17-18 says at most once.
* `StormRaces = TRUE` (`ForgottenIsGone`): `Regenerate` prepares a base only for a
  chunk that was resident when it looked. One that becomes resident before the
  locks are taken keeps a composition whose edits have been forgotten: readers
  see them, the next composition does not. It also refutes `ResidentAgrees`,
  `NothingBuiltIsLost` and `CollisionIsCurrent`, the first two through the orphaned
  read that `Regenerate` documents. What its comment adds,
  that such edits "are no longer stored", does not last: the next edit of the chunk saves
  them again. And a storm over a chunk nobody holds counts no revision, so the
  collision memo (collide.go:181-186) keeps the older chunk.
* `RemoveOutcomes` with `"unsynced"` (`SavedIsDurable`): a removal whose
  directory flush failed is retried, finds no file and returns nil without
  flushing (store.go:504-507).
* `GivesWhatWasSeen` in `MCPlayerTrade.cfg`: every trade starts at revision 1 and a
  request names no trade, so a `Confirm` on its way when a trade ends can be taken
  by the pair's next trade.
* In `PlayerTrade`, by `Refuse` of a `Cancel`: the server refuses one that meets
  a busy inventory (player_trade.go:85-89) or shares its client tick with the
  request before it (73-75), while the client has closed its window and ignores
  every further state of that partner. The trade stays open, with a
  confirmation if there was one, and may settle.
* `playerTradeSettlementChanged` cannot follow a review in the same hold of
  `Sim.mu` that changed nothing, unless a writer of the inventory does not
  hold `Sim.mu`; the model has no such step.

Of the terrain stream (each puts a chunk into `silent`, `stray` or `turnedAway`,
the sets the properties except; take one out of a property to see its run):

* `BroadcastChunk` forgets a chunk whose frame found a full queue and wakes nobody
  (session.go:3046), where `Player.WakeStreaming` says whoever repairs by forgetting
  needs to (game/player.go:1419-1424): a player who stands still keeps the old voxel.
* A chunk edited and then evicted before `sendChunk` looks again is taken for
  unchanged: "there is nothing stale left to correct" (streaming.go:458-461), but the
  client got the chunk from before the edit, and the broadcast skipped it.
* A request is lost, and its chunk is missing while the player stays, when the outbound
  queue is full (`request_resends` says so, client/src/world/mod.rs:1571-1574); when a leave
  has set the writer aside, though it may be taken back, where the comment at 1586-1587 says
  that no outbound means an ended session; when it is the first frame after a change of world
  (session.go:1266-1269); when it comes during a leave (1333-1340); and when the bucket is
  empty (streaming.go:344).
* `followPlayer` streams "for as long as the session lasts" (session.go:1807-1808), and
  returns at the first `Get` that fails (1823-1828); nothing starts it again before the player
  enters a world. The error need not be this session's: a waiter gets that of whoever was
  generating the chunk (cache.go:351-353), a session that has just ended, say (364-368).
  `EventuallyCurrent` without `StreamEnded` is refuted by it, and the edit that had the chunk
  sent again stays unsent.
* `MarkLoaded` undoes a `Forget` that a resend request made between the send and
  the mark.
* A pass that is itself the repair and gives up asks for no other
  (streaming.go:468-475 says so).
* A `Transfer` that is refused resumes the old view, without the broadcasts that fell
  between `Unsubscribe` and the new subscription.
* A refused `Chunk` is asked for by nobody, and "the coordinate stays absent"
  (client/src/world/mod.rs:1187) is true of a first send only: of a re-sent one the
  client keeps the older chunk. `request_resends` asks for what was evicted only.
* A chunk that was forgotten and then leaves the view is never unloaded: the diff
  unloads what is in `View.loaded` only. The client draws and collides with it until
  the world changes.
* Two editors of one voxel apply in one order and may broadcast in the other
  (session.go:1860, 1995: neither lock is held from the edit to the broadcast). With one
  editor in `MCChunkStream.cfg` this does not arise; with two `HeldIsCurrent` fails, once both
  have the same chunk to broadcast, and only then (`HeldIsCurrentAlways`).

Of the client:

* `SettledRunsRight` in `MCClientWorld.cfg` (`Palette = {"shallow", "grille"}`,
  `Streamed = {"shallow"}`, `MaxUpdates = 1`, `MaxWorlds = 0`): `flow_at` reads
  solidity, level and feed of a neighbour, and its comment (mesher.rs:2891-2894) says
  the chunk is meshed again when the neighbour arrives; `note_neighbours_stale`
  compares opacity and effective height alone (mod.rs:394-438, 769-779), so water runs
  towards a grille that has come until something else happens there.
* A change of world discards what the writer has not written (session.go:976):
  a `LeaveCancelResult` that accepted, or a `LeaveStarted`, among it. The history
  variable `lost` marks the connections this happens to.
* The comment of `Outbound` (net/mod.rs:1273) says it is present exactly while there is a
  net thread; it is set aside during a leave, and stays behind a thread that
  is told to stop before a welcome, until the drain.
* A chunk that is edited faster than its mesh task finishes has every result
  discarded (render.rs:606) and is not redrawn meanwhile; `EverythingIsDrawn` speaks of the end
  of the updates only.

## The proofs

Eight modules prove, for every value of the constants (any number of characters,
runs, parts, records, readers, requests, trades, any bound), under the hypothesis named:

| Module | Hypothesis | Theorem | Property |
|---|---|---|---|
| `RewardJournalProofs` | `OneKindOfCrash` | `JournalTypeCorrect` | `[]TypeOK` |
| | | `AtMostOneWriteInDoubt` | `[]OneWriteInDoubt` |
| | | `IntentsAreNeverLost` | `IntentLeavesOnlyAsTaken` |
| | | `TakenIsNeverOfferedAgain` | `TakenStaysTaken` |
| | | `EntitlementsNeverChange` | `EntitlementsFrozen` |
| | | `GenerationsAreNeverReused` | `GenerationNamesOneRun` |
| `RewardFenceProofs` | none | `FenceTypeCorrect` | `[]TypeOK` |
| | | `BarrierAdmitsOnlyTheImage` | `OnlyTheImageLands` |
| | | `SealedImageStays` | `SealedImageIsKept` |
| | `OneKindOfCrash` | `EpochNeverGoesBack` | `FloorsOnlyGrow` |
| | `PowerLossOnly` | `ConfirmedRewardIsDurable` | `[]FloorIsDurable` |
| `RewardCoordinatorProofs` | `Orderly` | `DeliveryTypeCorrect` | `[]TypeOK` |
| | | `DoubtIsAlwaysRetried` | `[]GateIsHeldByItsRetry` |
| | | `LastWordsAreAccepted` | `[]LastWordIsAccepted` |
| | | `SealedSharesStayOwed` | `[]SealedClaimStaysOwed` |
| | | `LivesLoseNothing` | `LifeLosesNothing` |
| | `Steady` | `GrantedOnce` | `[]DeliveredAtMostOnce` |
| | | `FilesAlwaysAgree` | `[]FilesAgree` |
| | | `DeliveryIsPromised` | `KeepsThePromise` |
| `IdentitiesProofs` | `Careful` | `SavesOnlyGoForward` | `RecordNeverGoesBack` |
| | | `AcknowledgedAwardsAreDurable` | `AcknowledgedIsDurable` |
| | | `NoKillIsLost` | `[]EveryKillCounts` |
| `ChunkCacheProofs` | `Disciplined` | `ReadersSeeEveryEdit` | `[]ResidentAgrees` |
| | | `NoEditIsLost` | `[]NothingBuiltIsLost` |
| | | `SavedSurvivesPowerLoss` | `[]SavedIsDurable` |
| | | `CollisionMemoIsCurrent` | `[]CollisionIsCurrent` |
| `PlayerTradeProofs` | `Apart` | `WindowsAreCurrent` | `[]QuietWindowIsCurrent` |
| | | `TradesGiveWhatTheyShowed` | `GivesWhatThisTradeShowed` |
| | none | `TradesConserve` | `[]NothingMadeOrLost` |
| `ChunkStreamProofs` | none | `NothingOutOfViewAlways` | `[]NothingOutOfView` |
| | `[]InTurn` | `HeldIsCurrentAlways` | `[]HeldIsCurrent` |
| | one editor | `HeldIsCurrentOfOneEditor` | `[]HeldIsCurrent` |
| `ClientProofs` | none | `SettledIsDrawnAlways` | `[]SettledIsDrawn` |
| | | `LoadingEndsOnTerrainAlways` | `LoadingEndsOnTerrain` |
| | | `SessionTypeCorrect` | `[]SessionTypeOK` |
| | | `LeavesAreAgreed` | `[]LeavingIsAgreed` |
| | | `NobodyIsEverOffended` | `[]NobodyIsOffended` |
| | | `NothingIsEverOrphaned` | `[]NothingIsOrphaned` |

*Journal.* None of the properties is inductive: a crash may replace the image
in memory by the one in doubt, so they must hold *between those two* as well.
`IInv` says that the image in memory is valid, that an image in doubt is valid
and *succeeds* it (`Succeeds` is the conjunction of what one image may do to
the next), and `OneWriteInDoubt`. One lemma per image operator (`WithRunOK`,
`WithDefeatOK`, `AcknowledgedOK`, `CollectedOK`...) shows that its result
succeeds its argument; `CommitKeepsIInv` is the one step every transaction
makes; `CrashKeepsIInv` is where the image in doubt is adopted.

*Barrier.* `TypeOK` is inductive by itself, and enough for what a barrier lets
through (`StepKeepsShape`), whatever crashes there are. `FloorIsDurable` is not
inductive: a confirmed write raises the floor to the token's epoch. `IInv` adds
that a token is one above the floor until it has been written, that a sealed image
carries its token's epoch, and that the visible record is among what a power loss
may leave and not below the floor, which is all `EpochNeverGoesBack` needs. `FloorIsDurable`
is claimed of power losses only: a process that dies reopens an unflushed record as it is, with
the older one still possible. One lemma per operation.

*Delivery.* The properties relate a claim to the journal, the barrier, the
record and the session, which change in different steps. `IInv` says, for every
stage of a claim, what each of them is: `SessionFits` (who has a life, a claim
and a remembered visit), `BarrierFits` (the token, the floor and the record's
epoch), `WordFits` (the epoch the last word will carry, and that an image's wear
is the life's while the claim owns the pack), `GateFits` and `ClaimFits` (what
the journal holds of it), and `JournalFits` (every image there is, in memory, in
doubt or on disk, is valid, and the sync's doubtful one drops no intent).
`CharacterStep` carries the invariant over every step that touches one
character only, so each of the nineteen such actions is a lemma about that
character; `SyncCommitKeeps`, `ClaimCommitFails` and `ClaimCommitLands` do
the writes of the journal, `StartupKeeps` the crashes. `Orderly` rules out the two
races the constants `LateClaims` and `ExpiryRaces` let in; with either of them
`SealedClaimStaysOwed` or `LastWordIsAccepted` does not hold.

*What a life keeps.* `LifeLosesNothing` is about every step at once, and its hard
one is the publication: the image was composed from the life as it was before the
seal, four file writes ago, and replaces whatever that life has become. `PackFits` says why
nothing is lost by it: while a claim owns the pack its image holds exactly the life's
pack and at least its grants (looting is refused, `rewardInventoryBusy`), whether that
life is still played or was left to the claim; `WordFits` says the same of the wear,
a death meanwhile being a debt, and `BarrierFits` of the epoch. Experience and
the debt are taken from the life as it is (`PublishedLife`). `NextWord` shows `WordStep`
of every step; `WordStays`, `LifeAdvances`, `ClaimAdvances` and `ClaimEnds` are the four ways
a step may touch a word.

*Exactly once.* The second part of `RewardCoordinatorProofs` rests on the first: `MarksAreChained`
proves `[](IInv /\ DInv)`. Of a life only its *mark* matters, its epoch and what
it was granted, and `DInv` says that all the marks of a character (the record's
possible contents, the lives played, captured, remembered and leaving, the images
sealed and intended) are on one chain: a later epoch was granted at least as
much, the same epoch the same, and no part twice (`Chained`). `EpochsFit` says
which epochs each of them may have against the floor, `GrantsFit` that an image
grants what its claim asked for and nothing else, `IntentsFit` that an intent in
memory is in every image a crash may find or done with there. `ImageFits` then
relates *every* image of the journal a crash may find to *every* content of a
record: a share taken is in all of them, a share offered in none
(`ShareFits`), and an image older than the defeat goes with lives that were
granted nothing. `QuietStep`, `OwnStep` and `CommitStep` carry `DInv` over the
steps that touch no file, one record, or the journal; `CrashMarks`,
`RestartMarks`, `RecoverRecordMarks` and `RecoverAllMarks` are the recovery.
`Steady` is `Orderly` with power losses as the only crashes.

*The promise.* The third part of `RewardCoordinatorProofs` shows that the detailed specification
implements `RewardEntitlement`, read off the files alone. Beside `IInv /\ DInv`
it needs `EInv` (`ImagesAreWhole`): every image of the journal owes the defeat in
full or not at all (`Whole`), and only the image in doubt may differ from memory
in whether it has the run (`Follows` says how it may differ: while both have it
nothing taken is offered again, after the reset the run does not come back, and
recovery neither adds nor drops it). Every step then is one of the promise's:
`CommitKeeps` shows that a journal write owes, closes, forgets or stutters,
`RecordStep` that a record write only delivers, `CrashKeepsPromise` that a power
loss settles what was in doubt or forgets the run. A step that forgets may not
deliver as well; `Uniform` is the reason it does not: while an image may be found
without the run, no reward is on its way to a record, and all the contents a
record may be found with were granted the same.

*Identities.* `EveryKillCounts` speaks of a character at rest; what it rests on
is where each point is when nobody is at rest: `TotalsFit` (the larger of the
record, the queue and the life holds what was earned), `SessionIsAhead` (a
playing life is never behind the record), `CapturedIsBetween` (an autosave's
capture lies between the record and the life), `SavedIsRecorded` and
`RecordsAreDurable`. `Careful` rules out `SlowPass`, `FlushRaces` and a rename that
is visible and not flushed (the table of races above).

*Chunk cache.* The hard steps are the reads made before a lock is taken: a Get
that probed the file, a save that took its snapshot, a storm that is about to
remove the file. `ProbeKnows`, `SaveKnows` and `RemovalKnows` say what each of
them knows that is still true when it acts, `IdleAgrees` is `NothingBuiltIsLost`
with the file's doubtful contents, `NoFileIsDurable` and `RevisionsGrow` are what
the last two theorems need. `Disciplined`: no `StormRaces`, power losses only, no
removal that happened and was not flushed.

*Trade.* A revision names what is offered only within its trade, and requests and
windows of an earlier trade may carry the revision of this one, so what a window or
a request knows (`Dealt`) is said with the trade it is of: if that is the open one,
its revision is not above the trade's, and at the trade's it is the deal. `Confirmed`
says that a confirmation still standing was pressed on the deal as it is, `Told`
what the tick has still to offer each window. `ServerStep` carries all of it over
any step that closes the trade (`Closes`), leaves it (`Stays`) or moves it on
(`GoesOn`: nothing new under the same revision, nobody confirmed on something else,
nobody left in the dark), so each request and each tick is a lemma that says which of the three it
is. `Apart` says that the values standing for no trade and no window are neither.

*What a trade conserves.* `Placed` says that every stack is in one slot of one pack or
on the ground, `Coined` that purses and vendors add up. What makes it more than bookkeeping is the
exchange, which takes the offers out of both packs and puts what was received into the free slots
there are then, lowest first, having found before that it fits: that such a filling
exists (`FillAny`) and holds exactly the stacks received (`InsertedFills`) is an induction over the
free slots and over the stacks, through the existence of a least counterexample
(`LeastElement`, from `WFMin`), which needs no theorem with an operator parameter. `Owned` is the two
with the types of the open trade and of the queues.

*Streaming.* Both properties speak of a line with nothing on it; what makes them
true is what is on it before. The invariants therefore speak of `Shown(c)`, what the
client will show of a chunk once its backlog and the whole line have been decoded, if nothing
more is refused. A step of the server changes that at the end only, by one frame
(`Sent`, `AfterAppend`). A frame of the client, which takes in any part of the line, enters the
last world in it, admits, evicts and drains any part of the backlog, leaves it alone, except for a
chunk it turned away, is asking for, or could not ask for (`IngestStep`; `Admission` is the heart of it: with the
refused and the evicted aside, the backlog kept makes the same of a chunk as all that came).
`NothingOutOfView` follows from `OutOfView`: a chunk the view has not got, nor forgot, nor
is about to unload will not be shown; `StreamFits` and `ViewFits` say what the stream's
steps have to do with the view, through a change of world in particular.
`HeldIsCurrent` needs four more. `PostsFit`: what is still to be broadcast is what there is.
`SendFits`: the chunk about to be sent is the one composed, or `Peek` will find it is not.
`HeldFits`: what the view has will be shown as it is, or is excused, being sent again, posted, or
asked for. `MarkFits` (with `ChunkIsLast`): between the send and the mark an edit may
pass unseen, but then `Peek` repairs it. `PostsFit` fails when two editors have the same
chunk to broadcast, which is the disagreement above and the only way it fails: `InTurn`
excludes that state and nothing else.

*Client terrain.* `SettledIsDrawn` compares the screen with the neighbourhood as it is
now, while a mesh is made by a task from what it was handed in an earlier frame. The
inductive invariant is `TypeOK` with three facts. `LogIsRead`: from `start_mesh_jobs` to the next
frame the change log is empty. `SourceIsHeld`: a task works on the held revision of its chunk
or will be discarded. `Accounted`, of every chunk held: it is in the queue the next
`start_mesh_jobs` will make of the log and of `pending`, or the task that runs for it was handed
a neighbourhood that draws it as the present one does, or it is drawn so. Each system of the frame and each
update is a lemma about what becomes of that; the ones the others rest on are geometric:
a chunk whose surface a change may have altered is among those the change makes stale
(`NotedCovers`, `EditedCovers`), for a chunk of any size. `LoadingEndsOnTerrain` needs the same
accounts: the screen is lifted in a frame whose log is read, over chunks with no debt.

*Client session.* Each of the three properties speaks of a moment of rest, and what it
says there was decided by what was on its way before. `SessionInv` follows a session through
its queues. On the screen's side, `ScreenFits` and `LinkFits` say what each state of the screen has under
it, and `NewsFit` what the thread may still have to tell it: the news come in one order (`InOrder`),
none before the thread's phase has them (`Reported`), none the screen is past (`Expected`), and while the
thread is in the world and the screen is not, the news of it is on its way.
`LeaveFits` ties four things that change in four different steps: what the screen has asked of
leaving, what the commands still to be taken ask (`NoneAsked`, `OneAsked`, `BothAsked`, of any
queue that has other commands in it), what the thread has sent, and whether the answer is
still to be read. On the connection's side, `UpFits`, `DownFits` and `Handshake`
say which frames may be under way between each phase of the thread and each of the server: at most
one question and, behind it, one cancellation, and any number of arrivals about the answers
(`Answering`). `Agreed` holds until a change of world swallows a frame: nobody is offended, a leave
sent and no longer under way has reached a server that is leaving, a cancellation one that has
answered. The screen's part is kept by the frame (`ScreenDials`, `ScreenDrains`, `ScreenActs`) and
by the thread (`ScreenThreads`), the connection's by the thread (`ConnectionTakes`,
`ConnectionReads`) and by the server (`ConnectionServed`); a step leaves alone what it does
not touch (`ScreenKept`, `ConnectionKept`).

*Assumptions.* Those of the modules, which TLC evaluates, and the hypotheses
above. The ones on crashes are needed: a process that dies after an unflushed
rename is reopened on content that a later power loss takes away, and the
stores treat what they read at startup as durable.

*Only model-checked.* Every invariant the runs check is proved; of the action and temporal
properties those the table does not name: the liveness ones. Out of
the prover's reach, and left to TLC: liveness under fairness, `ENABLED`, and what a
recursive definition computes for every input, except where it can be argued from a least
counterexample (`SetInduction` and `LeastElement`, from well-foundedness), as for the insertion
of a trade and for the backlog of the client. No module has a RECURSIVE operator.

## What is not modelled

* *Formats and I/O*: codecs, checksums, framing, TLS, HTTP, tickets. A corrupt
  file refuses to load; here files are read as written.
* *Numeric simulation*: movement, combat, water, weather, world generation,
  encounter choreography. Sequential under one lock, and about floating-point
  values a model would not improve on.
* *Inside modelled parts*: the LRU order of the cache (an eviction may strike
  any time), the water wake list, instance gates, what a regeneration does to
  the things standing on a chunk; the index of names, quarantine and strict
  receipts of the record store; tickets and character creation in `Identities`; the
  places of a trade's offer, a third player, a client that dies with its window
  open, and the length of a cooldown, which may end at any time.
* *Simplifications of the client's modules.* `ChunkStream`: one session, one block to a
  chunk, the exploration ledger and the size of the resend bucket left out (it may be empty
  any time); a leave is not a state here, so any request may meet one, on either side; everything
  between the server's enqueue and the client's frame is one line in order.
  `ClientWorld`: quads are not merged; light, half blocks, a paused apply
  and materials are left out; ground that is there is drawn. `ClientSession`: one
  press in a frame; an old connection is dropped when a new dial replaces its
  link, and what its thread still does is left out; gameplay frames, sign-in,
  tickets and the list's own failures are abstracted to a dial that may
  fail; at most `MaxArrivals` arrivals are on their way; the server's `CancelLeaving` never refuses
  (it answers false only of a body that is not lingering).
* *Data races and undefined behaviour*: none met; the shared state of the
  modelled parts is under the locks the models show, and the atomics used
  (compositions, the revision) are one step each.

`PROJECT.json` lists every component with its status, and every hazard,
including those no property covers yet, with the reason.

## The plan

In order of what matters most to the game:

1. **Done**: `AtomicFile`, `RewardJournal`, `RewardFence`, `RewardEntitlement`,
   `RewardCoordinator`, `Identities`, `ChunkCache`, `PlayerTrade`; `DecodeQueue`,
   `ChunkStream`, `ChunkMesh`, `ClientWorld`, `ClientSession`; proofs of the
   journal, the barrier, the delivery (its control, that it is exactly once, that
   a life loses nothing by it, and that it implements its promise), the records, the
   chunk cache, the trade (windows, what is given, conservation), the streaming, the client's
   terrain and its session.
2. `RewardRuns`: the run sync against the manager's runs, the saved-sessions
   file, the overlay and re-offer at startup, hold and consume of loot;
   composes with `RewardJournal`. Property: no defeat journaled twice, forgotten
   or re-offered once taken, whatever file a crash leaves older. Abstract
   specification: a defeat owed once, from the blow to its collection.
3. `OfflineExperience`: joins `Identities` with the claims of
   `RewardCoordinator` and with an instance's own pending table, which the flush
   does not read (main.go:1259-1271).
4. `Instances` with transfers and `Party`: a player is in one world; bindings
   name exactly those present; a reset leaves nothing that names the run.
5. `Registry`: a lease against retries, expiry and a second world of the name.
6. Save-loop liveness for `ChunkCache`: an edit reaches the file.
