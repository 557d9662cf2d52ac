-------------------------- MODULE RewardCoordinator --------------------------
(***************************************************************************)
(* The delivery of boss rewards, end to end (session.rewardCoordinator):   *)
(* one claim per character drives the journal (RewardJournal) and the      *)
(* record barrier (RewardFence) from reservation to acknowledgement, while *)
(* the character goes on living, leaves or crashes with the process, the   *)
(* autosave writes lives it captured earlier, and the sync of saved runs   *)
(* writes the same journal.                                                *)
(*                                                                         *)
(* The journal and the barrier are the modules of those names; here are    *)
(* the claims, the sessions, the remembered portal visits, the gate in     *)
(* front of the journal, and startup recovery.                             *)
(***************************************************************************)
EXTENDS Naturals, FiniteSets, AtomicFile

CONSTANTS
    Characters,    \* each of an account of its own
    Parts,         \* what the defeat owes each character: entries, silver, experience
    RunIds, Dungeon, \* the saved runs, and the one with the defeated boss
    Boss,
    MaxPack,       \* bound: ordinary inventory changes of a life
    MaxWear,       \* bound: deaths of a life
    MaxExperience, \* bound: kills of a life
    Outcomes,      \* which outcomes a file write has
    Crashes,       \* which crashes happen: a subset of {"process", "power"}
    LateClaims,    \* a claim may come between a teardown's question and its last word
    ExpiryRaces,   \* a run may be collected between a claim's sealing and its intent
    NoImage, NoToken, NoLife, NoTask, \* the absent values
    NoOwner, Sync  \* the journal gate: free, and held by the sync

VARIABLES
    journal, uncertain, journalFile, \* RewardJournal
    record, fence, floor,            \* RewardFence
    owner,    \* rewardCoordinator.journalOwner
    session,  \* where each character's session and teardown are
    live,     \* each playing character's life: epoch, pack and experience
    task,     \* rewardTask: the claim each character has
    saving,   \* what the autosave captured and has not written
    visit,    \* InstanceManager.disconnected: remembered portal visits
    reset,    \* the manager has let the dungeon run go
    startup   \* running, or recovering with the records confirmed so far

journalVars == <<journal, uncertain, journalFile>>
fenceVars == <<record, fence, floor>>
worldVars == <<session, live, task, saving, visit>>
vars == <<journal, uncertain, journalFile, record, fence, floor, owner,
          session, live, task, saving, visit, reset, startup>>

-----------------------------------------------------------------------------
MaxEpoch == Cardinality(Parts) + 1

(* A life: how often each part was granted (twice is the disaster the        *)
(* properties look for), ordinary changes to the pack, deaths paid for with  *)
(* wear, deaths deferred while a claim owns the pack, and other experience.  *)
Life == {life \in [grants : [Parts -> 0..2], pack : 0..MaxPack, wear : 0..MaxWear,
                   debt : 0..MaxWear, experience : 0..MaxExperience] :
            life.wear + life.debt <= MaxWear}

Fence == INSTANCE RewardFence WITH Lives <- Life
Journal == INSTANCE RewardJournal
             WITH Expires <- [r \in RunIds |-> IF r = Dungeon THEN 1 ELSE 2],
                  Bosses <- {Boss}, Postimages <- Fence!Record,
                  MaxGeneration <- Cardinality(RunIds), MaxRuns <- Cardinality(RunIds),
                  MaxIntents <- Cardinality(Characters), MaxTime <- 1

Stages == {"claimed", "reserved", "imaged", "sealed", "prepared", "written",
           "published", "acknowledged", "ended"}

(* "asked": detachReward found no claim and the last word is still to be     *)
(* written.  "gone": it found one, which now owns the word and the account.  *)
Phases == {"none", "world", "left", "asked", "gone"}
Places == {"open", "visit", "external"}

Task == [stage : Stages, gen : 1..Cardinality(RunIds), parts : SUBSET Parts,
         image : Fence!Record \cup {NoLife},  \* BossRewardClaim.image
         last : Fence!Record \cup {NoLife},   \* rewardDetachment, NoLife while attached
         place : Places]

Newborn == [epoch |-> 0, life |-> [grants |-> [p \in Parts |-> 0], pack |-> 0, wear |-> 0,
                                   debt |-> 0, experience |-> 0]]

ASSUME RewardCoordinatorAssumption ==
    /\ IsFiniteSet(Characters) /\ IsFiniteSet(Parts) /\ IsFiniteSet(RunIds)
    /\ MaxPack \in Nat /\ MaxWear \in Nat /\ MaxExperience \in Nat
    /\ Dungeon \in RunIds
    /\ Outcomes \subseteq WriteOutcomes /\ Crashes \subseteq {"process", "power"}
    /\ LateClaims \in BOOLEAN /\ ExpiryRaces \in BOOLEAN
    /\ NoOwner \notin Characters /\ Sync \notin Characters /\ Sync # NoOwner
    /\ NoTask \notin Task /\ NoLife \notin Fence!Record
    /\ NoToken \notin Fence!Token /\ NoImage \notin Journal!Image

Startup == [phase : {"running", "recovering", "failed"}, confirmed : SUBSET Characters]
Running == startup.phase = "running"
At(c, stages) == task[c] # NoTask /\ task[c].stage \in stages
Attached(c) == task[c].last = NoLife

(* t.mu is held from the claim until it is sealed or refused. *)
Reserving(c) == At(c, {"claimed", "reserved", "imaged"})

(* Player.rewardClaim: set by the live reservation, cleared by Finish or Abort. *)
rewardInventoryBusy(c) ==
    At(c, {"imaged", "sealed", "prepared", "written", "published", "acknowledged"})
rewardWearDeferred(c) == At(c, {"imaged", "sealed", "prepared", "written"})

(* What the records store keeps of a life. *)
Disk(rec) == [rec EXCEPT !.life.debt = 0]

Init ==
    /\ Journal!Init
    /\ record = [c \in Characters |-> Settled(Newborn)]
    /\ fence = [c \in Characters |-> NoToken]
    /\ floor = [c \in Characters |-> 0]
    /\ owner = NoOwner
    /\ session = [c \in Characters |-> "none"]
    /\ live = [c \in Characters |-> NoLife]
    /\ task = [c \in Characters |-> NoTask]
    /\ saving = [c \in Characters |-> NoLife]
    /\ visit = [c \in Characters |-> NoLife]
    /\ reset = FALSE
    /\ startup = [phase |-> "running", confirmed |-> {}]

-----------------------------------------------------------------------------
(* The gate every journal write passes (journalWrite): while a write is in   *)
(* doubt, only the writer that made it may write.                            *)

GateOpen(writer) == owner \in {NoOwner, writer}

(* Mutant: the writer of a doubtful write does not keep the gate. *)
MutantPassGate(writer, outcome) == owner' = NoOwner

PassGate(writer, outcome) == owner' = IF outcome = "done" THEN NoOwner ELSE writer

-----------------------------------------------------------------------------
(* The sync of saved runs (SyncRewardRuns), as far as it writes the journal. *)

(* A saved run the journal does not hold yet, its defeat and what it owes. *)
SyncAllocate(id, outcome) ==
    /\ Running /\ owner = NoOwner
    /\ \A g \in DOMAIN journal.runs : journal.runs[g] # id
    /\ id = Dungeon => ~reset
    /\ LET bosses == IF id = Dungeon THEN {Boss} ELSE {}
       IN  Journal!AllocateRun(journal.next, id, Characters, bosses,
                               bosses \X Characters \X Parts, outcome)
    /\ PassGate(Sync, outcome)
    /\ UNCHANGED <<fenceVars, worldVars, reset, startup>>

(* ExpireRuns, for a dungeon run past its reset that the manager let go. *)
SyncCollect(outcome) ==
    /\ Running /\ owner = NoOwner
    /\ reset
    /\ Journal!ExpireRuns(1, {}, outcome)
    /\ PassGate(Sync, outcome)
    /\ UNCHANGED <<fenceVars, worldVars, reset, startup>>

(* pendingRunWrite: a doubtful write is retried verbatim before any other. *)
SyncRetry(outcome) ==
    /\ Running /\ owner = Sync
    /\ Journal!Commit(uncertain, {}, outcome)
    /\ PassGate(Sync, outcome)
    /\ UNCHANGED <<fenceVars, worldVars, reset, startup>>

(* The manager ends a run after its reset, once nobody is inside it; the     *)
(* visits remembered for it go too.                                          *)
Reset ==
    /\ Running /\ ~reset
    /\ \A c \in Characters : session[c] \in {"none", "gone"}
    /\ \E g \in DOMAIN journal.runs : journal.runs[g] = Dungeon
    /\ ExpiryRaces \/ \A c \in Characters : ~At(c, {"sealed"})
    /\ reset' = TRUE
    /\ visit' = [c \in Characters |-> NoLife]
    /\ UNCHANGED <<journalVars, fenceVars, owner, session, live, task, saving, startup>>

-----------------------------------------------------------------------------
(* The character in the world. *)

worldOnly == <<journalVars, fenceVars, owner, reset, startup>>

(* Select, ResumePortal and Join: the record, or the visit left behind with  *)
(* the newer of the two experiences.                                         *)
Join(c) ==
    /\ Running /\ session[c] = "none" /\ task[c] = NoTask
    /\ session' = [session EXCEPT ![c] = "world"]
    /\ LET stored == record[c].now
           resumed == [visit[c] EXCEPT !.life.experience =
                          IF @ > stored.life.experience THEN @ ELSE stored.life.experience]
       IN  live' = [live EXCEPT ![c] = IF visit[c] = NoLife THEN stored ELSE resumed]
    /\ visit' = [visit EXCEPT ![c] = NoLife]
    /\ UNCHANGED <<worldOnly, task, saving>>

(* Mutant: an inventory mutation does not ask whether a claim owns the pack. *)
MutantChangePack(c) ==
    /\ Running /\ session[c] = "world"
    /\ live[c].life.pack < MaxPack
    /\ live' = [live EXCEPT ![c].life.pack = @ + 1]
    /\ UNCHANGED <<worldOnly, session, task, saving, visit>>

(* Every inventory and silver mutation is refused while a claim owns the pack. *)
ChangePack(c) ==
    /\ Running /\ session[c] = "world" /\ ~rewardInventoryBusy(c)
    /\ live[c].life.pack < MaxPack
    /\ live' = [live EXCEPT ![c].life.pack = @ + 1]
    /\ UNCHANGED <<worldOnly, session, task, saving, visit>>

Die(c) ==
    /\ Running /\ session[c] = "world"
    /\ live[c].life.wear + live[c].life.debt < MaxWear
    /\ live' = IF rewardWearDeferred(c) THEN [live EXCEPT ![c].life.debt = @ + 1]
                                        ELSE [live EXCEPT ![c].life.wear = @ + 1]
    /\ UNCHANGED <<worldOnly, session, task, saving, visit>>

EarnExperience(c) ==
    /\ Running /\ session[c] = "world"
    /\ live[c].life.experience < MaxExperience
    /\ live' = [live EXCEPT ![c].life.experience = @ + 1]
    /\ UNCHANGED <<worldOnly, session, task, saving, visit>>

-----------------------------------------------------------------------------
(* A claim, up to its sealing (ClaimBossReward, reserveReward). *)

(* The parts asked for are those the corpse still shows; it goes on showing  *)
(* what an earlier claim took until that claim's Delivered has run.          *)
ClaimBossReward(c, parts) ==
    /\ Running /\ task[c] = NoTask /\ ~reset
    /\ session[c] \in {"world", "left"} \cup IF LateClaims THEN {"asked"} ELSE {}
    /\ \E g \in DOMAIN journal.runs :
          /\ journal.runs[g] = Dungeon
          /\ task' = [task EXCEPT ![c] = [stage |-> "claimed", gen |-> g, parts |-> parts,
                         image |-> NoLife, last |-> NoLife, place |-> "open"]]
    /\ UNCHANGED <<worldOnly, session, live, saving, visit>>

Advance(c, stage) == task' = [task EXCEPT ![c].stage = stage]
EndAttached(c) == task' = [task EXCEPT ![c] = NoTask]

(* The Store barrier; refused while another reservation stands, or the read fails. *)
ReserveReward(c) ==
    /\ At(c, {"claimed"})
    /\ \/ Fence!ReserveReward(c) /\ Advance(c, "reserved")
       \/ EndAttached(c) /\ UNCHANGED fenceVars
    /\ UNCHANGED <<journalVars, owner, session, live, saving, visit, reset, startup>>

WithGrants(rec, parts) ==
    [rec EXCEPT !.epoch = @ + 1,
                !.life.grants = [p \in Parts |-> IF p \in parts /\ @[p] < 2 THEN @[p] + 1 ELSE @[p]]]

(* The live half: the image is the life as it stands with what fits of the   *)
(* grant.  Refused for a player gone or dead, a full pack, another epoch.    *)
ReserveLive(c, fit) ==
    /\ At(c, {"reserved"})
    /\ session[c] = "world" /\ live[c].epoch = record[c].now.epoch
    /\ fit # {} /\ fit \subseteq task[c].parts
    /\ task' = [task EXCEPT ![c].stage = "imaged", ![c].parts = fit,
                            ![c].image = Disk(WithGrants(live[c], fit))]
    /\ UNCHANGED <<worldOnly, session, live, saving, visit>>

RefuseLive(c) ==
    /\ At(c, {"reserved"})
    /\ Fence!AbortReward(c) /\ EndAttached(c)
    /\ UNCHANGED <<journalVars, owner, session, live, saving, visit, reset, startup>>

IntentOf(c) == [gen |-> task[c].gen, boss |-> Boss, owner |-> c,
                parts |-> task[c].parts, image |-> task[c].image]

(* Mutant: a claim is sealed on what the corpse still shows. *)
MutantValidateClaim(c) == task[c].gen \in DOMAIN journal.runs

ValidateClaim(c) == Journal!Valid(Journal!WithIntent(journal, IntentOf(c)))

Seal(c) ==
    /\ At(c, {"imaged"})
    /\ ValidateClaim(c)
    /\ Fence!BeginRewardIntent(c, task[c].image)
    /\ Advance(c, "sealed")
    /\ UNCHANGED <<journalVars, owner, session, live, saving, visit, reset, startup>>

(* AbortBossReward spends the deaths deferred since the live reservation. *)
Spent(rec) == [rec EXCEPT !.life.wear = @ + rec.life.debt, !.life.debt = 0]

RefuseSeal(c) ==
    /\ At(c, {"imaged"})
    /\ ~ValidateClaim(c)
    /\ Fence!AbortReward(c) /\ EndAttached(c)
    /\ live' = [live EXCEPT ![c] = Spent(@)]
    /\ UNCHANGED <<journalVars, owner, session, saving, visit, reset, startup>>

-----------------------------------------------------------------------------
(* The sealed claim: every disk step is retried until it lands (durably). *)

(* Mutant: the write is not waited for. *)
MutantPrepareClaim(c, outcome) ==
    /\ At(c, {"sealed"}) /\ GateOpen(c)
    /\ Journal!PrepareClaim(IntentOf(c), outcome)
    /\ PassGate(c, outcome)
    /\ Advance(c, "prepared")
    /\ UNCHANGED <<fenceVars, session, live, saving, visit, reset, startup>>

PrepareClaim(c, outcome) ==
    /\ At(c, {"sealed"}) /\ GateOpen(c)
    /\ Journal!PrepareClaim(IntentOf(c), outcome)
    /\ PassGate(c, outcome)
    /\ IF outcome = "done" THEN Advance(c, "prepared") ELSE UNCHANGED task
    /\ UNCHANGED <<fenceVars, session, live, saving, visit, reset, startup>>

WritePrepared(c, outcome) ==
    /\ At(c, {"prepared"})
    /\ Fence!WritePreparedReward(c, outcome)
    /\ IF outcome = "done" THEN Advance(c, "written") ELSE UNCHANGED task
    /\ UNCHANGED <<journalVars, owner, session, live, saving, visit, reset, startup>>

(* The image's pack and epoch, the deaths deferred meanwhile spent on it,    *)
(* and the experience as it is by now.                                       *)
Published(rec, image) ==
    Spent([image EXCEPT !.life.debt = rec.life.debt, !.life.experience = rec.life.experience])

(* Mutant: the remembered visit is left as it was. *)
MutantReplaceDisconnectedLife(c, published) == UNCHANGED visit

(* ReplaceDisconnectedLife: only a visit that still holds exactly that life. *)
ReplaceDisconnectedLife(c, published) ==
    visit' = IF task[c].place = "visit" /\ visit[c] = task[c].last
             THEN [visit EXCEPT ![c] = published] ELSE visit

(* A connected owner gets the image live; for a detached one it goes to the  *)
(* life it left behind, and to the portal visit that remembers it.           *)
PublishReward(c) ==
    /\ At(c, {"written"})
    /\ IF Attached(c)
       THEN /\ live' = [live EXCEPT ![c] = Published(@, task[c].image)]
            /\ Advance(c, "published") /\ UNCHANGED visit
       ELSE LET published == Published(task[c].last, task[c].image)
            IN  /\ task' = [task EXCEPT ![c].stage = "published", ![c].last = published]
                /\ ReplaceDisconnectedLife(c, published)
                /\ UNCHANGED live
    /\ UNCHANGED <<worldOnly, session, saving>>

AcknowledgeClaim(c, outcome) ==
    /\ At(c, {"published"}) /\ GateOpen(c)
    /\ fence[c].written
    /\ Journal!AcknowledgeClaim(IntentOf(c), outcome)
    /\ PassGate(c, outcome)
    /\ IF outcome = "done" THEN Advance(c, "acknowledged") ELSE UNCHANGED task
    /\ UNCHANGED <<fenceVars, session, live, saving, visit, reset, startup>>

FinishReward(c) ==
    /\ At(c, {"acknowledged"})
    /\ Fence!ReleaseReward(c)
    /\ IF Attached(c) THEN EndAttached(c) ELSE Advance(c, "ended")
    /\ UNCHANGED <<journalVars, owner, session, live, saving, visit, reset, startup>>

(* An ordinary record write: what Store.Save refuses changes nothing. *)
SaveOrRefuse(c, rec, outcome) ==
    IF fence[c] = NoToken /\ rec.epoch = floor[c]
    THEN Fence!Save(c, rec, outcome) ELSE UNCHANGED fenceVars

-----------------------------------------------------------------------------
(* The teardown (rememberLeaving) and the autosave. *)

Leave(c) ==
    /\ Running /\ session[c] = "world"
    /\ session' = [session EXCEPT ![c] = "left"]
    /\ UNCHANGED <<worldOnly, live, task, saving, visit>>

(* DisconnectPortal; a run the manager has let go remembers nobody. *)
Disconnect(c, place) ==
    visit' = IF place = "visit" /\ ~reset THEN [visit EXCEPT ![c] = live[c]] ELSE visit

(* detachReward: the word goes to the sealed claim, the claim keeps the account. *)
DetachReward(c, place) ==
    /\ session[c] = "left" /\ task[c] # NoTask /\ ~Reserving(c)
    /\ session' = [session EXCEPT ![c] = "gone"]
    /\ task' = [task EXCEPT ![c].last = live[c], ![c].place = place]
    /\ live' = [live EXCEPT ![c] = NoLife]
    /\ Disconnect(c, place)
    /\ UNCHANGED <<worldOnly, saving>>

NothingToDetach(c) ==
    /\ session[c] = "left" /\ task[c] = NoTask
    /\ session' = [session EXCEPT ![c] = "asked"]
    /\ UNCHANGED <<worldOnly, live, task, saving, visit>>

(* Remember and Release.  An external world's coordinates are not written. *)
Remember(c, place, outcome) ==
    /\ session[c] = "asked"
    /\ Disconnect(c, place)
    /\ IF place = "external" THEN UNCHANGED fenceVars
                             ELSE SaveOrRefuse(c, Disk(live[c]), outcome)
    /\ session' = [session EXCEPT ![c] = "none"]
    /\ live' = [live EXCEPT ![c] = NoLife]
    /\ UNCHANGED <<journalVars, owner, task, saving, reset, startup>>

(* Mutant: an account whose last record was not saved is kept. *)
MutantEndDetached(c, outcome) ==
    /\ At(c, {"ended"}) /\ outcome = "done"
    /\ IF task[c].place = "external" THEN UNCHANGED fenceVars
                                     ELSE SaveOrRefuse(c, Disk(task[c].last), outcome)
    /\ task' = [task EXCEPT ![c] = NoTask]
    /\ UNCHANGED <<journalVars, owner, session, live, saving, visit, reset, startup>>

(* endRewardLocked of a detached claim: the last word, then the account. *)
EndDetached(c, outcome) ==
    /\ At(c, {"ended"})
    /\ IF task[c].place = "external" THEN UNCHANGED fenceVars
                                     ELSE SaveOrRefuse(c, Disk(task[c].last), outcome)
    /\ task' = [task EXCEPT ![c] = NoTask]
    /\ session' = [session EXCEPT ![c] = "none"]
    /\ UNCHANGED <<journalVars, owner, live, saving, visit, reset, startup>>

Capture(c) ==
    /\ Running /\ session[c] = "world" /\ saving[c] = NoLife
    /\ saving' = [saving EXCEPT ![c] = Disk(live[c])]
    /\ UNCHANGED <<worldOnly, session, live, task, visit>>

stillPlaying(c) == session[c] \in {"world", "left", "asked"} /\ task[c] = NoTask

WriteCaptured(c, outcome) ==
    /\ saving[c] # NoLife
    /\ IF stillPlaying(c) THEN SaveOrRefuse(c, saving[c], outcome) ELSE UNCHANGED fenceVars
    /\ saving' = [saving EXCEPT ![c] = NoLife]
    /\ UNCHANGED <<journalVars, owner, session, live, task, visit, reset, startup>>

-----------------------------------------------------------------------------
(* A crash takes everything in memory, and startup recovery follows.  The    *)
(* runs are restored from the journal, so a run let go stays gone only if    *)
(* its collection was written.                                               *)

Forgotten ==
    /\ owner' = NoOwner
    /\ session' = [c \in Characters |-> "none"]
    /\ live' = [c \in Characters |-> NoLife]
    /\ task' = [c \in Characters |-> NoTask]
    /\ saving' = [c \in Characters |-> NoLife]
    /\ visit' = [c \in Characters |-> NoLife]
    /\ UNCHANGED reset

Starting == startup' = [phase |-> "recovering", confirmed |-> {}]

Crash ==
    /\ \E crash \in Crashes :
          /\ \E file \in FilesAfter(crash, journalFile) : Journal!Reopen(file)
          /\ \E files \in Fence!RecordsAfter(crash) : Fence!Reopen(files)
    /\ Forgotten /\ Starting

(* A write that fails during recovery ends the startup; it is tried again. *)
Restart ==
    /\ startup.phase = "failed"
    /\ Journal!Reopen(journalFile) /\ Fence!Reopen(record)
    /\ Forgotten /\ Starting

AfterWrite(outcome, next) ==
    startup' = IF outcome = "done" THEN next ELSE [startup EXCEPT !.phase = "failed"]

(* Mutant: the record is left as it is, whether the reward reached it or not. *)
MutantRecovered(rec, intent) == rec

(* A record the reward has reached is kept, another takes the postimage. *)
Recovered(rec, intent) == IF rec.epoch >= intent.image.epoch THEN rec ELSE intent.image

(* Either way it is written again, which confirms it before the intent goes. *)
RecoverRecord(intent, outcome) ==
    LET c == intent.owner
        rec == Recovered(record[c].now, intent)
    IN  /\ startup.phase = "recovering" /\ c \notin startup.confirmed
        /\ record' = [record EXCEPT ![c] = Written(@, rec, outcome)]
        /\ floor' = [floor EXCEPT ![c] = record'[c].now.epoch]
        /\ AfterWrite(outcome, [startup EXCEPT !.confirmed = @ \cup {c}])
        /\ UNCHANGED <<journalVars, fence, owner, worldVars, reset>>

Opened == [phase |-> "running", confirmed |-> {}]

(* Mutant: the intents are acknowledged before the records are confirmed. *)
MutantRecoverAll(outcome) ==
    /\ startup.phase = "recovering"
    /\ IF journal.intents = {}
       THEN UNCHANGED journalVars /\ startup' = Opened
       ELSE Journal!AcknowledgeAll(outcome) /\ AfterWrite(outcome, Opened)
    /\ UNCHANGED <<fenceVars, owner, worldVars, reset>>

RecoverAll(outcome) ==
    /\ startup.phase = "recovering"
    /\ \A intent \in journal.intents : intent.owner \in startup.confirmed
    /\ IF journal.intents = {}
       THEN UNCHANGED journalVars /\ startup' = Opened
       ELSE Journal!AcknowledgeAll(outcome) /\ AfterWrite(outcome, Opened)
    /\ UNCHANGED <<fenceVars, owner, worldVars, reset>>

-----------------------------------------------------------------------------
SyncStep == \E outcome \in Outcomes :
    \/ \E id \in RunIds : SyncAllocate(id, outcome)
    \/ SyncCollect(outcome) \/ SyncRetry(outcome)

Playing(c) == Join(c) \/ ChangePack(c) \/ Die(c) \/ EarnExperience(c) \/ Leave(c)

Reserves(c) ==
    \/ \E parts \in SUBSET Parts \ {{}} : ClaimBossReward(c, parts) \/ ReserveLive(c, parts)
    \/ ReserveReward(c) \/ RefuseLive(c) \/ Seal(c) \/ RefuseSeal(c)

Delivers(c) ==
    \/ \E outcome \in Outcomes : PrepareClaim(c, outcome)
    \/ \E outcome \in Outcomes : WritePrepared(c, outcome)
    \/ \E outcome \in Outcomes : AcknowledgeClaim(c, outcome)
    \/ PublishReward(c) \/ FinishReward(c)
    \/ \E outcome \in Outcomes : EndDetached(c, outcome)

TearsDown(c) ==
    \/ \E place \in Places : DetachReward(c, place)
    \/ NothingToDetach(c)
    \/ \E place \in Places, outcome \in Outcomes : Remember(c, place, outcome)

Autosaves(c) == Capture(c) \/ \E outcome \in Outcomes : WriteCaptured(c, outcome)

RecoveryStep ==
    \/ Restart
    \/ \E outcome \in Outcomes : \/ \E intent \in journal.intents : RecoverRecord(intent, outcome)
                                 \/ RecoverAll(outcome)

Next ==
    \/ SyncStep \/ Reset \/ Crash \/ RecoveryStep
    \/ \E c \in Characters : Playing(c) \/ Reserves(c) \/ Delivers(c) \/ TearsDown(c) \/ Autosaves(c)

Spec == Init /\ [][Next]_vars

(* What goroutines do: a claim and a teardown run to their end, and a disk   *)
(* that can be written again and again is, in the end, written (durably      *)
(* retries with a capped delay and gives up only when the process drains).   *)
ClaimRuns(c) ==
    /\ WF_vars(ReserveReward(c))
    /\ WF_vars(RefuseLive(c) \/ \E parts \in SUBSET Parts : ReserveLive(c, parts))
    /\ WF_vars(Seal(c) \/ RefuseSeal(c))
    /\ SF_vars(PrepareClaim(c, "done"))
    /\ WF_vars(WritePrepared(c, "done"))
    /\ WF_vars(PublishReward(c))
    /\ SF_vars(AcknowledgeClaim(c, "done"))
    /\ WF_vars(FinishReward(c))
    /\ WF_vars(\E outcome \in Outcomes : EndDetached(c, outcome))

TeardownRuns(c) ==
    /\ SF_vars(NothingToDetach(c) \/ \E place \in Places : DetachReward(c, place))
    /\ WF_vars(\E place \in Places, outcome \in Outcomes : Remember(c, place, outcome))

FairSpec == /\ Spec
            /\ SF_vars(SyncRetry("done"))
            /\ \A c \in Characters : ClaimRuns(c) /\ TeardownRuns(c)

-----------------------------------------------------------------------------
(* Properties. *)

TypeOK ==
    /\ Journal!TypeOK /\ Fence!TypeOK
    /\ owner \in Characters \cup {NoOwner, Sync}
    /\ session \in [Characters -> Phases]
    /\ live \in [Characters -> Fence!Record \cup {NoLife}]
    /\ task \in [Characters -> Task \cup {NoTask}]
    /\ saving \in [Characters -> Fence!Record \cup {NoLife}]
    /\ visit \in [Characters -> Fence!Record \cup {NoLife}]
    /\ reset \in BOOLEAN
    /\ startup \in Startup

ShareOf(gen, c, part) == <<gen, Boss, c, part>>

Sealed(c) == At(c, {"sealed", "prepared", "written", "published", "acknowledged", "ended"})

(* Every life of a character there is, or may be after a crash. *)
LivesOf(c) ==
    record[c].mayBe \cup ({live[c], saving[c], visit[c]} \ {NoLife})
        \cup (IF task[c] = NoTask THEN {} ELSE {task[c].last} \ {NoLife})
        \cup (IF Sealed(c) THEN {task[c].image} ELSE {})

(* A share is delivered at most once, whatever is retried, refused, detached *)
(* or recovered (DeliverBossExperience, ConsumeClaimedBossLoot).             *)
DeliveredAtMostOnce ==
    \A c \in Characters : \A rec \in LivesOf(c) : \A p \in Parts : rec.life.grants[p] <= 1

(* A share the journal no longer offers is in every content the owner's      *)
(* record may be found with: an acknowledgement never outruns the record.    *)
TakenIsDelivered(image) ==
    \A share \in image.taken :
        \A rec \in record[share[3]].mayBe : rec.life.grants[share[4]] >= 1

(* A share still on offer, with no intent to replay, is in no content the    *)
(* record may be found with.                                                 *)
OfferedIsUndelivered(image) ==
    \A share \in image.owed \ (image.taken \cup UNION {Journal!SharesOf(i) : i \in image.intents}) :
        \A rec \in record[share[3]].mayBe : rec.life.grants[share[4]] = 0

(* Whatever pair of contents a crash leaves of the journal and a record, the *)
(* two agree: recovery neither closes a share that was not delivered nor     *)
(* offers one that was.                                                      *)
FilesAgree ==
    \A image \in journalFile.mayBe \cup {journal} :
        TakenIsDelivered(image) /\ OfferedIsUndelivered(image)

(* From its sealing until its acknowledgement a claim's shares stay owed:    *)
(* the run is not collected and no other claim takes them, so the claim can  *)
(* always be prepared and acknowledged.                                      *)
SealedClaimStaysOwed ==
    \A c \in Characters : At(c, {"sealed", "prepared", "written", "published"}) =>
        Journal!SharesOf(IntentOf(c)) \subseteq journal.owed \ journal.taken

(* A teardown's last word is never refused: whoever leaves without a claim   *)
(* has no barrier on their record and carries the epoch it requires.         *)
LastWordIsAccepted ==
    \A c \in Characters :
        /\ session[c] = "asked" => fence[c] = NoToken /\ live[c].epoch = floor[c]
        /\ At(c, {"ended"}) => fence[c] = NoToken /\ task[c].last.epoch = floor[c]

(* While a journal write is in doubt, the gate is held by the one writer     *)
(* whose next write is exactly those bytes, so the doubt is always resolved  *)
(* by its owner and never blocks everyone.                                   *)
GateIsHeldByItsRetry ==
    /\ owner = NoOwner <=> (uncertain = NoImage \/ ~Running)
    /\ \A c \in Characters : owner = c =>
          \/ At(c, {"sealed"}) /\ uncertain = Journal!WithIntent(journal, IntentOf(c))
          \/ At(c, {"published"}) /\ uncertain = Journal!Acknowledged(journal, {IntentOf(c)})

(* The word a character will leave: its live life or the one it left behind. *)
Word(c) == IF live[c] # NoLife THEN live[c]
           ELSE IF task[c] # NoTask /\ ~Attached(c) THEN task[c].last ELSE NoLife

AtLeast(old, new) ==
    /\ new.epoch >= old.epoch
    /\ new.life.pack >= old.life.pack
    /\ new.life.wear >= old.life.wear
    /\ new.life.wear + new.life.debt >= old.life.wear + old.life.debt
    /\ new.life.experience >= old.life.experience
    /\ \A p \in Parts : new.life.grants[p] >= old.life.grants[p]

(* Publication, abort, detach and the deaths, kills and looting around them  *)
(* never take anything from a life, nor a death's price.                     *)
LifeLosesNothing ==
    [][\A c \in Characters : Word(c) # NoLife /\ Word(c)' # NoLife =>
          AtLeast(Word(c), Word(c)')]_vars

(* A sealed claim is delivered and given up in the end, however many of its  *)
(* writes fail and whoever else is waiting for the journal.                  *)
SealedClaimEnds == \A c \in Characters : Sealed(c) ~> task[c] = NoTask

(* Whoever leaves gets the account back: with or without a pending claim,    *)
(* the teardown, or the claim that took it over, releases it.                *)
AccountIsReleased == \A c \in Characters : session[c] = "left" ~> session[c] = "none"

(* The promise, read off the files: a share is owed while some content the   *)
(* journal may be found with records it, closed once all that do mark it     *)
(* taken, delivered once every content of the record carries it.             *)
Shares == Characters \X Parts
Recording(s) == {image \in journalFile.mayBe : \E share \in image.owed : <<share[3], share[4]>> = s}
Owed == {s \in Shares : Recording(s) # {}}
Closed == {s \in Owed : \A image \in Recording(s) :
                           \E share \in image.taken : <<share[3], share[4]>> = s}
Delivered == {s \in Shares : \A rec \in record[s[1]].mayBe : rec.life.grants[s[2]] >= 1}

Entitlement == INSTANCE RewardEntitlement
                 WITH owed <- Owed, delivered <- Delivered, closed <- Closed

(* Delivery implements the promise: no interleaving, failure or power loss   *)
(* delivers a share twice, closes one undelivered or reopens a closed one.   *)
KeepsThePromise == Entitlement!Spec
=============================================================================
