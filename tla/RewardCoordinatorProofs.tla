----------------------- MODULE RewardCoordinatorProofs -----------------------
(***************************************************************************)
(* The delivery of boss rewards proved for every number of characters,     *)
(* parts and runs, every bound and every mix of write outcomes and         *)
(* crashes, without the two races the constants name.                      *)
(*                                                                         *)
(* The properties are about pairs of a claim's stage with the journal, the *)
(* barrier, the record and the session, which change in different steps    *)
(* and at different times.  The invariant says, stage by stage, what each  *)
(* of them is; the property then is what it says of one stage.             *)
(***************************************************************************)
EXTENDS RewardCoordinator, FiniteSetTheorems, TLAPS

Orderly == ~LateClaims /\ ~ExpiryRaces

(* Where a claim is: its record not yet, or already, written, and the image  *)
(* not yet live.                                                             *)
Unwritten == {"reserved", "imaged", "sealed", "prepared"}
Landed == {"written", "published", "acknowledged"}
InPack == {"imaged", "sealed", "prepared", "written"}

(* Who has a life, a claim and a remembered visit, by the session's phase.   *)
SessionFits(c) ==
    /\ live[c] # NoLife <=> session[c] \in {"world", "left", "asked"}
    /\ session[c] \in {"none", "asked"} => task[c] = NoTask
    /\ session[c] \in {"world", "left"} /\ task[c] # NoTask => Attached(c)
    /\ session[c] = "gone" => Sealed(c) /\ ~Attached(c)
    /\ At(c, {"ended"}) => session[c] = "gone"
    /\ session[c] \in {"world", "left", "asked"} => visit[c] = NoLife
    /\ session[c] = "gone" => \/ visit[c] = NoLife
                              \/ task[c].place = "visit" /\ visit[c] = task[c].last
    /\ ~Running => session[c] = "none" /\ visit[c] = NoLife
    /\ saving[c] # NoLife => Running
    /\ reset => ~At(c, {"claimed", "reserved", "imaged", "sealed"})

(* The barrier and the record's epoch, by the claim's stage.                 *)
BarrierFits(c) ==
    /\ fence[c] # NoToken <=> At(c, Unwritten \cup Landed)
    /\ At(c, Unwritten) => ~fence[c].written /\ fence[c].epoch = floor[c] + 1
    /\ At(c, Landed) => fence[c].written /\ fence[c].epoch = floor[c]
    /\ At(c, {"reserved", "imaged"}) => ~fence[c].intent
    /\ At(c, {"sealed", "prepared"} \cup Landed) =>
          /\ fence[c].intent /\ fence[c].postimage = task[c].image
          /\ task[c].image.epoch = fence[c].epoch
    /\ ~At(c, {"prepared"}) => record[c].now.epoch = floor[c]

(* The word a character will leave carries the epoch the floor demands, but  *)
(* between the write of a reward and its publication; and while a claim owns *)
(* the pack no wear is added but as a debt.                                  *)
WordFits(c) ==
    /\ Word(c) # NoLife =>
          Word(c).epoch = IF At(c, {"written"}) THEN floor[c] - 1 ELSE floor[c]
    /\ session[c] = "none" /\ visit[c] # NoLife => visit[c].epoch = floor[c]
    /\ At(c, InPack) =>
          /\ task[c].image # NoLife
          /\ task[c].image.life.debt = 0 /\ task[c].image.life.wear = Word(c).life.wear

CharacterFits(c) == SessionFits(c) /\ BarrierFits(c) /\ WordFits(c)

(* What the sync may have in doubt.                                          *)
SyncWrites ==
    /\ uncertain.intents = journal.intents /\ uncertain.taken \subseteq journal.taken
    /\ reset \/ journal.owed \subseteq uncertain.owed

JournalFits ==
    /\ Journal!Valid(journal)
    /\ uncertain # NoImage => Journal!Valid(uncertain)
    /\ \A image \in journalFile.mayBe \cup {journalFile.now} : Journal!Valid(image)
    /\ startup.phase = "recovering" => uncertain = NoImage
    /\ owner = Sync => SyncWrites

GateFits(c) ==
    owner = c =>
       \/ At(c, {"sealed"}) /\ uncertain = Journal!WithIntent(journal, IntentOf(c))
       \/ At(c, {"published"}) /\ uncertain = Journal!Acknowledged(journal, {IntentOf(c)})

(* A sealed claim's shares are owed, and a prepared one is in the journal.   *)
ClaimFits(c) ==
    /\ At(c, {"sealed"}) => Journal!SharesOf(IntentOf(c)) \subseteq journal.owed \ journal.taken
    /\ At(c, {"prepared", "written", "published"}) => IntentOf(c) \in journal.intents

IInv ==
    /\ TypeOK
    /\ JournalFits
    /\ owner = NoOwner <=> (uncertain = NoImage \/ ~Running)
    /\ \A c \in Characters : CharacterFits(c) /\ GateFits(c) /\ ClaimFits(c)

-----------------------------------------------------------------------------
(* Facts about the data. *)

LEMMA Bounds ==
    /\ MaxEpoch \in Nat \ {0} /\ Cardinality(RunIds) \in Nat /\ Cardinality(Characters) \in Nat
    /\ Fence!Epochs = 0..MaxEpoch
  BY RewardCoordinatorAssumption, FS_CardinalityType DEF MaxEpoch, Fence!Epochs

LEMMA TaskFields ==
    \A t \in Task :
        /\ t # NoTask /\ t.stage \in Stages /\ t.gen \in 1..Cardinality(RunIds)
        /\ t.parts \in SUBSET Parts
        /\ t.image \in Fence!Record \cup {NoLife} /\ t.last \in Fence!Record \cup {NoLife}
        /\ t.place \in Places
  BY RewardCoordinatorAssumption DEF Task

(* A claim whose stage moves on keeps the rest. *)
LEMMA StageMoves ==
    ASSUME IInv, NEW c \in Characters, task[c] # NoTask, NEW s \in Stages, Advance(c, s)
    PROVE  /\ task[c] \in Task /\ task'[c] \in Task /\ task'[c] # NoTask /\ task'[c].stage = s
           /\ task'[c].gen = task[c].gen /\ task'[c].parts = task[c].parts
           /\ task'[c].image = task[c].image /\ task'[c].last = task[c].last
           /\ task'[c].place = task[c].place
           /\ task' \in [Characters -> Task \cup {NoTask}]
           /\ \A d \in Characters \ {c} : task'[d] = task[d]
<1>1. task[c] \in Task /\ task \in [Characters -> Task \cup {NoTask}]
  BY DEF IInv, TypeOK
<1>2. task' = [task EXCEPT ![c] = [task[c] EXCEPT !.stage = s]]
  BY <1>1 DEF Advance
<1>3. [task[c] EXCEPT !.stage = s] \in Task
  BY <1>1 DEF Task
<1> QED BY <1>1, <1>2, <1>3, TaskFields DEF Task

(* The fields of a record, and what the operators on lives make of it. *)
LEMMA RecordFields ==
    \A rec \in Fence!Record :
        /\ rec # NoLife /\ rec.epoch \in 0..MaxEpoch /\ rec.life \in Life
        /\ rec.life.wear \in 0..MaxWear /\ rec.life.debt \in 0..MaxWear
        /\ rec.life.wear + rec.life.debt <= MaxWear
  BY RewardCoordinatorAssumption, Bounds DEF Fence!Record, Life

LEMMA DiskRecord ==
    \A rec \in Fence!Record :
        /\ Disk(rec) \in Fence!Record /\ Disk(rec).epoch = rec.epoch
        /\ Disk(rec).life.wear = rec.life.wear /\ Disk(rec).life.debt = 0
  BY RewardCoordinatorAssumption, Bounds DEF Fence!Record, Life, Disk

LEMMA SpentRecord ==
    \A rec \in Fence!Record : Spent(rec) \in Fence!Record /\ Spent(rec).epoch = rec.epoch
<1> SUFFICES ASSUME NEW rec \in Fence!Record
             PROVE  Spent(rec) \in Fence!Record /\ Spent(rec).epoch = rec.epoch
  OBVIOUS
<1>1. rec.life.wear + rec.life.debt \in 0..MaxWear
  BY RecordFields, RewardCoordinatorAssumption
<1> DEFINE Fields == [grants : [Parts -> 0..2], pack : 0..MaxPack, wear : 0..MaxWear,
                      debt : 0..MaxWear, experience : 0..MaxExperience]
           paid == rec.life.wear + rec.life.debt
<1>2. rec \in [epoch : 0..MaxEpoch, life : Fields] /\ 0 \in 0..MaxWear
  BY RewardCoordinatorAssumption, Bounds DEF Fence!Record, Life
<1>3. Spent(rec) = [rec EXCEPT !.life.wear = paid, !.life.debt = 0]
  BY DEF Spent
<1> HIDE DEF paid
<1>4. /\ Spent(rec) \in [epoch : 0..MaxEpoch, life : Fields]
      /\ Spent(rec).epoch = rec.epoch /\ Spent(rec).life.wear = paid /\ Spent(rec).life.debt = 0
  BY <1>1, <1>2, <1>3 DEF paid
<1>5. Spent(rec).life.wear + Spent(rec).life.debt <= MaxWear
  BY <1>1, <1>4, RewardCoordinatorAssumption DEF paid
<1> QED BY <1>4, <1>5, Bounds DEF Fence!Record, Life

LEMMA GrantedRecord ==
    \A rec \in Fence!Record : \A parts \in SUBSET Parts :
        rec.epoch < MaxEpoch =>
            /\ WithGrants(rec, parts) \in Fence!Record
            /\ WithGrants(rec, parts).epoch = rec.epoch + 1
            /\ WithGrants(rec, parts).life.wear = rec.life.wear
<1> SUFFICES ASSUME NEW rec \in Fence!Record, NEW parts \in SUBSET Parts, rec.epoch < MaxEpoch
             PROVE  /\ WithGrants(rec, parts) \in Fence!Record
                    /\ WithGrants(rec, parts).epoch = rec.epoch + 1
                    /\ WithGrants(rec, parts).life.wear = rec.life.wear
  OBVIOUS
<1> DEFINE grants == [p \in Parts |-> IF p \in parts /\ rec.life.grants[p] < 2
                                      THEN rec.life.grants[p] + 1 ELSE rec.life.grants[p]]
<1>1. grants \in [Parts -> 0..2]
  BY DEF Fence!Record, Life
<1>2. rec.epoch + 1 \in 0..MaxEpoch
  BY RecordFields, Bounds
<1>3. WithGrants(rec, parts) = [rec EXCEPT !.epoch = rec.epoch + 1, !.life.grants = grants]
  BY DEF WithGrants, Fence!Record, Life
<1> HIDE DEF grants
<1> QED BY <1>1, <1>2, <1>3, Bounds DEF Fence!Record, Life

LEMMA PublishedRecord ==
    \A rec, image \in Fence!Record :
        image.life.wear = rec.life.wear =>
            /\ Published(rec, image) \in Fence!Record
            /\ Published(rec, image).epoch = image.epoch
<1> SUFFICES ASSUME NEW rec \in Fence!Record, NEW image \in Fence!Record,
                    image.life.wear = rec.life.wear
             PROVE  /\ Published(rec, image) \in Fence!Record
                    /\ Published(rec, image).epoch = image.epoch
  OBVIOUS
<1> DEFINE merged == [image EXCEPT !.life.debt = rec.life.debt,
                                   !.life.experience = rec.life.experience]
<1>1. merged \in Fence!Record /\ merged.epoch = image.epoch
  BY DEF Fence!Record, Life
<1>2. Published(rec, image) = Spent(merged)
  BY DEF Published
<1> HIDE DEF merged
<1> QED BY <1>1, <1>2, SpentRecord

(* What one write leaves of a record and of the journal. *)
LEMMA RecordWritten ==
    ASSUME NEW file \in Fence!Files(Fence!Record), NEW rec \in Fence!Record, NEW outcome \in Outcomes
    PROVE  /\ Fence!Written(file, rec, outcome) = Written(file, rec, outcome)
           /\ Written(file, rec, outcome) \in Fence!Files(Fence!Record)
           /\ Written(file, rec, outcome).now \in {file.now, rec}
           /\ outcome = "done" => Written(file, rec, outcome).now = rec
<1>1. outcome \in {"done", "unsynced", "failed"}
  BY RewardCoordinatorAssumption DEF WriteOutcomes
<1> QED BY <1>1 DEF Fence!Files, Fence!Written, Fence!Settled, Written, Settled

LEMMA JournalWritten ==
    ASSUME NEW Images, NEW file \in Journal!Files(Images), NEW image \in Images,
           NEW outcome \in Outcomes
    PROVE  /\ Journal!Written(file, image, outcome) \in Journal!Files(Images)
           /\ Journal!Written(file, image, outcome).now \in {file.now, image}
           /\ Journal!Written(file, image, outcome).mayBe \subseteq file.mayBe \cup {image}
<1>1. outcome \in {"done", "unsynced", "failed"}
  BY RewardCoordinatorAssumption DEF WriteOutcomes
<1> QED BY <1>1 DEF Journal!Files, Journal!Written, Journal!Settled

(* What IInv says of one character. *)
LEMMA CharacterTypes ==
    ASSUME IInv, NEW c \in Characters
    PROVE  /\ session[c] \in Phases
           /\ live[c] \in Fence!Record \cup {NoLife} /\ saving[c] \in Fence!Record \cup {NoLife}
           /\ visit[c] \in Fence!Record \cup {NoLife}
           /\ task[c] \in Task \cup {NoTask}
           /\ record[c] \in Fence!Files(Fence!Record) /\ record[c].now \in Fence!Record
           /\ fence[c] \in Fence!Token \cup {NoToken}
           /\ floor[c] \in 0..MaxEpoch
           /\ fence[c] \in Fence!Token =>
                 /\ fence[c].epoch \in 0..MaxEpoch /\ fence[c].intent \in BOOLEAN
                 /\ fence[c].written \in BOOLEAN /\ fence[c].postimage \in Fence!Record
           /\ CharacterFits(c) /\ GateFits(c) /\ ClaimFits(c)
<1>1. TypeOK /\ CharacterFits(c) /\ GateFits(c) /\ ClaimFits(c)
  BY DEF IInv
<1>2. /\ record[c] \in Fence!Files(Fence!Record) /\ fence[c] \in Fence!Token \cup {NoToken}
      /\ floor[c] \in 0..MaxEpoch
  BY <1>1, Bounds DEF TypeOK, Fence!TypeOK
<1>3. record[c].now \in Fence!Record
  BY <1>2 DEF Fence!Files
<1>4. fence[c] \in Fence!Token =>
         /\ fence[c].epoch \in 0..MaxEpoch /\ fence[c].intent \in BOOLEAN
         /\ fence[c].written \in BOOLEAN /\ fence[c].postimage \in Fence!Record
  BY Bounds DEF Fence!Token
<1> QED BY <1>1, <1>2, <1>3, <1>4 DEF TypeOK

-----------------------------------------------------------------------------
(* Steps of one character. *)

Character(c) ==
    <<session[c], live[c], task[c], saving[c], visit[c], record[c], fence[c], floor[c]>>

LEMMA SameCharacter ==
    ASSUME NEW c \in Characters, Character(c)' = Character(c),
           reset' = reset, startup' = startup, CharacterFits(c)
    PROVE  CharacterFits(c)'
<1>1. /\ session'[c] = session[c] /\ live'[c] = live[c] /\ task'[c] = task[c]
      /\ saving'[c] = saving[c] /\ visit'[c] = visit[c]
      /\ record'[c] = record[c] /\ fence'[c] = fence[c] /\ floor'[c] = floor[c]
  BY DEF Character
<1>2. SessionFits(c)'
  BY <1>1 DEF CharacterFits, SessionFits, At, Attached, Sealed, Running
<1>3. BarrierFits(c)'
  BY <1>1 DEF CharacterFits, BarrierFits, At
<1>4. WordFits(c)'
  BY <1>1 DEF CharacterFits, WordFits, Word, At, Attached
<1> QED BY <1>2, <1>3, <1>4 DEF CharacterFits

LEMMA CharacterStep ==
    ASSUME IInv, NEW c \in Characters, TypeOK',
           UNCHANGED <<journalVars, owner, reset, startup>>,
           \A d \in Characters \ {c} : Character(d)' = Character(d),
           CharacterFits(c)', GateFits(c)', ClaimFits(c)'
    PROVE  IInv'
<1>1. /\ journal' = journal /\ uncertain' = uncertain /\ journalFile' = journalFile
      /\ owner' = owner /\ reset' = reset /\ startup' = startup
  BY DEF journalVars
<1>2. JournalFits'
  BY <1>1 DEF IInv, JournalFits, SyncWrites, Journal!Valid, Journal!ValidIntent, Journal!SharesOf
<1>3. ASSUME NEW d \in Characters \ {c}
      PROVE  CharacterFits(d)' /\ GateFits(d)' /\ ClaimFits(d)'
  <2>1. Character(d)' = Character(d) /\ CharacterFits(d) /\ GateFits(d) /\ ClaimFits(d)
    BY DEF IInv
  <2>2. task'[d] = task[d]
    BY <2>1 DEF Character
  <2>3. CharacterFits(d)'
    BY <1>1, <2>1, SameCharacter
  <2>4. IntentOf(d)' = IntentOf(d)
    BY <2>2 DEF IntentOf
  <2>5. GateFits(d)'
    BY <1>1, <2>1, <2>2, <2>4 DEF GateFits, At, Journal!WithIntent, Journal!Acknowledged, Journal!SharesOf
  <2>6. ClaimFits(d)'
    BY <1>1, <2>1, <2>2, <2>4 DEF ClaimFits, At, Journal!SharesOf
  <2> QED BY <2>3, <2>5, <2>6
<1> QED BY <1>1, <1>2, <1>3 DEF IInv, Running

(* A claim not yet sealed, or acknowledged, has no part in the journal. *)
LEMMA NothingJournaled ==
    ASSUME IInv, NEW c \in Characters, owner' = owner,
           task[c] # NoTask => task[c].stage \notin {"sealed", "published"},
           task'[c] # NoTask => task'[c].stage \notin {"sealed", "prepared", "written", "published"}
    PROVE  GateFits(c)' /\ ClaimFits(c)'
  BY CharacterTypes DEF GateFits, ClaimFits, At

(* A claim that stays where it is keeps its intent, and its part in the      *)
(* journal.                                                                  *)
LEMMA SameIntent ==
    ASSUME IInv, NEW c \in Characters, owner' = owner, UNCHANGED journalVars,
           \/ task'[c] = task[c]
           \/ /\ task[c] # NoTask /\ task'[c] # NoTask
              /\ task'[c].stage = task[c].stage /\ task'[c].gen = task[c].gen
              /\ task'[c].parts = task[c].parts /\ task'[c].image = task[c].image
    PROVE  GateFits(c)' /\ ClaimFits(c)'
<1>1. IntentOf(c)' = IntentOf(c)
  BY DEF IntentOf
<1>2. journal' = journal /\ uncertain' = uncertain
  BY DEF journalVars
<1>3. GateFits(c)'
  BY <1>1, <1>2, CharacterTypes
  DEF GateFits, At, Journal!WithIntent, Journal!Acknowledged, Journal!SharesOf
<1>4. ClaimFits(c)'
  BY <1>1, <1>2, CharacterTypes DEF ClaimFits, At, Journal!SharesOf
<1> QED BY <1>3, <1>4

(* An ordinary save writes what carries the epoch the floor demands, and     *)
(* nothing under a barrier.                                                  *)
LEMMA SaveKeepsRecords ==
    ASSUME IInv, NEW c \in Characters, NEW rec \in Fence!Record, NEW outcome \in Outcomes,
           UNCHANGED fenceVars \/ SaveOrRefuse(c, rec, outcome)
    PROVE  /\ record' \in [Characters -> Fence!Files(Fence!Record)]
           /\ record'[c].now \in {record[c].now, rec}
           /\ record'[c].now # record[c].now => rec.epoch = floor[c] /\ fence[c] = NoToken
           /\ \A d \in Characters \ {c} : record'[d] = record[d]
           /\ UNCHANGED <<fence, floor>>
<1>1. record \in [Characters -> Fence!Files(Fence!Record)]
  BY DEF IInv, TypeOK, Fence!TypeOK
<1>2. CASE fence[c] = NoToken /\ rec.epoch = floor[c] /\ Fence!Save(c, rec, outcome)
  <2>1. /\ Written(record[c], rec, outcome) \in Fence!Files(Fence!Record)
        /\ Written(record[c], rec, outcome).now \in {record[c].now, rec}
        /\ Fence!Written(record[c], rec, outcome) = Written(record[c], rec, outcome)
    BY <1>1, RecordWritten
  <2>2. /\ record' = [record EXCEPT ![c] = Written(record[c], rec, outcome)]
        /\ UNCHANGED <<fence, floor>>
    BY <1>2, <2>1 DEF Fence!Save
  <2> QED BY <1>1, <1>2, <2>1, <2>2
<1>3. CASE UNCHANGED fenceVars
  BY <1>1, <1>3 DEF fenceVars
<1> QED BY <1>2, <1>3 DEF SaveOrRefuse

LEMMA LeaveKeeps ==
    ASSUME Orderly, IInv, NEW c \in Characters, Leave(c)
    PROVE  IInv'
<1>1. /\ Running /\ session[c] = "world"
      /\ session' = [session EXCEPT ![c] = "left"]
      /\ UNCHANGED <<journalVars, owner, reset, startup, record, fence, floor, live, task, saving, visit>>
  BY DEF Leave, worldOnly, fenceVars, journalVars
<1>2. TypeOK'
  BY <1>1 DEF IInv, TypeOK, Journal!TypeOK, Fence!TypeOK, journalVars, Phases
<1>3. \A d \in Characters \ {c} : Character(d)' = Character(d)
  BY <1>1 DEF Character, IInv, TypeOK
<1>4. SessionFits(c)'
  BY <1>1, CharacterTypes, TaskFields
  DEF CharacterFits, SessionFits, At, Attached, Sealed, Running
<1>5. BarrierFits(c)'
  BY <1>1, CharacterTypes, TaskFields
  DEF CharacterFits, BarrierFits, At, Unwritten, Landed
<1>6. WordFits(c)'
  BY <1>1, CharacterTypes, TaskFields
  DEF CharacterFits, SessionFits, WordFits, Word, At, Attached, Sealed, InPack
<1>7. GateFits(c)' /\ ClaimFits(c)'
  BY <1>1, SameIntent
<1> QED BY <1>1, <1>2, <1>3, <1>4, <1>5, <1>6, <1>7, CharacterStep DEF CharacterFits

LEMMA NothingToDetachKeeps ==
    ASSUME Orderly, IInv, NEW c \in Characters, NothingToDetach(c)
    PROVE  IInv'
<1>1. /\ session[c] = "left" /\ task[c] = NoTask
      /\ session' = [session EXCEPT ![c] = "asked"]
      /\ UNCHANGED <<journalVars, owner, reset, startup, record, fence, floor, live, task, saving, visit>>
  BY DEF NothingToDetach, worldOnly, fenceVars, journalVars
<1>2. TypeOK'
  BY <1>1 DEF IInv, TypeOK, Journal!TypeOK, Fence!TypeOK, journalVars, Phases
<1>3. \A d \in Characters \ {c} : Character(d)' = Character(d)
  BY <1>1 DEF Character, IInv, TypeOK
<1>4. SessionFits(c)'
  BY <1>1, CharacterTypes, TaskFields
  DEF CharacterFits, SessionFits, At, Attached, Sealed, Running
<1>5. BarrierFits(c)'
  BY <1>1, CharacterTypes, TaskFields
  DEF CharacterFits, BarrierFits, At, Unwritten, Landed
<1>6. WordFits(c)'
  BY <1>1, CharacterTypes, TaskFields
  DEF CharacterFits, SessionFits, WordFits, Word, At, Attached, Sealed, InPack
<1>7. GateFits(c)' /\ ClaimFits(c)'
  BY <1>1, SameIntent
<1> QED BY <1>1, <1>2, <1>3, <1>4, <1>5, <1>6, <1>7, CharacterStep DEF CharacterFits

(* A life that goes on keeps its epoch, and its wear while a claim owns the  *)
(* pack.                                                                     *)
LEMMA LifeGoesOn ==
    ASSUME Orderly, IInv, NEW c \in Characters, NEW new \in Fence!Record,
           session[c] = "world", live' = [live EXCEPT ![c] = new],
           UNCHANGED <<journalVars, owner, reset, startup, record, fence, floor, session, task, saving, visit>>,
           new.epoch = live[c].epoch,
           At(c, InPack) => new.life.wear = live[c].life.wear
    PROVE  IInv'
<1>1. /\ session[c] = "world" /\ live' = [live EXCEPT ![c] = new] /\ new # NoLife
      /\ new.epoch = live[c].epoch /\ (At(c, InPack) => new.life.wear = live[c].life.wear)
      /\ UNCHANGED <<journalVars, owner, reset, startup, record, fence, floor, session, task, saving, visit>>
  BY RecordFields
<1>2. TypeOK'
  BY <1>1 DEF IInv, TypeOK, Journal!TypeOK, Fence!TypeOK, journalVars, Phases
<1>3. \A d \in Characters \ {c} : Character(d)' = Character(d)
  BY <1>1 DEF Character, IInv, TypeOK
<1>4. SessionFits(c)'
  BY <1>1, CharacterTypes, TaskFields
  DEF CharacterFits, SessionFits, At, Attached, Sealed, Running
<1>5. BarrierFits(c)'
  BY <1>1, CharacterTypes, TaskFields
  DEF CharacterFits, BarrierFits, At, Unwritten, Landed
<1>6. WordFits(c)'
  BY <1>1, CharacterTypes, TaskFields
  DEF CharacterFits, SessionFits, WordFits, Word, At, Attached, Sealed, InPack
<1>7. GateFits(c)' /\ ClaimFits(c)'
  BY <1>1, SameIntent
<1> QED BY <1>1, <1>2, <1>3, <1>4, <1>5, <1>6, <1>7, CharacterStep DEF CharacterFits

LEMMA ChangePackKeeps ==
    ASSUME Orderly, IInv, NEW c \in Characters, ChangePack(c)
    PROVE  IInv'
<1> DEFINE new == [live[c] EXCEPT !.life.pack = @ + 1]
<1>1. live[c] \in Fence!Record
  BY CharacterTypes DEF ChangePack, CharacterFits, SessionFits
<1>2. /\ new \in Fence!Record /\ new.epoch = live[c].epoch
      /\ new.life.wear = live[c].life.wear
  BY <1>1, RewardCoordinatorAssumption DEF ChangePack, Fence!Record, Life
<1>3. live' = [live EXCEPT ![c] = new]
  BY DEF ChangePack
<1> HIDE DEF new
<1> QED BY <1>2, <1>3, LifeGoesOn DEF ChangePack, worldOnly, fenceVars

LEMMA EarnExperienceKeeps ==
    ASSUME Orderly, IInv, NEW c \in Characters, EarnExperience(c)
    PROVE  IInv'
<1> DEFINE new == [live[c] EXCEPT !.life.experience = @ + 1]
<1>1. live[c] \in Fence!Record
  BY CharacterTypes DEF EarnExperience, CharacterFits, SessionFits
<1>2. /\ new \in Fence!Record /\ new.epoch = live[c].epoch
      /\ new.life.wear = live[c].life.wear
  BY <1>1, RewardCoordinatorAssumption DEF EarnExperience, Fence!Record, Life
<1>3. live' = [live EXCEPT ![c] = new]
  BY DEF EarnExperience
<1> HIDE DEF new
<1> QED BY <1>2, <1>3, LifeGoesOn DEF EarnExperience, worldOnly, fenceVars

LEMMA DieKeeps ==
    ASSUME Orderly, IInv, NEW c \in Characters, Die(c)
    PROVE  IInv'
<1>1. live[c] \in Fence!Record /\ live[c].life.wear + live[c].life.debt < MaxWear
  BY CharacterTypes DEF Die, CharacterFits, SessionFits
<1>2. CASE rewardWearDeferred(c)
  <2> DEFINE new == [live[c] EXCEPT !.life.debt = @ + 1]
  <2>1. /\ new \in Fence!Record /\ new.epoch = live[c].epoch
        /\ new.life.wear = live[c].life.wear
    BY <1>1, RewardCoordinatorAssumption DEF Fence!Record, Life
  <2>2. live' = [live EXCEPT ![c] = new]
    BY <1>2 DEF Die
  <2> HIDE DEF new
  <2> QED BY <2>1, <2>2, LifeGoesOn DEF Die, worldOnly, fenceVars
<1>3. CASE ~rewardWearDeferred(c)
  <2> DEFINE new == [live[c] EXCEPT !.life.wear = @ + 1]
  <2>1. new \in Fence!Record /\ new.epoch = live[c].epoch
    BY <1>1, RewardCoordinatorAssumption DEF Fence!Record, Life
  <2>2. live' = [live EXCEPT ![c] = new] /\ ~At(c, InPack)
    BY <1>3 DEF Die, rewardWearDeferred, InPack
  <2> HIDE DEF new
  <2> QED BY <2>1, <2>2, LifeGoesOn DEF Die, worldOnly, fenceVars
<1> QED BY <1>2, <1>3

LEMMA CaptureKeeps ==
    ASSUME Orderly, IInv, NEW c \in Characters, Capture(c)
    PROVE  IInv'
<1>1. /\ Running /\ live[c] \in Fence!Record /\ Disk(live[c]) \in Fence!Record
      /\ saving' = [saving EXCEPT ![c] = Disk(live[c])]
      /\ UNCHANGED <<journalVars, owner, reset, startup, record, fence, floor, session, live, task, visit>>
  BY CharacterTypes, DiskRecord DEF Capture, worldOnly, fenceVars, CharacterFits, SessionFits
<1>2. TypeOK'
  BY <1>1 DEF IInv, TypeOK, Journal!TypeOK, Fence!TypeOK, journalVars, Phases
<1>3. \A d \in Characters \ {c} : Character(d)' = Character(d)
  BY <1>1 DEF Character, IInv, TypeOK
<1>4. SessionFits(c)'
  BY <1>1, CharacterTypes, TaskFields
  DEF CharacterFits, SessionFits, At, Attached, Sealed, Running
<1>5. BarrierFits(c)'
  BY <1>1, CharacterTypes, TaskFields
  DEF CharacterFits, BarrierFits, At, Unwritten, Landed
<1>6. WordFits(c)'
  BY <1>1, CharacterTypes, TaskFields
  DEF CharacterFits, SessionFits, WordFits, Word, At, Attached, Sealed, InPack
<1>7. GateFits(c)' /\ ClaimFits(c)'
  BY <1>1, SameIntent
<1> QED BY <1>1, <1>2, <1>3, <1>4, <1>5, <1>6, <1>7, CharacterStep DEF CharacterFits

LEMMA ClaimKeeps ==
    ASSUME Orderly, IInv, NEW c \in Characters, NEW parts \in SUBSET Parts, ClaimBossReward(c, parts)
    PROVE  IInv'
<1>1. /\ Running /\ task[c] = NoTask /\ ~reset /\ session[c] \in {"world", "left"}
      /\ UNCHANGED <<journalVars, owner, reset, startup, record, fence, floor, session, live, saving, visit>>
  BY DEF ClaimBossReward, Orderly, worldOnly, fenceVars
<1>2. PICK t \in Task : /\ task' = [task EXCEPT ![c] = t] /\ t # NoTask
                        /\ t.stage = "claimed" /\ t.last = NoLife
  <2>1. PICK g \in DOMAIN journal.runs :
           task' = [task EXCEPT ![c] = [stage |-> "claimed", gen |-> g, parts |-> parts,
                       image |-> NoLife, last |-> NoLife, place |-> "open"]]
    BY DEF ClaimBossReward
  <2>2. g \in 1..Cardinality(RunIds)
    BY DEF IInv, TypeOK, Journal!TypeOK, Journal!Image, Journal!Generations
  <2> DEFINE t == [stage |-> "claimed", gen |-> g, parts |-> parts,
                   image |-> NoLife, last |-> NoLife, place |-> "open"]
  <2>3. t \in Task /\ t.stage = "claimed" /\ t.last = NoLife
    BY <2>2 DEF Task, Stages, Places
  <2> HIDE DEF t
  <2> QED BY <2>1, <2>3, TaskFields DEF t
<1>3. TypeOK'
  BY <1>1, <1>2
  DEF IInv, TypeOK, Journal!TypeOK, Fence!TypeOK, journalVars, Phases
<1>4. \A d \in Characters \ {c} : Character(d)' = Character(d)
  BY <1>1, <1>2 DEF Character, IInv, TypeOK
<1>5. SessionFits(c)'
  BY <1>1, <1>2, CharacterTypes, TaskFields
  DEF CharacterFits, SessionFits, At, Attached, Sealed, Running
<1>6. BarrierFits(c)'
  BY <1>1, <1>2, CharacterTypes, TaskFields
  DEF CharacterFits, BarrierFits, At, Unwritten, Landed
<1>7. WordFits(c)'
  BY <1>1, <1>2, CharacterTypes, TaskFields
  DEF CharacterFits, SessionFits, WordFits, Word, At, Attached, Sealed, InPack
<1>8. GateFits(c)' /\ ClaimFits(c)'
  BY <1>1, <1>2, CharacterTypes, NothingJournaled DEF At
<1> QED BY <1>1, <1>3, <1>4, <1>5, <1>6, <1>7, <1>8, CharacterStep DEF CharacterFits

LEMMA ReserveKeeps ==
    ASSUME Orderly, IInv, NEW c \in Characters, Fence!ReserveReward(c), Advance(c, "reserved"), At(c, {"claimed"}),
           UNCHANGED <<journalVars, owner, reset, startup, session, live, saving, visit>>
    PROVE  IInv'
<1>1. /\ Advance(c, "reserved")
      /\ At(c, {"claimed"}) /\ fence[c] = NoToken
      /\ record[c].now.epoch = floor[c] /\ floor[c] < MaxEpoch
      /\ UNCHANGED <<journalVars, owner, reset, startup, record, floor, session, live, saving, visit>>
  BY DEF Fence!ReserveReward, Fence!Fenced, At
<1>2. /\ task[c] \in Task /\ task'[c] \in Task /\ task'[c].stage = "reserved"
      /\ task'[c].gen = task[c].gen /\ task'[c].parts = task[c].parts
      /\ task'[c].image = task[c].image /\ task'[c].last = task[c].last
      /\ task'[c].place = task[c].place /\ task'[c] # NoTask
      /\ task' \in [Characters -> Task \cup {NoTask}]
      /\ \A d \in Characters \ {c} : task'[d] = task[d]
  BY <1>1, StageMoves DEF At, Stages
<1>3. PICK token \in Fence!Token :
               /\ fence' = [fence EXCEPT ![c] = token] /\ token # NoToken
               /\ token.epoch = floor[c] + 1 /\ ~token.intent /\ ~token.written
  <2> DEFINE token == [epoch |-> floor[c] + 1, intent |-> FALSE, written |-> FALSE,
                       postimage |-> record[c].now]
  <2>1. floor[c] + 1 \in 0..MaxEpoch /\ record[c].now \in Fence!Record
    BY <1>1, CharacterTypes, Bounds
  <2>2. token \in Fence!Token
    BY <2>1, Bounds DEF Fence!Token
  <2>3. fence' = [fence EXCEPT ![c] = token]
    BY DEF Fence!ReserveReward
  <2> QED BY <2>2, <2>3, RewardCoordinatorAssumption
<1>4. /\ fence'[c] = token
  BY <1>3 DEF IInv, TypeOK, Fence!TypeOK
<1>5. TypeOK'
  BY <1>1, <1>2, <1>3, <1>4
  DEF IInv, TypeOK, Journal!TypeOK, Fence!TypeOK, journalVars, Phases
<1>6. \A d \in Characters \ {c} : Character(d)' = Character(d)
  BY <1>1, <1>2, <1>3, <1>4 DEF Character, IInv, TypeOK, Fence!TypeOK
<1>7. SessionFits(c)'
  BY <1>1, <1>2, <1>3, <1>4, CharacterTypes, TaskFields
  DEF CharacterFits, SessionFits, At, Attached, Sealed, Running
<1>8. BarrierFits(c)'
  BY <1>1, <1>2, <1>3, <1>4, CharacterTypes, TaskFields
  DEF CharacterFits, BarrierFits, At, Unwritten, Landed
<1>9. WordFits(c)'
  BY <1>1, <1>2, <1>3, <1>4, CharacterTypes, TaskFields
  DEF CharacterFits, SessionFits, WordFits, Word, At, Attached, Sealed, InPack
<1>10. GateFits(c)' /\ ClaimFits(c)'
  BY <1>1, <1>2, <1>3, <1>4, CharacterTypes, NothingJournaled DEF At
<1> QED BY <1>1, <1>5, <1>6, <1>7, <1>8, <1>9, <1>10, CharacterStep DEF CharacterFits

LEMMA RefuseKeeps ==
    ASSUME Orderly, IInv, NEW c \in Characters, At(c, {"claimed"}), EndAttached(c),
           UNCHANGED <<journalVars, owner, reset, startup, record, fence, floor, session, live, saving, visit>>
    PROVE  IInv'
<1>1. /\ At(c, {"claimed"}) /\ task' = [task EXCEPT ![c] = NoTask]
      /\ UNCHANGED <<journalVars, owner, reset, startup, record, fence, floor, session, live, saving, visit>>
  BY DEF EndAttached
<1>2. /\ task'[c] = NoTask
  BY <1>1 DEF IInv, TypeOK, Fence!TypeOK
<1>3. TypeOK'
  BY <1>1, <1>2
  DEF IInv, TypeOK, Journal!TypeOK, Fence!TypeOK, journalVars, Phases
<1>4. \A d \in Characters \ {c} : Character(d)' = Character(d)
  BY <1>1, <1>2 DEF Character, IInv, TypeOK
<1>5. SessionFits(c)'
  BY <1>1, <1>2, CharacterTypes, TaskFields
  DEF CharacterFits, SessionFits, At, Attached, Sealed, Running
<1>6. BarrierFits(c)'
  BY <1>1, <1>2, CharacterTypes, TaskFields
  DEF CharacterFits, BarrierFits, At, Unwritten, Landed
<1>7. WordFits(c)'
  BY <1>1, <1>2, CharacterTypes, TaskFields
  DEF CharacterFits, SessionFits, WordFits, Word, At, Attached, Sealed, InPack
<1>8. GateFits(c)' /\ ClaimFits(c)'
  BY <1>1, <1>2, CharacterTypes, NothingJournaled DEF At
<1> QED BY <1>1, <1>3, <1>4, <1>5, <1>6, <1>7, <1>8, CharacterStep DEF CharacterFits

LEMMA RefuseLiveKeeps ==
    ASSUME Orderly, IInv, NEW c \in Characters, RefuseLive(c)
    PROVE  IInv'
<1>1. /\ At(c, {"reserved"}) /\ task' = [task EXCEPT ![c] = NoTask]
      /\ fence' = [fence EXCEPT ![c] = NoToken]
      /\ UNCHANGED <<journalVars, owner, reset, startup, record, floor, session, live, saving, visit>>
  BY DEF RefuseLive, EndAttached, Fence!AbortReward
<1>2. /\ task'[c] = NoTask
      /\ fence'[c] = NoToken
  BY <1>1 DEF IInv, TypeOK, Fence!TypeOK
<1>3. TypeOK'
  BY <1>1, <1>2
  DEF IInv, TypeOK, Journal!TypeOK, Fence!TypeOK, journalVars, Phases
<1>4. \A d \in Characters \ {c} : Character(d)' = Character(d)
  BY <1>1, <1>2 DEF Character, IInv, TypeOK, Fence!TypeOK
<1>5. SessionFits(c)'
  BY <1>1, <1>2, CharacterTypes, TaskFields
  DEF CharacterFits, SessionFits, At, Attached, Sealed, Running
<1>6. BarrierFits(c)'
  BY <1>1, <1>2, CharacterTypes, TaskFields
  DEF CharacterFits, BarrierFits, At, Unwritten, Landed
<1>7. WordFits(c)'
  BY <1>1, <1>2, CharacterTypes, TaskFields
  DEF CharacterFits, SessionFits, WordFits, Word, At, Attached, Sealed, InPack
<1>8. GateFits(c)' /\ ClaimFits(c)'
  BY <1>1, <1>2, CharacterTypes, NothingJournaled DEF At
<1> QED BY <1>1, <1>3, <1>4, <1>5, <1>6, <1>7, <1>8, CharacterStep DEF CharacterFits

LEMMA ReserveLiveKeeps ==
    ASSUME Orderly, IInv, NEW c \in Characters, NEW fit \in SUBSET Parts, ReserveLive(c, fit)
    PROVE  IInv'
<1>1. /\ At(c, {"reserved"}) /\ session[c] = "world"
      /\ live[c].epoch = record[c].now.epoch
      /\ task' = [task EXCEPT ![c].stage = "imaged", ![c].parts = fit,
                              ![c].image = Disk(WithGrants(live[c], fit))]
      /\ UNCHANGED <<journalVars, owner, reset, startup, record, fence, floor, session, live, saving, visit>>
  BY DEF ReserveLive, worldOnly, fenceVars
<1>2. /\ Disk(WithGrants(live[c], fit)) \in Fence!Record
      /\ Disk(WithGrants(live[c], fit)) # NoLife
      /\ Disk(WithGrants(live[c], fit)).life.debt = 0
      /\ Disk(WithGrants(live[c], fit)).life.wear = live[c].life.wear
  <2>1. /\ live[c] \in Fence!Record /\ live[c].epoch = floor[c]
        /\ fence[c] \in Fence!Token /\ fence[c].epoch = floor[c] + 1
    BY <1>1, CharacterTypes DEF CharacterFits, SessionFits, BarrierFits, At, Unwritten
  <2>2. live[c].epoch < MaxEpoch
    BY <2>1, CharacterTypes, Bounds
  <2> QED BY <2>1, <2>2, GrantedRecord, DiskRecord, RecordFields
<1>3. /\ task[c] \in Task /\ task'[c] \in Task /\ task'[c].stage = "imaged"
      /\ task'[c].image = Disk(WithGrants(live[c], fit)) /\ task'[c].last = task[c].last
  BY <1>1, <1>2, CharacterTypes DEF At, IInv, TypeOK, Task, Stages
<1>4. TypeOK'
  BY <1>1, <1>2, <1>3
  DEF IInv, TypeOK, Journal!TypeOK, Fence!TypeOK, journalVars, Phases
<1>5. \A d \in Characters \ {c} : Character(d)' = Character(d)
  BY <1>1, <1>2, <1>3 DEF Character, IInv, TypeOK
<1>6. SessionFits(c)'
  BY <1>1, <1>2, <1>3, CharacterTypes, TaskFields
  DEF CharacterFits, SessionFits, At, Attached, Sealed, Running
<1>7. BarrierFits(c)'
  BY <1>1, <1>2, <1>3, CharacterTypes, TaskFields
  DEF CharacterFits, BarrierFits, At, Unwritten, Landed
<1>8. WordFits(c)'
  BY <1>1, <1>2, <1>3, CharacterTypes, TaskFields
  DEF CharacterFits, SessionFits, WordFits, Word, At, Attached, Sealed, InPack
<1>9. GateFits(c)' /\ ClaimFits(c)'
  BY <1>1, <1>2, <1>3, CharacterTypes, TaskFields
  DEF GateFits, ClaimFits, At, IntentOf, journalVars, Journal!WithIntent,
      Journal!Acknowledged, Journal!SharesOf
<1> QED BY <1>1, <1>4, <1>5, <1>6, <1>7, <1>8, <1>9, CharacterStep DEF CharacterFits

LEMMA SealKeeps ==
    ASSUME Orderly, IInv, NEW c \in Characters, Seal(c)
    PROVE  IInv'
<1>1. /\ At(c, {"imaged"}) /\ ValidateClaim(c)
      /\ fence[c] # NoToken /\ task[c].image.epoch = fence[c].epoch
      /\ fence' = [fence EXCEPT ![c].intent = TRUE, ![c].postimage = task[c].image]
      /\ Advance(c, "sealed")
      /\ UNCHANGED <<journalVars, owner, reset, startup, record, floor, session, live, saving, visit>>
  BY DEF Seal, Fence!BeginRewardIntent, Fence!Fenced
<1>2. /\ task[c] \in Task /\ task'[c] \in Task /\ task'[c].stage = "sealed"
      /\ task'[c].gen = task[c].gen /\ task'[c].parts = task[c].parts
      /\ task'[c].image = task[c].image /\ task'[c].last = task[c].last
      /\ task'[c].place = task[c].place /\ task'[c] # NoTask
      /\ task' \in [Characters -> Task \cup {NoTask}]
      /\ \A d \in Characters \ {c} : task'[d] = task[d]
  BY <1>1, StageMoves DEF At, Stages
<1>3. /\ fence[c] \in Fence!Token /\ fence'[c] \in Fence!Token /\ fence'[c] # NoToken
      /\ fence'[c].epoch = fence[c].epoch /\ fence'[c].written = fence[c].written
      /\ fence'[c].intent /\ fence'[c].postimage = task[c].image
  <2>1. task[c].image \in Fence!Record /\ fence[c] \in Fence!Token
    BY <1>1, <1>2, CharacterTypes, TaskFields DEF CharacterFits, WordFits, InPack, At
  <2> QED BY <1>1, <2>1, RewardCoordinatorAssumption DEF IInv, TypeOK, Fence!TypeOK, Fence!Token
<1>4. Journal!SharesOf(IntentOf(c)) \subseteq journal.owed \ journal.taken
  <2>1. IntentOf(c) \in Journal!WithIntent(journal, IntentOf(c)).intents
    BY DEF IInv, TypeOK, Journal!TypeOK, Journal!Image, Journal!WithIntent
  <2>2. /\ Journal!WithIntent(journal, IntentOf(c)).owed = journal.owed
        /\ Journal!WithIntent(journal, IntentOf(c)).taken = journal.taken
    BY DEF IInv, TypeOK, Journal!TypeOK, Journal!Image, Journal!WithIntent
  <2> QED BY <1>1, <2>1, <2>2 DEF ValidateClaim, Journal!Valid, Journal!ValidIntent
<1>5. TypeOK'
  BY <1>1, <1>2, <1>3, <1>4
  DEF IInv, TypeOK, Journal!TypeOK, Fence!TypeOK, journalVars, Phases
<1>6. \A d \in Characters \ {c} : Character(d)' = Character(d)
  BY <1>1, <1>2, <1>3, <1>4 DEF Character, IInv, TypeOK, Fence!TypeOK
<1>7. SessionFits(c)'
  BY <1>1, <1>2, <1>3, <1>4, CharacterTypes, TaskFields
  DEF CharacterFits, SessionFits, At, Attached, Sealed, Running
<1>8. BarrierFits(c)'
  BY <1>1, <1>2, <1>3, <1>4, CharacterTypes, TaskFields
  DEF CharacterFits, BarrierFits, At, Unwritten, Landed
<1>9. WordFits(c)'
  BY <1>1, <1>2, <1>3, <1>4, CharacterTypes, TaskFields
  DEF CharacterFits, SessionFits, WordFits, Word, At, Attached, Sealed, InPack
<1>10. GateFits(c)' /\ ClaimFits(c)'
  BY <1>1, <1>2, <1>3, <1>4, CharacterTypes, TaskFields
  DEF GateFits, ClaimFits, At, IntentOf, journalVars, Journal!WithIntent,
      Journal!Acknowledged, Journal!SharesOf
<1> QED BY <1>1, <1>5, <1>6, <1>7, <1>8, <1>9, <1>10, CharacterStep DEF CharacterFits

LEMMA RefuseSealKeeps ==
    ASSUME Orderly, IInv, NEW c \in Characters, RefuseSeal(c)
    PROVE  IInv'
<1>1. /\ At(c, {"imaged"})
      /\ fence' = [fence EXCEPT ![c] = NoToken] /\ task' = [task EXCEPT ![c] = NoTask]
      /\ live' = [live EXCEPT ![c] = Spent(live[c])]
      /\ UNCHANGED <<journalVars, owner, reset, startup, record, floor, session, saving, visit>>
  BY DEF RefuseSeal, EndAttached, Fence!AbortReward
<1>2. /\ session[c] \in {"world", "left"}
      /\ live[c] \in Fence!Record /\ Spent(live[c]) \in Fence!Record
      /\ Spent(live[c]).epoch = live[c].epoch /\ Spent(live[c]) # NoLife
  <2>1. session[c] \in {"world", "left"} /\ live[c] \in Fence!Record
    BY <1>1, CharacterTypes DEF CharacterFits, SessionFits, At, Sealed, Phases
  <2> QED BY <2>1, SpentRecord, RecordFields
<1>3. /\ task'[c] = NoTask
      /\ fence'[c] = NoToken
      /\ live'[c] = Spent(live[c])
  BY <1>1 DEF IInv, TypeOK, Fence!TypeOK
<1>4. TypeOK'
  BY <1>1, <1>2, <1>3
  DEF IInv, TypeOK, Journal!TypeOK, Fence!TypeOK, journalVars, Phases
<1>5. \A d \in Characters \ {c} : Character(d)' = Character(d)
  BY <1>1, <1>2, <1>3 DEF Character, IInv, TypeOK, Fence!TypeOK
<1>6. SessionFits(c)'
  BY <1>1, <1>2, <1>3, CharacterTypes, TaskFields
  DEF CharacterFits, SessionFits, At, Attached, Sealed, Running
<1>7. BarrierFits(c)'
  BY <1>1, <1>2, <1>3, CharacterTypes, TaskFields
  DEF CharacterFits, BarrierFits, At, Unwritten, Landed
<1>8. WordFits(c)'
  BY <1>1, <1>2, <1>3, CharacterTypes, TaskFields
  DEF CharacterFits, SessionFits, WordFits, Word, At, Attached, Sealed, InPack
<1>9. GateFits(c)' /\ ClaimFits(c)'
  BY <1>1, <1>2, <1>3, CharacterTypes, NothingJournaled DEF At
<1> QED BY <1>1, <1>4, <1>5, <1>6, <1>7, <1>8, <1>9, CharacterStep DEF CharacterFits

LEMMA WriteFailsKeeps ==
    ASSUME Orderly, IInv, NEW c \in Characters, NEW outcome \in Outcomes \ {"done"}, WritePrepared(c, outcome)
    PROVE  IInv'
<1>1. /\ At(c, {"prepared"}) /\ fence[c] \in Fence!Token /\ fence[c] # NoToken
      /\ ~fence[c].written /\ fence[c].epoch = floor[c] + 1
      /\ fence[c].intent /\ fence[c].postimage = task[c].image
      /\ task[c].image \in Fence!Record /\ task[c].image.epoch = floor[c] + 1
      /\ record' = [record EXCEPT ![c] = Written(record[c], task[c].image, outcome)]
      /\ UNCHANGED <<journalVars, owner, reset, startup, fence, floor, session, live, task, saving, visit>>
  <2>1. At(c, {"prepared"})
    BY DEF WritePrepared
  <2>2. /\ fence[c] \in Fence!Token /\ fence[c] # NoToken
        /\ ~fence[c].written /\ fence[c].epoch = floor[c] + 1
        /\ fence[c].intent /\ fence[c].postimage = task[c].image
        /\ task[c].image.epoch = fence[c].epoch
    BY <2>1, CharacterTypes DEF CharacterFits, BarrierFits, At, Unwritten
  <2>3. task[c].image \in Fence!Record
    BY <2>2, CharacterTypes
  <2>4. Fence!Written(record[c], task[c].image, outcome) = Written(record[c], task[c].image, outcome)
    BY <2>3, CharacterTypes, RecordWritten
  <2>5. record' = [record EXCEPT ![c] = Fence!Written(record[c], task[c].image, outcome)]
    BY <2>2 DEF WritePrepared, Fence!WritePreparedReward, IInv, TypeOK, Fence!TypeOK
  <2> QED BY <2>1, <2>2, <2>3, <2>4, <2>5 DEF WritePrepared, Fence!WritePreparedReward
<1>2. /\ Written(record[c], task[c].image, outcome) \in Fence!Files(Fence!Record)
      /\ record' \in [Characters -> Fence!Files(Fence!Record)]
  <2>1. Written(record[c], task[c].image, outcome) \in Fence!Files(Fence!Record)
    BY <1>1, CharacterTypes, RecordWritten
  <2> QED BY <1>1, <2>1 DEF IInv, TypeOK, Fence!TypeOK
<1>3. TypeOK'
  BY <1>1, <1>2
  DEF IInv, TypeOK, Journal!TypeOK, Fence!TypeOK, journalVars, Phases
<1>4. \A d \in Characters \ {c} : Character(d)' = Character(d)
  BY <1>1, <1>2 DEF Character, IInv, TypeOK, Fence!TypeOK
<1>5. SessionFits(c)'
  BY <1>1, <1>2, CharacterTypes, TaskFields
  DEF CharacterFits, SessionFits, At, Attached, Sealed, Running
<1>6. BarrierFits(c)'
  BY <1>1, <1>2, CharacterTypes, TaskFields
  DEF CharacterFits, BarrierFits, At, Unwritten, Landed
<1>7. WordFits(c)'
  BY <1>1, <1>2, CharacterTypes, TaskFields
  DEF CharacterFits, SessionFits, WordFits, Word, At, Attached, Sealed, InPack
<1>8. GateFits(c)' /\ ClaimFits(c)'
  BY <1>1, <1>2, SameIntent
<1> QED BY <1>1, <1>3, <1>4, <1>5, <1>6, <1>7, <1>8, CharacterStep DEF CharacterFits

LEMMA WriteLandsKeeps ==
    ASSUME Orderly, IInv, NEW c \in Characters, NEW outcome \in Outcomes, outcome = "done", WritePrepared(c, outcome)
    PROVE  IInv'
<1>1. /\ At(c, {"prepared"}) /\ fence[c] \in Fence!Token /\ fence[c] # NoToken
      /\ ~fence[c].written /\ fence[c].epoch = floor[c] + 1
      /\ fence[c].intent /\ fence[c].postimage = task[c].image
      /\ task[c].image \in Fence!Record /\ task[c].image.epoch = floor[c] + 1
      /\ record' = [record EXCEPT ![c] = Written(record[c], task[c].image, outcome)]
      /\ Advance(c, "written")
      /\ floor' = [floor EXCEPT ![c] = fence[c].epoch]
      /\ fence' = [fence EXCEPT ![c].written = TRUE]
      /\ UNCHANGED <<journalVars, owner, reset, startup, session, live, saving, visit>>
  <2>1. At(c, {"prepared"})
    BY DEF WritePrepared
  <2>2. /\ fence[c] \in Fence!Token /\ fence[c] # NoToken
        /\ ~fence[c].written /\ fence[c].epoch = floor[c] + 1
        /\ fence[c].intent /\ fence[c].postimage = task[c].image
        /\ task[c].image.epoch = fence[c].epoch
    BY <2>1, CharacterTypes DEF CharacterFits, BarrierFits, At, Unwritten
  <2>3. task[c].image \in Fence!Record
    BY <2>2, CharacterTypes
  <2>4. Fence!Written(record[c], task[c].image, outcome) = Written(record[c], task[c].image, outcome)
    BY <2>3, CharacterTypes, RecordWritten
  <2>5. record' = [record EXCEPT ![c] = Fence!Written(record[c], task[c].image, outcome)]
    BY <2>2 DEF WritePrepared, Fence!WritePreparedReward, IInv, TypeOK, Fence!TypeOK
  <2> QED BY <2>1, <2>2, <2>3, <2>4, <2>5 DEF WritePrepared, Fence!WritePreparedReward
<1>2. /\ task[c] \in Task /\ task'[c] \in Task /\ task'[c].stage = "written"
      /\ task'[c].gen = task[c].gen /\ task'[c].parts = task[c].parts
      /\ task'[c].image = task[c].image /\ task'[c].last = task[c].last
      /\ task'[c].place = task[c].place /\ task'[c] # NoTask
      /\ task' \in [Characters -> Task \cup {NoTask}]
      /\ \A d \in Characters \ {c} : task'[d] = task[d]
  BY <1>1, StageMoves DEF At, Stages
<1>3. /\ Written(record[c], task[c].image, outcome) \in Fence!Files(Fence!Record)
      /\ record' \in [Characters -> Fence!Files(Fence!Record)]
  <2>1. Written(record[c], task[c].image, outcome) \in Fence!Files(Fence!Record)
    BY <1>1, CharacterTypes, RecordWritten
  <2> QED BY <1>1, <2>1 DEF IInv, TypeOK, Fence!TypeOK
<1>4. /\ record'[c].now = task[c].image
      /\ floor'[c] = floor[c] + 1 /\ floor[c] \in Nat /\ floor[c] + 1 \in Fence!Epochs
      /\ floor' \in [Characters -> Fence!Epochs]
  <2>1. Written(record[c], task[c].image, outcome).now = task[c].image
    BY <1>1, CharacterTypes, RecordWritten
  <2>2. floor[c] + 1 \in Fence!Epochs /\ floor[c] \in Nat
    BY <1>1, CharacterTypes, Bounds
  <2> QED BY <1>1, <2>1, <2>2 DEF IInv, TypeOK, Fence!TypeOK
<1>5. /\ fence'[c] \in Fence!Token /\ fence'[c] # NoToken /\ fence'[c].written
      /\ fence'[c].epoch = floor[c] + 1 /\ fence'[c].intent /\ fence'[c].postimage = task[c].image
  BY <1>1, RewardCoordinatorAssumption DEF IInv, TypeOK, Fence!TypeOK, Fence!Token
<1>6. Word(c)' = Word(c) /\ (Word(c) # NoLife => Word(c).epoch = floor[c])
  <2>1. Word(c)' = Word(c)
    BY <1>1, <1>2, CharacterTypes DEF Word, Attached, At
  <2> QED BY <1>1, <2>1, CharacterTypes DEF CharacterFits, WordFits, At
<1>7. TypeOK'
  BY <1>1, <1>2, <1>3, <1>4, <1>5, <1>6
  DEF IInv, TypeOK, Journal!TypeOK, Fence!TypeOK, journalVars, Phases
<1>8. \A d \in Characters \ {c} : Character(d)' = Character(d)
  BY <1>1, <1>2, <1>3, <1>4, <1>5, <1>6
  DEF Character, IInv, TypeOK, Fence!TypeOK
<1>9. SessionFits(c)'
  BY <1>1, <1>2, <1>3, <1>4, <1>5, <1>6, CharacterTypes, TaskFields
  DEF CharacterFits, SessionFits, At, Attached, Sealed, Running
<1>10. BarrierFits(c)'
  BY <1>1, <1>2, <1>3, <1>4, <1>5, <1>6, CharacterTypes, TaskFields
  DEF CharacterFits, BarrierFits, At, Unwritten, Landed
<1>11. WordFits(c)'
  <2>1. Word(c)' # NoLife => Word(c)'.epoch = floor'[c] - 1
    BY <1>4, <1>6
  <2>2. task'[c].image # NoLife /\ task'[c].image.life.debt = 0
        /\ task'[c].image.life.wear = Word(c)'.life.wear
    BY <1>1, <1>2, <1>6, CharacterTypes DEF CharacterFits, WordFits, At, InPack
  <2>3. session'[c] # "none"
    BY <1>1, CharacterTypes DEF CharacterFits, SessionFits, At
  <2> QED BY <1>2, <2>1, <2>2, <2>3 DEF WordFits, At
<1>12. GateFits(c)' /\ ClaimFits(c)'
  BY <1>1, <1>2, <1>3, <1>4, <1>5, <1>6, CharacterTypes, TaskFields
  DEF GateFits, ClaimFits, At, IntentOf, journalVars, Journal!WithIntent,
      Journal!Acknowledged, Journal!SharesOf
<1> QED BY <1>1, <1>7, <1>8, <1>9, <1>10, <1>11, <1>12, CharacterStep DEF CharacterFits

LEMMA PublishLiveKeeps ==
    ASSUME Orderly, IInv, NEW c \in Characters, PublishReward(c), Attached(c)
    PROVE  IInv'
<1>1. /\ At(c, {"written"}) /\ Attached(c) /\ Advance(c, "published")
      /\ live' = [live EXCEPT ![c] = Published(live[c], task[c].image)]
      /\ UNCHANGED <<journalVars, owner, reset, startup, record, fence, floor, session, saving, visit>>
  BY DEF PublishReward, worldOnly, fenceVars
<1>2. /\ task[c] \in Task /\ task'[c] \in Task /\ task'[c].stage = "published"
      /\ task'[c].gen = task[c].gen /\ task'[c].parts = task[c].parts
      /\ task'[c].image = task[c].image /\ task'[c].last = task[c].last
      /\ task'[c].place = task[c].place /\ task'[c] # NoTask
      /\ task' \in [Characters -> Task \cup {NoTask}]
      /\ \A d \in Characters \ {c} : task'[d] = task[d]
  BY <1>1, StageMoves DEF At, Stages
<1>3. /\ session[c] \in {"world", "left"} /\ live[c] \in Fence!Record
      /\ task[c].image \in Fence!Record /\ task[c].image.epoch = floor[c]
      /\ task[c].image.life.wear = live[c].life.wear
  <2>1. session[c] \in {"world", "left"} /\ live[c] \in Fence!Record
    BY <1>1, CharacterTypes DEF CharacterFits, SessionFits, At, Phases
  <2>2. task[c].image # NoLife /\ task[c].image.life.wear = live[c].life.wear
    BY <1>1, <2>1, CharacterTypes, RecordFields DEF CharacterFits, WordFits, Word, InPack, At
  <2>3. task[c].image.epoch = floor[c]
    BY <1>1, CharacterTypes DEF CharacterFits, BarrierFits, Landed, At
  <2> QED BY <1>2, <2>1, <2>2, <2>3, TaskFields
<1>4. /\ Published(live[c], task[c].image) \in Fence!Record
      /\ live'[c] = Published(live[c], task[c].image) /\ live'[c].epoch = floor[c]
      /\ live'[c] # NoLife
  <2>1. live'[c] = Published(live[c], task[c].image)
    BY <1>1 DEF IInv, TypeOK
  <2>2. /\ Published(live[c], task[c].image) \in Fence!Record
        /\ Published(live[c], task[c].image).epoch = task[c].image.epoch
    BY <1>3, PublishedRecord
  <2> QED BY <1>3, <2>1, <2>2, RecordFields
<1>5. TypeOK'
  BY <1>1, <1>2, <1>3, <1>4
  DEF IInv, TypeOK, Journal!TypeOK, Fence!TypeOK, journalVars, Phases
<1>6. \A d \in Characters \ {c} : Character(d)' = Character(d)
  BY <1>1, <1>2, <1>3, <1>4 DEF Character, IInv, TypeOK
<1>7. SessionFits(c)'
  BY <1>1, <1>2, <1>3, <1>4, CharacterTypes, TaskFields
  DEF CharacterFits, SessionFits, At, Attached, Sealed, Running
<1>8. BarrierFits(c)'
  BY <1>1, <1>2, <1>3, <1>4, CharacterTypes, TaskFields
  DEF CharacterFits, BarrierFits, At, Unwritten, Landed
<1>9. WordFits(c)'
  BY <1>1, <1>2, <1>3, <1>4, CharacterTypes, TaskFields
  DEF CharacterFits, SessionFits, WordFits, Word, At, Attached, Sealed, InPack
<1>10. GateFits(c)' /\ ClaimFits(c)'
  BY <1>1, <1>2, <1>3, <1>4, CharacterTypes, TaskFields
  DEF GateFits, ClaimFits, At, IntentOf, journalVars, Journal!WithIntent,
      Journal!Acknowledged, Journal!SharesOf
<1> QED BY <1>1, <1>5, <1>6, <1>7, <1>8, <1>9, <1>10, CharacterStep DEF CharacterFits

LEMMA PublishLastKeeps ==
    ASSUME Orderly, IInv, NEW c \in Characters, PublishReward(c), ~Attached(c)
    PROVE  IInv'
<1>1. /\ At(c, {"written"}) /\ task[c] \in Task /\ ~Attached(c)
      /\ task' = [task EXCEPT ![c].stage = "published",
                              ![c].last = Published(task[c].last, task[c].image)]
      /\ ReplaceDisconnectedLife(c, Published(task[c].last, task[c].image))
      /\ UNCHANGED <<journalVars, owner, reset, startup, record, fence, floor, session, live, saving>>
  BY CharacterTypes DEF PublishReward, worldOnly, fenceVars, At
<1>2. /\ session[c] = "gone" /\ task[c].last \in Fence!Record
      /\ task[c].image \in Fence!Record /\ task[c].image.epoch = floor[c]
      /\ task[c].image.life.wear = task[c].last.life.wear
  <2>1. session[c] = "gone" /\ live[c] = NoLife /\ task[c].last \in Fence!Record
    BY <1>1, CharacterTypes, TaskFields DEF CharacterFits, SessionFits, At, Attached, Phases
  <2>2. task[c].image # NoLife /\ task[c].image.life.wear = task[c].last.life.wear
    BY <1>1, <2>1, CharacterTypes, RecordFields DEF CharacterFits, WordFits, Word, InPack, At
  <2>3. task[c].image.epoch = floor[c]
    BY <1>1, CharacterTypes DEF CharacterFits, BarrierFits, Landed, At
  <2> QED BY <1>1, <2>1, <2>2, <2>3, TaskFields
<1>3. PICK published \in Fence!Record :
               /\ published = Published(task[c].last, task[c].image)
               /\ published.epoch = floor[c] /\ published # NoLife
  BY <1>2, PublishedRecord, RecordFields
<1>4. /\ task'[c] \in Task /\ task'[c] # NoTask /\ task'[c].stage = "published"
      /\ task'[c].gen = task[c].gen /\ task'[c].parts = task[c].parts
      /\ task'[c].image = task[c].image /\ task'[c].last = published
      /\ task'[c].place = task[c].place
      /\ visit'[c] = NoLife \/ (task[c].place = "visit" /\ visit'[c] = published)
      /\ visit' \in [Characters -> Fence!Record \cup {NoLife}]
      /\ task' \in [Characters -> Task \cup {NoTask}]
      /\ \A d \in Characters \ {c} : task'[d] = task[d] /\ visit'[d] = visit[d]
  <2>1. visit[c] = NoLife \/ (task[c].place = "visit" /\ visit[c] = task[c].last)
    <3>1. SessionFits(c)
      BY CharacterTypes DEF CharacterFits
    <3> QED BY <1>2, <3>1 DEF SessionFits
  <2>2. /\ task'[c] = [task[c] EXCEPT !.stage = "published", !.last = published]
        /\ \A d \in Characters \ {c} : task'[d] = task[d]
        /\ task' \in [Characters -> Task \cup {NoTask}]
    BY <1>1, <1>3 DEF IInv, TypeOK, Task, Stages
  <2>3. /\ task'[c] \in Task /\ task'[c].stage = "published"
        /\ task'[c].gen = task[c].gen /\ task'[c].parts = task[c].parts
        /\ task'[c].image = task[c].image /\ task'[c].last = published
    BY <1>1, <1>3, <2>2 DEF Task, Stages
  <2>4. /\ visit'[c] \in {visit[c], published}
        /\ visit' \in [Characters -> Fence!Record \cup {NoLife}]
        /\ \A d \in Characters \ {c} : visit'[d] = visit[d]
    BY <1>1, <1>3 DEF ReplaceDisconnectedLife, IInv, TypeOK
  <2>5. /\ visit'[c] = NoLife \/ (task[c].place = "visit" /\ visit'[c] = published)
        /\ task'[c].place = task[c].place
    BY <1>1, <1>2, <1>3, <2>1, <2>2, RecordFields DEF ReplaceDisconnectedLife, IInv, TypeOK, Task
  <2> QED BY <2>2, <2>3, <2>4, <2>5, TaskFields
<1>5. TypeOK'
  BY <1>1, <1>2, <1>3, <1>4
  DEF IInv, TypeOK, Journal!TypeOK, Fence!TypeOK, journalVars, Phases
<1>6. \A d \in Characters \ {c} : Character(d)' = Character(d)
  BY <1>1, <1>2, <1>3, <1>4 DEF Character, IInv, TypeOK
<1>7. SessionFits(c)'
  BY <1>1, <1>2, <1>3, <1>4, CharacterTypes, TaskFields
  DEF CharacterFits, SessionFits, At, Attached, Sealed, Running
<1>8. BarrierFits(c)'
  BY <1>1, <1>2, <1>3, <1>4, CharacterTypes, TaskFields
  DEF CharacterFits, BarrierFits, At, Unwritten, Landed
<1>9. WordFits(c)'
  BY <1>1, <1>2, <1>3, <1>4, CharacterTypes, TaskFields
  DEF CharacterFits, SessionFits, WordFits, Word, At, Attached, Sealed, InPack
<1>10. GateFits(c)' /\ ClaimFits(c)'
  BY <1>1, <1>2, <1>3, <1>4, CharacterTypes, TaskFields
  DEF GateFits, ClaimFits, At, IntentOf, journalVars, Journal!WithIntent,
      Journal!Acknowledged, Journal!SharesOf
<1> QED BY <1>1, <1>5, <1>6, <1>7, <1>8, <1>9, <1>10, CharacterStep DEF CharacterFits

LEMMA FinishAttachedKeeps ==
    ASSUME Orderly, IInv, NEW c \in Characters, FinishReward(c), Attached(c)
    PROVE  IInv'
<1>1. /\ At(c, {"acknowledged"}) /\ Attached(c)
      /\ fence' = [fence EXCEPT ![c] = NoToken] /\ task' = [task EXCEPT ![c] = NoTask]
      /\ UNCHANGED <<journalVars, owner, reset, startup, record, floor, session, live, saving, visit>>
  BY DEF FinishReward, EndAttached, Fence!ReleaseReward
<1>2. /\ fence'[c] = NoToken
      /\ task'[c] = NoTask
  BY <1>1 DEF IInv, TypeOK, Fence!TypeOK
<1>3. TypeOK'
  BY <1>1, <1>2
  DEF IInv, TypeOK, Journal!TypeOK, Fence!TypeOK, journalVars, Phases
<1>4. \A d \in Characters \ {c} : Character(d)' = Character(d)
  BY <1>1, <1>2 DEF Character, IInv, TypeOK, Fence!TypeOK
<1>5. SessionFits(c)'
  BY <1>1, <1>2, CharacterTypes, TaskFields
  DEF CharacterFits, SessionFits, At, Attached, Sealed, Running
<1>6. BarrierFits(c)'
  BY <1>1, <1>2, CharacterTypes, TaskFields
  DEF CharacterFits, BarrierFits, At, Unwritten, Landed
<1>7. WordFits(c)'
  BY <1>1, <1>2, CharacterTypes, TaskFields
  DEF CharacterFits, SessionFits, WordFits, Word, At, Attached, Sealed, InPack
<1>8. GateFits(c)' /\ ClaimFits(c)'
  BY <1>1, <1>2, CharacterTypes, NothingJournaled DEF At
<1> QED BY <1>1, <1>3, <1>4, <1>5, <1>6, <1>7, <1>8, CharacterStep DEF CharacterFits

LEMMA FinishDetachedKeeps ==
    ASSUME Orderly, IInv, NEW c \in Characters, FinishReward(c), ~Attached(c)
    PROVE  IInv'
<1>1. /\ At(c, {"acknowledged"}) /\ ~Attached(c) /\ Advance(c, "ended")
      /\ fence' = [fence EXCEPT ![c] = NoToken]
      /\ UNCHANGED <<journalVars, owner, reset, startup, record, floor, session, live, saving, visit>>
  BY DEF FinishReward, Fence!ReleaseReward
<1>2. /\ task[c] \in Task /\ task'[c] \in Task /\ task'[c].stage = "ended"
      /\ task'[c].gen = task[c].gen /\ task'[c].parts = task[c].parts
      /\ task'[c].image = task[c].image /\ task'[c].last = task[c].last
      /\ task'[c].place = task[c].place /\ task'[c] # NoTask
      /\ task' \in [Characters -> Task \cup {NoTask}]
      /\ \A d \in Characters \ {c} : task'[d] = task[d]
  BY <1>1, StageMoves DEF At, Stages
<1>3. /\ fence'[c] = NoToken
  BY <1>1 DEF IInv, TypeOK, Fence!TypeOK
<1>4. session[c] = "gone"
  BY <1>1, CharacterTypes DEF CharacterFits, SessionFits, At, Phases
<1>5. TypeOK'
  BY <1>1, <1>2, <1>3, <1>4
  DEF IInv, TypeOK, Journal!TypeOK, Fence!TypeOK, journalVars, Phases
<1>6. \A d \in Characters \ {c} : Character(d)' = Character(d)
  BY <1>1, <1>2, <1>3, <1>4 DEF Character, IInv, TypeOK, Fence!TypeOK
<1>7. SessionFits(c)'
  BY <1>1, <1>2, <1>3, <1>4, CharacterTypes, TaskFields
  DEF CharacterFits, SessionFits, At, Attached, Sealed, Running
<1>8. BarrierFits(c)'
  BY <1>1, <1>2, <1>3, <1>4, CharacterTypes, TaskFields
  DEF CharacterFits, BarrierFits, At, Unwritten, Landed
<1>9. WordFits(c)'
  BY <1>1, <1>2, <1>3, <1>4, CharacterTypes, TaskFields
  DEF CharacterFits, SessionFits, WordFits, Word, At, Attached, Sealed, InPack
<1>10. GateFits(c)' /\ ClaimFits(c)'
  BY <1>1, <1>2, <1>3, <1>4, CharacterTypes, NothingJournaled DEF At
<1> QED BY <1>1, <1>5, <1>6, <1>7, <1>8, <1>9, <1>10, CharacterStep DEF CharacterFits

LEMMA DetachKeeps ==
    ASSUME Orderly, IInv, NEW c \in Characters, NEW place \in Places, DetachReward(c, place)
    PROVE  IInv'
<1>1. /\ session[c] = "left" /\ task[c] \in Task /\ task[c] # NoTask
      /\ task[c].stage \in Stages \ {"claimed", "reserved", "imaged", "ended"}
      /\ live[c] \in Fence!Record /\ live[c] # NoLife /\ visit[c] = NoLife /\ task[c].last = NoLife
      /\ session' = [session EXCEPT ![c] = "gone"]
      /\ live' = [live EXCEPT ![c] = NoLife]
      /\ task' = [task EXCEPT ![c].last = live[c], ![c].place = place]
      /\ UNCHANGED <<journalVars, owner, reset, startup, record, fence, floor, saving>>
  <2>1. session[c] = "left" /\ task[c] # NoTask /\ ~Reserving(c)
    BY DEF DetachReward
  <2>2. task[c] \in Task /\ task[c].stage \in Stages \ {"claimed", "reserved", "imaged"}
    BY <2>1, CharacterTypes, TaskFields DEF Reserving, At
  <2>3. /\ live[c] \in Fence!Record /\ live[c] # NoLife /\ visit[c] = NoLife
        /\ task[c].last = NoLife /\ task[c].stage # "ended"
    BY <2>1, CharacterTypes DEF CharacterFits, SessionFits, Attached, At
  <2> QED BY <2>1, <2>2, <2>3 DEF DetachReward, worldOnly, fenceVars
<1>2. /\ task'[c] \in Task /\ task'[c] # NoTask /\ task'[c].stage = task[c].stage
      /\ task'[c].gen = task[c].gen /\ task'[c].parts = task[c].parts
      /\ task'[c].image = task[c].image /\ task'[c].last = live[c] /\ task'[c].place = place
      /\ task' \in [Characters -> Task \cup {NoTask}]
      /\ \A d \in Characters \ {c} : task'[d] = task[d]
  <2>1. /\ task'[c] = [task[c] EXCEPT !.last = live[c], !.place = place]
        /\ task' \in [Characters -> Task \cup {NoTask}]
        /\ \A d \in Characters \ {c} : task'[d] = task[d]
    BY <1>1 DEF IInv, TypeOK, Task
  <2>2. /\ task'[c] \in Task /\ task'[c].stage = task[c].stage
        /\ task'[c].gen = task[c].gen /\ task'[c].parts = task[c].parts
        /\ task'[c].image = task[c].image /\ task'[c].last = live[c] /\ task'[c].place = place
    BY <1>1, <2>1 DEF Task
  <2> QED BY <2>1, <2>2, TaskFields
<1>3. /\ visit'[c] = NoLife \/ (place = "visit" /\ visit'[c] = live[c])
      /\ visit' \in [Characters -> Fence!Record \cup {NoLife}]
      /\ \A d \in Characters \ {c} : visit'[d] = visit[d]
  BY <1>1 DEF DetachReward, Disconnect, IInv, TypeOK
<1>4. /\ session'[c] = "gone" /\ live'[c] = NoLife
      /\ Word(c) = live[c] /\ Word(c)' = live[c]
  <2>1. live'[c] = NoLife /\ session'[c] = "gone"
    BY <1>1 DEF IInv, TypeOK
  <2> QED BY <1>1, <1>2, <2>1 DEF Word, Attached
<1>5. TypeOK'
  BY <1>1, <1>2, <1>3, <1>4
  DEF IInv, TypeOK, Journal!TypeOK, Fence!TypeOK, journalVars, Phases
<1>6. \A d \in Characters \ {c} : Character(d)' = Character(d)
  BY <1>1, <1>2, <1>3, <1>4 DEF Character, IInv, TypeOK
<1>7. SessionFits(c)'
  BY <1>1, <1>2, <1>3, <1>4, CharacterTypes
  DEF CharacterFits, SessionFits, At, Attached, Sealed, Running, Stages
<1>8. BarrierFits(c)'
  BY <1>1, <1>2, <1>3, <1>4, CharacterTypes, TaskFields
  DEF CharacterFits, BarrierFits, At, Unwritten, Landed
<1>9. WordFits(c)'
  BY <1>1, <1>2, <1>3, <1>4, CharacterTypes, TaskFields
  DEF CharacterFits, SessionFits, WordFits, Word, At, Attached, Sealed, InPack
<1>10. GateFits(c)' /\ ClaimFits(c)'
  BY <1>1, <1>2, <1>3, <1>4, SameIntent
<1> QED BY <1>1, <1>5, <1>6, <1>7, <1>8, <1>9, <1>10, CharacterStep DEF CharacterFits

LEMMA RememberKeeps ==
    ASSUME Orderly, IInv, NEW c \in Characters, NEW place \in Places, NEW outcome \in Outcomes,
           Remember(c, place, outcome)
    PROVE  IInv'
<1>1. /\ session[c] = "asked" /\ task[c] = NoTask
      /\ live[c] \in Fence!Record /\ live[c] # NoLife /\ visit[c] = NoLife /\ live[c].epoch = floor[c]
      /\ session' = [session EXCEPT ![c] = "none"] /\ live' = [live EXCEPT ![c] = NoLife]
      /\ UNCHANGED <<journalVars, owner, task, saving, reset, startup>>
  <2>1. session[c] = "asked"
    BY DEF Remember
  <2>2. task[c] = NoTask /\ live[c] \in Fence!Record /\ live[c] # NoLife /\ visit[c] = NoLife
    BY <2>1, CharacterTypes DEF CharacterFits, SessionFits
  <2>3. live[c].epoch = floor[c]
    BY <2>2, CharacterTypes DEF CharacterFits, WordFits, Word, At
  <2> QED BY <2>1, <2>2, <2>3 DEF Remember
<1>2. /\ record' \in [Characters -> Fence!Files(Fence!Record)]
      /\ record'[c].now \in {record[c].now, Disk(live[c])}
      /\ record'[c].now # record[c].now => Disk(live[c]).epoch = floor[c] /\ fence[c] = NoToken
      /\ \A d \in Characters \ {c} : record'[d] = record[d]
      /\ UNCHANGED <<fence, floor>>
  <2>1. \/ UNCHANGED fenceVars
        \/ SaveOrRefuse(c, Disk(live[c]), outcome)
    BY DEF Remember
  <2>2. Disk(live[c]) \in Fence!Record
    BY <1>1, DiskRecord
  <2> QED BY <2>1, <2>2, SaveKeepsRecords
<1>3. /\ visit'[c] \in {NoLife, live[c]} /\ visit' \in [Characters -> Fence!Record \cup {NoLife}]
      /\ \A d \in Characters \ {c} : visit'[d] = visit[d]
  BY <1>1 DEF Remember, Disconnect, IInv, TypeOK
<1>4. Disk(live[c]).epoch = floor[c] /\ live'[c] = NoLife /\ session'[c] = "none"
  BY <1>1, DiskRecord DEF IInv, TypeOK
<1>5. TypeOK'
  BY <1>1, <1>2, <1>3, <1>4
  DEF IInv, TypeOK, Journal!TypeOK, Fence!TypeOK, journalVars, Phases
<1>6. \A d \in Characters \ {c} : Character(d)' = Character(d)
  BY <1>1, <1>2, <1>3, <1>4 DEF Character, IInv, TypeOK, Fence!TypeOK
<1>7. SessionFits(c)'
  BY <1>1, <1>2, <1>3, <1>4, CharacterTypes, TaskFields
  DEF CharacterFits, SessionFits, At, Attached, Sealed, Running
<1>8. BarrierFits(c)'
  BY <1>1, <1>2, <1>3, <1>4, CharacterTypes, TaskFields
  DEF CharacterFits, BarrierFits, At, Unwritten, Landed
<1>9. WordFits(c)'
  BY <1>1, <1>2, <1>3, <1>4, CharacterTypes, TaskFields
  DEF CharacterFits, SessionFits, WordFits, Word, At, Attached, Sealed, InPack
<1>10. GateFits(c)' /\ ClaimFits(c)'
  BY <1>1, <1>2, <1>3, <1>4, SameIntent
<1> QED BY <1>1, <1>5, <1>6, <1>7, <1>8, <1>9, <1>10, CharacterStep DEF CharacterFits

LEMMA EndDetachedKeeps ==
    ASSUME Orderly, IInv, NEW c \in Characters, NEW outcome \in Outcomes, EndDetached(c, outcome)
    PROVE  IInv'
<1>1. /\ At(c, {"ended"}) /\ session[c] = "gone" /\ live[c] = NoLife
      /\ task[c].last \in Fence!Record /\ task[c].last.epoch = floor[c]
      /\ visit[c] \in {NoLife, task[c].last}
      /\ task' = [task EXCEPT ![c] = NoTask] /\ session' = [session EXCEPT ![c] = "none"]
      /\ UNCHANGED <<journalVars, owner, live, saving, visit, reset, startup>>
  <2>1. At(c, {"ended"})
    BY DEF EndDetached
  <2>2. /\ session[c] = "gone" /\ live[c] = NoLife /\ task[c].last # NoLife
        /\ visit[c] \in {NoLife, task[c].last}
    BY <2>1, CharacterTypes DEF CharacterFits, SessionFits, Attached
  <2>3. task[c].last \in Fence!Record
    BY <2>1, <2>2, CharacterTypes, TaskFields DEF At
  <2>4. task[c].last.epoch = floor[c]
    BY <2>1, <2>2, CharacterTypes DEF CharacterFits, WordFits, Word, At, Attached
  <2> QED BY <2>1, <2>2, <2>3, <2>4 DEF EndDetached
<1>2. /\ record' \in [Characters -> Fence!Files(Fence!Record)]
      /\ record'[c].now \in {record[c].now, Disk(task[c].last)}
      /\ record'[c].now # record[c].now => Disk(task[c].last).epoch = floor[c] /\ fence[c] = NoToken
      /\ \A d \in Characters \ {c} : record'[d] = record[d]
      /\ UNCHANGED <<fence, floor>>
  <2>1. \/ UNCHANGED fenceVars
        \/ SaveOrRefuse(c, Disk(task[c].last), outcome)
    BY DEF EndDetached
  <2>2. Disk(task[c].last) \in Fence!Record
    BY <1>1, DiskRecord
  <2> QED BY <2>1, <2>2, SaveKeepsRecords
<1>3. Disk(task[c].last).epoch = floor[c] /\ task'[c] = NoTask /\ session'[c] = "none"
  BY <1>1, DiskRecord DEF IInv, TypeOK
<1>4. TypeOK'
  BY <1>1, <1>2, <1>3
  DEF IInv, TypeOK, Journal!TypeOK, Fence!TypeOK, journalVars, Phases
<1>5. \A d \in Characters \ {c} : Character(d)' = Character(d)
  BY <1>1, <1>2, <1>3 DEF Character, IInv, TypeOK, Fence!TypeOK
<1>6. SessionFits(c)'
  BY <1>1, <1>2, <1>3, CharacterTypes, TaskFields
  DEF CharacterFits, SessionFits, At, Attached, Sealed, Running
<1>7. BarrierFits(c)'
  BY <1>1, <1>2, <1>3, CharacterTypes, TaskFields
  DEF CharacterFits, BarrierFits, At, Unwritten, Landed
<1>8. WordFits(c)'
  BY <1>1, <1>2, <1>3, CharacterTypes, TaskFields
  DEF CharacterFits, SessionFits, WordFits, Word, At, Attached, Sealed, InPack
<1>9. GateFits(c)' /\ ClaimFits(c)'
  BY <1>1, <1>2, <1>3, CharacterTypes, NothingJournaled DEF At
<1> QED BY <1>1, <1>4, <1>5, <1>6, <1>7, <1>8, <1>9, CharacterStep DEF CharacterFits

LEMMA WriteCapturedKeeps ==
    ASSUME Orderly, IInv, NEW c \in Characters, NEW outcome \in Outcomes, WriteCaptured(c, outcome)
    PROVE  IInv'
<1>1. /\ saving[c] \in Fence!Record /\ saving' = [saving EXCEPT ![c] = NoLife]
      /\ UNCHANGED <<journalVars, owner, session, live, task, visit, reset, startup>>
  BY CharacterTypes DEF WriteCaptured
<1>2. /\ record' \in [Characters -> Fence!Files(Fence!Record)]
      /\ record'[c].now \in {record[c].now, saving[c]}
      /\ record'[c].now # record[c].now => saving[c].epoch = floor[c] /\ fence[c] = NoToken
      /\ \A d \in Characters \ {c} : record'[d] = record[d]
      /\ UNCHANGED <<fence, floor>>
  <2>1. \/ UNCHANGED fenceVars
        \/ SaveOrRefuse(c, saving[c], outcome)
    BY DEF WriteCaptured
  <2> QED BY <1>1, <2>1, SaveKeepsRecords
<1>3. saving'[c] = NoLife
  BY <1>1 DEF IInv, TypeOK
<1>4. TypeOK'
  BY <1>1, <1>2, <1>3
  DEF IInv, TypeOK, Journal!TypeOK, Fence!TypeOK, journalVars, Phases
<1>5. \A d \in Characters \ {c} : Character(d)' = Character(d)
  BY <1>1, <1>2, <1>3 DEF Character, IInv, TypeOK, Fence!TypeOK
<1>6. SessionFits(c)'
  BY <1>1, <1>2, <1>3, CharacterTypes, TaskFields
  DEF CharacterFits, SessionFits, At, Attached, Sealed, Running
<1>7. BarrierFits(c)'
  BY <1>1, <1>2, <1>3, CharacterTypes, TaskFields
  DEF CharacterFits, BarrierFits, At, Unwritten, Landed
<1>8. WordFits(c)'
  BY <1>1, <1>2, <1>3, CharacterTypes, TaskFields
  DEF CharacterFits, SessionFits, WordFits, Word, At, Attached, Sealed, InPack
<1>9. GateFits(c)' /\ ClaimFits(c)'
  BY <1>1, <1>2, <1>3, SameIntent
<1> QED BY <1>1, <1>4, <1>5, <1>6, <1>7, <1>8, <1>9, CharacterStep DEF CharacterFits

LEMMA JoinKeeps ==
    ASSUME Orderly, IInv, NEW c \in Characters, Join(c)
    PROVE  IInv'
<1>1. /\ Running /\ session[c] = "none" /\ task[c] = NoTask
      /\ session' = [session EXCEPT ![c] = "world"] /\ visit' = [visit EXCEPT ![c] = NoLife]
      /\ UNCHANGED <<journalVars, owner, reset, startup, record, fence, floor, task, saving>>
  BY DEF Join, worldOnly, fenceVars
<1>2. PICK life \in Fence!Record :
               live' = [live EXCEPT ![c] = life] /\ life.epoch = floor[c] /\ life # NoLife
  <2>1. record[c].now \in Fence!Record /\ record[c].now.epoch = floor[c]
    BY <1>1, CharacterTypes DEF CharacterFits, BarrierFits, At
  <2>2. CASE visit[c] = NoLife
    BY <2>1, <2>2, RecordFields DEF Join
  <2>3. CASE visit[c] # NoLife
    <3> DEFINE resumed == [visit[c] EXCEPT !.life.experience =
                             IF @ > record[c].now.life.experience
                             THEN @ ELSE record[c].now.life.experience]
    <3>1. visit[c] \in Fence!Record /\ visit[c].epoch = floor[c]
      BY <1>1, <2>3, CharacterTypes DEF CharacterFits, WordFits
    <3>2. resumed \in Fence!Record /\ resumed.epoch = visit[c].epoch
      BY <2>1, <3>1 DEF Fence!Record, Life
    <3>3. live' = [live EXCEPT ![c] = resumed]
      BY <2>3 DEF Join
    <3> HIDE DEF resumed
    <3> QED BY <3>1, <3>2, <3>3, RecordFields
  <2> QED BY <2>2, <2>3
<1>3. live'[c] = life /\ visit'[c] = NoLife /\ session'[c] = "world"
  BY <1>1, <1>2 DEF IInv, TypeOK
<1>4. TypeOK'
  BY <1>1, <1>2, <1>3
  DEF IInv, TypeOK, Journal!TypeOK, Fence!TypeOK, journalVars, Phases
<1>5. \A d \in Characters \ {c} : Character(d)' = Character(d)
  BY <1>1, <1>2, <1>3 DEF Character, IInv, TypeOK
<1>6. SessionFits(c)'
  BY <1>1, <1>2, <1>3, CharacterTypes, TaskFields
  DEF CharacterFits, SessionFits, At, Attached, Sealed, Running
<1>7. BarrierFits(c)'
  BY <1>1, <1>2, <1>3, CharacterTypes, TaskFields
  DEF CharacterFits, BarrierFits, At, Unwritten, Landed
<1>8. WordFits(c)'
  BY <1>1, <1>2, <1>3, CharacterTypes, TaskFields
  DEF CharacterFits, SessionFits, WordFits, Word, At, Attached, Sealed, InPack
<1>9. GateFits(c)' /\ ClaimFits(c)'
  BY <1>1, <1>2, <1>3, SameIntent
<1> QED BY <1>1, <1>4, <1>5, <1>6, <1>7, <1>8, <1>9, CharacterStep DEF CharacterFits

-----------------------------------------------------------------------------
(* The images the journal's operations build, and one write of the journal. *)

LEMMA RunAdded ==
    ASSUME NEW j \in Journal!Image, NEW g \in Journal!Generations, NEW id \in RunIds,
           NEW bound \in SUBSET Characters, NEW defeats \in SUBSET {Boss},
           NEW rows \in SUBSET (defeats \X Characters \X Parts)
    PROVE  /\ Journal!WithRun(j, g, id, bound, defeats, rows) \in Journal!Image
           /\ Journal!WithRun(j, g, id, bound, defeats, rows).intents = j.intents
           /\ Journal!WithRun(j, g, id, bound, defeats, rows).taken = j.taken
           /\ j.owed \subseteq Journal!WithRun(j, g, id, bound, defeats, rows).owed
<1> DEFINE next == g + 1
           runs == [h \in DOMAIN j.runs \cup {g} |-> IF h = g THEN id ELSE j.runs[h]]
           members == j.bound \cup ({g} \X bound)
           fallen == j.defeats \cup ({g} \X defeats)
           owed == j.owed \cup {<<g, r[1], r[2], r[3]>> : r \in rows}
<1>1. next \in 1..(Cardinality(RunIds) + 1)
  BY Bounds DEF Journal!Generations
<1>2. runs \in UNION {[known -> RunIds] : known \in SUBSET Journal!Generations}
  <2>1. runs \in [DOMAIN j.runs \cup {g} -> RunIds] /\ DOMAIN j.runs \subseteq Journal!Generations
    BY DEF Journal!Image
  <2> QED BY <2>1
<1>3. members \in SUBSET (Journal!Generations \X Characters)
  BY DEF Journal!Image
<1>4. fallen \in SUBSET (Journal!Generations \X {Boss})
  BY DEF Journal!Image
<1>5. owed \in SUBSET Journal!Share
  <2>1. \A r \in rows : <<g, r[1], r[2], r[3]>> \in Journal!Share
    BY DEF Journal!Share
  <2> QED BY <2>1 DEF Journal!Image
<1>6. Journal!WithRun(j, g, id, bound, defeats, rows) =
          [j EXCEPT !.next = next, !.runs = runs, !.bound = members,
                    !.defeats = fallen, !.owed = owed]
  BY DEF Journal!WithRun
<1>7. j.owed \subseteq owed
  OBVIOUS
<1> HIDE DEF next, runs, members, fallen, owed
<1> DEFINE k == [j EXCEPT !.next = next, !.runs = runs, !.bound = members,
                          !.defeats = fallen, !.owed = owed]
<1>8. k \in Journal!Image /\ k.owed = owed /\ k.intents = j.intents /\ k.taken = j.taken
  BY <1>1, <1>2, <1>3, <1>4, <1>5 DEF Journal!Image
<1>9. Journal!WithRun(j, g, id, bound, defeats, rows) = k
  BY <1>6
<1> HIDE DEF k
<1> QED BY <1>7, <1>8, <1>9

LEMMA RunsCollected ==
    ASSUME NEW j \in Journal!Image, NEW kept \in SUBSET DOMAIN j.runs
    PROVE  /\ Journal!Collected(j, kept) \in Journal!Image
           /\ Journal!Collected(j, kept).intents = j.intents
           /\ Journal!Collected(j, kept).taken \subseteq j.taken
<1> DEFINE k == Journal!Collected(j, kept)
<1>1. k.runs \in UNION {[known -> RunIds] : known \in SUBSET Journal!Generations}
  <2>1. kept \in SUBSET Journal!Generations /\ k.runs \in [kept -> RunIds]
    BY DEF Journal!Collected, Journal!Image
  <2> QED BY <2>1
<1> QED BY <1>1 DEF Journal!Collected, Journal!Image

LEMMA IntentAdded ==
    ASSUME NEW j \in Journal!Image, NEW i \in Journal!Intent
    PROVE  /\ Journal!WithIntent(j, i) \in Journal!Image
           /\ Journal!WithIntent(j, i).intents = j.intents \cup {i}
           /\ Journal!WithIntent(j, i).owed = j.owed /\ Journal!WithIntent(j, i).taken = j.taken
  BY DEF Journal!WithIntent, Journal!Image

LEMMA IntentsAcknowledged ==
    ASSUME NEW j \in Journal!Image, NEW done \in SUBSET j.intents
    PROVE  /\ Journal!Acknowledged(j, done) \in Journal!Image
           /\ Journal!Acknowledged(j, done).intents = j.intents \ done
           /\ Journal!Acknowledged(j, done).owed = j.owed
           /\ Journal!Acknowledged(j, done).taken = j.taken \cup UNION {Journal!SharesOf(i) : i \in done}
<1>1. UNION {Journal!SharesOf(i) : i \in done} \subseteq Journal!Share
  BY DEF Journal!Image, Journal!Intent, Journal!SharesOf, Journal!Share
<1> QED BY <1>1 DEF Journal!Acknowledged, Journal!Image

(* The intent a sealed claim has prepared, or will. *)
LEMMA IntentOfClaim ==
    ASSUME IInv, NEW c \in Characters, At(c, {"sealed", "prepared", "written", "published"})
    PROVE  IntentOf(c) \in Journal!Intent
<1>1. task[c] \in Task /\ task[c].image = fence[c].postimage /\ fence[c] \in Fence!Token
  BY CharacterTypes DEF CharacterFits, BarrierFits, At, Unwritten, Landed
<1>2. task[c].image \in Fence!Record
  BY <1>1, CharacterTypes
<1> QED BY <1>1, <1>2, TaskFields DEF IntentOf, Journal!Intent, Journal!Generations

LEMMA CommitWrites ==
    ASSUME IInv, NEW next \in Journal!Image, NEW acknowledged, NEW outcome \in Outcomes,
           Journal!Commit(next, acknowledged, outcome)
    PROVE  /\ Journal!TypeOK' /\ Journal!Valid(next) /\ next # NoImage
           /\ \A image \in journalFile'.mayBe \cup {journalFile'.now} : Journal!Valid(image)
           /\ outcome = "done" => journal' = next /\ uncertain' = NoImage
           /\ outcome # "done" => journal' = journal /\ uncertain' = next
<1>1. Journal!Valid(next) /\ next # NoImage
  BY RewardCoordinatorAssumption DEF Journal!Commit, Journal!Committable
<1>2. /\ outcome = "done" => journal' = next /\ uncertain' = NoImage
      /\ outcome # "done" => journal' = journal /\ uncertain' = next
  BY DEF Journal!Commit
<1>3. journalFile \in Journal!Files(Journal!Image)
  BY DEF IInv, TypeOK, Journal!TypeOK
<1>4. /\ journalFile' \in Journal!Files(Journal!Image)
      /\ journalFile'.now \in {journalFile.now, next}
      /\ journalFile'.mayBe \subseteq journalFile.mayBe \cup {next}
  BY <1>3, JournalWritten DEF Journal!Commit
<1>5. \A image \in journalFile'.mayBe \cup {journalFile'.now} : Journal!Valid(image)
  BY <1>1, <1>4 DEF IInv, JournalFits
<1>6. Journal!TypeOK'
  BY <1>2, <1>4 DEF IInv, TypeOK, Journal!TypeOK
<1> QED BY <1>1, <1>2, <1>5, <1>6

-----------------------------------------------------------------------------
(* The sync, which keeps every intent, and what is owed until the reset. *)

LEMMA SyncCommitKeeps ==
    ASSUME Orderly, IInv, Running, owner \in {NoOwner, Sync},
           NEW next \in Journal!Image, NEW outcome \in Outcomes,
           Journal!Commit(next, {}, outcome), PassGate(Sync, outcome),
           UNCHANGED <<fenceVars, worldVars, reset, startup>>,
           next.intents = journal.intents, next.taken \subseteq journal.taken,
           reset \/ journal.owed \subseteq next.owed
    PROVE  IInv'
<1>1. /\ UNCHANGED <<record, fence, floor, session, live, task, saving, visit, reset, startup>>
      /\ owner' = IF outcome = "done" THEN NoOwner ELSE Sync
      /\ owner \notin Characters /\ owner' \notin Characters /\ Sync # NoOwner
  BY RewardCoordinatorAssumption DEF fenceVars, worldVars, PassGate
<1>2. /\ Journal!TypeOK' /\ Journal!Valid(next) /\ next # NoImage
      /\ \A image \in journalFile'.mayBe \cup {journalFile'.now} : Journal!Valid(image)
      /\ outcome = "done" => journal' = next /\ uncertain' = NoImage
      /\ outcome # "done" => journal' = journal /\ uncertain' = next
  BY CommitWrites
<1>3. TypeOK'
  BY <1>1, <1>2 DEF IInv, TypeOK, Fence!TypeOK
<1>4. JournalFits'
  BY <1>1, <1>2 DEF IInv, JournalFits, SyncWrites, Running
<1>5. (owner = NoOwner <=> (uncertain = NoImage \/ ~Running))'
  BY <1>1, <1>2 DEF Running
<1>6. ASSUME NEW c \in Characters
      PROVE  CharacterFits(c)' /\ GateFits(c)' /\ ClaimFits(c)'
  <2>1. CharacterFits(c)'
    BY <1>1, CharacterTypes, SameCharacter DEF Character
  <2>2. GateFits(c)'
    BY <1>1 DEF GateFits
  <2>3. At(c, {"sealed"}) => journal.owed \subseteq next.owed
    BY CharacterTypes DEF CharacterFits, SessionFits, At
  <2>4. ClaimFits(c)'
    BY <1>1, <1>2, <2>3, CharacterTypes DEF ClaimFits, At, IntentOf
  <2> QED BY <2>1, <2>2, <2>4
<1> QED BY <1>3, <1>4, <1>5, <1>6 DEF IInv

LEMMA SyncKeeps ==
    ASSUME Orderly, IInv, SyncStep
    PROVE  IInv'
<1>1. PICK outcome \in Outcomes : \/ \E id \in RunIds : SyncAllocate(id, outcome)
                                  \/ SyncCollect(outcome) \/ SyncRetry(outcome)
  BY DEF SyncStep
<1>2. journal \in Journal!Image
  BY DEF IInv, TypeOK, Journal!TypeOK
<1>3. ASSUME NEW id \in RunIds, SyncAllocate(id, outcome) PROVE IInv'
  <2> DEFINE bosses == IF id = Dungeon THEN {Boss} ELSE {}
             rows == bosses \X Characters \X Parts
             next == Journal!WithRun(journal, journal.next, id, Characters, bosses, rows)
  <2>1. journal.next \in Journal!Generations /\ Journal!Commit(next, {}, outcome)
    BY <1>3 DEF SyncAllocate, Journal!AllocateRun
  <2>2. /\ next \in Journal!Image /\ next.intents = journal.intents
        /\ next.taken = journal.taken /\ journal.owed \subseteq next.owed
    <3>1. /\ bosses \in SUBSET {Boss} /\ rows \in SUBSET (bosses \X Characters \X Parts)
          /\ Characters \in SUBSET Characters
      OBVIOUS
    <3> HIDE DEF bosses, rows
    <3> QED BY <1>2, <2>1, <3>1, RunAdded
  <2> HIDE DEF next
  <2> QED BY <1>3, <2>1, <2>2, SyncCommitKeeps DEF SyncAllocate
<1>4. CASE SyncCollect(outcome)
  <2> DEFINE next == Journal!Collected(journal, Journal!KeptAt(journal, 1, {}))
  <2>1. Journal!Commit(next, {}, outcome)
    BY <1>4 DEF SyncCollect, Journal!ExpireRuns
  <2>2. /\ next \in Journal!Image /\ next.intents = journal.intents
        /\ next.taken \subseteq journal.taken
    <3>1. Journal!KeptAt(journal, 1, {}) \in SUBSET DOMAIN journal.runs
      BY DEF Journal!KeptAt
    <3> QED BY <1>2, <3>1, RunsCollected
  <2> HIDE DEF next
  <2> QED BY <1>4, <2>1, <2>2, SyncCommitKeeps DEF SyncCollect
<1>5. CASE SyncRetry(outcome)
  <2>1. uncertain \in Journal!Image /\ SyncWrites
    BY <1>5, RewardCoordinatorAssumption DEF SyncRetry, IInv, TypeOK, Journal!TypeOK, JournalFits
  <2> QED BY <1>5, <2>1, SyncCommitKeeps DEF SyncRetry, SyncWrites
<1> QED BY <1>1, <1>3, <1>4, <1>5

-----------------------------------------------------------------------------
(* A claim's own writes of the journal. *)

(* One that fails keeps the gate and the bytes. *)
LEMMA ClaimCommitFails ==
    ASSUME Orderly, IInv, NEW c \in Characters, GateOpen(c), Running,
           NEW next \in Journal!Image, NEW acknowledged, NEW outcome \in Outcomes,
           outcome # "done", Journal!Commit(next, acknowledged, outcome), PassGate(c, outcome),
           UNCHANGED <<fenceVars, worldVars, reset, startup>>,
           \/ At(c, {"sealed"}) /\ next = Journal!WithIntent(journal, IntentOf(c))
           \/ At(c, {"published"}) /\ next = Journal!Acknowledged(journal, {IntentOf(c)})
    PROVE  IInv'
<1>1. /\ UNCHANGED <<record, fence, floor, session, live, task, saving, visit, reset, startup>>
      /\ owner' = c /\ c # NoOwner /\ c # Sync /\ owner \in {NoOwner, c}
  BY RewardCoordinatorAssumption DEF fenceVars, worldVars, PassGate, GateOpen
<1>2. /\ Journal!TypeOK' /\ Journal!Valid(next) /\ next # NoImage
      /\ \A image \in journalFile'.mayBe \cup {journalFile'.now} : Journal!Valid(image)
      /\ journal' = journal /\ uncertain' = next
  BY CommitWrites
<1>3. TypeOK'
  BY <1>1, <1>2 DEF IInv, TypeOK, Fence!TypeOK
<1>4. JournalFits'
  BY <1>1, <1>2 DEF IInv, JournalFits, Running
<1>5. (owner = NoOwner <=> (uncertain = NoImage \/ ~Running))'
  BY <1>1, <1>2 DEF Running
<1>6. ASSUME NEW d \in Characters
      PROVE  CharacterFits(d)' /\ GateFits(d)' /\ ClaimFits(d)'
  <2>1. CharacterFits(d)'
    BY <1>1, CharacterTypes, SameCharacter DEF Character
  <2>2. IntentOf(d)' = IntentOf(d)
    BY <1>1 DEF IntentOf
  <2>3. GateFits(d)'
    BY <1>1, <1>2, <2>2 DEF GateFits, At, Journal!WithIntent, Journal!Acknowledged, Journal!SharesOf
  <2>4. ClaimFits(d)'
    BY <1>1, <1>2, <2>2, CharacterTypes DEF ClaimFits, At, Journal!SharesOf
  <2> QED BY <2>1, <2>3, <2>4
<1> QED BY <1>3, <1>4, <1>5, <1>6 DEF IInv

(* One that lands moves the claim on, and leaves the other claims theirs. *)
LEMMA ClaimCommitLands ==
    ASSUME Orderly, IInv, NEW c \in Characters, GateOpen(c), Running,
           NEW next \in Journal!Image, NEW acknowledged, NEW outcome \in Outcomes,
           outcome = "done", Journal!Commit(next, acknowledged, outcome), PassGate(c, outcome),
           UNCHANGED <<fenceVars, session, live, saving, visit, reset, startup>>,
           NEW stage \in Stages, Advance(c, stage), task[c] # NoTask,
           CharacterFits(c)', ClaimFits(c)',
           \A d \in Characters \ {c} : ClaimFits(d)'
    PROVE  IInv'
<1>1. /\ UNCHANGED <<record, fence, floor, session, live, saving, visit, reset, startup>>
      /\ owner' = NoOwner /\ Sync # NoOwner /\ NoOwner \notin Characters
  BY RewardCoordinatorAssumption DEF fenceVars, PassGate
<1>2. /\ Journal!TypeOK' /\ Journal!Valid(next)
      /\ \A image \in journalFile'.mayBe \cup {journalFile'.now} : Journal!Valid(image)
      /\ journal' = next /\ uncertain' = NoImage
  BY CommitWrites
<1>3. /\ task' \in [Characters -> Task \cup {NoTask}]
      /\ \A d \in Characters \ {c} : task'[d] = task[d]
  BY StageMoves
<1>4. TypeOK'
  BY <1>1, <1>2, <1>3 DEF IInv, TypeOK, Fence!TypeOK
<1>5. JournalFits'
  BY <1>1, <1>2 DEF JournalFits
<1>6. (owner = NoOwner <=> (uncertain = NoImage \/ ~Running))'
  BY <1>1, <1>2
<1>7. ASSUME NEW d \in Characters
      PROVE  CharacterFits(d)' /\ GateFits(d)' /\ ClaimFits(d)'
  <2>1. GateFits(d)'
    BY <1>1 DEF GateFits
  <2>2. ASSUME d # c PROVE CharacterFits(d)'
    BY <1>1, <1>3, <2>2, CharacterTypes, SameCharacter DEF Character
  <2> QED BY <2>1, <2>2
<1> QED BY <1>4, <1>5, <1>6, <1>7 DEF IInv

LEMMA PrepareKeeps ==
    ASSUME Orderly, IInv, NEW c \in Characters, NEW outcome \in Outcomes,
           PrepareClaim(c, outcome)
    PROVE  IInv'
<1> DEFINE next == Journal!WithIntent(journal, IntentOf(c))
<1>1. At(c, {"sealed"}) /\ GateOpen(c) /\ PassGate(c, outcome) /\ Journal!Commit(next, {}, outcome)
  BY DEF PrepareClaim, Journal!PrepareClaim
<1>2. Running
  BY <1>1, CharacterTypes DEF CharacterFits, SessionFits, At
<1>3. IntentOf(c) \in Journal!Intent /\ journal \in Journal!Image
  BY <1>1, IntentOfClaim DEF At, IInv, TypeOK, Journal!TypeOK
<1>4. /\ next \in Journal!Image /\ next.intents = journal.intents \cup {IntentOf(c)}
      /\ next.owed = journal.owed /\ next.taken = journal.taken
  BY <1>3, IntentAdded
<1>5. CASE outcome # "done"
  <2>1. UNCHANGED <<fenceVars, worldVars, reset, startup>>
    BY <1>5 DEF PrepareClaim, worldVars
  <2> HIDE DEF next
  <2> QED BY <1>1, <1>2, <1>4, <1>5, <2>1, ClaimCommitFails DEF next
<1>6. CASE outcome = "done"
  <2>1. /\ Advance(c, "prepared")
        /\ UNCHANGED <<fenceVars, session, live, saving, visit, reset, startup>>
    BY <1>6 DEF PrepareClaim
  <2>2. journal' = next
    BY <1>1, <1>6 DEF Journal!Commit
  <2> HIDE DEF next
  <2>3. /\ task[c] \in Task /\ task'[c] \in Task /\ task'[c] # NoTask /\ task'[c].stage = "prepared"
        /\ task'[c].gen = task[c].gen /\ task'[c].parts = task[c].parts
        /\ task'[c].image = task[c].image /\ task'[c].last = task[c].last
        /\ task'[c].place = task[c].place /\ \A d \in Characters \ {c} : task'[d] = task[d]
    BY <1>1, <2>1, StageMoves DEF At, Stages
  <2>4. CharacterFits(c)'
    <3>1. SessionFits(c)'
      BY <1>1, <2>1, <2>3, CharacterTypes
      DEF CharacterFits, SessionFits, At, Attached, Sealed, Running
    <3>2. BarrierFits(c)'
      BY <1>1, <2>1, <2>3, CharacterTypes
      DEF CharacterFits, BarrierFits, At, Unwritten, Landed, fenceVars
    <3>3. WordFits(c)'
      BY <1>1, <2>1, <2>3, CharacterTypes
      DEF CharacterFits, SessionFits, WordFits, Word, At, Attached, InPack, fenceVars
    <3> QED BY <3>1, <3>2, <3>3 DEF CharacterFits
  <2>5. ClaimFits(c)'
    BY <1>4, <2>2, <2>3 DEF ClaimFits, At, IntentOf
  <2>6. ASSUME NEW d \in Characters \ {c} PROVE ClaimFits(d)'
    <3>1. ClaimFits(d) /\ task'[d] = task[d]
      BY <2>3 DEF IInv
    <3>2. IntentOf(d)' = IntentOf(d)
      BY <3>1 DEF IntentOf
    <3> QED BY <1>4, <2>2, <3>1, <3>2 DEF ClaimFits, At, Journal!SharesOf
  <2> QED BY <1>1, <1>2, <1>4, <1>6, <2>1, <2>3, <2>4, <2>5, <2>6, ClaimCommitLands DEF At, Stages
<1> QED BY <1>5, <1>6

LEMMA AcknowledgeKeeps ==
    ASSUME Orderly, IInv, NEW c \in Characters, NEW outcome \in Outcomes,
           AcknowledgeClaim(c, outcome)
    PROVE  IInv'
<1> DEFINE next == Journal!Acknowledged(journal, {IntentOf(c)})
<1>1. /\ At(c, {"published"}) /\ GateOpen(c) /\ PassGate(c, outcome)
      /\ IntentOf(c) \in journal.intents /\ Journal!Commit(next, {IntentOf(c)}, outcome)
  BY DEF AcknowledgeClaim, Journal!AcknowledgeClaim
<1>2. Running
  BY <1>1, CharacterTypes DEF CharacterFits, SessionFits, At
<1>3. journal \in Journal!Image
  BY DEF IInv, TypeOK, Journal!TypeOK
<1>4. /\ next \in Journal!Image /\ next.intents = journal.intents \ {IntentOf(c)}
      /\ next.owed = journal.owed
      /\ next.taken = journal.taken \cup Journal!SharesOf(IntentOf(c))
  <2>1. UNION {Journal!SharesOf(i) : i \in {IntentOf(c)}} = Journal!SharesOf(IntentOf(c))
    OBVIOUS
  <2> QED BY <1>1, <1>3, <2>1, IntentsAcknowledged
<1>5. CASE outcome # "done"
  <2>1. UNCHANGED <<fenceVars, worldVars, reset, startup>>
    BY <1>5 DEF AcknowledgeClaim, worldVars
  <2> HIDE DEF next
  <2> QED BY <1>1, <1>2, <1>4, <1>5, <2>1, ClaimCommitFails DEF next
<1>6. CASE outcome = "done"
  <2>1. /\ Advance(c, "acknowledged")
        /\ UNCHANGED <<fenceVars, session, live, saving, visit, reset, startup>>
    BY <1>6 DEF AcknowledgeClaim
  <2>2. journal' = next
    BY <1>1, <1>6 DEF Journal!Commit
  <2> HIDE DEF next
  <2>3. /\ task[c] \in Task /\ task'[c] \in Task /\ task'[c] # NoTask /\ task'[c].stage = "acknowledged"
        /\ task'[c].gen = task[c].gen /\ task'[c].parts = task[c].parts
        /\ task'[c].image = task[c].image /\ task'[c].last = task[c].last
        /\ task'[c].place = task[c].place /\ \A d \in Characters \ {c} : task'[d] = task[d]
    BY <1>1, <2>1, StageMoves DEF At, Stages
  <2>4. CharacterFits(c)'
    <3>1. SessionFits(c)'
      BY <1>1, <2>1, <2>3, CharacterTypes
      DEF CharacterFits, SessionFits, At, Attached, Sealed, Running
    <3>2. BarrierFits(c)'
      BY <1>1, <2>1, <2>3, CharacterTypes
      DEF CharacterFits, BarrierFits, At, Unwritten, Landed, fenceVars
    <3>3. WordFits(c)'
      BY <1>1, <2>1, <2>3, CharacterTypes
      DEF CharacterFits, SessionFits, WordFits, Word, At, Attached, InPack, fenceVars
    <3> QED BY <3>1, <3>2, <3>3 DEF CharacterFits
  <2>5. ClaimFits(c)'
    BY <2>3 DEF ClaimFits, At
  <2>6. ASSUME NEW d \in Characters \ {c} PROVE ClaimFits(d)'
    <3>1. ClaimFits(d) /\ task'[d] = task[d]
      BY <2>3 DEF IInv
    <3>2. IntentOf(d)' = IntentOf(d)
      BY <3>1 DEF IntentOf
    <3>3. /\ IntentOf(d) # IntentOf(c)
          /\ Journal!SharesOf(IntentOf(d)) \cap Journal!SharesOf(IntentOf(c)) = {}
      BY DEF IntentOf, Journal!SharesOf
    <3> QED BY <1>4, <2>2, <3>1, <3>2, <3>3 DEF ClaimFits, At, Journal!SharesOf
  <2> QED BY <1>1, <1>2, <1>4, <1>6, <2>1, <2>3, <2>4, <2>5, <2>6, ClaimCommitLands DEF At, Stages
<1> QED BY <1>5, <1>6

-----------------------------------------------------------------------------
(* The reset of the run, a crash and the recovery. *)

LEMMA ResetKeeps ==
    ASSUME Orderly, IInv, Reset
    PROVE  IInv'
<1>1. /\ reset' = TRUE /\ visit' = [c \in Characters |-> NoLife]
      /\ UNCHANGED <<journal, uncertain, journalFile, record, fence, floor, owner,
                     session, live, task, saving, startup>>
      /\ \A c \in Characters : session[c] \in {"none", "gone"} /\ ~At(c, {"sealed"})
  BY DEF Reset, Orderly, journalVars, fenceVars
<1>2. TypeOK'
  BY <1>1 DEF IInv, TypeOK, Journal!TypeOK, Fence!TypeOK
<1>3. JournalFits'
  BY <1>1 DEF IInv, JournalFits, SyncWrites
<1>4. (owner = NoOwner <=> (uncertain = NoImage \/ ~Running))'
  BY <1>1 DEF IInv, Running
<1>5. ASSUME NEW c \in Characters
      PROVE  CharacterFits(c)' /\ GateFits(c)' /\ ClaimFits(c)'
  <2>1. /\ session'[c] = session[c] /\ live'[c] = live[c] /\ task'[c] = task[c]
        /\ saving'[c] = saving[c] /\ visit'[c] = NoLife /\ session[c] \in {"none", "gone"}
        /\ record'[c] = record[c] /\ fence'[c] = fence[c] /\ floor'[c] = floor[c]
    BY <1>1
  <2>2. SessionFits(c)'
    BY <1>1, <2>1, CharacterTypes DEF CharacterFits, SessionFits, At, Attached, Sealed, Running
  <2>3. BarrierFits(c)'
    BY <2>1, CharacterTypes DEF CharacterFits, BarrierFits, At
  <2>4. WordFits(c)'
    BY <2>1, CharacterTypes DEF CharacterFits, WordFits, Word, At, Attached
  <2>5. IntentOf(c)' = IntentOf(c)
    BY <2>1 DEF IntentOf
  <2>6. GateFits(c)' /\ ClaimFits(c)'
    BY <1>1, <2>1, <2>5, CharacterTypes
    DEF GateFits, ClaimFits, At, Journal!WithIntent, Journal!Acknowledged, Journal!SharesOf
  <2> QED BY <2>2, <2>3, <2>4, <2>6 DEF CharacterFits
<1> QED BY <1>2, <1>3, <1>4, <1>5 DEF IInv

(* Until the startup has recovered everything, nobody plays and no claim is  *)
(* held.                                                                     *)
LEMMA NobodyPlays ==
    ASSUME IInv, ~Running
    PROVE  /\ owner = NoOwner
           /\ \A c \in Characters :
                 /\ session[c] = "none" /\ live[c] = NoLife /\ task[c] = NoTask
                 /\ saving[c] = NoLife /\ visit[c] = NoLife /\ fence[c] = NoToken
                 /\ record[c].now.epoch = floor[c]
  BY DEF IInv, CharacterFits, SessionFits, BarrierFits, At

LEMMA IdleFits ==
    ASSUME NEW c \in Characters,
           session'[c] = "none", live'[c] = NoLife, task'[c] = NoTask, saving'[c] = NoLife,
           visit'[c] = NoLife, fence'[c] = NoToken, record'[c].now.epoch = floor'[c]
    PROVE  CharacterFits(c)' /\ ClaimFits(c)'
<1>1. SessionFits(c)'
  BY DEF SessionFits, At
<1>2. BarrierFits(c)'
  BY DEF BarrierFits, At
<1>3. WordFits(c)'
  BY DEF WordFits, Word, At
<1> QED BY <1>1, <1>2, <1>3 DEF CharacterFits, ClaimFits, At

LEMMA StartupKeeps ==
    ASSUME IInv, NEW file \in Journal!Files(Journal!Image),
           \A image \in file.mayBe \cup {file.now} : Journal!Valid(image),
           NEW files \in [Characters -> Fence!Files(Fence!Record)],
           Journal!Reopen(file), Fence!Reopen(files), Forgotten, Starting
    PROVE  IInv'
<1>1. /\ journalFile' = file /\ journal' = file.now /\ uncertain' = NoImage
      /\ file.now \in Journal!Image /\ Journal!Valid(file.now)
  BY DEF Journal!Reopen, Journal!Files
<1>2. /\ record' = files /\ fence' = [c \in Characters |-> NoToken]
      /\ floor' = [c \in Characters |-> files[c].now.epoch]
  BY DEF Fence!Reopen
<1>3. /\ owner' = NoOwner /\ reset' = reset
      /\ session' = [c \in Characters |-> "none"] /\ live' = [c \in Characters |-> NoLife]
      /\ task' = [c \in Characters |-> NoTask] /\ saving' = [c \in Characters |-> NoLife]
      /\ visit' = [c \in Characters |-> NoLife]
      /\ startup' = [phase |-> "recovering", confirmed |-> {}]
      /\ NoOwner \notin Characters /\ Sync # NoOwner
  BY RewardCoordinatorAssumption DEF Forgotten, Starting
<1>4. TypeOK'
  <2>1. Journal!TypeOK'
    BY <1>1 DEF Journal!TypeOK
  <2>2. Fence!TypeOK'
    <3>1. ASSUME NEW c \in Characters PROVE files[c].now.epoch \in Fence!Epochs
      <4>1. files[c] \in Fence!Files(Fence!Record)
        OBVIOUS
      <4> QED BY <4>1 DEF Fence!Files, Fence!Record
    <3> QED BY <1>2, <3>1 DEF Fence!TypeOK
  <2>3. reset \in BOOLEAN
    BY DEF IInv, TypeOK
  <2> QED BY <1>3, <2>1, <2>2, <2>3 DEF TypeOK, Phases, Startup
<1>5. JournalFits'
  BY <1>1, <1>3 DEF JournalFits
<1>6. (owner = NoOwner <=> (uncertain = NoImage \/ ~Running))'
  BY <1>1, <1>3
<1>7. ASSUME NEW c \in Characters
      PROVE  CharacterFits(c)' /\ GateFits(c)' /\ ClaimFits(c)'
  <2>1. CharacterFits(c)' /\ ClaimFits(c)'
    BY <1>2, <1>3, IdleFits
  <2>2. GateFits(c)'
    BY <1>3 DEF GateFits
  <2> QED BY <2>1, <2>2
<1> QED BY <1>4, <1>5, <1>6, <1>7 DEF IInv

LEMMA CrashKeeps ==
    ASSUME IInv, Crash
    PROVE  IInv'
<1>1. PICK crash \in Crashes :
         /\ \E file \in FilesAfter(crash, journalFile) : Journal!Reopen(file)
         /\ \E files \in Fence!RecordsAfter(crash) : Fence!Reopen(files)
  BY DEF Crash
<1>2. PICK file \in FilesAfter(crash, journalFile) : Journal!Reopen(file)
  BY <1>1
<1>3. PICK files \in Fence!RecordsAfter(crash) : Fence!Reopen(files)
  BY <1>1
<1>4. journalFile \in Journal!Files(Journal!Image) /\ JournalFits
  BY DEF IInv, TypeOK, Journal!TypeOK
<1>5. /\ file \in Journal!Files(Journal!Image)
      /\ \A image \in file.mayBe \cup {file.now} : Journal!Valid(image)
  <2>1. CASE file = journalFile
    BY <1>4, <2>1 DEF JournalFits
  <2>2. CASE \E content \in journalFile.mayBe : file = Settled(content)
    BY <1>4, <2>2 DEF JournalFits, Journal!Files, Settled
  <2> QED BY <1>2, <2>1, <2>2 DEF FilesAfter, AfterPowerLoss
<1>6. files \in [Characters -> Fence!Files(Fence!Record)]
  <2>1. ASSUME NEW c \in Characters PROVE files[c] \in Fence!Files(Fence!Record)
    <3>1. record[c] \in Fence!Files(Fence!Record) /\ files[c] \in Fence!FilesAfter(crash, record[c])
      BY <1>3, CharacterTypes DEF Fence!RecordsAfter
    <3> QED BY <3>1 DEF Fence!FilesAfter, Fence!AfterPowerLoss, Fence!Settled, Fence!Files
  <2> QED BY <1>3, <2>1 DEF Fence!RecordsAfter
<1> QED BY <1>2, <1>3, <1>5, <1>6, StartupKeeps DEF Crash

LEMMA RestartKeeps ==
    ASSUME IInv, Restart
    PROVE  IInv'
<1>1. /\ journalFile \in Journal!Files(Journal!Image) /\ JournalFits
      /\ record \in [Characters -> Fence!Files(Fence!Record)]
  BY DEF IInv, TypeOK, Journal!TypeOK, Fence!TypeOK
<1> QED BY <1>1, StartupKeeps DEF Restart, JournalFits

LEMMA RecoverRecordKeeps ==
    ASSUME IInv, NEW intent \in journal.intents, NEW outcome \in Outcomes,
           RecoverRecord(intent, outcome)
    PROVE  IInv'
<1> DEFINE c == intent.owner
           rec == Recovered(record[c].now, intent)
           new == Written(record[c], rec, outcome)
<1>1. c \in Characters /\ intent.image \in Fence!Record
  BY DEF IInv, TypeOK, Journal!TypeOK, Journal!Image, Journal!Intent
<1>2. new \in Fence!Files(Fence!Record) /\ new.now \in Fence!Record
  <2>1. record[c] \in Fence!Files(Fence!Record) /\ rec \in Fence!Record
    BY <1>1, CharacterTypes DEF Recovered
  <2>2. new \in Fence!Files(Fence!Record)
    BY <2>1, RecordWritten
  <2> QED BY <2>2 DEF Fence!Files
<1>3. /\ startup.phase = "recovering"
      /\ record' = [record EXCEPT ![c] = new]
      /\ floor' = [floor EXCEPT ![c] = record'[c].now.epoch]
      /\ startup' = IF outcome = "done" THEN [startup EXCEPT !.confirmed = @ \cup {c}]
                                        ELSE [startup EXCEPT !.phase = "failed"]
      /\ UNCHANGED <<journal, uncertain, journalFile, fence, owner, session, live, task,
                     saving, visit, reset>>
  BY DEF RecoverRecord, AfterWrite, journalVars, worldVars
<1> HIDE DEF c, new
<1>4. ~Running /\ startup \in Startup
  BY <1>3 DEF Running, IInv, TypeOK
<1>5. startup' \in Startup /\ startup'.phase \in {"recovering", "failed"}
  BY <1>1, <1>3, <1>4 DEF Startup
<1>6. /\ record' \in [Characters -> Fence!Files(Fence!Record)] /\ record'[c] = new
      /\ floor' \in [Characters -> Fence!Epochs] /\ floor'[c] = new.now.epoch
      /\ \A d \in Characters \ {c} : record'[d] = record[d] /\ floor'[d] = floor[d]
  <2>1. /\ record \in [Characters -> Fence!Files(Fence!Record)]
        /\ floor \in [Characters -> Fence!Epochs]
    BY DEF IInv, TypeOK, Fence!TypeOK
  <2>2. new.now.epoch \in Fence!Epochs
    BY <1>2 DEF Fence!Record
  <2> QED BY <1>1, <1>2, <1>3, <2>1, <2>2
<1>7. TypeOK'
  BY <1>3, <1>5, <1>6 DEF IInv, TypeOK, Journal!TypeOK, Fence!TypeOK
<1>8. JournalFits'
  BY <1>3, <1>5 DEF IInv, JournalFits, SyncWrites
<1>9. ~Running' /\ owner' = NoOwner /\ NoOwner \notin Characters
  BY <1>3, <1>4, <1>5, NobodyPlays, RewardCoordinatorAssumption DEF Running
<1>10. ASSUME NEW d \in Characters
       PROVE  CharacterFits(d)' /\ GateFits(d)' /\ ClaimFits(d)'
  <2>1. record'[d].now.epoch = floor'[d]
    BY <1>4, <1>6, NobodyPlays
  <2>2. CharacterFits(d)' /\ ClaimFits(d)'
    BY <1>3, <1>4, <2>1, NobodyPlays, IdleFits
  <2> QED BY <1>9, <2>2 DEF GateFits
<1> QED BY <1>7, <1>8, <1>9, <1>10 DEF IInv

LEMMA RecoverAllKeeps ==
    ASSUME IInv, NEW outcome \in Outcomes, RecoverAll(outcome)
    PROVE  IInv'
<1>1. /\ startup.phase = "recovering"
      /\ UNCHANGED <<record, fence, floor, owner, session, live, task, saving, visit, reset>>
  BY DEF RecoverAll, fenceVars, worldVars
<1>2. ~Running /\ uncertain = NoImage /\ startup \in Startup
  BY <1>1 DEF Running, IInv, TypeOK, JournalFits
<1>3. owner' = NoOwner /\ NoOwner \notin Characters /\ Sync # NoOwner
  BY <1>1, <1>2, NobodyPlays, RewardCoordinatorAssumption
<1>4. /\ Journal!TypeOK' /\ JournalFits' /\ startup' \in Startup
      /\ uncertain' = NoImage \/ startup'.phase = "failed"
  <2>1. CASE journal.intents = {}
    <3>1. UNCHANGED <<journal, uncertain, journalFile>> /\ startup' = Opened
      BY <2>1 DEF RecoverAll, journalVars
    <3> QED BY <1>2, <1>3, <3>1 DEF IInv, TypeOK, Journal!TypeOK, JournalFits, Opened, Startup
  <2>2. CASE journal.intents # {}
    <3> DEFINE next == Journal!Acknowledged(journal, journal.intents)
    <3>1. Journal!Commit(next, journal.intents, outcome) /\ AfterWrite(outcome, Opened)
      BY <2>2 DEF RecoverAll, Journal!AcknowledgeAll
    <3>2. next \in Journal!Image
      BY IntentsAcknowledged DEF IInv, TypeOK, Journal!TypeOK
    <3> HIDE DEF next
    <3>3. /\ Journal!TypeOK' /\ Journal!Valid(next)
          /\ \A image \in journalFile'.mayBe \cup {journalFile'.now} : Journal!Valid(image)
          /\ outcome = "done" => journal' = next /\ uncertain' = NoImage
          /\ outcome # "done" => journal' = journal /\ uncertain' = next
      BY <3>1, <3>2, CommitWrites
    <3>4. /\ outcome = "done" => startup' = Opened
          /\ outcome # "done" => startup' = [startup EXCEPT !.phase = "failed"]
      BY <3>1 DEF AfterWrite
    <3>5. /\ startup' \in Startup /\ startup'.phase \in {"running", "failed"}
          /\ uncertain' = NoImage \/ startup'.phase = "failed"
      BY <1>2, <3>3, <3>4 DEF Opened, Startup
    <3>6. JournalFits'
      BY <1>3, <3>3, <3>5 DEF IInv, JournalFits
    <3> QED BY <3>3, <3>5, <3>6
  <2> QED BY <2>1, <2>2
<1>5. TypeOK'
  BY <1>1, <1>4 DEF IInv, TypeOK, Fence!TypeOK
<1>6. (owner = NoOwner <=> (uncertain = NoImage \/ ~Running))'
  BY <1>3, <1>4 DEF Running
<1>7. ASSUME NEW c \in Characters
      PROVE  CharacterFits(c)' /\ GateFits(c)' /\ ClaimFits(c)'
  <2>1. CharacterFits(c)' /\ ClaimFits(c)'
    BY <1>1, <1>2, NobodyPlays, IdleFits
  <2> QED BY <1>3, <2>1 DEF GateFits
<1> QED BY <1>4, <1>5, <1>6, <1>7 DEF IInv

-----------------------------------------------------------------------------
(* Every step keeps the invariant. *)

LEMMA PlayingKeeps ==
    ASSUME Orderly, IInv, NEW c \in Characters, Playing(c)
    PROVE  IInv'
  BY JoinKeeps, ChangePackKeeps, DieKeeps, EarnExperienceKeeps, LeaveKeeps DEF Playing

LEMMA ReservesKeeps ==
    ASSUME Orderly, IInv, NEW c \in Characters, Reserves(c)
    PROVE  IInv'
<1>1. ASSUME NEW parts \in SUBSET Parts, ClaimBossReward(c, parts) \/ ReserveLive(c, parts)
      PROVE  IInv'
  BY <1>1, ClaimKeeps, ReserveLiveKeeps
<1>2. CASE ReserveReward(c)
  <2>1. /\ At(c, {"claimed"})
        /\ UNCHANGED <<journalVars, owner, session, live, saving, visit, reset, startup>>
        /\ \/ Fence!ReserveReward(c) /\ Advance(c, "reserved")
           \/ EndAttached(c) /\ UNCHANGED fenceVars
    BY <1>2 DEF ReserveReward
  <2>2. CASE Fence!ReserveReward(c) /\ Advance(c, "reserved")
    <3>1. UNCHANGED <<journalVars, owner, reset, startup, session, live, saving, visit>>
      BY <2>1
    <3> QED BY <2>1, <2>2, <3>1, ReserveKeeps
  <2>3. CASE EndAttached(c) /\ UNCHANGED fenceVars
    <3>1. UNCHANGED <<journalVars, owner, reset, startup, record, fence, floor, session, live,
                      saving, visit>>
      BY <2>1, <2>3 DEF fenceVars
    <3> QED BY <2>1, <2>3, <3>1, RefuseKeeps
  <2> QED BY <2>1, <2>2, <2>3
<1>3. CASE RefuseLive(c) \/ Seal(c) \/ RefuseSeal(c)
  BY <1>3, RefuseLiveKeeps, SealKeeps, RefuseSealKeeps
<1> QED BY <1>1, <1>2, <1>3 DEF Reserves

LEMMA DeliversKeeps ==
    ASSUME Orderly, IInv, NEW c \in Characters, Delivers(c)
    PROVE  IInv'
<1>1. ASSUME NEW outcome \in Outcomes, PrepareClaim(c, outcome) \/ AcknowledgeClaim(c, outcome)
      PROVE  IInv'
  BY <1>1, PrepareKeeps, AcknowledgeKeeps
<1>2. ASSUME NEW outcome \in Outcomes, WritePrepared(c, outcome) PROVE IInv'
  BY <1>2, WriteFailsKeeps, WriteLandsKeeps
<1>3. CASE PublishReward(c)
  BY <1>3, PublishLiveKeeps, PublishLastKeeps
<1>4. CASE FinishReward(c)
  BY <1>4, FinishAttachedKeeps, FinishDetachedKeeps
<1>5. ASSUME NEW outcome \in Outcomes, EndDetached(c, outcome) PROVE IInv'
  BY <1>5, EndDetachedKeeps
<1> QED BY <1>1, <1>2, <1>3, <1>4, <1>5 DEF Delivers

LEMMA LeavesKeeps ==
    ASSUME Orderly, IInv, NEW c \in Characters, TearsDown(c) \/ Autosaves(c)
    PROVE  IInv'
<1>1. ASSUME NEW place \in Places, DetachReward(c, place) PROVE IInv'
  BY <1>1, DetachKeeps
<1>2. CASE NothingToDetach(c) \/ Capture(c)
  BY <1>2, NothingToDetachKeeps, CaptureKeeps
<1>3. ASSUME NEW place \in Places, NEW outcome \in Outcomes, Remember(c, place, outcome)
      PROVE  IInv'
  BY <1>3, RememberKeeps
<1>4. ASSUME NEW outcome \in Outcomes, WriteCaptured(c, outcome) PROVE IInv'
  BY <1>4, WriteCapturedKeeps
<1> QED BY <1>1, <1>2, <1>3, <1>4 DEF TearsDown, Autosaves

LEMMA StutterKeeps ==
    ASSUME IInv, UNCHANGED vars
    PROVE  IInv'
<1>1. /\ UNCHANGED <<journal, uncertain, journalFile, record, fence, floor, owner, session,
                     live, task, saving, visit, reset, startup>>
  BY DEF vars
<1>2. TypeOK'
  BY <1>1 DEF IInv, TypeOK, Journal!TypeOK, Fence!TypeOK
<1>3. JournalFits' /\ (owner = NoOwner <=> (uncertain = NoImage \/ ~Running))'
  BY <1>1 DEF IInv, JournalFits, SyncWrites, Running
<1>4. ASSUME NEW c \in Characters
      PROVE  CharacterFits(c)' /\ GateFits(c)' /\ ClaimFits(c)'
  <2>1. CharacterFits(c)'
    BY <1>1, CharacterTypes, SameCharacter DEF Character
  <2>2. IntentOf(c)' = IntentOf(c)
    BY <1>1 DEF IntentOf
  <2>3. GateFits(c)' /\ ClaimFits(c)'
    BY <1>1, <2>2, CharacterTypes
    DEF GateFits, ClaimFits, At, Journal!WithIntent, Journal!Acknowledged, Journal!SharesOf
  <2> QED BY <2>1, <2>3
<1> QED BY <1>2, <1>3, <1>4 DEF IInv

LEMMA NextKeeps ==
    ASSUME Orderly, IInv, [Next]_vars
    PROVE  IInv'
<1>1. CASE SyncStep
  BY <1>1, SyncKeeps
<1>2. CASE Reset
  BY <1>2, ResetKeeps
<1>3. CASE Crash
  BY <1>3, CrashKeeps
<1>4. CASE RecoveryStep
  BY <1>4, RestartKeeps, RecoverRecordKeeps, RecoverAllKeeps DEF RecoveryStep
<1>5. ASSUME NEW c \in Characters,
             Playing(c) \/ Reserves(c) \/ Delivers(c) \/ TearsDown(c) \/ Autosaves(c)
      PROVE  IInv'
  BY <1>5, PlayingKeeps, ReservesKeeps, DeliversKeeps, LeavesKeeps
<1>6. CASE UNCHANGED vars
  BY <1>6, StutterKeeps
<1> QED BY <1>1, <1>2, <1>3, <1>4, <1>5, <1>6 DEF Next

-----------------------------------------------------------------------------
(* The initial state. *)

LEMMA EmptyImageOK == Journal!EmptyImage \in Journal!Image /\ Journal!Valid(Journal!EmptyImage)
<1> DEFINE e == Journal!EmptyImage
<1>1. e \in Journal!Image
  <2>1. e.next \in 1..(Cardinality(RunIds) + 1)
    BY Bounds DEF Journal!EmptyImage
  <2>2. e.runs \in UNION {[known -> RunIds] : known \in SUBSET Journal!Generations}
    <3>1. e.runs \in [{} -> RunIds] /\ {} \in SUBSET Journal!Generations
      BY DEF Journal!EmptyImage
    <3> QED BY <3>1
  <2> QED BY <2>1, <2>2 DEF Journal!EmptyImage, Journal!Image
<1>2. DOMAIN e.runs = {} /\ Cardinality({}) = 0
  BY FS_EmptySet DEF Journal!EmptyImage
<1>3. Journal!Valid(e)
  <2>1. /\ e.bound = {} /\ e.defeats = {} /\ e.owed = {} /\ e.taken = {} /\ e.intents = {}
        /\ 0 <= Cardinality(RunIds) /\ 0 <= Cardinality(Characters)
    BY Bounds DEF Journal!EmptyImage
  <2>2. Journal!Cardinality({}) = Cardinality({})
    BY DEF Journal!Cardinality, Cardinality
  <2> HIDE DEF e
  <2> QED BY <1>2, <2>1, <2>2 DEF Journal!Valid
<1> QED BY <1>1, <1>3

LEMMA NewbornRecord == Newborn \in Fence!Record /\ Newborn.epoch = 0
<1>1. 0 \in 0..MaxEpoch /\ 0 \in 0..MaxWear /\ 0 \in 0..MaxPack /\ 0 \in 0..MaxExperience
      /\ 0 + 0 <= MaxWear
  BY Bounds, RewardCoordinatorAssumption
<1>2. Newborn.life \in Life
  BY <1>1 DEF Newborn, Life
<1> QED BY <1>1, <1>2, Bounds DEF Newborn, Fence!Record

LEMMA InitHolds ==
    ASSUME Init
    PROVE  IInv
<1>1. /\ journal = Journal!EmptyImage /\ uncertain = NoImage
      /\ journalFile = [now |-> Journal!EmptyImage, mayBe |-> {Journal!EmptyImage}]
  BY DEF Init, Journal!Init, Journal!Settled
<1>2. /\ record = [c \in Characters |-> [now |-> Newborn, mayBe |-> {Newborn}]]
      /\ fence = [c \in Characters |-> NoToken] /\ floor = [c \in Characters |-> 0]
      /\ owner = NoOwner /\ reset = FALSE
      /\ session = [c \in Characters |-> "none"] /\ live = [c \in Characters |-> NoLife]
      /\ task = [c \in Characters |-> NoTask] /\ saving = [c \in Characters |-> NoLife]
      /\ visit = [c \in Characters |-> NoLife]
      /\ startup = [phase |-> "running", confirmed |-> {}]
      /\ NoOwner \notin Characters /\ Sync # NoOwner
  BY RewardCoordinatorAssumption DEF Init, Settled
<1>3. TypeOK
  <2>1. Journal!TypeOK
    BY <1>1, EmptyImageOK DEF Journal!TypeOK, Journal!Files
  <2>2. Fence!TypeOK
    BY <1>2, NewbornRecord, Bounds DEF Fence!TypeOK, Fence!Files
  <2> QED BY <1>2, <2>1, <2>2 DEF TypeOK, Phases, Startup
<1>4. JournalFits
  BY <1>1, <1>2, EmptyImageOK DEF JournalFits
<1>5. ASSUME NEW c \in Characters
      PROVE  CharacterFits(c) /\ GateFits(c) /\ ClaimFits(c)
  <2>1. SessionFits(c)
    BY <1>2 DEF SessionFits, At, Running
  <2>2. BarrierFits(c)
    BY <1>2, NewbornRecord DEF BarrierFits, At
  <2>3. WordFits(c)
    BY <1>2 DEF WordFits, Word, At
  <2> QED BY <1>2, <2>1, <2>2, <2>3 DEF CharacterFits, GateFits, ClaimFits, At
<1> QED BY <1>1, <1>2, <1>3, <1>4, <1>5 DEF IInv

(* The invariant of every reachable state, from which the guarantees follow. *)
THEOREM Invariance == ASSUME Orderly PROVE Spec => []IInv
<1>1. IInv /\ [Next]_vars => IInv'
  BY NextKeeps
<1> QED BY <1>1, InitHolds, PTL DEF Spec

-----------------------------------------------------------------------------
(* The guarantees. *)

(* Every claim, life, record, barrier and journal image is what the code's   *)
(* types allow, and a reward's epoch never outgrows its field.               *)
THEOREM DeliveryTypeCorrect == ASSUME Orderly PROVE Spec => []TypeOK
<1>1. IInv => TypeOK
  BY DEF IInv
<1> QED BY <1>1, Invariance, PTL

(* A doubtful journal write is always in the hands of the one who can only   *)
(* repeat it: nobody is ever shut out by a write nobody retries.             *)
THEOREM DoubtIsAlwaysRetried == ASSUME Orderly PROVE Spec => []GateIsHeldByItsRetry
<1>1. IInv => GateIsHeldByItsRetry
  BY DEF IInv, GateFits, GateIsHeldByItsRetry
<1> QED BY <1>1, Invariance, PTL

(* Whatever claims, failures and crashes came before, the store accepts the  *)
(* last word of whoever leaves.                                              *)
THEOREM LastWordsAreAccepted == ASSUME Orderly PROVE Spec => []LastWordIsAccepted
<1>1. ASSUME IInv, NEW c \in Characters
      PROVE  /\ session[c] = "asked" => fence[c] = NoToken /\ live[c].epoch = floor[c]
             /\ At(c, {"ended"}) => fence[c] = NoToken /\ task[c].last.epoch = floor[c]
  <2>1. CASE session[c] = "asked"
    <3>1. task[c] = NoTask /\ live[c] # NoLife
      BY <1>1, <2>1, CharacterTypes DEF CharacterFits, SessionFits
    <3>2. fence[c] = NoToken /\ Word(c) = live[c]
      BY <1>1, <3>1, CharacterTypes DEF CharacterFits, BarrierFits, At, Word
    <3> QED BY <1>1, <3>1, <3>2, CharacterTypes DEF CharacterFits, WordFits, At
  <2>2. CASE At(c, {"ended"})
    <3>1. session[c] = "gone" /\ live[c] = NoLife /\ ~Attached(c)
      BY <1>1, <2>2, CharacterTypes DEF CharacterFits, SessionFits
    <3>2. fence[c] = NoToken /\ Word(c) = task[c].last /\ task[c].last # NoLife
      BY <1>1, <2>2, <3>1, CharacterTypes
      DEF CharacterFits, BarrierFits, At, Word, Attached, Unwritten, Landed
    <3>3. ~At(c, {"written"}) /\ WordFits(c)
      BY <1>1, <2>2, CharacterTypes DEF CharacterFits, At
    <3> QED BY <3>1, <3>2, <3>3 DEF WordFits
  <2> QED BY <1>1, <2>1, <2>2, CharacterTypes DEF CharacterFits, SessionFits
<1>2. IInv => LastWordIsAccepted
  BY <1>1 DEF LastWordIsAccepted
<1> QED BY <1>2, Invariance, PTL

(* Neither the sync, a collection nor another claim takes a sealed claim's   *)
(* shares before it has acknowledged them.                                   *)
THEOREM SealedSharesStayOwed == ASSUME Orderly PROVE Spec => []SealedClaimStaysOwed
<1>1. ASSUME IInv, NEW c \in Characters,
             At(c, {"sealed", "prepared", "written", "published"})
      PROVE  Journal!SharesOf(IntentOf(c)) \subseteq journal.owed \ journal.taken
  <2>1. CASE At(c, {"sealed"})
    BY <1>1, <2>1, CharacterTypes DEF ClaimFits
  <2>2. CASE At(c, {"prepared", "written", "published"})
    <3>1. IntentOf(c) \in journal.intents /\ Journal!Valid(journal)
      BY <1>1, <2>2, CharacterTypes DEF ClaimFits, IInv, JournalFits
    <3> QED BY <3>1 DEF Journal!Valid, Journal!ValidIntent
  <2> QED BY <1>1, <2>1, <2>2 DEF At
<1>2. IInv => SealedClaimStaysOwed
  BY <1>1 DEF SealedClaimStaysOwed
<1> QED BY <1>2, Invariance, PTL

-----------------------------------------------------------------------------
(* What a life keeps.  The image of a claim is published into the life it    *)
(* was taken from, so from its making to its publication it has all that    *)
(* life has: nothing else may change the pack meanwhile.                     *)

PackFits(c) ==
    At(c, InPack) =>
        /\ task[c].image.life.pack = Word(c).life.pack
        /\ \A p \in Parts : task[c].image.life.grants[p] >= Word(c).life.grants[p]

LInv == IInv /\ \A c \in Characters : PackFits(c)

(* What a step may make of a word, and what it must keep of its claim.       *)
WordStep(c) ==
    /\ PackFits(c)'
    /\ Word(c) # NoLife /\ Word(c)' # NoLife => AtLeast(Word(c), Word(c)')

LEMMA LifeFields ==
    \A rec \in Fence!Record :
        /\ rec.epoch \in Nat /\ rec.life.pack \in Nat /\ rec.life.wear \in Nat
        /\ rec.life.debt \in Nat /\ rec.life.experience \in Nat
        /\ \A p \in Parts : rec.life.grants[p] \in 0..2
  BY RewardCoordinatorAssumption, Bounds DEF Fence!Record, Life

LEMMA WordTypes ==
    ASSUME IInv, NEW c \in Characters
    PROVE  /\ Word(c) \in Fence!Record \cup {NoLife}
           /\ At(c, InPack) => Word(c) \in Fence!Record /\ task[c].image \in Fence!Record
           /\ live[c] # NoLife => Word(c) = live[c]
<1>1. Word(c) \in Fence!Record \cup {NoLife}
  BY CharacterTypes, TaskFields DEF Word, Attached
<1>2. ASSUME At(c, InPack)
      PROVE  Word(c) # NoLife /\ task[c].image \in Fence!Record
  <2>1. task[c] \in Task /\ SessionFits(c) /\ WordFits(c) /\ session[c] \in Phases
    BY <1>2, CharacterTypes DEF CharacterFits, At
  <2>2. task[c].image \in Fence!Record
    BY <1>2, <2>1, TaskFields DEF WordFits
  <2>3. CASE session[c] = "gone"
    BY <2>1, <2>2, <2>3, <1>2, TaskFields, RecordFields DEF SessionFits, Word, At, Attached
  <2>4. CASE session[c] # "gone"
    BY <2>1, <2>2, <2>4, <1>2, TaskFields, RecordFields DEF SessionFits, Word, At, Phases, Attached
  <2> QED BY <2>2, <2>3, <2>4
<1> QED BY <1>1, <1>2 DEF Word

LEMMA SameLife == \A rec \in Fence!Record : AtLeast(rec, rec)
  BY LifeFields DEF AtLeast

(* The word stays, and the claim either stays with its image or owns no pack. *)
LEMMA WordStays ==
    ASSUME LInv, NEW c \in Characters, Word(c)' = Word(c),
           At(c, InPack)' => At(c, InPack) /\ task'[c].image = task[c].image
    PROVE  WordStep(c)
<1>1. PackFits(c)'
  BY DEF LInv, PackFits
<1>2. Word(c) # NoLife => AtLeast(Word(c), Word(c)')
  BY WordTypes, SameLife DEF LInv
<1> QED BY <1>1, <1>2 DEF WordStep

LEMMA WordKept ==
    ASSUME LInv, NEW c \in Characters, live'[c] = live[c], task'[c] = task[c]
    PROVE  WordStep(c)
<1>1. Word(c)' = Word(c)
  BY DEF Word, Attached
<1> QED BY <1>1, WordStays DEF At

(* Nobody leaves this word any more.                                         *)
LEMMA WordEnds ==
    ASSUME NEW c \in Characters, live'[c] = NoLife, task'[c] = NoTask
    PROVE  WordStep(c)
  BY DEF WordStep, PackFits, At, Word

LEMMA LifeAdvances ==
    ASSUME LInv, NEW c \in Characters, live[c] # NoLife, NEW new \in Fence!Record,
           live' = [live EXCEPT ![c] = new], UNCHANGED task, AtLeast(live[c], new),
           At(c, InPack) => /\ new.life.pack = live[c].life.pack
                            /\ new.life.grants = live[c].life.grants
    PROVE  \A d \in Characters : WordStep(d)
<1>1. live'[c] = new /\ \A d \in Characters \ {c} : live'[d] = live[d]
  BY DEF LInv, IInv, TypeOK
<1>2. Word(c) = live[c] /\ Word(c)' = new
  BY <1>1, RecordFields DEF Word
<1>3. PackFits(c)'
  BY <1>2 DEF LInv, PackFits, At
<1> QED BY <1>1, <1>2, <1>3, WordKept DEF WordStep

LEMMA ClaimAdvances ==
    ASSUME LInv, NEW c \in Characters, task[c] # NoTask, NEW s \in Stages, Advance(c, s),
           UNCHANGED live, s \in InPack => At(c, InPack)
    PROVE  \A d \in Characters : WordStep(d)
<1>1. /\ task'[c] # NoTask /\ task'[c].stage = s /\ task'[c].image = task[c].image
      /\ task'[c].last = task[c].last /\ \A d \in Characters \ {c} : task'[d] = task[d]
  BY StageMoves DEF LInv
<1>2. Word(c)' = Word(c)
  BY <1>1 DEF Word, Attached
<1> QED BY <1>1, <1>2, WordStays, WordKept DEF At

LEMMA ClaimEnds ==
    ASSUME LInv, NEW c \in Characters, EndAttached(c), UNCHANGED live,
           live[c] # NoLife \/ Attached(c)
    PROVE  \A d \in Characters : WordStep(d)
<1>1. task'[c] = NoTask /\ \A d \in Characters \ {c} : task'[d] = task[d]
  BY DEF EndAttached, LInv, IInv, TypeOK
<1>2. Word(c)' = Word(c)
  BY <1>1 DEF Word
<1> QED BY <1>1, <1>2, WordStays, WordKept DEF At

LEMMA PlayingWord ==
    ASSUME LInv, NEW c \in Characters, Playing(c)
    PROVE  \A d \in Characters : WordStep(d)
<1>0. /\ session[c] = "world" => live[c] \in Fence!Record
      /\ session[c] = "none" => live[c] = NoLife
      /\ live \in [Characters -> Fence!Record \cup {NoLife}]
  BY CharacterTypes DEF CharacterFits, SessionFits, LInv, IInv, TypeOK
<1>1. CASE Join(c)
  <2>1. /\ task' = task /\ task[c] = NoTask /\ live[c] = NoLife
        /\ \A d \in Characters \ {c} : live'[d] = live[d]
    BY <1>0, <1>1 DEF Join
  <2>2. WordStep(c)
    BY <2>1 DEF WordStep, PackFits, At, Word
  <2> QED BY <2>1, <2>2, WordKept
<1>2. CASE ChangePack(c)
  <2> DEFINE new == [live[c] EXCEPT !.life.pack = @ + 1]
  <2>1. live[c] \in Fence!Record /\ ~At(c, InPack) /\ UNCHANGED task
    BY <1>0, <1>2 DEF ChangePack, rewardInventoryBusy, At, InPack
  <2>2. new \in Fence!Record /\ AtLeast(live[c], new)
    BY <1>2, <2>1, RewardCoordinatorAssumption, LifeFields DEF ChangePack, Fence!Record, Life, AtLeast
  <2>3. live' = [live EXCEPT ![c] = new]
    BY <1>2 DEF ChangePack
  <2> HIDE DEF new
  <2> QED BY <2>1, <2>2, <2>3, LifeAdvances, RecordFields
<1>3. CASE EarnExperience(c)
  <2> DEFINE new == [live[c] EXCEPT !.life.experience = @ + 1]
  <2>1. live[c] \in Fence!Record /\ UNCHANGED task
    BY <1>0, <1>3 DEF EarnExperience
  <2>2. /\ new \in Fence!Record /\ AtLeast(live[c], new)
        /\ new.life.pack = live[c].life.pack /\ new.life.grants = live[c].life.grants
    BY <1>3, <2>1, RewardCoordinatorAssumption, LifeFields DEF EarnExperience, Fence!Record, Life, AtLeast
  <2>3. live' = [live EXCEPT ![c] = new]
    BY <1>3 DEF EarnExperience
  <2> HIDE DEF new
  <2> QED BY <2>1, <2>2, <2>3, LifeAdvances, RecordFields
<1>4. CASE Die(c)
  <2> DEFINE deferred == [live[c] EXCEPT !.life.debt = @ + 1]
             paid == [live[c] EXCEPT !.life.wear = @ + 1]
  <2>1. /\ live[c] \in Fence!Record /\ live[c].life.wear + live[c].life.debt < MaxWear
        /\ UNCHANGED task
    BY <1>0, <1>4 DEF Die
  <2>2. /\ deferred \in Fence!Record /\ AtLeast(live[c], deferred)
        /\ deferred.life.pack = live[c].life.pack /\ deferred.life.grants = live[c].life.grants
    BY <2>1, RewardCoordinatorAssumption, LifeFields DEF Fence!Record, Life, AtLeast
  <2>3. /\ paid \in Fence!Record /\ AtLeast(live[c], paid)
        /\ paid.life.pack = live[c].life.pack /\ paid.life.grants = live[c].life.grants
    BY <2>1, RewardCoordinatorAssumption, LifeFields DEF Fence!Record, Life, AtLeast
  <2>4. live' = [live EXCEPT ![c] = deferred] \/ live' = [live EXCEPT ![c] = paid]
    BY <1>4 DEF Die
  <2> HIDE DEF deferred, paid
  <2> QED BY <2>1, <2>2, <2>3, <2>4, LifeAdvances, RecordFields
<1>5. CASE Leave(c)
  BY <1>5, WordKept DEF Leave
<1> QED BY <1>1, <1>2, <1>3, <1>4, <1>5 DEF Playing

(* The image has what the life has, and what fits of the grant.              *)
LEMMA ImageHolds ==
    \A rec \in Fence!Record : \A parts \in SUBSET Parts :
        LET image == Disk(WithGrants(rec, parts))
        IN  /\ image.life.pack = rec.life.pack
            /\ \A p \in Parts : image.life.grants[p] >= rec.life.grants[p]
<1> SUFFICES ASSUME NEW rec \in Fence!Record, NEW parts \in SUBSET Parts
             PROVE  LET image == Disk(WithGrants(rec, parts))
                    IN  /\ image.life.pack = rec.life.pack
                        /\ \A p \in Parts : image.life.grants[p] >= rec.life.grants[p]
  OBVIOUS
<1> DEFINE grants == [p \in Parts |-> IF p \in parts /\ rec.life.grants[p] < 2
                                      THEN rec.life.grants[p] + 1 ELSE rec.life.grants[p]]
           epoch == rec.epoch + 1
<1>1. \A p \in Parts : grants[p] >= rec.life.grants[p]
  BY LifeFields
<1>2. Disk(WithGrants(rec, parts)) = [rec EXCEPT !.epoch = epoch, !.life.grants = grants, !.life.debt = 0]
  BY DEF WithGrants, Disk, Fence!Record, Life
<1> HIDE DEF grants, epoch
<1> QED BY <1>1, <1>2 DEF Fence!Record, Life

LEMMA SpentFields ==
    \A rec \in Fence!Record :
        /\ Spent(rec).epoch = rec.epoch
        /\ Spent(rec).life.wear = rec.life.wear + rec.life.debt /\ Spent(rec).life.debt = 0
        /\ Spent(rec).life.pack = rec.life.pack /\ Spent(rec).life.grants = rec.life.grants
        /\ Spent(rec).life.experience = rec.life.experience
<1> SUFFICES ASSUME NEW rec \in Fence!Record
             PROVE  /\ Spent(rec).epoch = rec.epoch
                    /\ Spent(rec).life.wear = rec.life.wear + rec.life.debt /\ Spent(rec).life.debt = 0
                    /\ Spent(rec).life.pack = rec.life.pack /\ Spent(rec).life.grants = rec.life.grants
                    /\ Spent(rec).life.experience = rec.life.experience
  OBVIOUS
<1> DEFINE paid == rec.life.wear + rec.life.debt
<1>1. Spent(rec) = [rec EXCEPT !.life.wear = paid, !.life.debt = 0]
  BY DEF Spent
<1> HIDE DEF paid
<1>2. /\ Spent(rec).epoch = rec.epoch
      /\ Spent(rec).life.wear = paid /\ Spent(rec).life.debt = 0
      /\ Spent(rec).life.pack = rec.life.pack /\ Spent(rec).life.grants = rec.life.grants
      /\ Spent(rec).life.experience = rec.life.experience
  BY <1>1 DEF Fence!Record, Life
<1> QED BY <1>2 DEF paid

LEMMA SpentLife == \A rec \in Fence!Record : AtLeast(rec, Spent(rec))
  BY SpentFields, LifeFields DEF AtLeast

LEMMA PublishedLife ==
    \A rec, image \in Fence!Record :
        /\ image.epoch >= rec.epoch /\ image.life.wear = rec.life.wear
        /\ image.life.pack = rec.life.pack
        /\ \A p \in Parts : image.life.grants[p] >= rec.life.grants[p]
        => AtLeast(rec, Published(rec, image))
<1> SUFFICES ASSUME NEW rec \in Fence!Record, NEW image \in Fence!Record,
                    image.epoch >= rec.epoch, image.life.wear = rec.life.wear,
                    image.life.pack = rec.life.pack,
                    \A p \in Parts : image.life.grants[p] >= rec.life.grants[p]
             PROVE  AtLeast(rec, Published(rec, image))
  OBVIOUS
<1> DEFINE merged == [image EXCEPT !.life.debt = rec.life.debt,
                                   !.life.experience = rec.life.experience]
<1>1. /\ merged.epoch = image.epoch /\ merged.life.wear = rec.life.wear
      /\ merged.life.pack = rec.life.pack /\ merged.life.grants = image.life.grants
      /\ merged.life.debt = rec.life.debt /\ merged.life.experience = rec.life.experience
      /\ merged \in Fence!Record
  BY DEF Fence!Record, Life
<1>2. Published(rec, image) = Spent(merged)
  BY DEF Published
<1> HIDE DEF merged
<1>3. /\ Spent(merged).epoch = image.epoch
      /\ Spent(merged).life.wear = rec.life.wear + rec.life.debt /\ Spent(merged).life.debt = 0
      /\ Spent(merged).life.pack = rec.life.pack
      /\ Spent(merged).life.grants = image.life.grants
      /\ Spent(merged).life.experience = rec.life.experience
  BY <1>1, SpentFields
<1> QED BY <1>2, <1>3, LifeFields DEF AtLeast

LEMMA ReservesWord ==
    ASSUME LInv, NEW c \in Characters, Reserves(c)
    PROVE  \A d \in Characters : WordStep(d)
<1>0. /\ IInv /\ SessionFits(c) /\ session[c] \in Phases /\ task[c] \in Task \cup {NoTask}
      /\ live[c] \in Fence!Record \cup {NoLife}
      /\ task \in [Characters -> Task \cup {NoTask}] /\ live \in [Characters -> Fence!Record \cup {NoLife}]
  BY CharacterTypes DEF LInv, CharacterFits, IInv, TypeOK
<1>1. At(c, {"claimed", "reserved", "imaged"}) => live[c] # NoLife /\ task[c] # NoTask
  BY <1>0 DEF SessionFits, At, Sealed, Phases
<1>2. ASSUME NEW parts \in SUBSET Parts, ClaimBossReward(c, parts)
      PROVE  \A d \in Characters : WordStep(d)
  <2>1. /\ task[c] = NoTask /\ UNCHANGED live
        /\ task'[c].stage = "claimed" /\ task'[c].last = NoLife
        /\ \A d \in Characters \ {c} : task'[d] = task[d]
    BY <1>0, <1>2 DEF ClaimBossReward
  <2>2. Word(c)' = Word(c) /\ ~At(c, InPack)'
    BY <2>1 DEF Word, Attached, At, InPack
  <2> QED BY <2>1, <2>2, WordStays, WordKept
<1>3. ASSUME NEW fit \in SUBSET Parts, ReserveLive(c, fit)
      PROVE  \A d \in Characters : WordStep(d)
  <2> DEFINE image == Disk(WithGrants(live[c], fit))
  <2>1. /\ live[c] \in Fence!Record /\ UNCHANGED live
        /\ task' = [task EXCEPT ![c].stage = "imaged", ![c].parts = fit, ![c].image = image]
    BY <1>0, <1>1, <1>3 DEF ReserveLive, At
  <2>2. image.life.pack = live[c].life.pack /\ \A p \in Parts : image.life.grants[p] >= live[c].life.grants[p]
    BY <2>1, ImageHolds
  <2> HIDE DEF image
  <2>3. task'[c].image = image /\ \A d \in Characters \ {c} : task'[d] = task[d]
    <3>1. task[c] \in Task
      BY <1>0, <1>3 DEF ReserveLive, At
    <3> QED BY <1>0, <2>1, <3>1 DEF Task
  <2>4. Word(c) = live[c] /\ Word(c)' = live[c]
    BY <2>1, RecordFields DEF Word
  <2>5. PackFits(c)'
    BY <2>2, <2>3, <2>4 DEF PackFits
  <2>6. WordStep(c)
    BY <2>1, <2>4, <2>5, SameLife DEF WordStep
  <2> QED BY <2>1, <2>3, <2>6, WordKept
<1>4. CASE ReserveReward(c)
  <2>1. At(c, {"claimed"}) /\ UNCHANGED live /\ (Advance(c, "reserved") \/ EndAttached(c))
    BY <1>4 DEF ReserveReward
  <2> QED BY <1>1, <2>1, ClaimAdvances, ClaimEnds DEF At, Stages, InPack
<1>5. CASE RefuseLive(c)
  <2>1. At(c, {"reserved"}) /\ UNCHANGED live /\ EndAttached(c)
    BY <1>5 DEF RefuseLive
  <2> QED BY <1>1, <2>1, ClaimEnds DEF At
<1>6. CASE Seal(c)
  <2>1. At(c, {"imaged"}) /\ UNCHANGED live /\ Advance(c, "sealed")
    BY <1>6 DEF Seal
  <2> QED BY <2>1, ClaimAdvances DEF At, Stages, InPack
<1>7. CASE RefuseSeal(c)
  <2>1. At(c, {"imaged"}) /\ EndAttached(c) /\ live' = [live EXCEPT ![c] = Spent(live[c])]
    BY <1>7 DEF RefuseSeal
  <2>2. /\ task'[c] = NoTask /\ live'[c] = Spent(live[c]) /\ live[c] \in Fence!Record
        /\ \A d \in Characters \ {c} : task'[d] = task[d] /\ live'[d] = live[d]
    BY <1>0, <1>1, <2>1 DEF EndAttached, At
  <2>3. Word(c) = live[c] /\ Word(c)' = Spent(live[c])
    BY <2>2, SpentRecord, RecordFields DEF Word
  <2>4. PackFits(c)'
    BY <2>2 DEF PackFits, At
  <2> QED BY <2>2, <2>3, <2>4, SpentLife, WordKept DEF WordStep
<1> QED BY <1>2, <1>3, <1>4, <1>5, <1>6, <1>7 DEF Reserves

LEMMA PublishWord ==
    ASSUME LInv, NEW c \in Characters, PublishReward(c)
    PROVE  \A d \in Characters : WordStep(d)
<1>0. /\ IInv /\ WordFits(c) /\ BarrierFits(c) /\ SessionFits(c)
      /\ session[c] \in Phases /\ task[c] \in Task
      /\ live[c] \in Fence!Record \cup {NoLife} /\ floor[c] \in 0..MaxEpoch
      /\ task \in [Characters -> Task \cup {NoTask}] /\ live \in [Characters -> Fence!Record \cup {NoLife}]
      /\ At(c, {"written"}) /\ At(c, InPack) /\ At(c, Landed)
  BY CharacterTypes DEF LInv, CharacterFits, IInv, TypeOK, PublishReward, At, InPack, Landed
<1>1. Word(c) \in Fence!Record /\ task[c].image \in Fence!Record
  BY <1>0, WordTypes
<1> DEFINE published == Published(Word(c), task[c].image)
<1>2. AtLeast(Word(c), published)
  <2>1. task[c].image.epoch = floor[c] /\ Word(c).epoch = floor[c] - 1
    <3>1. Word(c) # NoLife
      BY <1>1, RecordFields
    <3> QED BY <1>0, <3>1 DEF WordFits, BarrierFits, At, Landed
  <2>2. task[c].image.epoch >= Word(c).epoch
    BY <1>0, <2>1, Bounds
  <2>3. /\ task[c].image.life.wear = Word(c).life.wear
        /\ task[c].image.life.pack = Word(c).life.pack
        /\ \A p \in Parts : task[c].image.life.grants[p] >= Word(c).life.grants[p]
    BY <1>0 DEF WordFits, LInv, PackFits
  <2> QED BY <1>1, <2>2, <2>3, PublishedLife
<1>3. published # NoLife
  BY <1>0, <1>1, PublishedRecord, RecordFields DEF WordFits
<1>4. CASE Attached(c)
  <2>1. Word(c) = live[c]
    BY <1>1, <1>4, RecordFields DEF Word
  <2>2. live' = [live EXCEPT ![c] = published] /\ Advance(c, "published")
    BY <1>4, <2>1 DEF PublishReward
  <2> HIDE DEF published
  <2>3. /\ live'[c] = published /\ \A d \in Characters \ {c} : live'[d] = live[d]
        /\ task'[c].stage = "published" /\ \A d \in Characters \ {c} : task'[d] = task[d]
    BY <1>0, <2>2, StageMoves DEF At, Stages
  <2>4. Word(c)' = published /\ PackFits(c)'
    BY <1>3, <2>3 DEF Word, PackFits, At, InPack
  <2> QED BY <1>2, <2>3, <2>4, WordKept DEF WordStep
<1>5. CASE ~Attached(c)
  <2>1. live[c] = NoLife /\ Word(c) = task[c].last
    BY <1>0, <1>1, <1>5, RecordFields DEF SessionFits, Word, Phases, At
  <2>2. /\ task' = [task EXCEPT ![c].stage = "published", ![c].last = published] /\ UNCHANGED live
    BY <1>5, <2>1 DEF PublishReward
  <2> HIDE DEF published
  <2>3. /\ task'[c].stage = "published" /\ task'[c].last = published
        /\ task'[c] = [task[c] EXCEPT !.stage = "published", !.last = published]
        /\ \A d \in Characters \ {c} : task'[d] = task[d]
    BY <1>0, <2>2 DEF Task
  <2>4. task'[c] # NoTask
    <3>1. published \in Fence!Record
      BY <1>0, <1>1, PublishedRecord DEF WordFits, published
    <3>2. task'[c] \in Task
      BY <1>0, <2>3, <3>1 DEF Task, Stages
    <3> QED BY <3>2, TaskFields
  <2>5. Word(c)' = published /\ PackFits(c)'
    BY <1>3, <2>1, <2>2, <2>3, <2>4 DEF Word, Attached, PackFits, At, InPack
  <2> QED BY <1>2, <2>2, <2>3, <2>5, WordKept DEF WordStep
<1> QED BY <1>4, <1>5

LEMMA DeliversWord ==
    ASSUME LInv, NEW c \in Characters, Delivers(c)
    PROVE  \A d \in Characters : WordStep(d)
<1>1. ASSUME NEW outcome \in Outcomes, PrepareClaim(c, outcome)
      PROVE  \A d \in Characters : WordStep(d)
  <2>1. At(c, {"sealed"}) /\ UNCHANGED live /\ (Advance(c, "prepared") \/ UNCHANGED task)
    BY <1>1 DEF PrepareClaim
  <2> QED BY <2>1, ClaimAdvances, WordKept DEF At, Stages, InPack
<1>2. ASSUME NEW outcome \in Outcomes, WritePrepared(c, outcome)
      PROVE  \A d \in Characters : WordStep(d)
  <2>1. At(c, {"prepared"}) /\ UNCHANGED live /\ (Advance(c, "written") \/ UNCHANGED task)
    BY <1>2 DEF WritePrepared
  <2> QED BY <2>1, ClaimAdvances, WordKept DEF At, Stages, InPack
<1>3. ASSUME NEW outcome \in Outcomes, AcknowledgeClaim(c, outcome)
      PROVE  \A d \in Characters : WordStep(d)
  <2>1. At(c, {"published"}) /\ UNCHANGED live /\ (Advance(c, "acknowledged") \/ UNCHANGED task)
    BY <1>3 DEF AcknowledgeClaim
  <2> QED BY <2>1, ClaimAdvances, WordKept DEF At, Stages, InPack
<1>4. CASE FinishReward(c)
  <2>1. At(c, {"acknowledged"}) /\ UNCHANGED live
        /\ (IF Attached(c) THEN EndAttached(c) ELSE Advance(c, "ended"))
    BY <1>4 DEF FinishReward
  <2> QED BY <2>1, ClaimAdvances, ClaimEnds DEF At, Stages, InPack
<1>5. ASSUME NEW outcome \in Outcomes, EndDetached(c, outcome)
      PROVE  \A d \in Characters : WordStep(d)
  <2>1. At(c, {"ended"}) /\ UNCHANGED live /\ task' = [task EXCEPT ![c] = NoTask]
    BY <1>5 DEF EndDetached
  <2>2. live[c] = NoLife
    BY <2>1, CharacterTypes DEF LInv, CharacterFits, SessionFits
  <2>3. task'[c] = NoTask /\ \A d \in Characters \ {c} : task'[d] = task[d]
    BY <2>1 DEF LInv, IInv, TypeOK
  <2> QED BY <2>1, <2>2, <2>3, WordEnds, WordKept
<1> QED BY <1>1, <1>2, <1>3, <1>4, <1>5, PublishWord DEF Delivers

LEMMA LeavesWord ==
    ASSUME LInv, NEW c \in Characters, TearsDown(c) \/ Autosaves(c)
    PROVE  \A d \in Characters : WordStep(d)
<1>0. /\ SessionFits(c) /\ live[c] \in Fence!Record \cup {NoLife} /\ task[c] \in Task \cup {NoTask}
      /\ task \in [Characters -> Task \cup {NoTask}] /\ live \in [Characters -> Fence!Record \cup {NoLife}]
  BY CharacterTypes DEF LInv, CharacterFits, IInv, TypeOK
<1>1. ASSUME NEW place \in Places, DetachReward(c, place)
      PROVE  \A d \in Characters : WordStep(d)
  <2>1. /\ session[c] = "left" /\ task[c] # NoTask
        /\ task' = [task EXCEPT ![c].last = live[c], ![c].place = place]
        /\ live' = [live EXCEPT ![c] = NoLife]
    BY <1>1 DEF DetachReward
  <2>2. live[c] \in Fence!Record /\ live[c] # NoLife /\ task[c] \in Task
    BY <1>0, <2>1 DEF SessionFits
  <2>3. /\ live'[c] = NoLife
        /\ task'[c] = [task[c] EXCEPT !.last = live[c], !.place = place]
        /\ \A d \in Characters \ {c} : task'[d] = task[d] /\ live'[d] = live[d]
    BY <1>0, <2>1, <2>2 DEF Task
  <2>4. /\ task'[c] \in Task /\ task'[c].last = live[c] /\ task'[c].stage = task[c].stage
        /\ task'[c].image = task[c].image
    BY <2>2, <2>3 DEF Task
  <2>5. Word(c) = live[c] /\ Word(c)' = live[c]
    BY <2>2, <2>3, <2>4, TaskFields DEF Word, Attached
  <2>6. At(c, InPack)' => At(c, InPack)
    BY <2>1, <2>4 DEF At
  <2> QED BY <2>3, <2>4, <2>5, <2>6, WordStays, WordKept
<1>2. ASSUME NEW place \in Places, NEW outcome \in Outcomes, Remember(c, place, outcome)
      PROVE  \A d \in Characters : WordStep(d)
  <2>1. session[c] = "asked" /\ UNCHANGED task /\ live' = [live EXCEPT ![c] = NoLife]
    BY <1>2 DEF Remember
  <2>2. /\ task'[c] = NoTask /\ live'[c] = NoLife
        /\ \A d \in Characters \ {c} : task'[d] = task[d] /\ live'[d] = live[d]
    BY <1>0, <2>1 DEF SessionFits
  <2> QED BY <2>2, WordEnds, WordKept
<1>3. CASE NothingToDetach(c) \/ Capture(c) \/ \E outcome \in Outcomes : WriteCaptured(c, outcome)
  BY <1>3, WordKept DEF NothingToDetach, Capture, WriteCaptured
<1> QED BY <1>1, <1>2, <1>3 DEF TearsDown, Autosaves

LEMMA NextWord ==
    ASSUME LInv, [Next]_vars
    PROVE  \A d \in Characters : WordStep(d)
<1>1. CASE SyncStep \/ Reset
  <2>1. UNCHANGED <<live, task>>
    BY <1>1 DEF SyncStep, SyncAllocate, SyncCollect, SyncRetry, Reset, worldVars
  <2> QED BY <2>1, WordKept
<1>2. CASE Crash \/ Restart
  <2>1. live' = [c \in Characters |-> NoLife] /\ task' = [c \in Characters |-> NoTask]
    BY <1>2 DEF Crash, Restart, Forgotten
  <2> QED BY <2>1, WordEnds
<1>3. ASSUME NEW outcome \in Outcomes,
             RecoverAll(outcome) \/ \E intent \in journal.intents : RecoverRecord(intent, outcome)
      PROVE  \A d \in Characters : WordStep(d)
  <2>1. UNCHANGED <<live, task>>
    BY <1>3 DEF RecoverAll, RecoverRecord, worldVars
  <2> QED BY <2>1, WordKept
<1>4. ASSUME NEW c \in Characters,
             Playing(c) \/ Reserves(c) \/ Delivers(c) \/ TearsDown(c) \/ Autosaves(c)
      PROVE  \A d \in Characters : WordStep(d)
  BY <1>4, PlayingWord, ReservesWord, DeliversWord, LeavesWord
<1>5. CASE UNCHANGED vars
  BY <1>5, WordKept DEF vars
<1> QED BY <1>1, <1>2, <1>3, <1>4, <1>5 DEF Next, RecoveryStep

(* Publication, abort, detach and the deaths, kills and looting around them  *)
(* take nothing from a life, nor a death's price: the image a claim publishes *)
(* is never older than the life it replaces.                                 *)
THEOREM LivesLoseNothing == ASSUME Orderly PROVE Spec => LifeLosesNothing
<1>1. Init => LInv
  <2>1. ASSUME Init, NEW c \in Characters
        PROVE  PackFits(c)
    BY <2>1 DEF Init, PackFits, At
  <2> QED BY <2>1, InitHolds DEF LInv
<1>2. LInv /\ [Next]_vars => LInv'
  BY NextKeeps, NextWord DEF LInv, WordStep
<1>3. LInv /\ [Next]_vars => [\A c \in Characters : Word(c) # NoLife /\ Word(c)' # NoLife =>
                                 AtLeast(Word(c), Word(c)')]_vars
  BY NextWord DEF WordStep
<1> QED BY <1>1, <1>2, <1>3, PTL DEF Spec, LifeLosesNothing

-----------------------------------------------------------------------------
(***************************************************************************)
(* Exactly-once delivery, and what the journal promises, with the life a   *)
(* session had written when it left, under any number of power losses.     *)
(*                                                                         *)
(* Of a life only its mark matters: its epoch and what it was granted.     *)
(* Every mark of a character that is played, remembered, captured, written *)
(* or still to be written is on one chain: a later epoch was granted at    *)
(* least as much, and the same epoch the same.  A write that may reach the *)
(* record can then be compared with what the record holds, and every image *)
(* of the journal a crash may find with every content of the record.       *)
(***************************************************************************)

Steady == Orderly /\ Crashes \subseteq {"power"}

Mark(rec) == [epoch |-> rec.epoch, grants |-> rec.life.grants]
NoGrants == [p \in Parts |-> 0]

(* The images there are: in memory, in doubt, or what a crash may find. *)
Images == journalFile.mayBe \cup {journalFile.now, journal} \cup ({uncertain} \ {NoImage})
IntentsFor(c) == {i \in UNION {image.intents : image \in Images} : i.owner = c}

(* The marks a character's record may have, those of the lives that may be   *)
(* played or written next, and those an intent or a sealed claim may bring.  *)
Records(c) == {Mark(rec) : rec \in record[c].mayBe}
Held(c) ==
    {Mark(rec) : rec \in ({live[c], saving[c], visit[c]} \cup
                          (IF task[c] = NoTask THEN {} ELSE {task[c].last})) \ {NoLife}}
Bare(c) == Records(c) \cup Held(c)
Coming(c) == {Mark(i.image) : i \in IntentsFor(c)}
                 \cup (IF Sealed(c) THEN {Mark(task[c].image)} ELSE {})

Chained(marks) ==
    \A m, n \in marks : m.epoch <= n.epoch =>
        \A p \in Parts : m.grants[p] <= n.grants[p] /\ n.grants[p] <= 1

(* A record whose reward a recovery has still to confirm. *)
Unconfirmed(c) == ~Running /\ c \notin startup.confirmed

EpochsFit(c) ==
    /\ record[c].now \in record[c].mayBe
    /\ \A m \in Bare(c) :
          m.epoch <= floor[c] \/ (At(c, {"prepared"}) /\ m.epoch = task[c].image.epoch)
    /\ \A m \in Records(c) :
          m.epoch >= floor[c] \/ (Unconfirmed(c) /\ \E i \in journal.intents : i.owner = c)
    /\ Sealed(c) => task[c].image.epoch <= floor[c] \/ At(c, {"sealed", "prepared"})
    /\ \A i \in IntentsFor(c) :
          \/ i.image.epoch <= floor[c]
          \/ At(c, {"sealed", "prepared"}) /\ i = IntentOf(c)
          \/ Unconfirmed(c) /\ i \in journal.intents

(* An image grants what its claim asked for, and nothing else. *)
GrantsFit(c) ==
    /\ \A i \in IntentsFor(c) : \A p \in i.parts : i.image.life.grants[p] = 1
    /\ At(c, InPack) => \A p \in Parts :
          task[c].image.life.grants[p] =
              IF p \in task[c].parts /\ Word(c).life.grants[p] < 2
              THEN Word(c).life.grants[p] + 1 ELSE Word(c).life.grants[p]
    /\ Sealed(c) => /\ task[c].image \in Fence!Record
                    /\ \A p \in task[c].parts : task[c].image.life.grants[p] = 1

MarksFit(c) == Chained(Bare(c) \cup Coming(c)) /\ EpochsFit(c) /\ GrantsFit(c)

(* An intent in memory is in every image there is, or done with there; while *)
(* the server runs it is a claim's.                                          *)
IntentsFit ==
    /\ \A i \in journal.intents : \A image \in Images :
          i \in image.intents \/ Journal!SharesOf(i) \subseteq image.taken
    /\ Running => \A i \in journal.intents :
          At(i.owner, {"prepared", "written", "published"}) /\ i = IntentOf(i.owner)
    /\ ~Running =>
          \/ journal = journalFile.now
          \/ /\ startup.phase = "failed"
             /\ \A i \in journal.intents : i.owner \in startup.confirmed
             /\ journalFile.now.intents = {} /\ journalFile.now.runs = journal.runs

TakenIn(image, c, p) == \E s \in image.taken : s[3] = c /\ s[4] = p
Prepared(image) == UNION {Journal!SharesOf(i) : i \in image.intents}
OfferedIn(image, c, p) ==
    \E s \in image.owed \ (image.taken \cup Prepared(image)) : s[3] = c /\ s[4] = p

(* The defeat is still to be written, or written again. *)
Unrecorded(image) == ~reset /\ \A g \in DOMAIN image.runs : image.runs[g] # Dungeon

(* What an image says of each share, and what the character has of it. *)
ShareFits(image, c, p) ==
    /\ TakenIn(image, c, p) => \A m \in Records(c) : m.grants[p] = 1
    /\ OfferedIn(image, c, p) =>
          /\ \A m \in Bare(c) : m.grants[p] = 0
          /\ \A i \in IntentsFor(c) : p \in i.parts \/ i.image.life.grants[p] = 0
          /\ Sealed(c) => p \in task[c].parts \/ task[c].image.life.grants[p] = 0

NothingGranted == \A c \in Characters : \A m \in Bare(c) \cup Coming(c) : m.grants = NoGrants

OneRun(image) ==
    /\ \A d \in image.defeats : image.runs[d[1]] = Dungeon
    /\ \A g, h \in DOMAIN image.runs : image.runs[g] = image.runs[h] => g = h

ImageFits(image) ==
    /\ OneRun(image)
    /\ Unrecorded(image) => Unrecorded(journal) /\ NothingGranted
    /\ \A c \in Characters, p \in Parts : ShareFits(image, c, p)

DInv ==
    /\ \A c \in Characters : MarksFit(c)
    /\ IntentsFit
    /\ \A image \in Images : ImageFits(image)

-----------------------------------------------------------------------------
(* Facts about the marks and the images. *)

LEMMA ImageTypes ==
    ASSUME IInv
    PROVE  /\ Images \subseteq Journal!Image /\ \A image \in Images : Journal!Valid(image)
           /\ journal \in Images /\ journalFile.now \in Images
           /\ journalFile.mayBe \subseteq Images
           /\ uncertain # NoImage => uncertain \in Images
  BY DEF IInv, TypeOK, Journal!TypeOK, Journal!Files, JournalFits, Images

LEMMA IntentTypes ==
    ASSUME NEW image \in Journal!Image, NEW i \in image.intents
    PROVE  /\ i \in Journal!Intent /\ i.owner \in Characters /\ i.image \in Fence!Record
           /\ i.boss = Boss /\ i.gen \in Journal!Generations /\ i.parts \in SUBSET Parts
  BY DEF Journal!Image, Journal!Intent

Marks == [epoch : 0..MaxEpoch, grants : [Parts -> 0..2]]

LEMMA MarkOf ==
    \A rec \in Fence!Record :
        /\ Mark(rec) \in Marks /\ Mark(rec).epoch = rec.epoch
        /\ Mark(rec).grants = rec.life.grants
        /\ Disk(rec).epoch = rec.epoch /\ Mark(Disk(rec)) = Mark(rec)
        /\ Mark(Spent(rec)) = Mark(rec)
<1> SUFFICES ASSUME NEW rec \in Fence!Record
             PROVE  /\ Mark(rec) \in Marks /\ Mark(rec).epoch = rec.epoch
                    /\ Mark(rec).grants = rec.life.grants
                    /\ Disk(rec).epoch = rec.epoch /\ Mark(Disk(rec)) = Mark(rec)
                    /\ Mark(Spent(rec)) = Mark(rec)
  OBVIOUS
<1>1. Mark(rec) \in Marks
  BY RecordFields DEF Mark, Marks, Life
<1>2. Disk(rec).epoch = rec.epoch /\ Disk(rec).life.grants = rec.life.grants
  BY DEF Disk, Fence!Record, Life
<1>3. Spent(rec).epoch = rec.epoch /\ Spent(rec).life.grants = rec.life.grants
  BY DEF Spent, Fence!Record, Life
<1> QED BY <1>1, <1>2, <1>3 DEF Mark

LEMMA MarkTypes ==
    ASSUME IInv, DInv, NEW c \in Characters
    PROVE  /\ Records(c) \subseteq Marks /\ Bare(c) \subseteq Marks /\ Coming(c) \subseteq Marks
           /\ Records(c) \subseteq Bare(c)
           /\ \A i \in IntentsFor(c) :
                 /\ i \in Journal!Intent /\ i.owner = c /\ i.image \in Fence!Record
                 /\ i.parts \in SUBSET Parts /\ Mark(i.image) \in Coming(c)
           /\ Sealed(c) => Mark(task[c].image) \in Coming(c)
           /\ MarksFit(c)
<1>1. record[c].mayBe \subseteq Fence!Record
  BY CharacterTypes DEF Fence!Files
<1>2. Records(c) \subseteq Marks
  BY <1>1, MarkOf DEF Records
<1>3. Held(c) \subseteq Marks
  BY CharacterTypes, TaskFields, MarkOf DEF Held
<1>4. ASSUME NEW i \in IntentsFor(c)
      PROVE  /\ i \in Journal!Intent /\ i.owner = c /\ i.image \in Fence!Record
             /\ i.parts \in SUBSET Parts
  BY ImageTypes, IntentTypes DEF IntentsFor
<1>5. \A i \in IntentsFor(c) : Mark(i.image) \in Coming(c) /\ Mark(i.image) \in Marks
  BY <1>4, MarkOf DEF Coming
<1>6. Sealed(c) => task[c].image \in Fence!Record
  BY DEF DInv, MarksFit, GrantsFit
<1>7. Sealed(c) => Mark(task[c].image) \in Coming(c) /\ Mark(task[c].image) \in Marks
  BY <1>6, MarkOf DEF Coming
<1>8. Coming(c) \subseteq Marks
  BY <1>5, <1>7 DEF Coming
<1>9. MarksFit(c)
  BY DEF DInv
<1> QED BY <1>2, <1>3, <1>4, <1>5, <1>7, <1>8, <1>9 DEF Bare

(* The lives there are, by their marks. *)
LEMMA HeldMarks ==
    ASSUME IInv, DInv, NEW c \in Characters
    PROVE  /\ live[c] # NoLife => Mark(live[c]) \in Bare(c)
           /\ saving[c] # NoLife => Mark(saving[c]) \in Bare(c)
           /\ visit[c] # NoLife => Mark(visit[c]) \in Bare(c)
           /\ task[c] # NoTask /\ task[c].last # NoLife => Mark(task[c].last) \in Bare(c)
           /\ Word(c) # NoLife => Mark(Word(c)) \in Bare(c)
           /\ Mark(record[c].now) \in Records(c) /\ Mark(record[c].now) \in Bare(c)
<1>1. /\ live[c] # NoLife => Mark(live[c]) \in Bare(c)
      /\ saving[c] # NoLife => Mark(saving[c]) \in Bare(c)
      /\ visit[c] # NoLife => Mark(visit[c]) \in Bare(c)
      /\ task[c] # NoTask /\ task[c].last # NoLife => Mark(task[c].last) \in Bare(c)
  BY DEF Bare, Held
<1>2. Word(c) # NoLife => Mark(Word(c)) \in Bare(c)
  BY <1>1 DEF Word, Attached
<1>3. Mark(record[c].now) \in Records(c)
  BY MarkTypes DEF MarksFit, EpochsFit, Records
<1> QED BY <1>1, <1>2, <1>3 DEF Bare

(* Equal epochs, equal grants. *)
LEMMA SameGrants ==
    ASSUME IInv, DInv, NEW c \in Characters,
           NEW m \in Bare(c) \cup Coming(c), NEW n \in Bare(c) \cup Coming(c),
           m.epoch = n.epoch
    PROVE  m = n
<1>1. m \in Marks /\ n \in Marks /\ Chained(Bare(c) \cup Coming(c))
  BY MarkTypes DEF MarksFit
<1>2. \A p \in Parts : m.grants[p] <= n.grants[p] /\ n.grants[p] <= m.grants[p]
  BY <1>1 DEF Chained, Marks
<1>3. \A p \in Parts : m.grants[p] = n.grants[p]
  BY <1>1, <1>2 DEF Marks
<1>4. m.grants = n.grants
  BY <1>1, <1>3 DEF Marks
<1> QED BY <1>1, <1>4 DEF Marks

(* What one write leaves among the marks of a record. *)
LEMMA WrittenMarks ==
    ASSUME IInv, NEW c \in Characters, NEW rec \in Fence!Record, NEW outcome \in Outcomes,
           record'[c] = Written(record[c], rec, outcome), record[c].now \in record[c].mayBe
    PROVE  /\ record'[c].now \in record'[c].mayBe /\ record'[c].now \in {record[c].now, rec}
           /\ Records(c)' \subseteq Records(c) \cup {Mark(rec)}
           /\ outcome = "done" => Records(c)' = {Mark(rec)} /\ record'[c].now = rec
<1>1. outcome \in {"done", "unsynced", "failed"}
  BY RewardCoordinatorAssumption DEF WriteOutcomes
<1>2. CASE outcome = "done"
  BY <1>2 DEF Written, Settled, Records
<1>3. CASE outcome = "unsynced"
  BY <1>3 DEF Written, Records
<1>4. CASE outcome = "failed"
  BY <1>4 DEF Written, Records
<1> QED BY <1>1, <1>2, <1>3, <1>4

-----------------------------------------------------------------------------
(* A step of one character that brings no mark that was not there. *)

SameClaim(c) ==
    \/ /\ task[c] # NoTask /\ task'[c] # NoTask
       /\ task'[c].gen = task[c].gen /\ task'[c].parts = task[c].parts
       /\ task'[c].image = task[c].image
       /\ \/ task'[c].stage = task[c].stage
          \/ {task[c].stage, task'[c].stage} \subseteq {"written", "published"}
          \/ task[c].stage = "acknowledged" /\ task'[c].stage = "ended"
    \/ /\ ~Sealed(c) \/ At(c, {"acknowledged", "ended"})
       /\ ~Sealed(c)'

SameWord(c) ==
    At(c, InPack)' => /\ At(c, InPack) /\ Word(c)' # NoLife /\ Word(c) # NoLife
                      /\ Mark(Word(c)') = Mark(Word(c))
                      /\ task'[c].image = task[c].image /\ task'[c].parts = task[c].parts

LEMMA OtherCharacter ==
    ASSUME NEW d \in Characters, Character(d)' = Character(d), UNCHANGED <<journalVars, startup>>,
           MarksFit(d)
    PROVE  /\ MarksFit(d)' /\ Records(d)' = Records(d) /\ Bare(d)' = Bare(d)
           /\ Coming(d)' = Coming(d) /\ IntentsFor(d)' = IntentsFor(d)
           /\ task'[d] = task[d] /\ Sealed(d)' = Sealed(d)
<1>1. /\ session'[d] = session[d] /\ live'[d] = live[d] /\ task'[d] = task[d]
      /\ saving'[d] = saving[d] /\ visit'[d] = visit[d] /\ record'[d] = record[d]
      /\ fence'[d] = fence[d] /\ floor'[d] = floor[d] /\ startup' = startup
      /\ journal' = journal /\ uncertain' = uncertain /\ journalFile' = journalFile
  BY DEF Character, journalVars
<1>2. Images' = Images /\ IntentsFor(d)' = IntentsFor(d)
  BY <1>1 DEF Images, IntentsFor
<1>3. Records(d)' = Records(d) /\ Held(d)' = Held(d)
  BY <1>1 DEF Records, Held
<1>4. Sealed(d)' = Sealed(d) /\ Coming(d)' = Coming(d)
  BY <1>1, <1>2 DEF Coming, Sealed, At
<1>5. Bare(d)' = Bare(d)
  BY <1>3 DEF Bare
<1>6. Chained(Bare(d) \cup Coming(d))'
  BY <1>4, <1>5 DEF MarksFit, Chained
<1>7. EpochsFit(d)'
  BY <1>1, <1>2, <1>3, <1>4, <1>5
  DEF MarksFit, EpochsFit, At, IntentOf, Unconfirmed, Running
<1>8. GrantsFit(d)'
  BY <1>1, <1>2, <1>4 DEF MarksFit, GrantsFit, At, Word, Attached
<1> QED BY <1>1, <1>2, <1>3, <1>4, <1>5, <1>6, <1>7, <1>8 DEF MarksFit

LEMMA QuietStep ==
    ASSUME IInv, DInv, NEW c \in Characters,
           UNCHANGED <<journalVars, reset, startup>>,
           \A d \in Characters \ {c} : Character(d)' = Character(d),
           floor'[c] = floor[c], record'[c].now \in record'[c].mayBe,
           Bare(c)' \subseteq Bare(c),
           \A m \in Records(c)' :
              m \in Records(c) \/ (m.epoch = floor[c] /\ record[c].now.epoch = floor[c]),
           SameClaim(c), SameWord(c) \/ GrantsFit(c)'
    PROVE  DInv'
<1>1. /\ journal' = journal /\ uncertain' = uncertain /\ journalFile' = journalFile
      /\ reset' = reset /\ startup' = startup
  BY DEF journalVars
<1>2. Images' = Images /\ \A d \in Characters : IntentsFor(d)' = IntentsFor(d)
  BY <1>1 DEF Images, IntentsFor
<1>3. \A d \in Characters \ {c} :
         /\ MarksFit(d)' /\ Records(d)' = Records(d) /\ Bare(d)' = Bare(d)
         /\ Coming(d)' = Coming(d) /\ task'[d] = task[d] /\ Sealed(d)' = Sealed(d)
  BY <1>1, OtherCharacter DEF DInv
<1>4. Sealed(c)' =>
         /\ Sealed(c) /\ task'[c].image = task[c].image /\ task'[c].parts = task[c].parts
         /\ At(c, {"sealed", "prepared"})' => At(c, {"sealed", "prepared"})
         /\ At(c, {"prepared"})' => At(c, {"prepared"})
  BY DEF SameClaim, Sealed, At
<1>5. Coming(c)' \subseteq Coming(c)
  BY <1>2, <1>4 DEF Coming
<1>6. /\ At(c, {"sealed", "prepared"}) <=> At(c, {"sealed", "prepared"})'
      /\ At(c, {"prepared"}) <=> At(c, {"prepared"})'
      /\ At(c, {"prepared", "written", "published"}) <=> At(c, {"prepared", "written", "published"})'
      /\ At(c, {"sealed", "prepared", "written", "published"}) => IntentOf(c)' = IntentOf(c)
  BY DEF SameClaim, Sealed, At, IntentOf
<1>7. MarksFit(c)'
  <2>1. Chained(Bare(c) \cup Coming(c))'
    BY <1>5, MarkTypes DEF MarksFit, Chained
  <2>2. EpochsFit(c)'
    <3>1. EpochsFit(c)
      BY MarkTypes DEF MarksFit
    <3>2. \A m \in Bare(c)' :
             m.epoch <= floor'[c] \/ (At(c, {"prepared"})' /\ m.epoch = task'[c].image.epoch)
      BY <1>6, <3>1 DEF EpochsFit, SameClaim, Sealed, At
    <3>3. \A m \in Records(c)' :
             m.epoch >= floor'[c] \/ (Unconfirmed(c) /\ \E i \in journal.intents : i.owner = c)'
      <4>1. ASSUME NEW m \in Records(c)', m.epoch = floor[c], record[c].now.epoch = floor[c]
            PROVE  m.epoch >= floor'[c]
        BY <4>1, CharacterTypes
      <4> QED BY <1>1, <3>1, <4>1 DEF EpochsFit, Unconfirmed, Running
    <3>4. (Sealed(c) => task[c].image.epoch <= floor[c] \/ At(c, {"sealed", "prepared"}))'
      BY <1>4, <1>6, <3>1 DEF EpochsFit
    <3>5. \A i \in IntentsFor(c)' :
             \/ i.image.epoch <= floor'[c]
             \/ At(c, {"sealed", "prepared"})' /\ i = IntentOf(c)'
             \/ Unconfirmed(c)' /\ i \in journal'.intents
      <4>1. At(c, {"sealed", "prepared"}) => IntentOf(c)' = IntentOf(c)
        BY <1>6 DEF At
      <4> QED BY <1>1, <1>2, <1>6, <3>1, <4>1 DEF EpochsFit, Unconfirmed, Running
    <3> QED BY <3>2, <3>3, <3>4, <3>5 DEF EpochsFit
  <2>3. GrantsFit(c)'
    <3>1. CASE SameWord(c)
      <4>1. GrantsFit(c)
        BY MarkTypes DEF MarksFit
      <4>2. ASSUME At(c, InPack)'
            PROVE  /\ At(c, InPack) /\ Word(c)'.life.grants = Word(c).life.grants
                   /\ task'[c].image = task[c].image /\ task'[c].parts = task[c].parts
        BY <3>1, <4>2 DEF SameWord, SameClaim, Sealed, At, InPack, Mark
      <4> QED BY <1>2, <1>4, <4>1, <4>2 DEF GrantsFit
    <3> QED BY <3>1
  <2> QED BY <2>1, <2>2, <2>3 DEF MarksFit
<1>8. IntentsFit'
  <2>1. \A d \in Characters :
           At(d, {"prepared", "written", "published"}) =>
              At(d, {"prepared", "written", "published"})' /\ IntentOf(d)' = IntentOf(d)
    BY <1>3, <1>6 DEF At, IntentOf
  <2>2. \A i \in journal.intents : i.owner \in Characters
    BY ImageTypes, IntentTypes
  <2> QED BY <1>1, <1>2, <2>1, <2>2 DEF DInv, IntentsFit, Running
<1>9. ASSUME NEW image \in Images' PROVE ImageFits(image)'
  <2>1. image \in Images /\ ImageFits(image)
    BY <1>2, <1>9 DEF DInv
  <2>2. OneRun(image)' /\ (Unrecorded(image)' <=> Unrecorded(image))
    BY <1>1, <2>1 DEF ImageFits, OneRun, Unrecorded
  <2>3. NothingGranted => NothingGranted'
    BY <1>3, <1>5 DEF NothingGranted
  <2>4. ASSUME NEW d \in Characters, NEW p \in Parts PROVE ShareFits(image, d, p)'
    <3>1. ShareFits(image, d, p)
      BY <2>1 DEF ImageFits
    <3>2. CASE d # c
      <4>1. /\ Records(d)' = Records(d) /\ Bare(d)' = Bare(d) /\ task'[d] = task[d]
            /\ Sealed(d)' = Sealed(d) /\ IntentsFor(d)' = IntentsFor(d)
        BY <1>2, <1>3, <3>2
      <4> QED BY <3>1, <4>1 DEF ShareFits, TakenIn, OfferedIn, Prepared
    <3>3. CASE d = c
      <4>1. ASSUME TakenIn(image, c, p), NEW m \in Records(c)' PROVE m.grants[p] = 1
        <5>1. CASE m \in Records(c)
          BY <3>1, <3>3, <4>1, <5>1 DEF ShareFits
        <5>2. CASE m.epoch = floor[c] /\ record[c].now.epoch = floor[c]
          <6>1. /\ Mark(record[c].now) \in Records(c) /\ m \in Bare(c) /\ m \in Marks
                /\ Mark(record[c].now).epoch = m.epoch
            BY <5>2, HeldMarks, MarkTypes, CharacterTypes, MarkOf DEF Bare
          <6>2. Mark(record[c].now) = m
            BY <6>1, SameGrants, HeldMarks
          <6> QED BY <3>1, <3>3, <4>1, <6>1, <6>2 DEF ShareFits
        <5> QED BY <5>1, <5>2
      <4>2. ASSUME OfferedIn(image, c, p)
            PROVE  /\ \A m \in Bare(c)' : m.grants[p] = 0
                   /\ \A i \in IntentsFor(c)' : p \in i.parts \/ i.image.life.grants[p] = 0
                   /\ Sealed(c)' => p \in task'[c].parts \/ task'[c].image.life.grants[p] = 0
        BY <1>2, <1>4, <3>1, <3>3, <4>2 DEF ShareFits
      <4> QED BY <3>3, <4>1, <4>2 DEF ShareFits, TakenIn, OfferedIn, Prepared
    <3> QED BY <3>2, <3>3
  <2> QED BY <1>1, <2>1, <2>2, <2>3, <2>4 DEF ImageFits, Unrecorded
<1> QED BY <1>3, <1>7, <1>8, <1>9 DEF DInv

(* The same, of the lives: none is played, kept or written but one whose mark *)
(* the character already has.                                                 *)
LEMMA QuietLife ==
    ASSUME IInv, DInv, NEW c \in Characters,
           UNCHANGED <<journalVars, reset, startup>>,
           \A d \in Characters \ {c} : Character(d)' = Character(d),
           \/ UNCHANGED <<record, floor>>
           \/ \E rec \in Fence!Record, outcome \in Outcomes :
                 SaveOrRefuse(c, rec, outcome) /\ Mark(rec) \in Bare(c),
           live'[c] # NoLife => Mark(live'[c]) \in Bare(c),
           saving'[c] # NoLife => Mark(saving'[c]) \in Bare(c),
           visit'[c] # NoLife => Mark(visit'[c]) \in Bare(c),
           task'[c] # NoTask /\ task'[c].last # NoLife => Mark(task'[c].last) \in Bare(c),
           SameClaim(c), SameWord(c) \/ GrantsFit(c)'
    PROVE  DInv'
<1>1. record[c].now \in record[c].mayBe
  BY MarkTypes DEF MarksFit, EpochsFit
<1>2. /\ floor'[c] = floor[c] /\ record'[c].now \in record'[c].mayBe
      /\ Records(c)' \subseteq Bare(c)
      /\ \A m \in Records(c)' :
            m \in Records(c) \/ (m.epoch = floor[c] /\ record[c].now.epoch = floor[c])
  <2>1. CASE record' = record /\ floor' = floor
    BY <1>1, <2>1 DEF Records, Bare
  <2>2. ASSUME NEW rec \in Fence!Record, NEW outcome \in Outcomes,
               SaveOrRefuse(c, rec, outcome), Mark(rec) \in Bare(c)
        PROVE  /\ floor'[c] = floor[c] /\ record'[c].now \in record'[c].mayBe
               /\ Records(c)' \subseteq Bare(c)
               /\ \A m \in Records(c)' :
                     m \in Records(c) \/ (m.epoch = floor[c] /\ record[c].now.epoch = floor[c])
    <3>1. CASE UNCHANGED fenceVars
      BY <1>1, <3>1 DEF Records, Bare, fenceVars
    <3>2. CASE fence[c] = NoToken /\ rec.epoch = floor[c] /\ Fence!Save(c, rec, outcome)
      <4>1. Fence!Written(record[c], rec, outcome) = Written(record[c], rec, outcome)
        BY CharacterTypes, RecordWritten
      <4>2. record'[c] = Written(record[c], rec, outcome) /\ floor' = floor
        BY <3>2, <4>1 DEF Fence!Save, IInv, TypeOK, Fence!TypeOK
      <4>3. /\ record'[c].now \in record'[c].mayBe
            /\ Records(c)' \subseteq Records(c) \cup {Mark(rec)}
        BY <1>1, <4>2, WrittenMarks
      <4>4. record[c].now.epoch = floor[c] /\ Mark(rec).epoch = floor[c]
        BY <3>2, CharacterTypes, MarkOf DEF CharacterFits, BarrierFits, At, Unwritten
      <4> QED BY <2>2, <4>2, <4>3, <4>4 DEF Bare
    <3> QED BY <2>2, <3>1, <3>2 DEF SaveOrRefuse
  <2> QED BY <2>1, <2>2
<1>3. Held(c)' \subseteq Bare(c)
  BY DEF Held
<1>4. Bare(c)' \subseteq Bare(c)
  BY <1>2, <1>3 DEF Bare
<1> QED BY <1>2, <1>4, QuietStep

LEMMA ClaimStays ==
    ASSUME NEW c \in Characters, task'[c] = task[c]
    PROVE  SameClaim(c) /\ (live'[c] = live[c] => Word(c)' = Word(c))
<1>1. SameClaim(c)
  BY DEF SameClaim, Sealed, At
<1> QED BY <1>1 DEF Word, Attached

LEMMA ClaimHasWord ==
    ASSUME IInv, NEW c \in Characters, At(c, InPack)
    PROVE  Word(c) # NoLife /\ task[c] \in Task
<1>1. task[c] \in Task /\ task[c] # NoTask
  BY CharacterTypes DEF At
<1> QED BY <1>1, CharacterTypes DEF CharacterFits, SessionFits, Word, Phases, At, Attached, InPack

(* A claim that is not, or no longer, in the pack. *)
LEMMA NoWord ==
    ASSUME NEW c \in Characters, ~At(c, InPack)'
    PROVE  SameWord(c)
  BY DEF SameWord

(* A life that only changes beside its epoch and its grants. *)
LEMMA LifeKeepsMarks ==
    ASSUME IInv, DInv, NEW c \in Characters, NEW new \in Fence!Record,
           live[c] # NoLife, Mark(new) = Mark(live[c]),
           live' = [live EXCEPT ![c] = new], UNCHANGED <<worldOnly, task, saving, visit>>,
           session' = session
    PROVE  DInv'
<1>1. /\ live'[c] = new /\ new # NoLife
      /\ UNCHANGED <<journalVars, reset, startup, record, fence, floor, task, saving, visit, session>>
  BY RecordFields DEF worldOnly, fenceVars, IInv, TypeOK
<1>2. \A d \in Characters \ {c} : Character(d)' = Character(d)
  BY <1>1 DEF Character, IInv, TypeOK
<1>3. SameClaim(c)
  BY <1>1, ClaimStays
<1>4. SameWord(c)
  <2>1. Word(c)' = new /\ Word(c) = live[c]
    BY <1>1 DEF Word
  <2>2. At(c, InPack)' => At(c, InPack)
    BY <1>1 DEF At
  <2> QED BY <1>1, <2>1, <2>2 DEF SameWord
<1> QED BY <1>1, <1>2, <1>3, <1>4, HeldMarks, QuietLife

LEMMA PlayingMarks ==
    ASSUME Orderly, IInv, DInv, NEW c \in Characters,
           ChangePack(c) \/ EarnExperience(c) \/ Die(c)
    PROVE  DInv'
<1>1. /\ live[c] \in Fence!Record /\ live[c] # NoLife /\ session' = session
      /\ UNCHANGED <<worldOnly, task, saving, visit>>
  BY CharacterTypes DEF ChangePack, EarnExperience, Die, CharacterFits, SessionFits
<1>2. CASE ChangePack(c)
  <2> DEFINE new == [live[c] EXCEPT !.life.pack = @ + 1]
  <2>1. new \in Fence!Record /\ Mark(new) = Mark(live[c])
    BY <1>1, <1>2, RewardCoordinatorAssumption DEF ChangePack, Fence!Record, Life, Mark
  <2>2. live' = [live EXCEPT ![c] = new]
    BY <1>2 DEF ChangePack
  <2> HIDE DEF new
  <2> QED BY <1>1, <2>1, <2>2, LifeKeepsMarks
<1>3. CASE EarnExperience(c)
  <2> DEFINE new == [live[c] EXCEPT !.life.experience = @ + 1]
  <2>1. new \in Fence!Record /\ Mark(new) = Mark(live[c])
    BY <1>1, <1>3, RewardCoordinatorAssumption DEF EarnExperience, Fence!Record, Life, Mark
  <2>2. live' = [live EXCEPT ![c] = new]
    BY <1>3 DEF EarnExperience
  <2> HIDE DEF new
  <2> QED BY <1>1, <2>1, <2>2, LifeKeepsMarks
<1>4. CASE Die(c) /\ rewardWearDeferred(c)
  <2> DEFINE new == [live[c] EXCEPT !.life.debt = @ + 1]
  <2>1. new \in Fence!Record /\ Mark(new) = Mark(live[c])
    BY <1>1, <1>4, RewardCoordinatorAssumption DEF Die, Fence!Record, Life, Mark
  <2>2. live' = [live EXCEPT ![c] = new]
    BY <1>4 DEF Die
  <2> HIDE DEF new
  <2> QED BY <1>1, <2>1, <2>2, LifeKeepsMarks
<1>5. CASE Die(c) /\ ~rewardWearDeferred(c)
  <2> DEFINE new == [live[c] EXCEPT !.life.wear = @ + 1]
  <2>1. new \in Fence!Record /\ Mark(new) = Mark(live[c])
    BY <1>1, <1>5, RewardCoordinatorAssumption DEF Die, Fence!Record, Life, Mark
  <2>2. live' = [live EXCEPT ![c] = new]
    BY <1>5 DEF Die
  <2> HIDE DEF new
  <2> QED BY <1>1, <2>1, <2>2, LifeKeepsMarks
<1> QED BY <1>2, <1>3, <1>4, <1>5

LEMMA CaptureMarks ==
    ASSUME Orderly, IInv, DInv, NEW c \in Characters, Capture(c)
    PROVE  DInv'
<1>1. /\ live[c] \in Fence!Record /\ live[c] # NoLife
      /\ saving'[c] = Disk(live[c]) /\ saving' = [saving EXCEPT ![c] = Disk(live[c])]
      /\ UNCHANGED <<journalVars, reset, startup, record, fence, floor, session, live, task, visit>>
  BY CharacterTypes DEF Capture, worldOnly, fenceVars, CharacterFits, SessionFits, IInv, TypeOK
<1>2. Mark(Disk(live[c])) \in Bare(c)
  BY <1>1, HeldMarks, MarkOf
<1>3. \A d \in Characters \ {c} : Character(d)' = Character(d)
  BY <1>1 DEF Character, IInv, TypeOK
<1>4. SameClaim(c) /\ Word(c)' = Word(c)
  BY <1>1, ClaimStays
<1>5. SameWord(c)
  BY <1>1, <1>4, ClaimHasWord DEF SameWord, At
<1> QED BY <1>1, <1>2, <1>3, <1>4, <1>5, HeldMarks, QuietLife

LEMMA LeavingMarks ==
    ASSUME Orderly, IInv, DInv, NEW c \in Characters, Leave(c) \/ NothingToDetach(c)
    PROVE  DInv'
<1>1. /\ \A d \in Characters \ {c} : session'[d] = session[d]
      /\ UNCHANGED <<journalVars, reset, startup, record, fence, floor, live, task, saving, visit>>
  BY DEF Leave, NothingToDetach, worldOnly, fenceVars, IInv, TypeOK
<1>2. \A d \in Characters \ {c} : Character(d)' = Character(d)
  BY <1>1 DEF Character
<1>3. SameClaim(c) /\ Word(c)' = Word(c)
  BY <1>1, ClaimStays
<1>4. SameWord(c)
  BY <1>1, <1>3, ClaimHasWord DEF SameWord, At
<1> QED BY <1>1, <1>2, <1>3, <1>4, HeldMarks, QuietLife

LEMMA ClaimMarks ==
    ASSUME Orderly, IInv, DInv, NEW c \in Characters, NEW parts \in SUBSET Parts,
           ClaimBossReward(c, parts)
    PROVE  DInv'
<1>1. /\ task[c] = NoTask /\ task'[c].stage = "claimed" /\ task'[c].last = NoLife
      /\ \A d \in Characters \ {c} : task'[d] = task[d]
      /\ UNCHANGED <<journalVars, reset, startup, record, fence, floor, session, live, saving, visit>>
  BY DEF ClaimBossReward, worldOnly, fenceVars, IInv, TypeOK
<1>2. \A d \in Characters \ {c} : Character(d)' = Character(d)
  BY <1>1 DEF Character
<1>3. SameClaim(c) /\ ~At(c, InPack)'
  BY <1>1 DEF SameClaim, Sealed, At, InPack
<1> QED BY <1>1, <1>2, <1>3, NoWord, HeldMarks, QuietLife

(* A claim refused, or given up: with it goes nothing but the claim. *)
LEMMA ClaimGone ==
    ASSUME IInv, DInv, NEW c \in Characters, At(c, {"claimed", "reserved", "acknowledged"}),
           task' = [task EXCEPT ![c] = NoTask],
           \A d \in Characters \ {c} : fence'[d] = fence[d],
           UNCHANGED <<journalVars, reset, startup, record, floor, session, live, saving, visit>>
    PROVE  DInv'
<1>1. /\ task'[c] = NoTask /\ \A d \in Characters \ {c} : task'[d] = task[d]
      /\ UNCHANGED <<journalVars, reset, startup, record, floor, session, live, saving, visit>>
  BY DEF IInv, TypeOK
<1>2. \A d \in Characters \ {c} : Character(d)' = Character(d)
  BY <1>1 DEF Character
<1>3. SameClaim(c) /\ ~At(c, InPack)'
  BY <1>1 DEF SameClaim, Sealed, At, InPack
<1> QED BY <1>1, <1>2, <1>3, NoWord, HeldMarks, QuietLife

LEMMA ReserveMarks ==
    ASSUME Orderly, IInv, DInv, NEW c \in Characters, ReserveReward(c) \/ RefuseLive(c)
    PROVE  DInv'
<1>1. CASE Fence!ReserveReward(c) /\ Advance(c, "reserved") /\ ReserveReward(c)
  <2>1. /\ At(c, {"claimed"})
        /\ \A d \in Characters \ {c} : fence'[d] = fence[d]
        /\ UNCHANGED <<journalVars, reset, startup, record, floor, session, live, saving, visit>>
    BY <1>1 DEF ReserveReward, Fence!ReserveReward, IInv, TypeOK, Fence!TypeOK
  <2>2. /\ task[c] # NoTask /\ task'[c] # NoTask /\ task'[c].stage = "reserved"
        /\ task'[c].last = task[c].last
        /\ \A d \in Characters \ {c} : task'[d] = task[d]
    BY <1>1, <2>1, StageMoves DEF At, Stages
  <2>3. \A d \in Characters \ {c} : Character(d)' = Character(d)
    BY <2>1, <2>2 DEF Character
  <2>4. SameClaim(c) /\ ~At(c, InPack)'
    BY <2>1, <2>2 DEF SameClaim, Sealed, At, InPack
  <2> QED BY <2>1, <2>2, <2>3, <2>4, NoWord, HeldMarks, QuietLife
<1>2. CASE EndAttached(c) /\ UNCHANGED fenceVars /\ ReserveReward(c)
  BY <1>2, ClaimGone DEF ReserveReward, EndAttached, fenceVars, At
<1>3. CASE RefuseLive(c)
  BY <1>3, ClaimGone DEF RefuseLive, EndAttached, Fence!AbortReward, At, IInv, TypeOK, Fence!TypeOK
<1> QED BY <1>1, <1>2, <1>3 DEF ReserveReward

LEMMA FinishMarks ==
    ASSUME Orderly, IInv, DInv, NEW c \in Characters, FinishReward(c)
    PROVE  DInv'
<1>1. /\ At(c, {"acknowledged"})
      /\ \A d \in Characters \ {c} : fence'[d] = fence[d]
      /\ UNCHANGED <<journalVars, reset, startup, record, floor, session, live, saving, visit>>
  BY DEF FinishReward, Fence!ReleaseReward, IInv, TypeOK, Fence!TypeOK
<1>2. CASE EndAttached(c)
  BY <1>1, <1>2, ClaimGone DEF EndAttached, At
<1>3. CASE Advance(c, "ended")
  <2>1. /\ task[c] # NoTask /\ task'[c] # NoTask /\ task'[c].stage = "ended"
        /\ task'[c].gen = task[c].gen /\ task'[c].parts = task[c].parts
        /\ task'[c].image = task[c].image /\ task'[c].last = task[c].last
        /\ \A d \in Characters \ {c} : task'[d] = task[d]
    BY <1>1, <1>3, StageMoves DEF At, Stages
  <2>2. \A d \in Characters \ {c} : Character(d)' = Character(d)
    BY <1>1, <2>1 DEF Character
  <2>3. SameClaim(c) /\ ~At(c, InPack)'
    BY <1>1, <2>1 DEF SameClaim, At, InPack
  <2> QED BY <1>1, <2>1, <2>2, <2>3, NoWord, HeldMarks, QuietLife
<1> QED BY <1>2, <1>3 DEF FinishReward

LEMMA RefuseSealMarks ==
    ASSUME Orderly, IInv, DInv, NEW c \in Characters, RefuseSeal(c)
    PROVE  DInv'
<1>1. /\ At(c, {"imaged"}) /\ live[c] # NoLife /\ live[c] \in Fence!Record
      /\ live' = [live EXCEPT ![c] = Spent(live[c])]
      /\ task' = [task EXCEPT ![c] = NoTask]
      /\ \A d \in Characters \ {c} : fence'[d] = fence[d]
      /\ UNCHANGED <<journalVars, reset, startup, record, floor, session, saving, visit>>
  <2>1. session[c] \in {"world", "left"}
    BY CharacterTypes DEF RefuseSeal, CharacterFits, SessionFits, At, Sealed, Phases
  <2>2. live[c] # NoLife /\ live[c] \in Fence!Record
    BY <2>1, CharacterTypes DEF CharacterFits, SessionFits
  <2> QED BY <2>2 DEF RefuseSeal, EndAttached, Fence!AbortReward, IInv, TypeOK, Fence!TypeOK
<1>2. /\ task'[c] = NoTask /\ live'[c] = Spent(live[c])
      /\ \A d \in Characters \ {c} : task'[d] = task[d] /\ live'[d] = live[d]
  BY <1>1 DEF IInv, TypeOK
<1>3. \A d \in Characters \ {c} : Character(d)' = Character(d)
  BY <1>1, <1>2 DEF Character
<1>4. Mark(live'[c]) \in Bare(c)
  BY <1>1, <1>2, HeldMarks, MarkOf
<1>5. SameClaim(c) /\ ~At(c, InPack)'
  BY <1>1, <1>2 DEF SameClaim, Sealed, At
<1> QED BY <1>1, <1>2, <1>3, <1>4, <1>5, NoWord, HeldMarks, QuietLife

LEMMA DetachMarks ==
    ASSUME Orderly, IInv, DInv, NEW c \in Characters, NEW place \in Places, DetachReward(c, place)
    PROVE  DInv'
<1>1. /\ session[c] = "left" /\ task[c] \in Task /\ task[c] # NoTask
      /\ live[c] \in Fence!Record /\ live[c] # NoLife
      /\ task' = [task EXCEPT ![c].last = live[c], ![c].place = place]
      /\ live' = [live EXCEPT ![c] = NoLife]
      /\ visit'[c] \in {visit[c], live[c]}
      /\ \A d \in Characters \ {c} : visit'[d] = visit[d] /\ session'[d] = session[d]
      /\ UNCHANGED <<journalVars, reset, startup, record, fence, floor, saving>>
  <2>1. session[c] = "left" /\ task[c] # NoTask
    BY DEF DetachReward
  <2>2. live[c] # NoLife /\ live[c] \in Fence!Record /\ task[c] \in Task
    BY <2>1, CharacterTypes DEF CharacterFits, SessionFits
  <2> QED BY <2>1, <2>2 DEF DetachReward, Disconnect, worldOnly, fenceVars, IInv, TypeOK
<1>2. /\ task'[c] = [task[c] EXCEPT !.last = live[c], !.place = place] /\ live'[c] = NoLife
      /\ \A d \in Characters \ {c} : task'[d] = task[d] /\ live'[d] = live[d]
  BY <1>1 DEF IInv, TypeOK
<1>3. /\ task'[c] \in Task /\ task'[c] # NoTask /\ task'[c].stage = task[c].stage
      /\ task'[c].gen = task[c].gen /\ task'[c].parts = task[c].parts
      /\ task'[c].image = task[c].image /\ task'[c].last = live[c]
  <2> DEFINE t == [task[c] EXCEPT !.last = live[c], !.place = place]
  <2>1. /\ t \in Task /\ t.stage = task[c].stage /\ t.gen = task[c].gen
        /\ t.parts = task[c].parts /\ t.image = task[c].image /\ t.last = live[c]
    BY <1>1 DEF Task
  <2> QED BY <1>2, <2>1, TaskFields
<1>4. \A d \in Characters \ {c} : Character(d)' = Character(d)
  BY <1>1, <1>2 DEF Character
<1>5. SameClaim(c)
  BY <1>1, <1>3 DEF SameClaim
<1>6. SameWord(c)
  <2>1. Word(c)' = live[c] /\ Word(c) = live[c]
    BY <1>1, <1>2, <1>3 DEF Word, Attached
  <2> QED BY <1>1, <1>3, <2>1 DEF SameWord, At
<1> QED BY <1>1, <1>2, <1>3, <1>4, <1>5, <1>6, HeldMarks, QuietLife

LEMMA RememberMarks ==
    ASSUME Orderly, IInv, DInv, NEW c \in Characters, NEW place \in Places, NEW outcome \in Outcomes,
           Remember(c, place, outcome)
    PROVE  DInv'
<1>1. /\ session[c] = "asked" /\ task[c] = NoTask
      /\ live[c] \in Fence!Record /\ live[c] # NoLife
  <2>1. session[c] = "asked"
    BY DEF Remember
  <2> QED BY <2>1, CharacterTypes DEF CharacterFits, SessionFits
<1>2. /\ live'[c] = NoLife /\ visit'[c] \in {visit[c], live[c]}
      /\ \A d \in Characters \ {c} :
            live'[d] = live[d] /\ visit'[d] = visit[d] /\ session'[d] = session[d]
      /\ UNCHANGED <<journalVars, owner, task, saving, reset, startup>>
      /\ UNCHANGED fenceVars \/ SaveOrRefuse(c, Disk(live[c]), outcome)
  BY DEF Remember, Disconnect, IInv, TypeOK
<1>3. Disk(live[c]) \in Fence!Record /\ Mark(Disk(live[c])) \in Bare(c)
  BY <1>1, HeldMarks, MarkOf, DiskRecord
<1>4. /\ \A d \in Characters \ {c} : record'[d] = record[d]
      /\ UNCHANGED <<fence, floor>>
  BY <1>2, <1>3, SaveKeepsRecords
<1>5. \A d \in Characters \ {c} : Character(d)' = Character(d)
  BY <1>2, <1>4 DEF Character
<1>6. \/ UNCHANGED <<record, floor>>
      \/ \E rec \in Fence!Record, o \in Outcomes : SaveOrRefuse(c, rec, o) /\ Mark(rec) \in Bare(c)
  BY <1>2, <1>3 DEF fenceVars
<1>7. SameClaim(c) /\ ~At(c, InPack)'
  BY <1>1, <1>2 DEF SameClaim, Sealed, At
<1> QED BY <1>1, <1>2, <1>5, <1>6, <1>7, NoWord, HeldMarks, QuietLife

LEMMA EndDetachedMarks ==
    ASSUME Orderly, IInv, DInv, NEW c \in Characters, NEW outcome \in Outcomes, EndDetached(c, outcome)
    PROVE  DInv'
<1>1. /\ At(c, {"ended"}) /\ task[c] # NoTask
      /\ task[c].last # NoLife /\ task[c].last \in Fence!Record
  <2>1. At(c, {"ended"}) /\ task[c] # NoTask
    BY DEF EndDetached, At
  <2>2. task[c].last # NoLife
    BY <2>1, CharacterTypes DEF CharacterFits, SessionFits, Attached
  <2> QED BY <2>1, <2>2, CharacterTypes, TaskFields
<1>2. /\ task'[c] = NoTask
      /\ \A d \in Characters \ {c} : task'[d] = task[d] /\ session'[d] = session[d]
      /\ UNCHANGED <<journalVars, owner, live, visit, saving, reset, startup>>
      /\ UNCHANGED fenceVars \/ SaveOrRefuse(c, Disk(task[c].last), outcome)
  BY DEF EndDetached, IInv, TypeOK
<1>3. Disk(task[c].last) \in Fence!Record /\ Mark(Disk(task[c].last)) \in Bare(c)
  BY <1>1, HeldMarks, MarkOf, DiskRecord
<1>4. /\ \A d \in Characters \ {c} : record'[d] = record[d]
      /\ UNCHANGED <<fence, floor>>
  BY <1>2, <1>3, SaveKeepsRecords
<1>5. \A d \in Characters \ {c} : Character(d)' = Character(d)
  BY <1>2, <1>4 DEF Character
<1>6. \/ UNCHANGED <<record, floor>>
      \/ \E rec \in Fence!Record, o \in Outcomes : SaveOrRefuse(c, rec, o) /\ Mark(rec) \in Bare(c)
  BY <1>2, <1>3 DEF fenceVars
<1>7. SameClaim(c) /\ ~At(c, InPack)'
  BY <1>1, <1>2 DEF SameClaim, Sealed, At
<1> QED BY <1>1, <1>2, <1>5, <1>6, <1>7, NoWord, HeldMarks, QuietLife

LEMMA WriteCapturedMarks ==
    ASSUME Orderly, IInv, DInv, NEW c \in Characters, NEW outcome \in Outcomes, WriteCaptured(c, outcome)
    PROVE  DInv'
<1>1. /\ saving[c] # NoLife /\ saving'[c] = NoLife
      /\ \A d \in Characters \ {c} : saving'[d] = saving[d]
      /\ UNCHANGED <<journalVars, owner, live, visit, task, session, reset, startup>>
      /\ UNCHANGED fenceVars \/ SaveOrRefuse(c, saving[c], outcome)
  BY DEF WriteCaptured, IInv, TypeOK
<1>2. saving[c] \in Fence!Record /\ Mark(saving[c]) \in Bare(c)
  BY <1>1, HeldMarks, CharacterTypes
<1>3. /\ \A d \in Characters \ {c} : record'[d] = record[d]
      /\ UNCHANGED <<fence, floor>>
  BY <1>1, <1>2, SaveKeepsRecords
<1>4. \A d \in Characters \ {c} : Character(d)' = Character(d)
  BY <1>1, <1>3 DEF Character
<1>5. \/ UNCHANGED <<record, floor>>
      \/ \E rec \in Fence!Record, o \in Outcomes : SaveOrRefuse(c, rec, o) /\ Mark(rec) \in Bare(c)
  BY <1>1, <1>2 DEF fenceVars
<1>6. SameClaim(c) /\ Word(c)' = Word(c)
  BY <1>1, ClaimStays
<1>7. SameWord(c)
  BY <1>1, <1>6, ClaimHasWord DEF SameWord, At
<1> QED BY <1>1, <1>4, <1>5, <1>6, <1>7, HeldMarks, QuietLife

LEMMA JoinMarks ==
    ASSUME Orderly, IInv, DInv, NEW c \in Characters, Join(c)
    PROVE  DInv'
<1>1. /\ task[c] = NoTask /\ visit' = [visit EXCEPT ![c] = NoLife]
      /\ session' = [session EXCEPT ![c] = "world"]
      /\ UNCHANGED <<journalVars, owner, reset, startup, record, fence, floor, task, saving>>
  BY DEF Join, worldOnly, fenceVars
<1>2. PICK life \in Fence!Record : live' = [live EXCEPT ![c] = life] /\ Mark(life) \in Bare(c)
  <2>1. record[c].now \in Fence!Record /\ Mark(record[c].now) \in Bare(c)
    BY CharacterTypes, HeldMarks
  <2>2. CASE visit[c] = NoLife
    BY <2>1, <2>2 DEF Join
  <2>3. CASE visit[c] # NoLife
    <3> DEFINE resumed == [visit[c] EXCEPT !.life.experience =
                             IF @ > record[c].now.life.experience
                             THEN @ ELSE record[c].now.life.experience]
    <3>1. visit[c] \in Fence!Record /\ Mark(visit[c]) \in Bare(c)
      BY <2>3, CharacterTypes, HeldMarks
    <3>2. resumed \in Fence!Record /\ Mark(resumed) = Mark(visit[c])
      BY <2>1, <3>1 DEF Fence!Record, Life, Mark
    <3>3. live' = [live EXCEPT ![c] = resumed]
      BY <2>3 DEF Join
    <3> HIDE DEF resumed
    <3> QED BY <3>1, <3>2, <3>3
  <2> QED BY <2>2, <2>3
<1>3. /\ live'[c] = life /\ visit'[c] = NoLife
      /\ \A d \in Characters \ {c} :
            live'[d] = live[d] /\ visit'[d] = visit[d] /\ session'[d] = session[d]
  BY <1>1, <1>2 DEF IInv, TypeOK
<1>4. \A d \in Characters \ {c} : Character(d)' = Character(d)
  BY <1>1, <1>3 DEF Character
<1>5. SameClaim(c) /\ ~At(c, InPack)'
  BY <1>1 DEF SameClaim, Sealed, At
<1> QED BY <1>1, <1>2, <1>3, <1>4, <1>5, NoWord, HeldMarks, QuietLife

(* At its publication a reward's mark is the record's already. *)
LEMMA PublishedMark ==
    ASSUME IInv, DInv, NEW c \in Characters, At(c, {"written"}), NEW rec \in Fence!Record,
           rec.life.wear = task[c].image.life.wear
    PROVE  /\ task[c].image \in Fence!Record /\ Mark(task[c].image) \in Bare(c)
           /\ Published(rec, task[c].image) \in Fence!Record
           /\ Mark(Published(rec, task[c].image)) \in Bare(c)
<1>1. task[c].image \in Fence!Record /\ Mark(task[c].image) \in Coming(c)
  BY MarkTypes DEF Sealed, At, MarksFit, GrantsFit
<1>2. task[c].image.epoch = floor[c] /\ record[c].now.epoch = floor[c]
  BY CharacterTypes DEF CharacterFits, BarrierFits, At, Landed
<1>3. Mark(record[c].now).epoch = Mark(task[c].image).epoch
  BY <1>1, <1>2, CharacterTypes, MarkOf
<1>4. Mark(task[c].image) \in Bare(c)
  BY <1>1, <1>3, HeldMarks, SameGrants
<1>5. Published(rec, task[c].image) \in Fence!Record
  BY <1>1, PublishedRecord
<1>6. Mark(Published(rec, task[c].image)) = Mark(task[c].image)
  BY <1>1 DEF Published, Spent, Mark, Fence!Record, Life
<1> QED BY <1>1, <1>4, <1>5, <1>6

LEMMA PublishMarks ==
    ASSUME Orderly, IInv, DInv, NEW c \in Characters, PublishReward(c)
    PROVE  DInv'
<1>1. /\ At(c, {"written"}) /\ task[c] \in Task /\ task[c] # NoTask
      /\ UNCHANGED <<journalVars, reset, startup, record, fence, floor, session, saving>>
      /\ task[c].image.life.wear = Word(c).life.wear
  BY CharacterTypes DEF PublishReward, worldOnly, fenceVars, At, InPack, CharacterFits, WordFits
<1>2. CASE Attached(c)
  <2>1. live[c] # NoLife /\ live[c] \in Fence!Record /\ Word(c) = live[c]
    <3>1. Word(c) # NoLife
      BY <1>1, ClaimHasWord DEF At, InPack
    <3> QED BY <1>2, <3>1, CharacterTypes DEF Word
  <2> DEFINE published == Published(live[c], task[c].image)
  <2>2. published \in Fence!Record /\ Mark(published) \in Bare(c)
    BY <1>1, <2>1, PublishedMark
  <2>3. live'[c] = published /\ \A d \in Characters \ {c} : live'[d] = live[d]
    BY <1>2 DEF PublishReward, IInv, TypeOK
  <2>4. /\ task'[c] # NoTask /\ task'[c].stage = "published" /\ task'[c].last = task[c].last
        /\ task'[c].gen = task[c].gen /\ task'[c].parts = task[c].parts
        /\ task'[c].image = task[c].image
        /\ \A d \in Characters \ {c} : task'[d] = task[d] /\ visit'[d] = visit[d]
        /\ visit'[c] = visit[c]
    BY <1>1, <1>2, StageMoves DEF PublishReward, Stages
  <2> HIDE DEF published
  <2>5. \A d \in Characters \ {c} : Character(d)' = Character(d)
    BY <1>1, <2>3, <2>4 DEF Character
  <2>6. SameClaim(c) /\ ~At(c, InPack)'
    BY <1>1, <2>4 DEF SameClaim, At, InPack
  <2> QED BY <1>1, <2>2, <2>3, <2>4, <2>5, <2>6, NoWord, HeldMarks, QuietLife
<1>3. CASE ~Attached(c)
  <2>1. task[c].last # NoLife /\ task[c].last \in Fence!Record /\ Word(c) = task[c].last
    <3>1. Word(c) # NoLife /\ live[c] = NoLife
      BY <1>1, <1>3, ClaimHasWord, CharacterTypes DEF At, InPack, CharacterFits, SessionFits, Phases
    <3> QED BY <1>1, <1>3, <3>1, CharacterTypes, TaskFields DEF Word, Attached
  <2> DEFINE published == Published(task[c].last, task[c].image)
  <2>2. published \in Fence!Record /\ Mark(published) \in Bare(c)
    BY <1>1, <2>1, PublishedMark
  <2>3. /\ task'[c] = [task[c] EXCEPT !.stage = "published", !.last = published]
        /\ visit'[c] \in {visit[c], published} /\ live' = live
        /\ \A d \in Characters \ {c} : task'[d] = task[d] /\ visit'[d] = visit[d]
    BY <1>3 DEF PublishReward, ReplaceDisconnectedLife, IInv, TypeOK
  <2> HIDE DEF published
  <2>4. /\ task'[c] # NoTask /\ task'[c].stage = "published" /\ task'[c].last = published
        /\ task'[c].gen = task[c].gen /\ task'[c].parts = task[c].parts
        /\ task'[c].image = task[c].image
    <3>1. task'[c] \in Task
      BY <1>1, <2>2, <2>3 DEF Task, Stages
    <3> QED BY <1>1, <2>3, <3>1, TaskFields DEF Task
  <2>5. \A d \in Characters \ {c} : Character(d)' = Character(d)
    BY <1>1, <2>3 DEF Character
  <2>6. SameClaim(c) /\ ~At(c, InPack)'
    BY <1>1, <2>4 DEF SameClaim, At, InPack
  <2> QED BY <1>1, <2>2, <2>3, <2>4, <2>5, <2>6, NoWord, HeldMarks, QuietLife
<1> QED BY <1>2, <1>3

LEMMA ReserveLiveMarks ==
    ASSUME Orderly, IInv, DInv, NEW c \in Characters, NEW fit \in SUBSET Parts, ReserveLive(c, fit)
    PROVE  DInv'
<1> DEFINE image == Disk(WithGrants(live[c], fit))
<1>1. /\ At(c, {"reserved"}) /\ task[c] \in Task /\ task[c] # NoTask
      /\ live[c] \in Fence!Record /\ live[c] # NoLife
      /\ task' = [task EXCEPT ![c].stage = "imaged", ![c].parts = fit, ![c].image = image]
      /\ UNCHANGED <<journalVars, reset, startup, record, fence, floor, session, live, saving, visit>>
  BY CharacterTypes DEF ReserveLive, worldOnly, fenceVars, At, CharacterFits, SessionFits
<1>2. /\ image \in Fence!Record
      /\ \A p \in Parts : image.life.grants[p] =
            IF p \in fit /\ live[c].life.grants[p] < 2
            THEN live[c].life.grants[p] + 1 ELSE live[c].life.grants[p]
  <2>1. live[c].epoch < MaxEpoch
    <3>1. /\ live[c].epoch = floor[c] /\ fence[c] \in Fence!Token
          /\ fence[c].epoch = floor[c] + 1 /\ fence[c].epoch \in 0..MaxEpoch
      BY <1>1, CharacterTypes
      DEF CharacterFits, WordFits, BarrierFits, Word, At, Unwritten
    <3> QED BY <3>1, CharacterTypes, Bounds
  <2>2. WithGrants(live[c], fit) \in Fence!Record
    BY <1>1, <2>1, GrantedRecord
  <2>3. \A p \in Parts : WithGrants(live[c], fit).life.grants[p] =
            IF p \in fit /\ live[c].life.grants[p] < 2
            THEN live[c].life.grants[p] + 1 ELSE live[c].life.grants[p]
    BY <1>1 DEF WithGrants, Fence!Record, Life
  <2>4. image \in Fence!Record /\ image.life.grants = WithGrants(live[c], fit).life.grants
    BY <2>2, DiskRecord, MarkOf DEF Mark
  <2> QED BY <2>3, <2>4
<1>3. /\ task'[c] # NoTask /\ task'[c].stage = "imaged" /\ task'[c].last = task[c].last
      /\ task'[c].parts = fit /\ task'[c].image = image
      /\ \A d \in Characters \ {c} : task'[d] = task[d]
  <2> HIDE DEF image
  <2>1. task'[c] = [task[c] EXCEPT !.stage = "imaged", !.parts = fit, !.image = image]
    BY <1>1 DEF IInv, TypeOK
  <2> DEFINE t == [task[c] EXCEPT !.stage = "imaged", !.parts = fit, !.image = image]
  <2>2. /\ t \in Task /\ t.stage = "imaged" /\ t.last = task[c].last
        /\ t.parts = fit /\ t.image = image
    BY <1>1, <1>2 DEF Task, Stages
  <2>3. \A d \in Characters \ {c} : task'[d] = task[d]
    BY <1>1 DEF IInv, TypeOK
  <2> QED BY <1>2, <2>1, <2>2, <2>3, TaskFields
<1> HIDE DEF image
<1>4. \A d \in Characters \ {c} : Character(d)' = Character(d)
  BY <1>1, <1>3 DEF Character
<1>5. SameClaim(c) /\ ~Sealed(c)'
  BY <1>1, <1>3 DEF SameClaim, Sealed, At
<1>6. GrantsFit(c)'
  <2>1. IntentsFor(c)' = IntentsFor(c) /\ GrantsFit(c)
    BY <1>1, MarkTypes DEF IntentsFor, Images, journalVars, MarksFit
  <2>2. Word(c)' = live[c]
    BY <1>1 DEF Word
  <2> QED BY <1>2, <1>3, <1>5, <2>1, <2>2 DEF GrantsFit
<1> QED BY <1>1, <1>3, <1>4, <1>5, <1>6, HeldMarks, QuietLife

-----------------------------------------------------------------------------
(* A step of one character that leaves the journal alone, whatever it does to *)
(* that character's marks.                                                    *)

LEMMA OwnStep ==
    ASSUME IInv, DInv, NEW c \in Characters,
           UNCHANGED <<journalVars, reset, startup>>,
           \A d \in Characters \ {c} : Character(d)' = Character(d),
           MarksFit(c)', (Bare(c) \cup Coming(c))' \subseteq Bare(c) \cup Coming(c) \/ ~Unrecorded(journal),
           At(c, {"prepared", "written", "published"}) =>
              At(c, {"prepared", "written", "published"})' /\ IntentOf(c)' = IntentOf(c),
           \A image \in Images, p \in Parts : ShareFits(image, c, p)'
    PROVE  DInv'
<1>1. /\ journal' = journal /\ uncertain' = uncertain /\ journalFile' = journalFile
      /\ reset' = reset /\ startup' = startup
  BY DEF journalVars
<1>2. Images' = Images /\ \A d \in Characters : IntentsFor(d)' = IntentsFor(d)
  BY <1>1 DEF Images, IntentsFor
<1>3. \A d \in Characters \ {c} :
         /\ MarksFit(d)' /\ Records(d)' = Records(d) /\ Bare(d)' = Bare(d)
         /\ Coming(d)' = Coming(d) /\ task'[d] = task[d] /\ Sealed(d)' = Sealed(d)
  BY <1>1, OtherCharacter DEF DInv
<1>4. IntentsFit'
  <2>1. \A d \in Characters :
           At(d, {"prepared", "written", "published"}) =>
              At(d, {"prepared", "written", "published"})' /\ IntentOf(d)' = IntentOf(d)
    BY <1>3 DEF At, IntentOf
  <2>2. \A i \in journal.intents : i.owner \in Characters
    BY ImageTypes, IntentTypes
  <2> QED BY <1>1, <1>2, <2>1, <2>2 DEF DInv, IntentsFit, Running
<1>5. ASSUME NEW image \in Images PROVE ImageFits(image)'
  <2>1. ImageFits(image) /\ journal \in Images
    BY ImageTypes DEF DInv
  <2>2. OneRun(image)' /\ (Unrecorded(image)' <=> Unrecorded(image))
    BY <1>1, <2>1 DEF ImageFits, OneRun, Unrecorded
  <2>3. Unrecorded(image) => Unrecorded(journal)' /\ NothingGranted'
    BY <1>1, <1>3, <2>1 DEF ImageFits, NothingGranted, Unrecorded
  <2>4. ASSUME NEW d \in Characters \ {c}, NEW p \in Parts PROVE ShareFits(image, d, p)'
    BY <1>2, <1>3, <2>1 DEF ImageFits, ShareFits, TakenIn, OfferedIn, Prepared
  <2> QED BY <2>2, <2>3, <2>4 DEF ImageFits
<1> QED BY <1>2, <1>3, <1>4, <1>5 DEF DInv

(* The defeat's run is the only one that owes anything: an intent, or a share *)
(* taken, settles which share of a part an image is about.                    *)
LEMMA NotOffered ==
    ASSUME IInv, DInv, NEW image \in Images, NEW i \in Journal!Intent, NEW p \in i.parts,
           i \in image.intents \/ Journal!SharesOf(i) \subseteq image.taken
    PROVE  ~OfferedIn(image, i.owner, p)
<1>1. Journal!Valid(image) /\ OneRun(image) /\ image \in Journal!Image /\ i.boss = Boss
  BY ImageTypes DEF DInv, ImageFits, Journal!Intent
<1> DEFINE mine == <<i.gen, Boss, i.owner, p>>
<1>2. mine \in Journal!SharesOf(i)
  BY <1>1 DEF Journal!SharesOf
<1>3. mine \in image.taken \cup Prepared(image) /\ mine \in image.owed
  BY <1>1, <1>2 DEF Journal!Valid, Journal!ValidIntent, Prepared
<1>4. <<i.gen, Boss>> \in image.defeats
  BY <1>1, <1>3 DEF Journal!Valid
<1>5. image.runs[i.gen] = Dungeon /\ i.gen \in DOMAIN image.runs
  BY <1>1, <1>4 DEF OneRun, Journal!Valid
<1>6. ASSUME NEW s \in image.owed, s[3] = i.owner, s[4] = p PROVE s = mine
  <2>1. s \in Journal!Share
    BY <1>1 DEF Journal!Image
  <2>2. s = <<s[1], Boss, i.owner, p>>
    BY <1>6, <2>1 DEF Journal!Share
  <2>3. <<s[1], s[2]>> \in image.defeats
    BY <1>1, <1>6 DEF Journal!Valid
  <2>4. image.runs[s[1]] = Dungeon /\ s[1] \in DOMAIN image.runs
    BY <1>1, <2>3 DEF OneRun, Journal!Valid
  <2>5. s[1] = i.gen
    BY <1>1, <1>5, <2>4 DEF OneRun
  <2> QED BY <2>2, <2>5
<1> QED BY <1>3, <1>6 DEF OfferedIn

(* What the journal would accept as an intent, it owes. *)
LEMMA ClaimIsOwed ==
    ASSUME IInv, NEW i, Journal!Valid(Journal!WithIntent(journal, i))
    PROVE  /\ i.gen \in DOMAIN journal.runs /\ <<i.gen, i.boss>> \in journal.defeats
           /\ Journal!SharesOf(i) \subseteq journal.owed \ journal.taken
<1> DEFINE next == Journal!WithIntent(journal, i)
<1>1. /\ next.intents = journal.intents \cup {i} /\ next.runs = journal.runs
      /\ next.defeats = journal.defeats /\ next.owed = journal.owed /\ next.taken = journal.taken
  BY DEF IInv, TypeOK, Journal!TypeOK, Journal!Image, Journal!WithIntent
<1>2. Journal!ValidIntent(next, i)
  BY <1>1 DEF Journal!Valid
<1> HIDE DEF next
<1> QED BY <1>1, <1>2 DEF Journal!ValidIntent

LEMMA SealMarks ==
    ASSUME Orderly, IInv, DInv, NEW c \in Characters, Seal(c)
    PROVE  DInv'
<1>1. /\ At(c, {"imaged"}) /\ task[c] \in Task /\ task[c] # NoTask
      /\ Journal!Valid(Journal!WithIntent(journal, IntentOf(c)))
      /\ \A d \in Characters \ {c} : fence'[d] = fence[d]
      /\ UNCHANGED <<journalVars, reset, startup, record, floor, session, live, saving, visit>>
  BY CharacterTypes
  DEF Seal, ValidateClaim, At, Fence!BeginRewardIntent, IInv, TypeOK, Fence!TypeOK
<1>2. /\ task'[c] # NoTask /\ task'[c].stage = "sealed" /\ task'[c].last = task[c].last
      /\ task'[c].gen = task[c].gen /\ task'[c].parts = task[c].parts
      /\ task'[c].image = task[c].image
      /\ \A d \in Characters \ {c} : task'[d] = task[d]
  BY <1>1, StageMoves DEF Seal, Stages
<1>3. /\ task[c].image \in Fence!Record /\ task[c].image.epoch = floor[c] + 1
      /\ Word(c) \in Fence!Record /\ Word(c) # NoLife /\ Word(c).epoch = floor[c]
  <2>1. task[c].image \in Fence!Record
    BY <1>1, CharacterTypes, TaskFields DEF CharacterFits, WordFits, At, InPack
  <2>2. task[c].image.epoch = floor[c] + 1
    BY <1>1, CharacterTypes DEF Seal, Fence!BeginRewardIntent, CharacterFits, BarrierFits, At, Unwritten
  <2>3. Word(c) \in Fence!Record /\ Word(c) # NoLife
    BY <1>1, ClaimHasWord, CharacterTypes, TaskFields DEF Word, At, InPack
  <2>4. Word(c).epoch = floor[c]
    BY <1>1, <2>3, CharacterTypes DEF CharacterFits, WordFits, At
  <2> QED BY <2>1, <2>2, <2>3, <2>4
<1>4. Running /\ MarksFit(c) /\ floor[c] \in Nat
  BY <1>1, MarkTypes, CharacterTypes DEF CharacterFits, SessionFits
<1>5. Mark(Word(c)) \in Bare(c) /\ Mark(Word(c)).epoch = floor[c]
  BY <1>3, HeldMarks, MarkOf
<1>6. \A m \in Bare(c) \cup Coming(c) : m.epoch <= floor[c]
  <2>1. \A m \in Bare(c) : m.epoch <= floor[c]
    BY <1>1, <1>4 DEF MarksFit, EpochsFit, At
  <2>2. \A i \in IntentsFor(c) : Mark(i.image).epoch <= floor[c]
    BY <1>1, <1>4, MarkTypes, MarkOf DEF MarksFit, EpochsFit, At, Unconfirmed
  <2>3. ~Sealed(c)
    BY <1>1 DEF Sealed, At
  <2> QED BY <2>1, <2>2, <2>3 DEF Coming
<1>7. \A p \in task[c].parts :
         OfferedIn(journal, c, p) /\ Word(c).life.grants[p] = 0
  <2> SUFFICES ASSUME NEW p \in task[c].parts
               PROVE  OfferedIn(journal, c, p) /\ Word(c).life.grants[p] = 0
    OBVIOUS
  <2> DEFINE mine == <<task[c].gen, Boss, c, p>>
  <2>1. mine \in journal.owed \ journal.taken
    <3>1. Journal!SharesOf(IntentOf(c)) \subseteq journal.owed \ journal.taken
      BY <1>1, ClaimIsOwed
    <3>2. mine \in Journal!SharesOf(IntentOf(c))
      BY DEF Journal!SharesOf, IntentOf
    <3> QED BY <3>1, <3>2
  <2>2. ASSUME NEW i \in journal.intents PROVE i.owner # c
    BY <1>1, <1>4 DEF DInv, IntentsFit, At
  <2>3. mine \notin Prepared(journal)
    BY <2>2 DEF Prepared, Journal!SharesOf
  <2>4. OfferedIn(journal, c, p)
    BY <2>1, <2>3 DEF OfferedIn
  <2>5. p \in Parts /\ ShareFits(journal, c, p)
    BY <1>1, ImageTypes, TaskFields DEF DInv, ImageFits
  <2> QED BY <1>5, <2>4, <2>5 DEF ShareFits, Mark
<1>8. \A p \in Parts :
         /\ Word(c).life.grants[p] <= task[c].image.life.grants[p]
         /\ task[c].image.life.grants[p] <= 1
         /\ p \in task[c].parts => task[c].image.life.grants[p] = 1
         /\ p \notin task[c].parts => task[c].image.life.grants[p] = Word(c).life.grants[p]
  <2>1. \A p \in Parts : task[c].image.life.grants[p] =
              IF p \in task[c].parts /\ Word(c).life.grants[p] < 2
              THEN Word(c).life.grants[p] + 1 ELSE Word(c).life.grants[p]
    BY <1>1, <1>4 DEF MarksFit, GrantsFit, At, InPack
  <2>2. \A p \in Parts : Word(c).life.grants[p] \in 0..1
    <3>1. \A p \in Parts : Mark(Word(c)).grants[p] <= 1
      BY <1>4, <1>5 DEF MarksFit, Chained
    <3> QED BY <1>3, <3>1 DEF Mark, Fence!Record, Life
  <2> QED BY <1>7, <2>1, <2>2
<1> DEFINE new == Mark(task[c].image)
<1>9. /\ Records(c)' = Records(c) /\ Bare(c)' = Bare(c) /\ IntentsFor(c)' = IntentsFor(c)
      /\ Coming(c)' = Coming(c) \cup {new} /\ Sealed(c)'
  <2>1. Records(c)' = Records(c) /\ Held(c)' = Held(c)
    BY <1>1, <1>2 DEF Records, Held
  <2>2. IntentsFor(c)' = IntentsFor(c)
    BY <1>1 DEF IntentsFor, Images, journalVars
  <2>3. Sealed(c)' /\ ~Sealed(c)
    BY <1>1, <1>2 DEF Sealed, At
  <2> QED BY <1>2, <2>1, <2>2, <2>3 DEF Bare, Coming
<1>10. MarksFit(c)'
  <2>1. /\ new \in Marks /\ new.epoch = floor[c] + 1
        /\ \A p \in Parts : new.grants[p] = task[c].image.life.grants[p]
    BY <1>3, MarkOf
  <2>2. \A m \in Bare(c) \cup Coming(c) : \A p \in Parts : m.grants[p] <= new.grants[p]
    <3>1. ASSUME NEW m \in Bare(c) \cup Coming(c), NEW p \in Parts PROVE m.grants[p] <= new.grants[p]
      <4>1. m \in Marks /\ Mark(Word(c)) \in Marks
        BY <1>5, MarkTypes
      <4>2. m.grants[p] <= Mark(Word(c)).grants[p]
        BY <1>4, <1>5, <1>6 DEF MarksFit, Chained
      <4> QED BY <1>8, <2>1, <4>1, <4>2 DEF Mark, Marks
    <3> QED BY <3>1
  <2> HIDE DEF new
  <2>3. Chained(Bare(c) \cup Coming(c) \cup {new})
    <3>1. \A m \in Bare(c) \cup Coming(c) : ~(new.epoch <= m.epoch)
      BY <1>4, <1>6, <2>1, MarkTypes DEF Marks
    <3> QED BY <1>4, <1>8, <2>1, <2>2, <3>1 DEF MarksFit, Chained, Marks
  <2>4. Chained(Bare(c) \cup Coming(c))'
    BY <1>9, <2>3 DEF Chained
  <2>5. EpochsFit(c)'
    <3>1. ~At(c, {"prepared"}) /\ ~At(c, {"sealed", "prepared"})
      BY <1>1 DEF At
    <3>2. At(c, {"sealed", "prepared"})'
      BY <1>2 DEF At
    <3> QED BY <1>1, <1>4, <1>9, <3>1, <3>2 DEF MarksFit, EpochsFit, Unconfirmed, Running, journalVars
  <2>6. GrantsFit(c)'
    <3>1. Word(c)' = Word(c) /\ At(c, InPack)
      BY <1>1, <1>2 DEF Word, Attached, At, InPack
    <3>2. task[c].parts \subseteq Parts
      BY <1>1, TaskFields
    <3> QED BY <1>2, <1>3, <1>4, <1>8, <1>9, <3>1, <3>2 DEF MarksFit, GrantsFit
  <2> QED BY <2>4, <2>5, <2>6 DEF MarksFit
<1>11. ~Unrecorded(journal)
  <2>1. <<task[c].gen, Boss>> \in journal.defeats /\ task[c].gen \in DOMAIN journal.runs
    BY <1>1, ClaimIsOwed DEF IntentOf
  <2>2. OneRun(journal)
    BY ImageTypes DEF DInv, ImageFits
  <2> QED BY <2>1, <2>2 DEF OneRun, Unrecorded
<1>12. ASSUME NEW image \in Images, NEW p \in Parts PROVE ShareFits(image, c, p)'
  <2>1. ShareFits(image, c, p)
    BY DEF DInv, ImageFits
  <2>2. OfferedIn(image, c, p) => p \in task[c].parts \/ task[c].image.life.grants[p] = 0
    BY <1>5, <1>8, <2>1 DEF ShareFits, Mark
  <2> QED BY <1>2, <1>9, <2>1, <2>2 DEF ShareFits, TakenIn, OfferedIn, Prepared
<1>13. \A d \in Characters \ {c} : Character(d)' = Character(d)
  BY <1>1, <1>2 DEF Character
<1>14. ~At(c, {"prepared", "written", "published"})
  BY <1>1 DEF At
<1> QED BY <1>1, <1>10, <1>11, <1>12, <1>13, <1>14, OwnStep

(* The write of a reward: the record may, or does, have the image's mark. *)
LEMMA WriteMarks ==
    ASSUME Orderly, IInv, DInv, NEW c \in Characters, NEW outcome \in Outcomes,
           WritePrepared(c, outcome)
    PROVE  DInv'
<1> DEFINE image == task[c].image
<1>1. /\ At(c, {"prepared"}) /\ task[c] \in Task /\ task[c] # NoTask
      /\ image \in Fence!Record /\ image.epoch = floor[c] + 1
      /\ fence[c].postimage = image /\ fence[c].epoch = image.epoch
      /\ IntentOf(c) \in journal.intents /\ Sealed(c)
  BY CharacterTypes, IntentOfClaim
  DEF WritePrepared, CharacterFits, BarrierFits, ClaimFits, At, Unwritten, Landed, Sealed
<1>2. /\ record'[c] = Written(record[c], image, outcome)
      /\ \A d \in Characters \ {c} :
            record'[d] = record[d] /\ fence'[d] = fence[d] /\ floor'[d] = floor[d]
      /\ UNCHANGED <<journalVars, reset, startup, session, live, saving, visit>>
      /\ floor'[c] = IF outcome = "done" THEN image.epoch ELSE floor[c]
  <2>1. Fence!Written(record[c], image, outcome) = Written(record[c], image, outcome)
    BY <1>1, CharacterTypes, RecordWritten
  <2> QED BY <1>1, <2>1 DEF WritePrepared, Fence!WritePreparedReward, IInv, TypeOK, Fence!TypeOK
<1>3. /\ task'[c] # NoTask /\ task'[c].last = task[c].last
      /\ task'[c].stage = IF outcome = "done" THEN "written" ELSE "prepared"
      /\ task'[c].gen = task[c].gen /\ task'[c].parts = task[c].parts /\ task'[c].image = image
      /\ \A d \in Characters \ {c} : task'[d] = task[d]
  BY <1>1, StageMoves DEF WritePrepared, Stages, At
<1>4. MarksFit(c) /\ floor[c] \in Nat /\ Mark(image) \in Coming(c) /\ Mark(image) \in Marks
      /\ Mark(image).epoch = image.epoch /\ Mark(image).grants = image.life.grants
  BY <1>1, MarkTypes, CharacterTypes, MarkOf
<1>5. /\ record'[c].now \in record'[c].mayBe
      /\ Records(c)' \subseteq Records(c) \cup {Mark(image)}
      /\ outcome = "done" => Records(c)' = {Mark(image)} /\ record'[c].now = image
  BY <1>1, <1>2, <1>4, WrittenMarks DEF MarksFit, EpochsFit
<1>6. /\ Held(c)' = Held(c) /\ Bare(c)' \subseteq Bare(c) \cup {Mark(image)}
      /\ IntentsFor(c)' = IntentsFor(c) /\ Coming(c)' = Coming(c) /\ Sealed(c)'
  <2>1. Held(c)' = Held(c)
    BY <1>1, <1>2, <1>3 DEF Held
  <2>2. IntentsFor(c)' = IntentsFor(c)
    BY <1>2 DEF IntentsFor, Images, journalVars
  <2>3. Sealed(c)'
    BY <1>3 DEF Sealed, At
  <2> QED BY <1>1, <1>3, <1>5, <2>1, <2>2, <2>3 DEF Bare, Coming
<1>7. ASSUME NEW m \in Bare(c) PROVE m.epoch <= image.epoch /\ m \in Marks
  BY <1>1, <1>4, MarkTypes DEF MarksFit, EpochsFit, Marks
<1>8. IntentOf(c)' = IntentOf(c)
  BY <1>3 DEF IntentOf
<1>9. MarksFit(c)'
  <2>1. Chained(Bare(c) \cup Coming(c))'
    BY <1>4, <1>6 DEF MarksFit, Chained
  <2>2. EpochsFit(c)'
    <3>1. CASE outcome = "done"
      <4>1. \A m \in Bare(c)' : m.epoch <= floor'[c]
        BY <1>1, <1>2, <1>4, <1>6, <1>7, <3>1
      <4>2. \A m \in Records(c)' : m.epoch >= floor'[c]
        BY <1>1, <1>2, <1>4, <1>5, <3>1
      <4>3. task'[c].image.epoch <= floor'[c]
        BY <1>1, <1>2, <1>3, <1>4, <3>1
      <4>4. \A i \in IntentsFor(c)' :
               i.image.epoch <= floor'[c] \/ (Unconfirmed(c)' /\ i \in journal'.intents)
        <5>1. ASSUME NEW i \in IntentsFor(c)
              PROVE  i.image.epoch <= floor'[c] \/ (Unconfirmed(c) /\ i \in journal.intents)
          <6>1. \/ i.image.epoch <= floor[c] \/ i = IntentOf(c)
                \/ Unconfirmed(c) /\ i \in journal.intents
            BY <1>4 DEF MarksFit, EpochsFit
          <6>2. i.image.epoch \in Nat
            BY MarkTypes, RecordFields
          <6>3. i = IntentOf(c) => i.image.epoch = image.epoch
            BY DEF IntentOf
          <6> QED BY <1>1, <1>2, <1>4, <3>1, <6>1, <6>2, <6>3
        <5> QED BY <1>2, <1>6, <5>1 DEF Unconfirmed, Running, journalVars
      <4> QED BY <1>5, <4>1, <4>2, <4>3, <4>4 DEF EpochsFit
    <3>2. CASE outcome # "done"
      <4>1. At(c, {"prepared"})' /\ At(c, {"sealed", "prepared"})' /\ floor'[c] = floor[c]
        BY <1>2, <1>3, <3>2 DEF At
      <4>2. \A m \in Bare(c)' : m.epoch <= floor'[c] \/ m.epoch = task'[c].image.epoch
        BY <1>3, <1>4, <1>6, <4>1 DEF MarksFit, EpochsFit
      <4>3. \A m \in Records(c)' :
               m.epoch >= floor'[c] \/ (Unconfirmed(c) /\ \E i \in journal.intents : i.owner = c)'
        BY <1>1, <1>2, <1>4, <1>5, <4>1 DEF MarksFit, EpochsFit, Unconfirmed, Running, journalVars
      <4>4. \A i \in IntentsFor(c)' :
               \/ i.image.epoch <= floor'[c]
               \/ i = IntentOf(c)'
               \/ Unconfirmed(c)' /\ i \in journal'.intents
        BY <1>2, <1>4, <1>6, <1>8, <4>1 DEF MarksFit, EpochsFit, Unconfirmed, Running, journalVars
      <4> QED BY <1>5, <4>1, <4>2, <4>3, <4>4 DEF EpochsFit
    <3> QED BY <3>1, <3>2
  <2>3. GrantsFit(c)'
    <3>1. Word(c)' = Word(c) /\ At(c, InPack)
      BY <1>1, <1>2, <1>3 DEF Word, Attached, At, InPack
    <3> QED BY <1>1, <1>3, <1>4, <1>6, <3>1 DEF MarksFit, GrantsFit
  <2> QED BY <2>1, <2>2, <2>3 DEF MarksFit
<1>10. ASSUME NEW img \in Images, NEW p \in Parts PROVE ShareFits(img, c, p)'
  <2>1. ShareFits(img, c, p)
    BY DEF DInv, ImageFits
  <2>2. TakenIn(img, c, p) => Mark(image).grants[p] = 1
    <3>1. Mark(record[c].now) \in Records(c) /\ Mark(record[c].now) \in Bare(c)
      BY HeldMarks
    <3>2. TakenIn(img, c, p) => Mark(record[c].now).grants[p] = 1
      BY <2>1, <3>1 DEF ShareFits
    <3>3. /\ Mark(record[c].now).grants[p] <= Mark(image).grants[p]
          /\ Mark(image).grants[p] <= 1
      BY <1>4, <1>7, <3>1 DEF MarksFit, Chained
    <3> QED BY <1>4, <3>2, <3>3 DEF Marks
  <2>3. OfferedIn(img, c, p) => p \notin task[c].parts /\ Mark(image).grants[p] = 0
    <3>1. IntentOf(c) \in Journal!Intent /\ IntentOf(c).owner = c /\ IntentOf(c).parts = task[c].parts
      BY <1>1, IntentOfClaim DEF IntentOf, At
    <3>2. IntentOf(c) \in img.intents \/ Journal!SharesOf(IntentOf(c)) \subseteq img.taken
      BY <1>1 DEF DInv, IntentsFit
    <3>3. p \in task[c].parts => ~OfferedIn(img, c, p)
      BY <3>1, <3>2, NotOffered
    <3> QED BY <1>1, <1>4, <2>1, <3>3 DEF ShareFits
  <2> HIDE DEF image
  <2>4. /\ (TakenIn(img, c, p) => \A m \in Records(c)' : m.grants[p] = 1)
        /\ (OfferedIn(img, c, p) => \A m \in Bare(c)' : m.grants[p] = 0)
    BY <1>5, <1>6, <2>1, <2>2, <2>3 DEF ShareFits
  <2> QED BY <1>3, <1>4, <1>6, <2>1, <2>3, <2>4 DEF ShareFits, TakenIn, OfferedIn, Prepared
<1>11. \A d \in Characters \ {c} : Character(d)' = Character(d)
  BY <1>2, <1>3 DEF Character
<1>12. At(c, {"prepared", "written", "published"})'
  BY <1>3 DEF At
<1>13. (Bare(c) \cup Coming(c))' \subseteq Bare(c) \cup Coming(c)
  BY <1>4, <1>6
<1> QED BY <1>2, <1>8, <1>9, <1>10, <1>11, <1>12, <1>13, OwnStep

-----------------------------------------------------------------------------
(* A step that commits an image of the journal. *)

(* A claim moves on when its intent is in the journal, or out of it again.   *)
ClaimMovesOn(c) ==
    \/ task'[c] = task[c]
    \/ /\ task[c] # NoTask /\ task'[c] # NoTask
       /\ task'[c].gen = task[c].gen /\ task'[c].parts = task[c].parts
       /\ task'[c].image = task[c].image /\ task'[c].last = task[c].last
       /\ \/ task[c].stage = "sealed" /\ task'[c].stage = "prepared"
          \/ task[c].stage = "published" /\ task'[c].stage = "acknowledged"

(* Every record an intent of memory is for has been confirmed. *)
Confirmed == \A i \in journal.intents : ~Unconfirmed(i.owner)

(* The intents of an image are known, or the one a sealed claim now prepares. *)
KnownIntents(next) ==
    \A i \in next.intents :
        \/ \E image \in Images : i \in image.intents
        \/ At(i.owner, {"sealed"}) /\ i = IntentOf(i.owner)

LEMMA CommittedImages ==
    ASSUME IInv, NEW next \in Journal!Image, NEW acknowledged, NEW outcome \in Outcomes,
           Journal!Commit(next, acknowledged, outcome)
    PROVE  /\ outcome = "done" => Images' = {next} /\ journal' = next
           /\ outcome # "done" => Images' \subseteq Images \cup {next} /\ journal' = journal
           /\ Images' \subseteq Images \cup {next}
           /\ journalFile'.now \in {journalFile.now, next}
<1>1. outcome \in {"done", "unsynced", "failed"} /\ next # NoImage
  BY RewardCoordinatorAssumption DEF WriteOutcomes
<1>2. /\ journalFile' = Journal!Written(journalFile, next, outcome)
      /\ outcome = "done" => journal' = next /\ uncertain' = NoImage
      /\ outcome # "done" => journal' = journal /\ uncertain' = next
  BY DEF Journal!Commit
<1>3. CASE outcome = "done"
  <2>1. journalFile'.now = next /\ journalFile'.mayBe = {next}
    BY <1>2, <1>3 DEF Journal!Written, Journal!Settled
  <2>2. Images' = {next}
    BY <1>2, <1>3, <2>1 DEF Images
  <2> QED BY <1>2, <1>3, <2>1, <2>2
<1>4. CASE outcome # "done"
  <2>1. /\ journalFile'.now \in {journalFile.now, next}
        /\ journalFile'.mayBe \subseteq journalFile.mayBe \cup {next}
    BY <1>1, <1>2, <1>4 DEF Journal!Written
  <2>2. Images' \subseteq Images \cup {next}
    BY <1>2, <1>4, <2>1 DEF Images
  <2> QED BY <1>2, <1>4, <2>1, <2>2
<1> QED BY <1>3, <1>4

LEMMA CommitMarks ==
    ASSUME IInv, DInv, Confirmed, NEW next \in Journal!Image, KnownIntents(next),
           Images' \subseteq Images \cup {next}, NEW c \in Characters, ClaimMovesOn(c),
           UNCHANGED <<record, floor, live, saving, visit>>
    PROVE  /\ MarksFit(c)' /\ Records(c)' = Records(c) /\ Bare(c)' = Bare(c)
           /\ Coming(c)' \subseteq Coming(c)
           /\ \A i \in IntentsFor(c)' :
                 i \in IntentsFor(c) \/ (At(c, {"sealed"}) /\ i = IntentOf(c))
           /\ Sealed(c)' => /\ Sealed(c) /\ task'[c].parts = task[c].parts
                            /\ task'[c].image = task[c].image
<1>1. MarksFit(c)
  BY MarkTypes
<1>2. /\ task'[c] = NoTask <=> task[c] = NoTask
      /\ task[c] # NoTask => /\ task'[c].parts = task[c].parts /\ task'[c].image = task[c].image
                             /\ task'[c].last = task[c].last
      /\ IntentOf(c)' = IntentOf(c) \/ task[c] = NoTask
      /\ Sealed(c)' <=> Sealed(c)
      /\ At(c, InPack)' => At(c, InPack)
      /\ At(c, {"sealed", "prepared"})' <=> At(c, {"sealed", "prepared"})
      /\ At(c, {"prepared"}) => At(c, {"prepared"})'
  <2>1. CASE task'[c] = task[c]
    BY <2>1 DEF Sealed, At, IntentOf
  <2>2. CASE task'[c] # task[c]
    BY <2>2 DEF ClaimMovesOn, Sealed, At, IntentOf, InPack
  <2> QED BY <2>1, <2>2
<1>3. Records(c)' = Records(c) /\ Held(c)' = Held(c)
  BY <1>2 DEF Records, Held
<1>4. ASSUME NEW i \in IntentsFor(c)'
      PROVE  i \in IntentsFor(c) \/ (At(c, {"sealed"}) /\ i = IntentOf(c))
  BY <1>4 DEF IntentsFor, KnownIntents
<1>5. \A i \in IntentsFor(c)' : Mark(i.image) \in Coming(c)
  <2>1. ASSUME At(c, {"sealed"}), NEW i, i = IntentOf(c) PROVE Mark(i.image) \in Coming(c)
    <3>1. Sealed(c) /\ i.image = task[c].image
      BY <2>1 DEF Sealed, At, IntentOf
    <3> QED BY <3>1, MarkTypes
  <2> QED BY <1>4, <2>1, MarkTypes
<1>6. Coming(c)' \subseteq Coming(c)
  <2>1. Sealed(c)' => Mark(task'[c].image) \in Coming(c)
    BY <1>2, MarkTypes DEF Sealed, At
  <2> QED BY <1>5, <2>1 DEF Coming
<1>7. Bare(c)' = Bare(c)
  BY <1>3 DEF Bare
<1>8. Chained(Bare(c) \cup Coming(c))'
  BY <1>1, <1>6, <1>7 DEF MarksFit, Chained
<1>9. EpochsFit(c)'
  <2>1. \A m \in Bare(c)' : m.epoch <= floor'[c] \/ (At(c, {"prepared"})' /\ m.epoch = task'[c].image.epoch)
    BY <1>1, <1>2, <1>7 DEF MarksFit, EpochsFit, At
  <2>2. \A m \in Records(c)' : m.epoch >= floor'[c]
    BY <1>1, <1>3 DEF MarksFit, EpochsFit, Confirmed
  <2>3. Sealed(c)' => task'[c].image.epoch <= floor'[c] \/ At(c, {"sealed", "prepared"})'
    BY <1>1, <1>2 DEF MarksFit, EpochsFit, Sealed, At
  <2>4. \A i \in IntentsFor(c)' :
           i.image.epoch <= floor'[c] \/ (At(c, {"sealed", "prepared"})' /\ i = IntentOf(c)')
    <3>1. ASSUME NEW i \in IntentsFor(c)
          PROVE  i.image.epoch <= floor[c] \/ (At(c, {"sealed", "prepared"}) /\ i = IntentOf(c))
      <4>1. i.owner = c
        BY <3>1, MarkTypes
      <4> QED BY <1>1, <4>1 DEF MarksFit, EpochsFit, Confirmed
    <3>2. At(c, {"sealed", "prepared"}) => IntentOf(c)' = IntentOf(c)
      BY <1>2 DEF At
    <3>3. At(c, {"sealed"}) => At(c, {"sealed", "prepared"})
      BY DEF At
    <3> QED BY <1>2, <1>4, <3>1, <3>2, <3>3
  <2> QED BY <1>1, <2>1, <2>2, <2>3, <2>4 DEF EpochsFit, MarksFit
<1>10. GrantsFit(c)'
  <2>1. \A i \in IntentsFor(c)' : \A p \in i.parts : i.image.life.grants[p] = 1
    <3>1. ASSUME At(c, {"sealed"}), NEW i, i = IntentOf(c), NEW p \in i.parts
          PROVE  i.image.life.grants[p] = 1
      <4>1. Sealed(c) /\ i.image = task[c].image /\ i.parts = task[c].parts
        BY <3>1 DEF Sealed, At, IntentOf
      <4> QED BY <1>1, <3>1, <4>1 DEF MarksFit, GrantsFit
    <3> QED BY <1>1, <1>4, <3>1 DEF MarksFit, GrantsFit
  <2>2. At(c, InPack)' => Word(c)' = Word(c)
    BY <1>2 DEF Word, Attached, At
  <2>3. At(c, InPack)' => task'[c].image = task[c].image /\ task'[c].parts = task[c].parts
    BY <1>2 DEF At
  <2>4. Sealed(c)' => task'[c].image = task[c].image /\ task'[c].parts = task[c].parts
    BY <1>2 DEF Sealed, At
  <2> QED BY <1>1, <1>2, <2>1, <2>2, <2>3, <2>4 DEF MarksFit, GrantsFit
<1> QED BY <1>2, <1>3, <1>4, <1>6, <1>7, <1>8, <1>9, <1>10 DEF MarksFit, Sealed, At

LEMMA CommitStep ==
    ASSUME IInv, DInv, Confirmed, NEW next \in Journal!Image, NEW acknowledged, NEW outcome \in Outcomes,
           Journal!Commit(next, acknowledged, outcome), KnownIntents(next), ImageFits(next),
           \A c \in Characters : ClaimMovesOn(c),
           UNCHANGED <<record, floor, live, saving, visit, reset>>, IntentsFit'
    PROVE  DInv'
<1>1. /\ outcome = "done" => Images' = {next} /\ journal' = next
      /\ outcome # "done" => Images' \subseteq Images \cup {next} /\ journal' = journal
      /\ Images' \subseteq Images \cup {next}
  BY CommittedImages
<1>2. ASSUME NEW c \in Characters
      PROVE  /\ MarksFit(c)' /\ Records(c)' = Records(c) /\ Bare(c)' = Bare(c)
             /\ Coming(c)' \subseteq Coming(c)
             /\ \A i \in IntentsFor(c)' :
                   i \in IntentsFor(c) \/ (At(c, {"sealed"}) /\ i = IntentOf(c))
             /\ Sealed(c)' => /\ Sealed(c) /\ task'[c].parts = task[c].parts
                              /\ task'[c].image = task[c].image
  BY <1>1, CommitMarks
<1>3. NothingGranted => NothingGranted'
  BY <1>2 DEF NothingGranted
<1>4. ASSUME NEW image \in Images', NEW c \in Characters, NEW p \in Parts
      PROVE  ShareFits(image, c, p)'
  <2>1. ShareFits(image, c, p)
    BY <1>1 DEF DInv, ImageFits
  <2>2. OfferedIn(image, c, p) =>
           \A i \in IntentsFor(c)' : p \in i.parts \/ i.image.life.grants[p] = 0
    <3>1. ASSUME OfferedIn(image, c, p), At(c, {"sealed"}), NEW i, i = IntentOf(c)
          PROVE  p \in i.parts \/ i.image.life.grants[p] = 0
      BY <2>1, <3>1 DEF ShareFits, Sealed, At, IntentOf
    <3> QED BY <1>2, <2>1, <3>1 DEF ShareFits
  <2> QED BY <1>2, <2>1, <2>2 DEF ShareFits, TakenIn, OfferedIn, Prepared
<1>5. ASSUME NEW image \in Images' PROVE ImageFits(image)'
  <2>1. ImageFits(image)
    BY <1>1 DEF DInv
  <2>2. OneRun(image)' /\ (Unrecorded(image)' <=> Unrecorded(image))
    BY <2>1 DEF ImageFits, OneRun, Unrecorded
  <2>3. Unrecorded(image) => Unrecorded(journal)'
    BY <1>1, <2>1 DEF ImageFits, Unrecorded
  <2> QED BY <1>3, <1>4, <2>1, <2>2, <2>3 DEF ImageFits
<1> QED BY <1>2, <1>5 DEF DInv

(* An image with the same defeats as one that fits, that offers no more and   *)
(* has taken no more, fits too.                                               *)
LEMMA ImageFollows ==
    ASSUME NEW next, ImageFits(journal), OneRun(next),
           Unrecorded(next) => Unrecorded(journal),
           \A c \in Characters, p \in Parts :
              /\ TakenIn(next, c, p) =>
                    TakenIn(journal, c, p) \/ \A m \in Records(c) : m.grants[p] = 1
              /\ OfferedIn(next, c, p) => OfferedIn(journal, c, p)
    PROVE  ImageFits(next)
  BY DEF ImageFits, ShareFits

LEMMA RunAllocated ==
    ASSUME IInv, DInv, NEW g \in Journal!Generations, g = journal.next, NEW id \in RunIds,
           \A h \in DOMAIN journal.runs : journal.runs[h] # id,
           id = Dungeon => ~reset,
           NEW defeats, defeats = (IF id = Dungeon THEN {Boss} ELSE {}),
           NEW rows \in SUBSET (defeats \X Characters \X Parts)
    PROVE  ImageFits(Journal!WithRun(journal, g, id, Characters, defeats, rows))
<1> DEFINE next == Journal!WithRun(journal, g, id, Characters, defeats, rows)
           added == {<<g, r[1], r[2], r[3]>> : r \in rows}
<1>1. journal \in Journal!Image /\ Journal!Valid(journal) /\ ImageFits(journal)
  BY ImageTypes DEF DInv
<1>2. /\ next.runs = [h \in DOMAIN journal.runs \cup {g} |-> IF h = g THEN id ELSE journal.runs[h]]
      /\ next.defeats = journal.defeats \cup ({g} \X defeats)
      /\ next.owed = journal.owed \cup added
      /\ next.taken = journal.taken /\ next.intents = journal.intents
  BY <1>1 DEF Journal!WithRun, Journal!Image
<1>3. g \notin DOMAIN journal.runs /\ g \in Nat
  BY <1>1, Bounds DEF Journal!Valid, Journal!Generations
<1> HIDE DEF next
<1>4. OneRun(next)
  <2>1. OneRun(journal) /\ \A d \in journal.defeats : d[1] \in DOMAIN journal.runs
    BY <1>1 DEF ImageFits, Journal!Valid
  <2>2. ASSUME NEW d \in next.defeats PROVE next.runs[d[1]] = Dungeon
    <3>1. CASE d \in journal.defeats
      BY <1>2, <1>3, <2>1, <3>1 DEF OneRun
    <3>2. CASE d \in {g} \X defeats
      BY <1>2, <3>2
    <3> QED BY <1>2, <2>2, <3>1, <3>2
  <2>3. \A h, k \in DOMAIN next.runs : next.runs[h] = next.runs[k] => h = k
    BY <1>2, <1>3, <2>1 DEF OneRun
  <2> QED BY <2>2, <2>3 DEF OneRun
<1>5. Unrecorded(next) => Unrecorded(journal)
  BY <1>2, <1>3 DEF Unrecorded
<1>6. ASSUME id # Dungeon PROVE ImageFits(next)
  <2>1. added = {}
    BY <1>6
  <2>2. \A c \in Characters, p \in Parts :
           (TakenIn(next, c, p) => TakenIn(journal, c, p)) /\ (OfferedIn(next, c, p) => OfferedIn(journal, c, p))
    BY <1>2, <2>1 DEF TakenIn, OfferedIn, Prepared
  <2> QED BY <1>1, <1>4, <1>5, <2>2, ImageFollows
<1>7. ASSUME id = Dungeon PROVE ImageFits(next)
  <2>1. NothingGranted
    BY <1>1, <1>7 DEF ImageFits, Unrecorded
  <2>2. ASSUME NEW c \in Characters, NEW p \in Parts PROVE ShareFits(next, c, p)
    <3>1. TakenIn(next, c, p) => \A m \in Records(c) : m.grants[p] = 1
      BY <1>1, <1>2 DEF ImageFits, ShareFits, TakenIn
    <3>2. \A m \in Bare(c) : m.grants[p] = 0
      BY <2>1 DEF NothingGranted, NoGrants
    <3>3. \A i \in IntentsFor(c) : i.image.life.grants[p] = 0
      <4>1. \A i \in IntentsFor(c) : Mark(i.image).grants[p] = 0
        BY <2>1 DEF NothingGranted, NoGrants, Coming
      <4> QED BY <4>1 DEF Mark
    <3>4. Sealed(c) => task[c].image.life.grants[p] = 0
      <4>1. Sealed(c) => Mark(task[c].image).grants[p] = 0
        BY <2>1 DEF NothingGranted, NoGrants, Coming
      <4> QED BY <4>1 DEF Mark
    <3> QED BY <3>1, <3>2, <3>3, <3>4 DEF ShareFits
  <2> QED BY <1>1, <1>4, <1>5, <2>1, <2>2 DEF ImageFits
<1> QED BY <1>6, <1>7 DEF next

LEMMA RunsLetGo ==
    ASSUME IInv, DInv, reset, NEW kept \in SUBSET DOMAIN journal.runs
    PROVE  ImageFits(Journal!Collected(journal, kept))
<1> DEFINE next == Journal!Collected(journal, kept)
<1>1. journal \in Journal!Image /\ ImageFits(journal)
  BY ImageTypes DEF DInv
<1>2. /\ next.runs = [g \in kept |-> journal.runs[g]]
      /\ next.defeats = {d \in journal.defeats : d[1] \in kept}
      /\ next.owed = {s \in journal.owed : s[1] \in kept}
      /\ next.taken = {s \in journal.taken : s[1] \in kept}
      /\ next.intents = journal.intents
  BY <1>1 DEF Journal!Collected, Journal!Image
<1> HIDE DEF next
<1>3. OneRun(next)
  BY <1>1, <1>2 DEF ImageFits, OneRun
<1>4. \A c \in Characters, p \in Parts :
         (TakenIn(next, c, p) => TakenIn(journal, c, p)) /\ (OfferedIn(next, c, p) => OfferedIn(journal, c, p))
  BY <1>2 DEF TakenIn, OfferedIn, Prepared
<1>5. ~Unrecorded(next)
  BY DEF Unrecorded
<1> QED BY <1>1, <1>3, <1>4, <1>5, ImageFollows DEF next

LEMMA ClaimPrepared ==
    ASSUME IInv, DInv, NEW i \in Journal!Intent
    PROVE  ImageFits(Journal!WithIntent(journal, i))
<1> DEFINE next == Journal!WithIntent(journal, i)
<1>1. journal \in Journal!Image /\ ImageFits(journal)
  BY ImageTypes DEF DInv
<1>2. /\ next.runs = journal.runs /\ next.defeats = journal.defeats /\ next.owed = journal.owed
      /\ next.taken = journal.taken /\ next.intents = journal.intents \cup {i}
  BY <1>1 DEF Journal!WithIntent, Journal!Image
<1> HIDE DEF next
<1>3. OneRun(next) /\ (Unrecorded(next) => Unrecorded(journal))
  BY <1>1, <1>2 DEF ImageFits, OneRun, Unrecorded
<1>4. \A c \in Characters, p \in Parts :
         (TakenIn(next, c, p) => TakenIn(journal, c, p)) /\ (OfferedIn(next, c, p) => OfferedIn(journal, c, p))
  BY <1>2 DEF TakenIn, OfferedIn, Prepared
<1> QED BY <1>1, <1>3, <1>4, ImageFollows DEF next

(* An intent whose record is confirmed is delivered in whatever the record   *)
(* may hold.                                                                 *)
LEMMA ConfirmedIsDelivered ==
    ASSUME IInv, DInv, Confirmed, NEW i \in journal.intents,
           ~(At(i.owner, {"sealed", "prepared"}) /\ i = IntentOf(i.owner)), NEW p \in i.parts
    PROVE  i.owner \in Characters /\ \A m \in Records(i.owner) : m.grants[p] = 1
<1> DEFINE c == i.owner
<1>1. c \in Characters /\ i \in IntentsFor(c) /\ p \in Parts
  BY ImageTypes, IntentTypes DEF IntentsFor
<1>2. /\ MarksFit(c) /\ Mark(i.image) \in Coming(c) /\ i.image \in Fence!Record
  BY <1>1, MarkTypes
<1>3. i.image.epoch <= floor[c] /\ i.image.life.grants[p] = 1
  BY <1>1, <1>2 DEF MarksFit, EpochsFit, GrantsFit, Confirmed
<1>4. ASSUME NEW m \in Records(c) PROVE m.grants[p] = 1
  <2>1. m.epoch >= floor[c] /\ m \in Marks /\ m \in Bare(c)
    BY <1>1, <1>2, MarkTypes DEF MarksFit, EpochsFit, Confirmed
  <2>2. Mark(i.image).epoch <= m.epoch /\ Mark(i.image).grants[p] = 1
    BY <1>1, <1>2, <1>3, <2>1, MarkOf, CharacterTypes DEF Marks
  <2>3. Mark(i.image).grants[p] <= m.grants[p] /\ m.grants[p] <= 1
    BY <1>1, <1>2, <2>1, <2>2 DEF MarksFit, Chained
  <2> QED BY <1>1, <2>1, <2>2, <2>3 DEF Marks
<1> QED BY <1>1, <1>4

LEMMA ClaimsAcknowledged ==
    ASSUME IInv, DInv, Confirmed, NEW done \in SUBSET journal.intents,
           \A i \in done : ~(At(i.owner, {"sealed", "prepared"}) /\ i = IntentOf(i.owner))
    PROVE  ImageFits(Journal!Acknowledged(journal, done))
<1> DEFINE next == Journal!Acknowledged(journal, done)
<1>1. journal \in Journal!Image /\ ImageFits(journal)
  BY ImageTypes DEF DInv
<1>2. /\ next.runs = journal.runs /\ next.defeats = journal.defeats /\ next.owed = journal.owed
      /\ next.taken = journal.taken \cup UNION {Journal!SharesOf(i) : i \in done}
      /\ next.intents = journal.intents \ done
  BY <1>1 DEF Journal!Acknowledged, Journal!Image
<1> HIDE DEF next
<1>3. OneRun(next) /\ (Unrecorded(next) => Unrecorded(journal))
  BY <1>1, <1>2 DEF ImageFits, OneRun, Unrecorded
<1>4. ASSUME NEW c \in Characters, NEW p \in Parts
      PROVE  /\ TakenIn(next, c, p) =>
                   TakenIn(journal, c, p) \/ \A m \in Records(c) : m.grants[p] = 1
             /\ OfferedIn(next, c, p) => OfferedIn(journal, c, p)
  <2>1. ASSUME NEW i \in done, NEW s \in Journal!SharesOf(i), s[3] = c, s[4] = p
        PROVE  \A m \in Records(c) : m.grants[p] = 1
    <3>1. i.owner = c /\ p \in i.parts
      BY <2>1 DEF Journal!SharesOf
    <3> QED BY <2>1, <3>1, ConfirmedIsDelivered
  <2>2. TakenIn(next, c, p) => TakenIn(journal, c, p) \/ \A m \in Records(c) : m.grants[p] = 1
    BY <1>2, <2>1 DEF TakenIn
  <2>3. OfferedIn(next, c, p) => OfferedIn(journal, c, p)
    <3>1. Prepared(journal) \subseteq Prepared(next) \cup UNION {Journal!SharesOf(i) : i \in done}
      BY <1>2 DEF Prepared
    <3> QED BY <1>2, <3>1 DEF OfferedIn
  <2> QED BY <2>2, <2>3
<1> QED BY <1>1, <1>3, <1>4, ImageFollows DEF next

LEMMA RunningIsConfirmed ==
    ASSUME IInv, DInv, Running
    PROVE  Confirmed
  BY DEF Confirmed, Unconfirmed

LEMMA SyncCommitMarks ==
    ASSUME IInv, DInv, Running, NEW next \in Journal!Image, NEW outcome \in Outcomes,
           Journal!Commit(next, {}, outcome), UNCHANGED <<fenceVars, worldVars, reset, startup>>,
           next.intents = journal.intents, ImageFits(next)
    PROVE  DInv'
<1>1. UNCHANGED <<record, fence, floor, session, live, task, saving, visit, reset, startup>>
  BY DEF fenceVars, worldVars
<1>2. /\ Images' \subseteq Images \cup {next} /\ journal'.intents = journal.intents
      /\ journal \in Images
  BY CommittedImages, ImageTypes
<1>3. KnownIntents(next) /\ \A c \in Characters : ClaimMovesOn(c)
  BY <1>1, <1>2 DEF KnownIntents, ClaimMovesOn
<1>4. IntentsFit'
  <2>1. \A i \in journal'.intents : \A image \in Images' :
           i \in image.intents \/ Journal!SharesOf(i) \subseteq image.taken
    BY <1>2 DEF DInv, IntentsFit
  <2>2. \A i \in journal'.intents :
           At(i.owner, {"prepared", "written", "published"})' /\ i = IntentOf(i.owner)'
    BY <1>1, <1>2 DEF DInv, IntentsFit, At, IntentOf
  <2> QED BY <1>1, <2>1, <2>2 DEF IntentsFit, Running
<1> QED BY <1>1, <1>3, <1>4, RunningIsConfirmed, CommitStep

LEMMA SyncMarks ==
    ASSUME Orderly, IInv, DInv, SyncStep
    PROVE  DInv'
<1>1. PICK outcome \in Outcomes : \/ \E id \in RunIds : SyncAllocate(id, outcome)
                                  \/ SyncCollect(outcome) \/ SyncRetry(outcome)
  BY DEF SyncStep
<1>2. journal \in Journal!Image
  BY DEF IInv, TypeOK, Journal!TypeOK
<1>3. ASSUME NEW id \in RunIds, SyncAllocate(id, outcome) PROVE DInv'
  <2> DEFINE bosses == IF id = Dungeon THEN {Boss} ELSE {}
             rows == bosses \X Characters \X Parts
             next == Journal!WithRun(journal, journal.next, id, Characters, bosses, rows)
  <2>1. journal.next \in Journal!Generations /\ Journal!Commit(next, {}, outcome)
    BY <1>3 DEF SyncAllocate, Journal!AllocateRun
  <2>2. /\ bosses \in SUBSET {Boss} /\ rows \in SUBSET (bosses \X Characters \X Parts)
        /\ Characters \in SUBSET Characters
    OBVIOUS
  <2>5. bosses = (IF id = Dungeon THEN {Boss} ELSE {})
    OBVIOUS
  <2> HIDE DEF bosses, rows
  <2>3. next \in Journal!Image /\ next.intents = journal.intents
    BY <1>2, <2>1, <2>2, RunAdded
  <2>4. ImageFits(next)
    BY <1>3, <2>1, <2>2, <2>5, RunAllocated DEF SyncAllocate
  <2> HIDE DEF next
  <2> QED BY <1>3, <2>1, <2>3, <2>4, SyncCommitMarks DEF SyncAllocate
<1>4. CASE SyncCollect(outcome)
  <2> DEFINE kept == Journal!KeptAt(journal, 1, {})
             next == Journal!Collected(journal, kept)
  <2>1. Journal!Commit(next, {}, outcome) /\ kept \in SUBSET DOMAIN journal.runs
    BY <1>4 DEF SyncCollect, Journal!ExpireRuns, Journal!KeptAt
  <2> HIDE DEF kept
  <2>2. next \in Journal!Image /\ next.intents = journal.intents
    BY <1>2, <2>1, RunsCollected
  <2>3. ImageFits(next)
    BY <1>4, <2>1, RunsLetGo DEF SyncCollect
  <2> HIDE DEF next
  <2> QED BY <1>4, <2>1, <2>2, <2>3, SyncCommitMarks DEF SyncCollect
<1>5. CASE SyncRetry(outcome)
  <2>1. uncertain \in Journal!Image /\ uncertain.intents = journal.intents
    BY <1>5, RewardCoordinatorAssumption
    DEF SyncRetry, IInv, TypeOK, Journal!TypeOK, JournalFits, SyncWrites
  <2>2. ImageFits(uncertain)
    BY <2>1, ImageTypes, RewardCoordinatorAssumption DEF DInv
  <2> QED BY <1>5, <2>1, <2>2, SyncCommitMarks DEF SyncRetry
<1> QED BY <1>1, <1>3, <1>4, <1>5

(* A claim that writes the journal. *)
LEMMA ClaimMoves ==
    ASSUME IInv, NEW c \in Characters, NEW s \in Stages, NEW outcome,
           IF outcome = "done" THEN Advance(c, s) ELSE UNCHANGED task,
           \/ At(c, {"sealed"}) /\ s = "prepared"
           \/ At(c, {"published"}) /\ s = "acknowledged"
    PROVE  /\ \A d \in Characters : ClaimMovesOn(d)
           /\ \A d \in Characters \ {c} : task'[d] = task[d]
           /\ IntentOf(c)' = IntentOf(c)
           /\ outcome = "done" => task'[c] # NoTask /\ task'[c].stage = s
           /\ Running /\ c \in Characters
<1>1. CASE outcome = "done"
  <2>1. /\ task[c] # NoTask /\ task'[c] # NoTask /\ task'[c].stage = s
        /\ task'[c].gen = task[c].gen /\ task'[c].parts = task[c].parts
        /\ task'[c].image = task[c].image /\ task'[c].last = task[c].last
        /\ \A d \in Characters \ {c} : task'[d] = task[d]
    BY <1>1, StageMoves DEF At
  <2> QED BY <1>1, <2>1, CharacterTypes DEF ClaimMovesOn, At, IntentOf, CharacterFits, SessionFits
<1>2. CASE outcome # "done"
  BY <1>2, CharacterTypes DEF ClaimMovesOn, At, IntentOf, CharacterFits, SessionFits
<1> QED BY <1>1, <1>2

LEMMA PrepareMarks ==
    ASSUME Orderly, IInv, DInv, NEW c \in Characters, NEW outcome \in Outcomes,
           PrepareClaim(c, outcome)
    PROVE  DInv'
<1> DEFINE intent == IntentOf(c)
           next == Journal!WithIntent(journal, intent)
<1>1. /\ At(c, {"sealed"}) /\ Journal!Commit(next, {}, outcome)
      /\ UNCHANGED <<record, fence, floor, session, live, saving, visit, reset, startup>>
  BY DEF PrepareClaim, Journal!PrepareClaim, fenceVars
<1>2. /\ intent \in Journal!Intent /\ next \in Journal!Image
      /\ next.intents = journal.intents \cup {intent} /\ intent.owner = c
  BY <1>1, IntentOfClaim, IntentAdded DEF At, IInv, TypeOK, Journal!TypeOK, IntentOf
<1>3. ImageFits(next)
  BY <1>2, ClaimPrepared
<1>4. /\ \A d \in Characters : ClaimMovesOn(d)
      /\ \A d \in Characters \ {c} : task'[d] = task[d]
      /\ outcome = "done" => At(c, {"prepared"})' /\ IntentOf(c)' = intent
      /\ Running
  BY <1>1, ClaimMoves DEF PrepareClaim, Stages, At
<1> HIDE DEF next, intent
<1>5. /\ outcome = "done" => Images' = {next} /\ journal' = next
      /\ outcome # "done" => Images' \subseteq Images \cup {next} /\ journal' = journal
  BY <1>1, <1>2, CommittedImages
<1>6. KnownIntents(next)
  <2>1. journal \in Images
    BY ImageTypes
  <2> QED BY <1>1, <1>2, <2>1 DEF KnownIntents, intent
<1>7. \A i \in journal.intents : i.owner # c /\ i.owner \in Characters
                                /\ At(i.owner, {"prepared", "written", "published"})
                                /\ i = IntentOf(i.owner)
  BY <1>1, <1>4, ImageTypes, IntentTypes DEF DInv, IntentsFit, At
<1>8. \A i \in journal.intents :
         At(i.owner, {"prepared", "written", "published"})' /\ i = IntentOf(i.owner)'
  BY <1>4, <1>7 DEF At, IntentOf
<1>9. IntentsFit'
  <2>1. \A i \in journal'.intents : \A image \in Images' :
           i \in image.intents \/ Journal!SharesOf(i) \subseteq image.taken
    BY <1>2, <1>5 DEF DInv, IntentsFit
  <2>2. \A i \in journal'.intents :
           At(i.owner, {"prepared", "written", "published"})' /\ i = IntentOf(i.owner)'
    BY <1>2, <1>4, <1>5, <1>8 DEF At
  <2> QED BY <1>1, <1>4, <2>1, <2>2 DEF IntentsFit, Running
<1> QED BY <1>1, <1>2, <1>3, <1>4, <1>6, <1>9, RunningIsConfirmed, CommitStep

LEMMA AcknowledgeMarks ==
    ASSUME Orderly, IInv, DInv, NEW c \in Characters, NEW outcome \in Outcomes,
           AcknowledgeClaim(c, outcome)
    PROVE  DInv'
<1> DEFINE intent == IntentOf(c)
           next == Journal!Acknowledged(journal, {intent})
<1>1. /\ At(c, {"published"}) /\ intent \in journal.intents /\ Journal!Commit(next, {intent}, outcome)
      /\ UNCHANGED <<record, fence, floor, session, live, saving, visit, reset, startup>>
  BY DEF AcknowledgeClaim, Journal!AcknowledgeClaim, fenceVars
<1>2. /\ next \in Journal!Image /\ next.intents = journal.intents \ {intent}
      /\ next.taken = journal.taken \cup Journal!SharesOf(intent) /\ intent.owner = c
  BY <1>1, IntentsAcknowledged DEF IInv, TypeOK, Journal!TypeOK, IntentOf
<1>3. /\ \A d \in Characters : ClaimMovesOn(d)
      /\ \A d \in Characters \ {c} : task'[d] = task[d]
      /\ IntentOf(c)' = intent /\ Running
      /\ outcome # "done" => task' = task
  BY <1>1, ClaimMoves DEF AcknowledgeClaim, Stages, At
<1>4. ImageFits(next)
  <2>1. ~At(c, {"sealed", "prepared"})
    BY <1>1 DEF At
  <2> QED BY <1>1, <1>2, <1>3, <2>1, RunningIsConfirmed, ClaimsAcknowledged
<1> HIDE DEF next, intent
<1>5. /\ outcome = "done" => Images' = {next} /\ journal' = next
      /\ outcome # "done" => Images' \subseteq Images \cup {next} /\ journal' = journal
  BY <1>1, <1>2, CommittedImages
<1>6. KnownIntents(next)
  <2>1. journal \in Images
    BY ImageTypes
  <2> QED BY <1>2, <2>1 DEF KnownIntents
<1>7. \A i \in journal.intents : /\ i.owner \in Characters
                                /\ At(i.owner, {"prepared", "written", "published"})
                                /\ i = IntentOf(i.owner)
  BY <1>3, ImageTypes, IntentTypes DEF DInv, IntentsFit
<1>8. \A i \in journal'.intents :
         At(i.owner, {"prepared", "written", "published"})' /\ i = IntentOf(i.owner)'
  <2>1. CASE outcome = "done"
    <3>1. \A i \in next.intents : i.owner # c
      BY <1>2, <1>7 DEF intent
    <3> QED BY <1>2, <1>3, <1>5, <1>7, <2>1, <3>1 DEF At, IntentOf
  <2>2. CASE outcome # "done"
    BY <1>3, <1>5, <1>7, <2>2 DEF At, IntentOf
  <2> QED BY <2>1, <2>2
<1>9. IntentsFit'
  <2>1. \A i \in journal'.intents : \A image \in Images' :
           i \in image.intents \/ Journal!SharesOf(i) \subseteq image.taken
    BY <1>2, <1>5 DEF DInv, IntentsFit
  <2> QED BY <1>1, <1>3, <1>8, <2>1 DEF IntentsFit, Running
<1> QED BY <1>1, <1>2, <1>3, <1>4, <1>6, <1>9, RunningIsConfirmed, CommitStep

-----------------------------------------------------------------------------
(* The end of a run. *)

LEMMA ResetMarks ==
    ASSUME Orderly, IInv, DInv, Reset
    PROVE  DInv'
<1>1. /\ visit' = [c \in Characters |-> NoLife] /\ reset' = TRUE
      /\ UNCHANGED <<journal, uncertain, journalFile, record, fence, floor, owner, session, live,
                     task, saving, startup>>
  BY DEF Reset, journalVars, fenceVars
<1>2. Images' = Images
  BY <1>1 DEF Images
<1>3. ASSUME NEW c \in Characters
      PROVE  /\ MarksFit(c)' /\ Records(c)' = Records(c) /\ Bare(c)' \subseteq Bare(c)
             /\ Sealed(c)' = Sealed(c) /\ IntentsFor(c)' = IntentsFor(c)
  <2>1. /\ Records(c)' = Records(c) /\ Sealed(c)' = Sealed(c) /\ IntentsFor(c)' = IntentsFor(c)
        /\ Held(c)' \subseteq Held(c)
    BY <1>1, <1>2, <1>3 DEF Records, Sealed, At, IntentsFor, Held
  <2>2. Bare(c)' \subseteq Bare(c) /\ Coming(c)' = Coming(c) /\ MarksFit(c)
    BY <1>1, <2>1, MarkTypes DEF Bare, Coming
  <2>3. Chained(Bare(c) \cup Coming(c))'
    BY <2>2 DEF MarksFit, Chained
  <2>4. EpochsFit(c)'
    BY <1>1, <2>1, <2>2 DEF MarksFit, EpochsFit, At, IntentOf, Unconfirmed, Running
  <2>5. GrantsFit(c)'
    BY <1>1, <2>1, <2>2 DEF MarksFit, GrantsFit, At, Word, Attached
  <2> QED BY <2>1, <2>2, <2>3, <2>4, <2>5 DEF MarksFit
<1>4. IntentsFit'
  BY <1>1, <1>2 DEF DInv, IntentsFit, At, IntentOf, Running
<1>5. ASSUME NEW image \in Images PROVE ImageFits(image)'
  <2>1. ImageFits(image) /\ ~Unrecorded(image)'
    BY <1>1 DEF DInv, Unrecorded
  <2>2. \A c \in Characters, p \in Parts : ShareFits(image, c, p)'
    BY <1>1, <1>3, <2>1 DEF ImageFits, ShareFits, TakenIn, OfferedIn, Prepared
  <2> QED BY <2>1, <2>2 DEF ImageFits, OneRun
<1> QED BY <1>2, <1>3, <1>4, <1>5 DEF DInv

-----------------------------------------------------------------------------
(* Power losses and the recovery that follows. *)

LEMMA IdleMarks ==
    ASSUME NEW c \in Characters, live'[c] = NoLife, task'[c] = NoTask, saving'[c] = NoLife,
           visit'[c] = NoLife
    PROVE  /\ Held(c)' = {} /\ Bare(c)' = Records(c)' /\ ~Sealed(c)' /\ ~At(c, InPack)'
           /\ Coming(c)' = {Mark(i.image) : i \in IntentsFor(c)'}
<1>1. Held(c)' = {}
  BY DEF Held
<1>2. ~Sealed(c)' /\ ~At(c, InPack)'
  BY DEF Sealed, At
<1> QED BY <1>1, <1>2 DEF Bare, Coming

(* A power loss leaves one content of every file. *)
LEMMA CrashMarks ==
    ASSUME Steady, IInv, DInv, Crash
    PROVE  DInv'
<1>1. PICK file \in FilesAfter("power", journalFile) : Journal!Reopen(file)
  BY DEF Crash, Steady
<1>2. PICK files \in Fence!RecordsAfter("power") : Fence!Reopen(files)
  BY DEF Crash, Steady
<1>3. PICK found \in journalFile.mayBe : file = [now |-> found, mayBe |-> {found}]
  BY <1>1 DEF FilesAfter, AfterPowerLoss, Settled
<1>4. /\ journal' = found /\ uncertain' = NoImage /\ journalFile' = file
      /\ Images' = {found} /\ found \in Images
  BY <1>1, <1>3 DEF Journal!Reopen, Images
<1>5. /\ session' = [c \in Characters |-> "none"] /\ live' = [c \in Characters |-> NoLife]
      /\ task' = [c \in Characters |-> NoTask] /\ saving' = [c \in Characters |-> NoLife]
      /\ visit' = [c \in Characters |-> NoLife] /\ reset' = reset
      /\ startup' = [phase |-> "recovering", confirmed |-> {}] /\ ~Running'
      /\ record' = files /\ floor' = [c \in Characters |-> files[c].now.epoch]
  BY <1>2 DEF Crash, Forgotten, Starting, Running, Fence!Reopen
<1>6. ASSUME NEW c \in Characters
      PROVE  /\ MarksFit(c)' /\ Records(c)' \subseteq Records(c) /\ Bare(c)' \subseteq Bare(c)
             /\ Coming(c)' \subseteq Coming(c) /\ IntentsFor(c)' \subseteq IntentsFor(c)
             /\ ~Sealed(c)'
  <2>1. PICK rec \in record[c].mayBe : files[c] = [now |-> rec, mayBe |-> {rec}]
    BY <1>2 DEF Fence!RecordsAfter, Fence!FilesAfter, Fence!AfterPowerLoss, Fence!Settled
  <2>2. /\ Records(c)' = {Mark(rec)} /\ Mark(rec) \in Records(c)
        /\ record'[c].now \in record'[c].mayBe /\ floor'[c] = rec.epoch
    BY <1>5, <2>1 DEF Records
  <2>3. /\ Held(c)' = {} /\ Bare(c)' = Records(c)' /\ ~Sealed(c)' /\ ~At(c, InPack)'
        /\ Coming(c)' = {Mark(i.image) : i \in IntentsFor(c)'}
    BY <1>5, IdleMarks
  <2>4. IntentsFor(c)' \subseteq IntentsFor(c) /\ IntentsFor(c)' \subseteq journal'.intents
    BY <1>4 DEF IntentsFor
  <2>5. Coming(c)' \subseteq Coming(c) /\ Bare(c)' \subseteq Bare(c) /\ MarksFit(c)
    <3>1. Coming(c)' \subseteq Coming(c) /\ MarksFit(c)
      BY <2>3, <2>4, MarkTypes
    <3> QED BY <2>2, <2>3, <3>1 DEF Bare
  <2>6. Chained(Bare(c) \cup Coming(c))'
    BY <2>5 DEF MarksFit, Chained
  <2>7. rec \in Fence!Record /\ rec.epoch \in Nat /\ Mark(rec).epoch = rec.epoch
    BY <2>1, CharacterTypes, RecordFields, MarkOf DEF Fence!Files
  <2>8. Unconfirmed(c)'
    BY <1>5 DEF Unconfirmed
  <2>9. EpochsFit(c)'
    BY <2>2, <2>3, <2>4, <2>7, <2>8 DEF EpochsFit
  <2>10. GrantsFit(c)'
    BY <2>3, <2>4, <2>5 DEF MarksFit, GrantsFit
  <2> QED BY <2>2, <2>3, <2>4, <2>5, <2>6, <2>9, <2>10 DEF MarksFit
<1>7. IntentsFit'
  BY <1>3, <1>4, <1>5 DEF IntentsFit
<1>8. ImageFits(found)'
  <2>1. ImageFits(found)
    BY <1>4 DEF DInv
  <2>2. Unrecorded(found)' => Unrecorded(journal)' /\ NothingGranted'
    BY <1>4, <1>5, <1>6, <2>1 DEF ImageFits, Unrecorded, NothingGranted
  <2>3. ASSUME NEW c \in Characters, NEW p \in Parts PROVE ShareFits(found, c, p)'
    BY <1>6, <2>1 DEF ImageFits, ShareFits, TakenIn, OfferedIn, Prepared
  <2> QED BY <2>1, <2>2, <2>3 DEF ImageFits, OneRun
<1> QED BY <1>4, <1>6, <1>7, <1>8 DEF DInv

(* A startup that is tried again reads what the failed one may have written. *)
LEMMA RestartMarks ==
    ASSUME Steady, IInv, DInv, Restart
    PROVE  DInv'
<1>1. /\ journal' = journalFile.now /\ uncertain' = NoImage /\ journalFile' = journalFile
      /\ session' = [c \in Characters |-> "none"] /\ live' = [c \in Characters |-> NoLife]
      /\ task' = [c \in Characters |-> NoTask] /\ saving' = [c \in Characters |-> NoLife]
      /\ visit' = [c \in Characters |-> NoLife] /\ reset' = reset
      /\ startup' = [phase |-> "recovering", confirmed |-> {}] /\ ~Running'
      /\ record' = record /\ floor' = [c \in Characters |-> record[c].now.epoch] /\ ~Running
  BY DEF Restart, Forgotten, Starting, Running, Fence!Reopen, Journal!Reopen
<1>2. Images' \subseteq Images
  BY <1>1 DEF Images
<1>3. \/ journal' = journal
      \/ Confirmed /\ journal'.intents = {} /\ journal'.runs = journal.runs
  BY <1>1 DEF DInv, IntentsFit, Confirmed, Unconfirmed
<1>4. ASSUME NEW c \in Characters
      PROVE  /\ MarksFit(c)' /\ Records(c)' = Records(c) /\ Bare(c)' \subseteq Bare(c)
             /\ Coming(c)' \subseteq Coming(c) /\ IntentsFor(c)' \subseteq IntentsFor(c)
             /\ ~Sealed(c)'
  <2>1. Records(c)' = Records(c) /\ floor'[c] = floor[c] /\ task[c] = NoTask
    BY <1>1, NobodyPlays DEF Records
  <2>2. /\ Held(c)' = {} /\ Bare(c)' = Records(c)' /\ ~Sealed(c)' /\ ~At(c, InPack)'
        /\ Coming(c)' = {Mark(i.image) : i \in IntentsFor(c)'}
    BY <1>1, IdleMarks
  <2>3. IntentsFor(c)' \subseteq IntentsFor(c)
    BY <1>2 DEF IntentsFor
  <2>4. Coming(c)' \subseteq Coming(c) /\ Bare(c)' \subseteq Bare(c) /\ MarksFit(c)
    <3>1. Coming(c)' \subseteq Coming(c) /\ MarksFit(c)
      BY <2>2, <2>3, MarkTypes
    <3> QED BY <2>1, <2>2, <3>1 DEF Bare
  <2>5. Chained(Bare(c) \cup Coming(c))'
    BY <2>4 DEF MarksFit, Chained
  <2>6. Unconfirmed(c)' /\ ~At(c, {"prepared"}) /\ ~At(c, {"sealed", "prepared"})
    BY <1>1, <2>1 DEF Unconfirmed, At
  <2>7. EpochsFit(c)'
    <3>1. /\ record[c].now \in record[c].mayBe /\ \A m \in Bare(c) : m.epoch <= floor[c]
      BY <2>4, <2>6 DEF MarksFit, EpochsFit
    <3>2. CASE journal' = journal
      BY <1>1, <2>1, <2>2, <2>3, <2>4, <2>6, <3>1, <3>2 DEF MarksFit, EpochsFit
    <3>3. CASE Confirmed
      <4>1. \A m \in Records(c) : m.epoch >= floor[c]
        BY <2>4, <3>3 DEF MarksFit, EpochsFit, Confirmed
      <4>2. \A i \in IntentsFor(c) : i.image.epoch <= floor[c]
        BY <2>4, <2>6, <3>3, MarkTypes DEF MarksFit, EpochsFit, Confirmed
      <4> QED BY <1>1, <2>1, <2>2, <2>3, <2>4, <3>1, <4>1, <4>2 DEF EpochsFit
    <3> QED BY <1>3, <3>2, <3>3
  <2>8. GrantsFit(c)'
    BY <2>2, <2>3, <2>4 DEF MarksFit, GrantsFit
  <2> QED BY <2>1, <2>2, <2>3, <2>4, <2>5, <2>7, <2>8 DEF MarksFit
<1>5. IntentsFit'
  BY <1>1, <1>2, <1>3 DEF DInv, IntentsFit
<1>6. ASSUME NEW image \in Images' PROVE ImageFits(image)'
  <2>1. ImageFits(image)
    BY <1>2 DEF DInv
  <2>2. Unrecorded(image)' => Unrecorded(journal)' /\ NothingGranted'
    BY <1>1, <1>3, <1>4, <2>1 DEF ImageFits, Unrecorded, NothingGranted
  <2>3. ASSUME NEW c \in Characters, NEW p \in Parts PROVE ShareFits(image, c, p)'
    BY <1>4, <2>1 DEF ImageFits, ShareFits, TakenIn, OfferedIn, Prepared
  <2> QED BY <2>1, <2>2, <2>3 DEF ImageFits, OneRun
<1> QED BY <1>4, <1>5, <1>6 DEF DInv

(* The record an intent is recovered into keeps, or reaches, its mark. *)
LEMMA RecoverRecordMarks ==
    ASSUME Steady, IInv, DInv, NEW intent \in journal.intents, NEW outcome \in Outcomes,
           RecoverRecord(intent, outcome)
    PROVE  DInv'
<1> DEFINE c == intent.owner
           old == record[c].now
           rec == Recovered(old, intent)
<1>1. /\ c \in Characters /\ intent \in Journal!Intent /\ intent.image \in Fence!Record
      /\ intent \in IntentsFor(c) /\ journal \in Images /\ old \in Fence!Record
      /\ Mark(intent.image) \in Coming(c) /\ Mark(old) \in Records(c)
  <2>1. /\ c \in Characters /\ intent \in IntentsFor(c)
    BY ImageTypes, IntentTypes DEF IntentsFor
  <2> QED BY <2>1, ImageTypes, MarkTypes, HeldMarks, CharacterTypes
<1>2. /\ startup.phase = "recovering" /\ c \notin startup.confirmed
      /\ record' = [record EXCEPT ![c] = Written(record[c], rec, outcome)]
      /\ floor' = [floor EXCEPT ![c] = record'[c].now.epoch]
      /\ startup' = IF outcome = "done" THEN [startup EXCEPT !.confirmed = @ \cup {c}]
                                        ELSE [startup EXCEPT !.phase = "failed"]
      /\ UNCHANGED <<journal, uncertain, journalFile, fence, owner, session, live, task,
                     saving, visit, reset>>
  BY DEF RecoverRecord, AfterWrite, journalVars, worldVars
<1>3. ~Running /\ ~Running' /\ startup \in Startup
  BY <1>2 DEF Running, IInv, TypeOK, Startup
<1>4. /\ rec \in Fence!Record /\ rec.epoch >= old.epoch /\ rec.epoch >= intent.image.epoch
      /\ Mark(rec).epoch = rec.epoch /\ Mark(rec) \in Marks
      /\ \/ Mark(rec) = Mark(old)
         \/ Mark(rec) = Mark(intent.image) /\ ~(old.epoch >= intent.image.epoch)
  <2>1. old.epoch \in Nat /\ intent.image.epoch \in Nat
    BY <1>1, RecordFields
  <2>2. CASE old.epoch >= intent.image.epoch
    BY <1>1, <2>1, <2>2, MarkOf DEF Recovered
  <2>3. CASE ~(old.epoch >= intent.image.epoch)
    BY <1>1, <2>1, <2>3, MarkOf DEF Recovered
  <2> QED BY <2>2, <2>3
<1>5. /\ MarksFit(c) /\ Mark(rec) \in Bare(c) \cup Coming(c) /\ floor[c] = old.epoch /\ floor[c] \in Nat
      /\ Bare(c) \subseteq Marks
  BY <1>1, <1>3, <1>4, MarkTypes, HeldMarks, NobodyPlays, CharacterTypes
<1> HIDE DEF rec
<1>6. /\ record'[c] = Written(record[c], rec, outcome) /\ floor'[c] = record'[c].now.epoch
      /\ \A d \in Characters \ {c} : record'[d] = record[d] /\ floor'[d] = floor[d]
  BY <1>1, <1>2 DEF IInv, TypeOK, Fence!TypeOK
<1>7. /\ record'[c].now \in record'[c].mayBe /\ record'[c].now \in {old, rec}
      /\ Records(c)' \subseteq Records(c) \cup {Mark(rec)}
      /\ outcome = "done" => Records(c)' = {Mark(rec)} /\ record'[c].now = rec
  BY <1>1, <1>4, <1>5, <1>6, WrittenMarks DEF MarksFit, EpochsFit
<1>8. Images' = Images /\ \A d \in Characters : IntentsFor(d)' = IntentsFor(d)
  BY <1>2 DEF Images, IntentsFor
<1>9. \A d \in Characters :
         /\ Held(d)' = {} /\ Bare(d)' = Records(d)' /\ ~Sealed(d)' /\ ~At(d, InPack)'
         /\ Coming(d)' = {Mark(i.image) : i \in IntentsFor(d)'}
         /\ task[d] = NoTask
  BY <1>2, <1>3, NobodyPlays, IdleMarks
<1>10. \A d \in Characters : Coming(d)' \subseteq Coming(d)
  BY <1>8, <1>9 DEF Coming
<1>11. \A d \in Characters \ {c} : Records(d)' = Records(d)
  BY <1>6 DEF Records
<1>12. (Bare(c) \cup Coming(c))' \subseteq Bare(c) \cup Coming(c)
  BY <1>5, <1>7, <1>9, <1>10, <1>1 DEF Bare
<1>13. MarksFit(c)'
  <2>1. Chained(Bare(c) \cup Coming(c))'
    BY <1>5, <1>12 DEF MarksFit, Chained
  <2>2. ~At(c, {"prepared"}) /\ ~At(c, {"sealed", "prepared"}) /\ Unconfirmed(c)
    BY <1>1, <1>2, <1>3, <1>9 DEF At, Unconfirmed
  <2>3. /\ floor'[c] >= floor[c] /\ floor'[c] \in Nat
        /\ floor'[c] \in {old.epoch, rec.epoch}
    BY <1>4, <1>5, <1>6, <1>7, RecordFields
  <2>4. \A m \in Records(c) : m.epoch <= floor[c] /\ m.epoch \in Nat
    BY <1>5, <2>2 DEF MarksFit, EpochsFit, Bare, Marks
  <2>5. EpochsFit(c)'
    <3>1. CASE outcome = "done"
      <4>1. \A m \in Records(c)' : m.epoch = floor'[c]
        BY <1>4, <1>6, <1>7, <3>1
      <4>2. \A i \in IntentsFor(c)' : i.image.epoch <= floor'[c]
        <5>1. ASSUME NEW i \in IntentsFor(c) PROVE i.image.epoch <= floor'[c]
          <6>1. i.image.epoch <= floor[c] \/ i \in journal.intents
            BY <1>5, <2>2 DEF MarksFit, EpochsFit
          <6>2. i \in journal.intents => i = intent
            BY <1>1, ImageTypes, MarkTypes DEF Journal!Valid
          <6>3. i.image.epoch \in Nat
            BY <1>1, MarkTypes, RecordFields
          <6> QED BY <1>4, <1>5, <1>6, <1>7, <2>3, <3>1, <6>1, <6>2, <6>3
        <5> QED BY <1>1, <1>8, <5>1
      <4> QED BY <1>7, <1>9, <2>3, <4>1, <4>2, <1>1 DEF EpochsFit
    <3>2. CASE outcome # "done"
      <4>1. Unconfirmed(c)' /\ \E i \in journal'.intents : i.owner = c
        BY <1>2, <1>3, <2>2, <3>2 DEF Unconfirmed, Startup
      <4>2. \A m \in Records(c)' : m.epoch <= floor'[c]
        <5>1. CASE outcome = "unsynced"
          BY <1>4, <1>5, <1>6, <1>7, <2>3, <2>4, <5>1 DEF Written
        <5>2. CASE outcome = "failed"
          <6>1. Records(c)' = Records(c) /\ floor'[c] = floor[c]
            BY <1>5, <1>6, <5>2 DEF Written, Records
          <6> QED BY <2>4, <6>1
        <5> QED BY <3>2, <5>1, <5>2, RewardCoordinatorAssumption DEF WriteOutcomes
      <4>3. \A i \in IntentsFor(c)' : i.image.epoch <= floor'[c] \/ i \in journal'.intents
        <5>1. ASSUME NEW i \in IntentsFor(c) PROVE i.image.epoch <= floor'[c] \/ i \in journal.intents
          <6>1. i.image.epoch <= floor[c] \/ i \in journal.intents
            BY <1>5, <2>2 DEF MarksFit, EpochsFit
          <6>2. i.image.epoch \in Nat
            BY <1>1, MarkTypes, RecordFields
          <6> QED BY <1>5, <2>3, <6>1, <6>2
        <5> QED BY <1>1, <1>2, <1>8, <5>1
      <4> QED BY <1>1, <1>7, <1>9, <4>1, <4>2, <4>3 DEF EpochsFit
    <3> QED BY <3>1, <3>2
  <2>6. GrantsFit(c)'
    BY <1>1, <1>5, <1>8, <1>9 DEF MarksFit, GrantsFit
  <2> QED BY <2>1, <2>5, <2>6 DEF MarksFit
<1>14. ASSUME NEW d \in Characters \ {c}
       PROVE  MarksFit(d)' /\ Bare(d)' \subseteq Bare(d)
  <2>1. MarksFit(d) /\ Bare(d)' \subseteq Bare(d)
    BY <1>9, <1>11, MarkTypes
  <2>2. Unconfirmed(d)' <=> Unconfirmed(d)
    BY <1>2, <1>3 DEF Unconfirmed, Startup
  <2>3. ~At(d, {"prepared"}) /\ ~At(d, {"sealed", "prepared"})
    BY <1>9 DEF At
  <2>4. Chained(Bare(d) \cup Coming(d))'
    BY <1>10, <2>1 DEF MarksFit, Chained
  <2>5. EpochsFit(d)'
    BY <1>2, <1>6, <1>8, <1>9, <1>11, <2>1, <2>2, <2>3 DEF MarksFit, EpochsFit
  <2>6. GrantsFit(d)'
    BY <1>8, <1>9, <2>1 DEF MarksFit, GrantsFit
  <2> QED BY <2>1, <2>4, <2>5, <2>6 DEF MarksFit
<1>15. IntentsFit'
  <2>1. journal = journalFile.now
    BY <1>2, <1>3 DEF DInv, IntentsFit
  <2> QED BY <1>2, <1>3, <1>8, <2>1 DEF DInv, IntentsFit
<1>16. ASSUME NEW image \in Images PROVE ImageFits(image)'
  <2>1. ImageFits(image) /\ (intent \in image.intents \/ Journal!SharesOf(intent) \subseteq image.taken)
    BY DEF DInv, IntentsFit
  <2>2. NothingGranted => NothingGranted'
    BY <1>10, <1>12, <1>14 DEF NothingGranted
  <2>3. ASSUME NEW p \in Parts PROVE ShareFits(image, c, p)'
    <3>1. ShareFits(image, c, p)
      BY <1>1, <2>1 DEF ImageFits
    <3>2. TakenIn(image, c, p) => Mark(rec).grants[p] = 1
      <4>1. TakenIn(image, c, p) => Mark(old).grants[p] = 1
        BY <1>1, <3>1 DEF ShareFits
      <4>2. /\ Mark(old).grants[p] <= Mark(rec).grants[p] /\ Mark(rec).grants[p] <= 1
        BY <1>1, <1>4, <1>5, MarkOf DEF MarksFit, Chained, Bare
      <4> QED BY <1>4, <4>1, <4>2 DEF Marks
    <3>3. OfferedIn(image, c, p) => Mark(rec).grants[p] = 0
      <4>1. OfferedIn(image, c, p) => p \notin intent.parts
        BY <1>1, <2>1, NotOffered
      <4>2. OfferedIn(image, c, p) => Mark(intent.image).grants[p] = 0
        BY <1>1, <3>1, <4>1 DEF ShareFits, Mark
      <4> QED BY <1>1, <1>4, <3>1, <4>2 DEF ShareFits, Bare
    <3> QED BY <1>1, <1>7, <1>8, <1>9, <3>1, <3>2, <3>3 DEF ShareFits, TakenIn, OfferedIn, Prepared, Bare
  <2>4. ASSUME NEW d \in Characters \ {c}, NEW p \in Parts PROVE ShareFits(image, d, p)'
    BY <1>8, <1>9, <1>11, <1>14, <2>1 DEF ImageFits, ShareFits, TakenIn, OfferedIn, Prepared
  <2> QED BY <1>2, <2>1, <2>2, <2>3, <2>4 DEF ImageFits, OneRun, Unrecorded
<1> QED BY <1>8, <1>13, <1>14, <1>15, <1>16 DEF DInv

(* The last write of the recovery. *)
LEMMA RecoverAllMarks ==
    ASSUME Steady, IInv, DInv, NEW outcome \in Outcomes, RecoverAll(outcome)
    PROVE  DInv'
<1>1. /\ startup.phase = "recovering" /\ \A i \in journal.intents : i.owner \in startup.confirmed
      /\ UNCHANGED <<record, fence, floor, owner, session, live, task, saving, visit, reset>>
  BY DEF RecoverAll, fenceVars, worldVars
<1>2. ~Running /\ Confirmed /\ \A c \in Characters : task[c] = NoTask /\ ClaimMovesOn(c)
  BY <1>1, NobodyPlays DEF Running, Confirmed, Unconfirmed, ClaimMovesOn
<1>3. CASE journal.intents = {}
  <2>1. UNCHANGED <<journal, uncertain, journalFile>> /\ Running'
    BY <1>3 DEF RecoverAll, journalVars, Opened, Running
  <2>2. Images' = Images /\ \A c \in Characters : IntentsFor(c)' = IntentsFor(c)
    BY <2>1 DEF Images, IntentsFor
  <2>3. ASSUME NEW c \in Characters
        PROVE  /\ MarksFit(c)' /\ Records(c)' = Records(c) /\ Bare(c)' = Bare(c)
               /\ Coming(c)' = Coming(c) /\ ~Sealed(c)'
    <3>1. /\ Records(c)' = Records(c) /\ Bare(c)' = Bare(c) /\ ~Sealed(c)' /\ ~Sealed(c)
          /\ ~At(c, InPack)' /\ ~At(c, {"prepared"}) /\ ~At(c, {"sealed", "prepared"})
      BY <1>1, <1>2 DEF Records, Bare, Held, Sealed, At
    <3>2. Coming(c)' = Coming(c) /\ MarksFit(c)
      BY <2>2, <3>1, MarkTypes DEF Coming
    <3>3. Chained(Bare(c) \cup Coming(c))'
      BY <3>1, <3>2 DEF MarksFit, Chained
    <3>4. EpochsFit(c)'
      BY <1>1, <1>3, <2>2, <3>1, <3>2 DEF MarksFit, EpochsFit
    <3>5. GrantsFit(c)'
      BY <2>2, <3>1, <3>2 DEF MarksFit, GrantsFit
    <3> QED BY <3>1, <3>2, <3>3, <3>4, <3>5 DEF MarksFit
  <2>4. IntentsFit'
    BY <1>3, <2>1, <2>2 DEF IntentsFit
  <2>5. ASSUME NEW image \in Images PROVE ImageFits(image)'
    <3>1. ImageFits(image)
      BY DEF DInv
    <3>2. Unrecorded(image)' => Unrecorded(journal)' /\ NothingGranted'
      BY <1>1, <2>1, <2>3, <3>1 DEF ImageFits, Unrecorded, NothingGranted
    <3>3. \A c \in Characters, p \in Parts : ShareFits(image, c, p)'
      BY <2>2, <2>3, <3>1 DEF ImageFits, ShareFits, TakenIn, OfferedIn, Prepared
    <3> QED BY <3>1, <3>2, <3>3 DEF ImageFits, OneRun
  <2> QED BY <2>2, <2>3, <2>4, <2>5 DEF DInv
<1>4. CASE journal.intents # {}
  <2> DEFINE next == Journal!Acknowledged(journal, journal.intents)
  <2>1. Journal!Commit(next, journal.intents, outcome) /\ AfterWrite(outcome, Opened)
    BY <1>4 DEF RecoverAll, Journal!AcknowledgeAll
  <2>2. /\ next \in Journal!Image /\ next.intents = {}
        /\ next.taken = journal.taken \cup UNION {Journal!SharesOf(i) : i \in journal.intents}
        /\ next.runs = journal.runs
    <3>1. journal \in Journal!Image
      BY ImageTypes
    <3>2. journal.intents \in SUBSET journal.intents
      OBVIOUS
    <3>3. /\ next \in Journal!Image /\ next.intents = journal.intents \ journal.intents
          /\ next.taken = journal.taken \cup UNION {Journal!SharesOf(i) : i \in journal.intents}
      BY <3>1, <3>2, IntentsAcknowledged
    <3>4. next.runs = journal.runs
      BY <3>1 DEF Journal!Acknowledged, Journal!Image
    <3> QED BY <3>3, <3>4
  <2>3. ImageFits(next)
    <3>1. \A i \in journal.intents : i.owner \in Characters
      BY ImageTypes, IntentTypes
    <3>2. \A i \in journal.intents : ~At(i.owner, {"sealed", "prepared"})
      BY <1>2, <3>1 DEF At
    <3> QED BY <1>2, <3>2, ClaimsAcknowledged
  <2> HIDE DEF next
  <2>4. /\ outcome = "done" => Images' = {next} /\ journal' = next
        /\ outcome # "done" => Images' \subseteq Images \cup {next} /\ journal' = journal
        /\ journalFile'.now \in {journalFile.now, next}
    BY <2>1, <2>2, CommittedImages
  <2>5. KnownIntents(next)
    BY <2>2 DEF KnownIntents
  <2>6. IntentsFit'
    <3>1. CASE outcome = "done"
      <4>1. Running' /\ journal'.intents = {}
        BY <2>1, <2>2, <2>4, <3>1 DEF AfterWrite, Opened, Running
      <4> QED BY <4>1 DEF IntentsFit
    <3>2. CASE outcome # "done"
      <4>1. /\ startup'.phase = "failed" /\ startup'.confirmed = startup.confirmed /\ ~Running'
        BY <2>1, <3>2 DEF AfterWrite, Running, IInv, TypeOK, Startup
      <4>2. journal = journalFile.now
        BY <1>1, <1>2 DEF DInv, IntentsFit
      <4>3. \A i \in journal.intents : \A image \in Images' :
               i \in image.intents \/ Journal!SharesOf(i) \subseteq image.taken
        BY <2>2, <2>4, <3>2 DEF DInv, IntentsFit
      <4> QED BY <1>1, <2>2, <2>4, <3>2, <4>1, <4>2, <4>3 DEF IntentsFit
    <3> QED BY <3>1, <3>2
  <2> QED BY <1>1, <1>2, <2>1, <2>2, <2>3, <2>5, <2>6, CommitStep
<1> QED BY <1>3, <1>4

-----------------------------------------------------------------------------
(* Every step, the initial state, and what follows. *)

LEMMA OwnActionMarks ==
    ASSUME Orderly, IInv, DInv, NEW c \in Characters,
           Playing(c) \/ Reserves(c) \/ Delivers(c) \/ TearsDown(c) \/ Autosaves(c)
    PROVE  DInv'
<1>1. CASE Playing(c)
  BY <1>1, JoinMarks, PlayingMarks, LeavingMarks DEF Playing
<1>2. CASE Reserves(c)
  BY <1>2, ClaimMarks, ReserveLiveMarks, ReserveMarks, SealMarks, RefuseSealMarks DEF Reserves
<1>3. CASE Delivers(c)
  BY <1>3, PrepareMarks, WriteMarks, AcknowledgeMarks, PublishMarks, FinishMarks, EndDetachedMarks
  DEF Delivers
<1>4. CASE TearsDown(c)
  BY <1>4, DetachMarks, LeavingMarks, RememberMarks DEF TearsDown
<1>5. CASE Autosaves(c)
  BY <1>5, CaptureMarks, WriteCapturedMarks DEF Autosaves
<1> QED BY <1>1, <1>2, <1>3, <1>4, <1>5

LEMMA StutterMarks ==
    ASSUME IInv, DInv, UNCHANGED vars
    PROVE  DInv'
<1>1. /\ journal' = journal /\ uncertain' = uncertain /\ journalFile' = journalFile
      /\ record' = record /\ fence' = fence /\ floor' = floor /\ session' = session
      /\ live' = live /\ task' = task /\ saving' = saving /\ visit' = visit
      /\ reset' = reset /\ startup' = startup
  BY DEF vars
<1>2. Images' = Images /\ IntentsFit'
  BY <1>1 DEF Images, DInv, IntentsFit, At, IntentOf, Running
<1>3. \A c \in Characters :
         /\ MarksFit(c)' /\ Records(c)' = Records(c) /\ Bare(c)' = Bare(c)
         /\ Coming(c)' = Coming(c) /\ IntentsFor(c)' = IntentsFor(c)
         /\ task'[c] = task[c] /\ Sealed(c)' = Sealed(c)
  BY <1>1, OtherCharacter DEF DInv, Character, journalVars
<1>4. ASSUME NEW image \in Images PROVE ImageFits(image)'
  <2>1. ImageFits(image)
    BY DEF DInv
  <2>2. Unrecorded(image)' => Unrecorded(journal)' /\ NothingGranted'
    BY <1>1, <1>3, <2>1 DEF ImageFits, Unrecorded, NothingGranted
  <2>3. \A c \in Characters, p \in Parts : ShareFits(image, c, p)'
    BY <1>3, <2>1 DEF ImageFits, ShareFits, TakenIn, OfferedIn, Prepared
  <2> QED BY <2>1, <2>2, <2>3 DEF ImageFits, OneRun
<1> QED BY <1>2, <1>3, <1>4 DEF DInv

LEMMA NextMarks ==
    ASSUME Steady, IInv, DInv, [Next]_vars
    PROVE  DInv'
<1>1. Orderly
  BY DEF Steady
<1>2. CASE SyncStep
  BY <1>1, <1>2, SyncMarks
<1>3. CASE Reset
  BY <1>1, <1>3, ResetMarks
<1>4. CASE Crash
  BY <1>4, CrashMarks
<1>5. CASE RecoveryStep
  BY <1>5, RestartMarks, RecoverRecordMarks, RecoverAllMarks DEF RecoveryStep
<1>6. ASSUME NEW c \in Characters,
             Playing(c) \/ Reserves(c) \/ Delivers(c) \/ TearsDown(c) \/ Autosaves(c)
      PROVE  DInv'
  BY <1>1, <1>6, OwnActionMarks
<1>7. CASE UNCHANGED vars
  BY <1>7, StutterMarks
<1> QED BY <1>2, <1>3, <1>4, <1>5, <1>6, <1>7 DEF Next

LEMMA InitMarks ==
    ASSUME Init
    PROVE  DInv
<1> DEFINE e == Journal!EmptyImage
           new == Mark(Newborn)
<1>1. /\ Images = {e} /\ journal = e
      /\ e.intents = {} /\ e.taken = {} /\ e.owed = {} /\ e.defeats = {} /\ DOMAIN e.runs = {}
  <2>1. journal = e /\ uncertain = NoImage /\ journalFile = [now |-> e, mayBe |-> {e}]
    BY DEF Init, Journal!Init, Journal!Settled
  <2>2. Images = {e}
    BY <2>1 DEF Images
  <2> QED BY <2>1, <2>2 DEF Journal!EmptyImage
<1>2. /\ record = [c \in Characters |-> [now |-> Newborn, mayBe |-> {Newborn}]]
      /\ floor = [c \in Characters |-> 0] /\ live = [c \in Characters |-> NoLife]
      /\ task = [c \in Characters |-> NoTask] /\ saving = [c \in Characters |-> NoLife]
      /\ visit = [c \in Characters |-> NoLife] /\ reset = FALSE /\ Running
  BY DEF Init, Settled, Running
<1>3. new.epoch = 0 /\ new.grants = NoGrants
  BY DEF Mark, Newborn, NoGrants
<1> HIDE DEF e, new
<1>4. ASSUME NEW c \in Characters
      PROVE  /\ Records(c) = {new} /\ Bare(c) = {new} /\ Coming(c) = {} /\ IntentsFor(c) = {}
             /\ ~Sealed(c) /\ ~At(c, InPack) /\ MarksFit(c)
  <2>1. Records(c) = {new} /\ Held(c) = {}
    BY <1>2 DEF Records, Held, new
  <2>2. IntentsFor(c) = {} /\ ~Sealed(c) /\ ~At(c, InPack)
    BY <1>1, <1>2 DEF IntentsFor, Sealed, At
  <2>3. Bare(c) = {new} /\ Coming(c) = {}
    BY <2>1, <2>2 DEF Bare, Coming
  <2>4. Chained(Bare(c) \cup Coming(c))
    BY <1>3, <2>3 DEF Chained, NoGrants
  <2>5. EpochsFit(c)
    BY <1>2, <1>3, <2>1, <2>2, <2>3 DEF EpochsFit
  <2>6. GrantsFit(c)
    BY <2>2 DEF GrantsFit
  <2> QED BY <2>1, <2>2, <2>3, <2>4, <2>5, <2>6 DEF MarksFit
<1>5. IntentsFit
  BY <1>1, <1>2 DEF IntentsFit
<1>6. ImageFits(e)
  <2>1. OneRun(e) /\ NothingGranted
    BY <1>1, <1>3, <1>4 DEF OneRun, NothingGranted
  <2>2. \A c \in Characters, p \in Parts : ShareFits(e, c, p)
    BY <1>1 DEF ShareFits, TakenIn, OfferedIn
  <2> QED BY <1>1, <2>1, <2>2 DEF ImageFits
<1> QED BY <1>1, <1>4, <1>5, <1>6 DEF DInv

(* Every reachable state has its marks on one chain, and every pair of       *)
(* contents its files may be found with fits.                                *)
THEOREM MarksAreChained == ASSUME Steady PROVE Spec => [](IInv /\ DInv)
<1>1. Orderly
  BY DEF Steady
<1>2. Init => IInv /\ DInv
  BY InitHolds, InitMarks
<1>3. (IInv /\ DInv) /\ [Next]_vars => (IInv /\ DInv)'
  BY <1>1, NextKeeps, NextMarks
<1> QED BY <1>2, <1>3, PTL DEF Spec

(* No interleaving of claims, refusals, teardowns, autosaves and syncs, no   *)
(* write that fails or stays in doubt and no power loss grants a share twice. *)
THEOREM GrantedOnce == ASSUME Steady PROVE Spec => []DeliveredAtMostOnce
<1>1. ASSUME IInv, DInv, NEW c \in Characters, NEW rec \in LivesOf(c), NEW p \in Parts
      PROVE  rec.life.grants[p] <= 1
  <2>1. Mark(rec) \in Bare(c) \cup Coming(c)
    BY <1>1, HeldMarks, MarkTypes DEF LivesOf, Records, Bare
  <2>2. MarksFit(c) /\ Mark(rec) \in Marks
    BY <1>1, <2>1, MarkTypes
  <2>3. Mark(rec).grants[p] <= 1
    BY <2>1, <2>2 DEF MarksFit, Chained, Marks
  <2> QED BY <2>3 DEF Mark
<1>2. IInv /\ DInv => DeliveredAtMostOnce
  BY <1>1 DEF DeliveredAtMostOnce
<1> QED BY <1>2, MarksAreChained, PTL

(* Whatever content of the journal and whatever content of a record a power  *)
(* loss leaves, the record carries what the journal has closed and nothing   *)
(* the journal still offers: no reward is lost and none is offered again.    *)
THEOREM FilesAlwaysAgree == ASSUME Steady PROVE Spec => []FilesAgree
<1>1. ASSUME IInv, DInv, NEW image \in journalFile.mayBe \cup {journal}
      PROVE  TakenIsDelivered(image) /\ OfferedIsUndelivered(image)
  <2>1. image \in Images /\ ImageFits(image) /\ image \in Journal!Image
    BY <1>1, ImageTypes DEF DInv
  <2>2. ASSUME NEW share \in image.taken, NEW rec \in record[share[3]].mayBe
        PROVE  rec.life.grants[share[4]] >= 1
    <3>1. share[3] \in Characters /\ share[4] \in Parts
      BY <2>1, <2>2 DEF Journal!Image, Journal!Share
    <3>2. TakenIn(image, share[3], share[4]) /\ Mark(rec) \in Records(share[3])
      BY <2>2 DEF TakenIn, Records
    <3>3. Mark(rec).grants[share[4]] = 1
      BY <2>1, <3>1, <3>2 DEF ImageFits, ShareFits
    <3> QED BY <3>3 DEF Mark
  <2>3. ASSUME NEW share \in image.owed \ (image.taken \cup Prepared(image)),
               NEW rec \in record[share[3]].mayBe
        PROVE  rec.life.grants[share[4]] = 0
    <3>1. share[3] \in Characters /\ share[4] \in Parts
      BY <2>1, <2>3 DEF Journal!Image, Journal!Share
    <3>2. OfferedIn(image, share[3], share[4]) /\ Mark(rec) \in Bare(share[3])
      BY <2>3 DEF OfferedIn, Records, Bare
    <3>3. Mark(rec).grants[share[4]] = 0
      BY <2>1, <3>1, <3>2 DEF ImageFits, ShareFits
    <3> QED BY <3>3 DEF Mark
  <2> QED BY <2>2, <2>3 DEF TakenIsDelivered, OfferedIsUndelivered, Prepared
<1>2. IInv /\ DInv => FilesAgree
  BY <1>1 DEF FilesAgree
<1> QED BY <1>2, MarksAreChained, PTL

-----------------------------------------------------------------------------
(***************************************************************************)
(* The promise: delivery implements RewardEntitlement.                     *)
(*                                                                         *)
(* What the promise calls owed is all or nothing: every image of the       *)
(* journal that has the run has the whole of its defeat.  So a step either *)
(* records the defeat, lets the run go, or delivers and closes shares; the *)
(* image in doubt is the only one that may differ from memory in this, and *)
(* Follows says how.                                                       *)
(***************************************************************************)
HasRun(image) == \E g \in DOMAIN image.runs : image.runs[g] = Dungeon

(* An image has the run with all that its defeat owes, or owes nothing. *)
Owing(image, c, p) == \E s \in image.owed : s[3] = c /\ s[4] = p
Whole(image) == \A c \in Characters, p \in Parts : Owing(image, c, p) <=> HasRun(image)

(* What the journal may be written with next. *)
Follows(next) ==
    /\ HasRun(next) /\ HasRun(journal) => journal.taken \subseteq next.taken
    /\ reset /\ ~HasRun(journal) => ~HasRun(next)
    /\ ~Running => (HasRun(next) <=> HasRun(journal))

EInv ==
    /\ journal \in journalFile.mayBe /\ journalFile.now \in journalFile.mayBe
    /\ \A image \in Images : Whole(image)
    /\ \A image \in Images : image = uncertain \/ (HasRun(image) <=> HasRun(journal))
    /\ uncertain # NoImage => Follows(uncertain)

Promised == IInv /\ DInv /\ EInv

entitled == <<Owed, Delivered, Closed>>
Keeps == [Entitlement!Next]_entitled

-----------------------------------------------------------------------------
(* What the promise sees, in terms of the images. *)

Recorded == \E image \in journalFile.mayBe : HasRun(image)
Gone(image, s) == \E share \in image.taken : <<share[3], share[4]>> = s

LEMMA OwedIs ==
    ASSUME EInv
    PROVE  /\ Recorded => Owed = Shares
           /\ ~Recorded => Owed = {}
           /\ Closed = {s \in Owed : \A image \in journalFile.mayBe : HasRun(image) => Gone(image, s)}
<1>1. \A image \in journalFile.mayBe, s \in Shares :
         (\E share \in image.owed : <<share[3], share[4]>> = s) <=> HasRun(image)
  BY DEF EInv, Images, Whole, Owing, Shares
<1>2. \A s \in Shares : Recording(s) = {image \in journalFile.mayBe : HasRun(image)}
  BY <1>1 DEF Recording
<1>3. (Recorded => Owed = Shares) /\ (~Recorded => Owed = {})
  BY <1>2 DEF Owed, Recorded
<1>4. Owed \subseteq Shares
  BY DEF Owed
<1>5. Closed = {s \in Owed : \A image \in journalFile.mayBe : HasRun(image) => Gone(image, s)}
  BY <1>2, <1>4 DEF Closed, Gone
<1> QED BY <1>3, <1>5

LEMMA DeliveredIs ==
    \A c \in Characters, p \in Parts :
        <<c, p>> \in Delivered <=> \A m \in Records(c) : m.grants[p] >= 1
<1> SUFFICES ASSUME NEW c \in Characters, NEW p \in Parts
             PROVE  <<c, p>> \in Delivered <=> \A m \in Records(c) : m.grants[p] >= 1
  OBVIOUS
<1>1. <<c, p>> \in Delivered <=> \A rec \in record[c].mayBe : rec.life.grants[p] >= 1
  BY DEF Delivered, Shares
<1>2. \A rec \in record[c].mayBe : Mark(rec).grants = rec.life.grants
  BY DEF Mark
<1> QED BY <1>1, <1>2 DEF Records

LEMMA DeliveredLater ==
    (\A c \in Characters, p \in Parts :
        <<c, p>> \in Delivered <=> \A m \in Records(c) : m.grants[p] >= 1)'
<1>1. \A c \in Characters, p \in Parts :
        <<c, p>> \in Delivered <=> \A m \in Records(c) : m.grants[p] >= 1
  BY DeliveredIs
<1> QED BY <1>1, PTL

LEMMA Promise ==
    ASSUME Promised
    PROVE  /\ Owed \subseteq Shares /\ Closed \subseteq Owed /\ Delivered \subseteq Shares
           /\ Closed \subseteq Delivered
           /\ \A image \in journalFile.mayBe, s \in Shares : Gone(image, s) => s \in Delivered
           /\ \A c \in Characters, p \in Parts :
                 <<c, p>> \in Delivered <=> \A m \in Records(c) : m.grants[p] >= 1
<1>1. Owed \subseteq Shares /\ Closed \subseteq Owed /\ Delivered \subseteq Shares
  BY DEF Owed, Closed, Delivered
<1>2. \A c \in Characters, p \in Parts :
         <<c, p>> \in Delivered <=> \A m \in Records(c) : m.grants[p] >= 1
  BY DeliveredIs
<1>3. ASSUME NEW image \in journalFile.mayBe, NEW c \in Characters, NEW p \in Parts,
             Gone(image, <<c, p>>)
      PROVE  <<c, p>> \in Delivered
  <2>1. image \in Images /\ TakenIn(image, c, p)
    BY <1>3 DEF Images, Gone, TakenIn
  <2>2. \A m \in Records(c) : m.grants[p] = 1
    BY <2>1 DEF Promised, DInv, ImageFits, ShareFits
  <2> QED BY <1>2, <2>2
<1>4. \A image \in journalFile.mayBe, s \in Shares : Gone(image, s) => s \in Delivered
  BY <1>3 DEF Shares
<1>5. Closed \subseteq Delivered
  <2>1. ASSUME NEW s \in Closed PROVE s \in Delivered
    <3>1. Recorded /\ s \in Shares
      BY <1>1, OwedIs DEF Promised
    <3>2. PICK image \in journalFile.mayBe : HasRun(image)
      BY <3>1 DEF Recorded
    <3>3. Gone(image, s)
      BY <3>2, OwedIs DEF Promised
    <3> QED BY <1>4, <3>1, <3>2, <3>3
  <2> QED BY <2>1
<1> QED BY <1>1, <1>2, <1>4, <1>5

LEMMA PromiseLater ==
    (Promised => Closed \subseteq Delivered)'
<1>1. Promised => Closed \subseteq Delivered
  BY Promise
<1> QED BY <1>1, PTL

LEMMA OwedLater ==
    (EInv => /\ Recorded => Owed = Shares
             /\ ~Recorded => Owed = {}
             /\ Closed = {s \in Owed : \A image \in journalFile.mayBe : HasRun(image) => Gone(image, s)})'
<1>1. EInv => /\ Recorded => Owed = Shares
              /\ ~Recorded => Owed = {}
              /\ Closed = {s \in Owed : \A image \in journalFile.mayBe : HasRun(image) => Gone(image, s)}
  BY OwedIs
<1> QED BY <1>1, PTL

(* A step of the promise, by what it changes. *)
LEMMA Settles ==
    ASSUME Promised, Promised', Owed' = Owed, Delivered \subseteq Delivered',
           Delivered' \subseteq Delivered \cup Owed,
           Closed \subseteq Closed', Closed' \subseteq Delivered
    PROVE  Keeps
<1> DEFINE paid == Delivered' \ Delivered
           done == Closed' \ Closed
<1>1. paid \in SUBSET Shares /\ done \in SUBSET Shares
  BY Promise
<1>2. Closed' \subseteq Owed
  BY DEF Closed
<1>3. Entitlement!Settle(paid, done)
  BY <1>2, Promise DEF Entitlement!Settle
<1> QED BY <1>1, <1>3 DEF Keeps, Entitlement!Next

LEMMA Owes ==
    ASSUME Owed = {}, Owed' = Shares, Delivered = {}, Delivered' = {}, Closed = {}, Closed' = {}
    PROVE  Keeps
<1>1. Entitlement!Owe(Shares)
  BY DEF Entitlement!Owe
<1> QED BY <1>1 DEF Keeps, Entitlement!Next

LEMMA Forgets ==
    ASSUME Owed = Shares, Owed' = {}, Delivered' = Delivered, Closed \subseteq Shares, Closed' = {}
    PROVE  Keeps
<1>1. Entitlement!Forget(Shares)
  BY DEF Entitlement!Forget
<1> QED BY <1>1 DEF Keeps, Entitlement!Next

LEMMA Stutters ==
    ASSUME UNCHANGED <<record, journalFile>>
    PROVE  Keeps
<1>1. /\ \A s : Recording(s)' = Recording(s)
      /\ Delivered' = Delivered
  BY DEF Recording, Delivered
<1>2. Owed' = Owed /\ Closed' = Closed
  BY <1>1 DEF Owed, Closed
<1> QED BY <1>1, <1>2 DEF Keeps, entitled

-----------------------------------------------------------------------------
(* A step that writes the journal. *)

(* Of the contents the file may have then, what is new is the image written. *)
LEMMA FileWritten ==
    ASSUME IInv, EInv, NEW next \in Journal!Image, NEW acknowledged, NEW outcome \in Outcomes,
           Journal!Commit(next, acknowledged, outcome)
    PROVE  /\ uncertain \in {NoImage, next} /\ NoImage \notin Images /\ next # NoImage
           /\ journalFile'.mayBe \subseteq journalFile.mayBe \cup {next}
           /\ journalFile'.now \in journalFile'.mayBe
           /\ outcome = "done" => /\ journalFile'.mayBe = {next} /\ Images' = {next}
                                  /\ journal' = next /\ uncertain' = NoImage
           /\ outcome # "done" => /\ journalFile.mayBe \subseteq journalFile'.mayBe
                                  /\ Images' \subseteq Images \cup {next}
                                  /\ journal' = journal /\ uncertain' = next
           /\ outcome = "failed" => journalFile' = journalFile
           /\ outcome # "failed" => next \in journalFile'.mayBe
<1>1. outcome \in {"done", "unsynced", "failed"}
  BY RewardCoordinatorAssumption DEF WriteOutcomes
<1>2. /\ journalFile' = Journal!Written(journalFile, next, outcome)
      /\ outcome = "done" => journal' = next /\ uncertain' = NoImage
      /\ outcome # "done" => journal' = journal /\ uncertain' = next
      /\ uncertain \in {NoImage, next}
  BY DEF Journal!Commit, Journal!Committable
<1>3. Images \subseteq Journal!Image /\ NoImage \notin Journal!Image
  BY ImageTypes, RewardCoordinatorAssumption
<1>4. CASE outcome = "done"
  BY <1>2, <1>3, <1>4, CommittedImages DEF Journal!Written, Journal!Settled, EInv
<1>5. CASE outcome = "unsynced"
  BY <1>2, <1>3, <1>5, CommittedImages DEF Journal!Written, EInv
<1>6. CASE outcome = "failed"
  BY <1>2, <1>3, <1>6, CommittedImages DEF Journal!Written, EInv
<1> QED BY <1>1, <1>4, <1>5, <1>6

LEMMA CommitEntitled ==
    ASSUME IInv, EInv, NEW next \in Journal!Image, NEW acknowledged, NEW outcome \in Outcomes,
           Journal!Commit(next, acknowledged, outcome), Whole(next), Follows(next),
           reset' = reset, ~Running' => ~Running
    PROVE  EInv'
<1>1. CASE outcome = "done"
  <2>1. journalFile'.mayBe = {next} /\ Images' = {next} /\ journal' = next /\ uncertain' = NoImage
        /\ journalFile'.now \in journalFile'.mayBe
    BY <1>1, FileWritten
  <2>2. Whole(next)'
    BY DEF Whole, Owing, HasRun
  <2> QED BY <2>1, <2>2 DEF EInv, HasRun
<1>2. CASE outcome # "done"
  <2>1. /\ journalFile.mayBe \subseteq journalFile'.mayBe /\ Images' \subseteq Images \cup {next}
        /\ journal' = journal /\ uncertain' = next /\ journalFile'.now \in journalFile'.mayBe
        /\ uncertain \in {NoImage, next} /\ NoImage \notin Images
    BY <1>2, FileWritten
  <2>2. \A image \in Images' : Whole(image)'
    BY <2>1 DEF EInv, Whole, Owing, HasRun
  <2>3. \A image \in Images' : image = next \/ (HasRun(image)' <=> HasRun(journal)')
    BY <2>1 DEF EInv, HasRun
  <2>4. Follows(next)'
    BY <2>1 DEF Follows, HasRun
  <2> QED BY <2>1, <2>2, <2>3, <2>4 DEF EInv
<1> QED BY <1>1, <1>2

LEMMA CommitKeeps ==
    ASSUME Promised, Promised', NEW next \in Journal!Image, NEW acknowledged,
           NEW outcome \in Outcomes, Journal!Commit(next, acknowledged, outcome), Whole(next),
           Follows(next), record' = record
    PROVE  Keeps
<1>1. CASE outcome = "failed"
  BY <1>1, FileWritten, Stutters DEF Promised
<1>2. CASE outcome # "failed"
  <2>1. /\ journalFile'.mayBe \subseteq journalFile.mayBe \cup {next} /\ next \in journalFile'.mayBe
        /\ uncertain \in {NoImage, next} /\ NoImage \notin Images
    BY <1>2, FileWritten DEF Promised
  <2>2. Delivered' = Delivered
    BY DEF Delivered
  <2>3. \A image \in journalFile.mayBe : image \in Images
    BY DEF Images
  <2>4. CASE Recorded /\ Recorded'
    <3>1. Owed' = Owed
      BY <2>4, OwedIs, OwedLater DEF Promised
    <3>2. ASSUME NEW s \in Closed, NEW image \in journalFile'.mayBe, HasRun(image)
          PROVE  Gone(image, s)
      <4>1. \A k \in journalFile.mayBe : HasRun(k) => Gone(k, s)
        BY OwedIs DEF Promised
      <4>2. CASE image \in journalFile.mayBe
        BY <3>2, <4>1, <4>2
      <4>3. CASE image = next /\ HasRun(journal)
        <5>1. Gone(journal, s) /\ journal.taken \subseteq next.taken
          BY <3>2, <4>1, <4>3 DEF Promised, EInv, Follows
        <5> QED BY <4>3, <5>1 DEF Gone
      <4>4. CASE image = next /\ ~HasRun(journal)
        <5>1. PICK k \in journalFile.mayBe : HasRun(k)
          BY <2>4 DEF Recorded
        <5>2. k = uncertain /\ k # NoImage
          BY <2>1, <2>3, <4>4, <5>1 DEF Promised, EInv
        <5> QED BY <2>1, <4>1, <4>4, <5>1, <5>2
      <4> QED BY <2>1, <3>2, <4>2, <4>3, <4>4
    <3>3. Closed \subseteq Closed'
      BY <3>1, <3>2, OwedLater, Promise DEF Promised, HasRun, Gone
    <3>4. Closed' \subseteq Delivered
      BY <2>2, PromiseLater
    <3> QED BY <2>2, <3>1, <3>3, <3>4, Settles
  <2>5. CASE ~Recorded /\ Recorded'
    <3>1. Owed = {} /\ Owed' = Shares /\ Closed = {}
      BY <2>5, OwedIs, OwedLater DEF Promised
    <3>2. HasRun(next) /\ ~HasRun(journal)
      BY <2>1, <2>5 DEF Recorded, HasRun, Promised, EInv
    <3>3. NothingGranted
      <4>1. ImageFits(journal) /\ Unrecorded(journal)
        BY <3>2, ImageTypes DEF Promised, DInv, EInv, Follows, Unrecorded, HasRun
      <4> QED BY <4>1 DEF ImageFits
    <3>4. Delivered = {}
      <4>1. ASSUME NEW c \in Characters, NEW p \in Parts PROVE <<c, p>> \notin Delivered
        <5>1. PICK m \in Records(c) : m \in Bare(c)
          BY HeldMarks DEF Promised
        <5>2. m.grants[p] = 0
          BY <3>3, <5>1 DEF NothingGranted, NoGrants
        <5> QED BY <5>1, <5>2, Promise
      <4> QED BY <4>1, Promise DEF Shares
    <3>5. Closed' = {}
      BY <2>2, <3>4, PromiseLater
    <3> QED BY <2>2, <3>1, <3>4, <3>5, Owes
  <2>6. CASE Recorded /\ ~Recorded'
    BY <2>2, <2>6, OwedIs, OwedLater, Forgets DEF Promised
  <2>7. CASE ~Recorded /\ ~Recorded'
    BY <2>2, <2>7, OwedIs, OwedLater DEF Promised, Keeps, entitled
  <2> QED BY <2>4, <2>5, <2>6, <2>7
<1> QED BY <1>1, <1>2

-----------------------------------------------------------------------------
(* What is written into the journal is whole, and follows what is there. *)

LEMMA SameRuns ==
    ASSUME IInv, EInv, NEW next, next.runs = journal.runs, next.owed = journal.owed,
           journal.taken \subseteq next.taken
    PROVE  Whole(next) /\ Follows(next)
<1>1. Whole(journal)
  BY ImageTypes DEF EInv
<1> QED BY <1>1 DEF Whole, Owing, Follows, HasRun

LEMMA AllocationFollows ==
    ASSUME IInv, EInv, Running, NEW g \in Journal!Generations, g = journal.next, NEW id \in RunIds,
           \A h \in DOMAIN journal.runs : journal.runs[h] # id,
           id = Dungeon => ~reset,
           NEW defeats, defeats = (IF id = Dungeon THEN {Boss} ELSE {}),
           NEW rows, rows = defeats \X Characters \X Parts
    PROVE  LET next == Journal!WithRun(journal, g, id, Characters, defeats, rows)
           IN  Whole(next) /\ Follows(next)
<1> DEFINE next == Journal!WithRun(journal, g, id, Characters, defeats, rows)
           added == {<<g, r[1], r[2], r[3]>> : r \in rows}
<1>1. journal \in Journal!Image /\ Journal!Valid(journal) /\ Whole(journal)
  BY ImageTypes DEF EInv
<1>2. /\ next.runs = [h \in DOMAIN journal.runs \cup {g} |-> IF h = g THEN id ELSE journal.runs[h]]
      /\ next.owed = journal.owed \cup added /\ next.taken = journal.taken
  BY <1>1 DEF Journal!WithRun, Journal!Image
<1>3. g \notin DOMAIN journal.runs
  BY <1>1, Bounds DEF Journal!Valid, Journal!Generations
<1> HIDE DEF next
<1>4. HasRun(next) <=> HasRun(journal) \/ id = Dungeon
  BY <1>2, <1>3 DEF HasRun
<1>5. Whole(next)
  <2>1. CASE id = Dungeon
    <3>1. ASSUME NEW c \in Characters, NEW p \in Parts PROVE Owing(next, c, p)
      <4>1. <<Boss, c, p>> \in rows
        BY <2>1
      <4>2. <<g, Boss, c, p>> \in added
        BY <4>1
      <4>3. <<g, Boss, c, p>> \in next.owed /\ <<g, Boss, c, p>>[3] = c /\ <<g, Boss, c, p>>[4] = p
        BY <1>2, <4>2
      <4> QED BY <4>3 DEF Owing
    <3> QED BY <1>4, <2>1, <3>1 DEF Whole
  <2>2. CASE id # Dungeon
    <3>1. added = {}
      BY <2>2
    <3> QED BY <1>1, <1>2, <1>4, <2>2, <3>1 DEF Whole, Owing
  <2> QED BY <2>1, <2>2
<1>6. Follows(next)
  BY <1>2, <1>4 DEF Follows
<1> QED BY <1>5, <1>6 DEF next

LEMMA CollectionFollows ==
    ASSUME IInv, DInv, EInv, Running, NEW kept \in SUBSET DOMAIN journal.runs
    PROVE  Whole(Journal!Collected(journal, kept)) /\ Follows(Journal!Collected(journal, kept))
<1> DEFINE next == Journal!Collected(journal, kept)
<1>1. /\ journal \in Journal!Image /\ Journal!Valid(journal) /\ Whole(journal) /\ OneRun(journal)
  BY ImageTypes DEF EInv, DInv, ImageFits
<1>2. /\ next.runs = [g \in kept |-> journal.runs[g]]
      /\ next.owed = {s \in journal.owed : s[1] \in kept}
      /\ next.taken = {s \in journal.taken : s[1] \in kept}
  BY <1>1 DEF Journal!Collected, Journal!Image
<1> HIDE DEF next
<1>3. \A s \in journal.owed : s[1] \in DOMAIN journal.runs /\ journal.runs[s[1]] = Dungeon
  <2> SUFFICES ASSUME NEW s \in journal.owed
               PROVE  s[1] \in DOMAIN journal.runs /\ journal.runs[s[1]] = Dungeon
    OBVIOUS
  <2>1. <<s[1], s[2]>> \in journal.defeats
    BY <1>1 DEF Journal!Valid
  <2>2. <<s[1], s[2]>>[1] = s[1]
    OBVIOUS
  <2>3. /\ \A d \in journal.defeats : d[1] \in DOMAIN journal.runs
        /\ \A d \in journal.defeats : journal.runs[d[1]] = Dungeon
    BY <1>1 DEF Journal!Valid, OneRun
  <2> QED BY <2>1, <2>2, <2>3
<1>4. HasRun(next) => HasRun(journal) /\ \A s \in journal.owed : s[1] \in kept
  <2>1. ASSUME NEW g \in kept, journal.runs[g] = Dungeon, NEW s \in journal.owed
        PROVE  s[1] \in kept
    BY <1>1, <1>3, <2>1 DEF OneRun
  <2>2. HasRun(next) => \E g \in kept : g \in DOMAIN journal.runs /\ journal.runs[g] = Dungeon
    BY <1>2 DEF HasRun
  <2> QED BY <2>1, <2>2 DEF HasRun
<1>5. (\E s \in journal.owed : s[1] \in kept) => HasRun(next)
  BY <1>2, <1>3 DEF HasRun
<1>6. Whole(next)
  BY <1>1, <1>2, <1>4, <1>5 DEF Whole, Owing
<1>7. Follows(next)
  <2>1. journal.taken \subseteq journal.owed
    BY <1>1 DEF Journal!Valid
  <2> QED BY <1>2, <1>4, <2>1 DEF Follows
<1> QED BY <1>6, <1>7 DEF next

(* The sync's writes. *)
LEMMA SyncEntitled ==
    ASSUME Orderly, IInv, DInv, EInv, SyncStep
    PROVE  /\ EInv' /\ record' = record
           /\ \E next \in Journal!Image, outcome \in Outcomes :
                 Journal!Commit(next, {}, outcome) /\ Whole(next) /\ Follows(next)
<1>1. PICK outcome \in Outcomes : \/ \E id \in RunIds : SyncAllocate(id, outcome)
                                  \/ SyncCollect(outcome) \/ SyncRetry(outcome)
  BY DEF SyncStep
<1>2. journal \in Journal!Image
  BY DEF IInv, TypeOK, Journal!TypeOK
<1>3. Running /\ Running' /\ record' = record /\ reset' = reset
  BY <1>1 DEF SyncAllocate, SyncCollect, SyncRetry, Running, fenceVars
<1>4. \E next \in Journal!Image :
         Journal!Commit(next, {}, outcome) /\ Whole(next) /\ Follows(next)
  <2>1. ASSUME NEW id \in RunIds, SyncAllocate(id, outcome)
        PROVE  \E next \in Journal!Image :
                  Journal!Commit(next, {}, outcome) /\ Whole(next) /\ Follows(next)
    <3> DEFINE bosses == IF id = Dungeon THEN {Boss} ELSE {}
               rows == bosses \X Characters \X Parts
               next == Journal!WithRun(journal, journal.next, id, Characters, bosses, rows)
    <3>1. journal.next \in Journal!Generations /\ Journal!Commit(next, {}, outcome)
      BY <2>1 DEF SyncAllocate, Journal!AllocateRun
    <3>2. /\ bosses \in SUBSET {Boss} /\ rows \in SUBSET (bosses \X Characters \X Parts)
          /\ Characters \in SUBSET Characters
      OBVIOUS
    <3>3. bosses = (IF id = Dungeon THEN {Boss} ELSE {}) /\ rows = bosses \X Characters \X Parts
      OBVIOUS
    <3> HIDE DEF bosses, rows
    <3>4. next \in Journal!Image
      BY <1>2, <3>1, <3>2, RunAdded
    <3>5. Whole(next) /\ Follows(next)
      BY <1>3, <2>1, <3>1, <3>3, AllocationFollows DEF SyncAllocate
    <3> HIDE DEF next
    <3> QED BY <3>1, <3>4, <3>5
  <2>2. CASE SyncCollect(outcome)
    <3> DEFINE kept == Journal!KeptAt(journal, 1, {})
               next == Journal!Collected(journal, kept)
    <3>1. Journal!Commit(next, {}, outcome) /\ kept \in SUBSET DOMAIN journal.runs
      BY <2>2 DEF SyncCollect, Journal!ExpireRuns, Journal!KeptAt
    <3> HIDE DEF kept
    <3>2. next \in Journal!Image /\ Whole(next) /\ Follows(next)
      BY <1>2, <1>3, <3>1, RunsCollected, CollectionFollows
    <3> HIDE DEF next
    <3> QED BY <3>1, <3>2
  <2>3. CASE SyncRetry(outcome)
    <3>1. /\ uncertain # NoImage /\ uncertain \in Journal!Image
      BY <2>3, RewardCoordinatorAssumption DEF SyncRetry, IInv, TypeOK, Journal!TypeOK
    <3>2. Whole(uncertain) /\ Follows(uncertain)
      BY <3>1, ImageTypes DEF EInv
    <3> QED BY <2>3, <3>1, <3>2 DEF SyncRetry
  <2> QED BY <1>1, <2>1, <2>2, <2>3
<1> QED BY <1>3, <1>4, CommitEntitled

(* A claim's writes. *)
LEMMA PrepareEntitled ==
    ASSUME IInv, EInv, NEW c \in Characters, NEW outcome \in Outcomes, PrepareClaim(c, outcome)
    PROVE  /\ EInv' /\ record' = record
           /\ \E next \in Journal!Image :
                 Journal!Commit(next, {}, outcome) /\ Whole(next) /\ Follows(next)
<1> DEFINE next == Journal!WithIntent(journal, IntentOf(c))
<1>1. /\ At(c, {"sealed"}) /\ Journal!Commit(next, {}, outcome)
      /\ record' = record /\ reset' = reset /\ startup' = startup
  BY DEF PrepareClaim, Journal!PrepareClaim, fenceVars
<1>2. next \in Journal!Image
  BY <1>1, IntentOfClaim, IntentAdded DEF At, IInv, TypeOK, Journal!TypeOK
<1>3. next.runs = journal.runs /\ next.owed = journal.owed /\ next.taken = journal.taken
  BY DEF IInv, TypeOK, Journal!TypeOK, Journal!Image, Journal!WithIntent
<1> HIDE DEF next
<1>4. Whole(next) /\ Follows(next)
  BY <1>3, SameRuns
<1> QED BY <1>1, <1>2, <1>4, CommitEntitled DEF Running

LEMMA AcknowledgeEntitled ==
    ASSUME IInv, EInv, NEW c \in Characters, NEW outcome \in Outcomes, AcknowledgeClaim(c, outcome)
    PROVE  /\ EInv' /\ record' = record
           /\ \E next \in Journal!Image, acknowledged \in {{IntentOf(c)}} :
                 Journal!Commit(next, acknowledged, outcome) /\ Whole(next) /\ Follows(next)
<1> DEFINE intent == IntentOf(c)
           next == Journal!Acknowledged(journal, {intent})
<1>1. /\ intent \in journal.intents /\ Journal!Commit(next, {intent}, outcome)
      /\ record' = record /\ reset' = reset /\ startup' = startup
  BY DEF AcknowledgeClaim, Journal!AcknowledgeClaim, fenceVars
<1>2. next \in Journal!Image /\ next.taken = journal.taken \cup UNION {Journal!SharesOf(i) : i \in {intent}}
      /\ next.owed = journal.owed
  BY <1>1, IntentsAcknowledged DEF IInv, TypeOK, Journal!TypeOK
<1>3. next.runs = journal.runs
  BY DEF IInv, TypeOK, Journal!TypeOK, Journal!Image, Journal!Acknowledged
<1> HIDE DEF next, intent
<1>4. Whole(next) /\ Follows(next)
  BY <1>2, <1>3, SameRuns
<1>5. EInv'
  BY <1>1, <1>2, <1>4, CommitEntitled DEF Running
<1> QED BY <1>1, <1>2, <1>4, <1>5 DEF intent

(* The last write of the recovery, or none when there is nothing to write.   *)
LEMMA RecoverAllEntitled ==
    ASSUME IInv, EInv, NEW outcome \in Outcomes, RecoverAll(outcome)
    PROVE  /\ EInv' /\ record' = record
           /\ \/ journalFile' = journalFile
              \/ \E next \in Journal!Image, acknowledged \in {journal.intents} :
                    Journal!Commit(next, acknowledged, outcome) /\ Whole(next) /\ Follows(next)
<1>1. startup.phase = "recovering" /\ ~Running /\ record' = record /\ reset' = reset
  BY DEF RecoverAll, fenceVars, Running
<1>2. CASE journal.intents = {}
  <2>1. UNCHANGED <<journal, uncertain, journalFile>> /\ uncertain = NoImage
    BY <1>1, <1>2 DEF RecoverAll, journalVars, IInv, JournalFits
  <2>2. Images' = Images
    BY <2>1 DEF Images
  <2> QED BY <1>1, <2>1, <2>2 DEF EInv, Whole, Owing, HasRun
<1>3. CASE journal.intents # {}
  <2> DEFINE next == Journal!Acknowledged(journal, journal.intents)
  <2>1. Journal!Commit(next, journal.intents, outcome)
    BY <1>3 DEF RecoverAll, Journal!AcknowledgeAll
  <2>2. journal \in Journal!Image /\ journal.intents \in SUBSET journal.intents
    BY ImageTypes
  <2>3. /\ next \in Journal!Image /\ next.owed = journal.owed
        /\ next.taken = journal.taken \cup UNION {Journal!SharesOf(i) : i \in journal.intents}
    BY <2>2, IntentsAcknowledged
  <2>4. next.runs = journal.runs
    BY <2>2 DEF Journal!Acknowledged, Journal!Image
  <2> HIDE DEF next
  <2>5. Whole(next) /\ Follows(next)
    BY <2>3, <2>4, SameRuns
  <2>6. EInv'
    BY <1>1, <2>1, <2>3, <2>5, CommitEntitled
  <2> QED BY <1>1, <2>1, <2>3, <2>5, <2>6
<1> QED BY <1>2, <1>3

-----------------------------------------------------------------------------
(* Steps that write no image of the journal. *)

LEMMA QuietEntitled ==
    ASSUME EInv, UNCHANGED journalVars, reset' = reset, Running' <=> Running
    PROVE  EInv'
<1>1. journal' = journal /\ uncertain' = uncertain /\ journalFile' = journalFile
  BY DEF journalVars
<1>2. Images' = Images
  BY <1>1 DEF Images
<1>3. \A image \in Images : Whole(image)' /\ (HasRun(image)' <=> HasRun(image))
  BY DEF EInv, Whole, Owing, HasRun
<1>4. uncertain # NoImage => Follows(uncertain)'
  BY <1>1 DEF EInv, Follows, HasRun
<1>5. \A image \in Images : image = uncertain \/ (HasRun(image)' <=> HasRun(journal)')
  BY <1>1 DEF EInv, HasRun
<1> QED BY <1>1, <1>2, <1>3, <1>4, <1>5 DEF EInv

LEMMA ResetEntitled ==
    ASSUME EInv, Reset
    PROVE  EInv'
<1>1. /\ UNCHANGED <<journal, uncertain, journalFile, startup>> /\ HasRun(journal)
  BY DEF Reset, journalVars, HasRun
<1>2. Images' = Images
  BY <1>1 DEF Images
<1> QED BY <1>1, <1>2 DEF EInv, Whole, Owing, Follows, HasRun, Running

LEMMA CrashEntitled ==
    ASSUME Steady, IInv, EInv, Crash
    PROVE  EInv' /\ \E found \in journalFile.mayBe : journalFile'.mayBe = {found}
<1>1. PICK file \in FilesAfter("power", journalFile) : Journal!Reopen(file)
  BY DEF Crash, Steady
<1>2. PICK found \in journalFile.mayBe : file = [now |-> found, mayBe |-> {found}]
  BY <1>1 DEF FilesAfter, AfterPowerLoss, Settled
<1>3. /\ journal' = found /\ uncertain' = NoImage
      /\ journalFile'.now = found /\ journalFile'.mayBe = {found}
  BY <1>1, <1>2 DEF Journal!Reopen
<1>4. found \in Images /\ Images' = {found}
  BY <1>3 DEF Images
<1>5. Whole(found)'
  BY <1>4 DEF EInv, Whole, Owing, HasRun
<1> QED BY <1>3, <1>4, <1>5 DEF EInv, HasRun

LEMMA RestartEntitled ==
    ASSUME IInv, EInv, Restart
    PROVE  EInv'
<1>1. /\ journal' = journalFile.now /\ uncertain' = NoImage /\ journalFile' = journalFile
      /\ ~Running
  BY DEF Restart, Running, Journal!Reopen
<1>2. Images' \subseteq Images /\ NoImage \notin Images /\ journalFile.now \in Images
  BY <1>1, ImageTypes, RewardCoordinatorAssumption DEF Images
<1>3. \A image \in Images : HasRun(image) <=> HasRun(journal)
  BY <1>1, <1>2 DEF EInv, Follows
<1>4. \A image \in Images' : Whole(image)' /\ (HasRun(image)' <=> HasRun(journal)')
  BY <1>1, <1>2, <1>3 DEF EInv, Whole, Owing, HasRun
<1> QED BY <1>1, <1>4 DEF EInv

-----------------------------------------------------------------------------
(* A step that writes a record. *)

(* While some image may be found without the run nothing is on its way to a  *)
(* record: all that it may be found with was granted the same.               *)
LEMMA NothingPending ==
    ASSUME IInv, DInv, NEW k \in Images, ~HasRun(k)
    PROVE  journal.intents = {}
<1>1. Journal!Valid(k) /\ OneRun(k) /\ Journal!Valid(journal)
  BY ImageTypes DEF DInv, ImageFits
<1>2. k.defeats = {}
  BY <1>1 DEF Journal!Valid, OneRun, HasRun
<1>3. k.taken = {} /\ k.intents = {}
  BY <1>1, <1>2 DEF Journal!Valid, Journal!ValidIntent
<1>4. ASSUME NEW i \in journal.intents PROVE FALSE
  <2>1. Journal!SharesOf(i) = {}
    BY <1>3 DEF DInv, IntentsFit
  <2>2. i.parts # {}
    BY <1>1 DEF Journal!Valid, Journal!ValidIntent
  <2>3. PICK p \in i.parts : TRUE
    BY <2>2
  <2>4. <<i.gen, i.boss, i.owner, p>> \in Journal!SharesOf(i)
    BY <2>3 DEF Journal!SharesOf
  <2> QED BY <2>1, <2>4
<1> QED BY <1>4

LEMMA Uniform ==
    ASSUME IInv, DInv, NEW k \in Images, ~HasRun(k), NEW c \in Characters
    PROVE  \A m, n \in Records(c) : m = n
<1>1. journal.intents = {}
  BY NothingPending
<1>2. ~At(c, {"prepared"})
  BY <1>1 DEF IInv, ClaimFits, At
<1>3. MarksFit(c) /\ Records(c) \subseteq Bare(c) /\ Bare(c) \subseteq Marks /\ floor[c] \in Nat
  BY MarkTypes, CharacterTypes
<1>4. \A m \in Records(c) : m.epoch <= floor[c] /\ m.epoch >= floor[c] /\ m.epoch \in Nat
  BY <1>1, <1>2, <1>3 DEF MarksFit, EpochsFit, Marks
<1>5. \A m, n \in Records(c) : m.epoch = n.epoch
  BY <1>3, <1>4
<1> QED BY <1>3, <1>5, SameGrants

LEMMA RecordStep ==
    ASSUME Promised, Promised', UNCHANGED journalFile, NEW c \in Characters,
           NEW rec \in Fence!Record, NEW outcome \in Outcomes,
           record'[c] = Written(record[c], rec, outcome),
           \A d \in Characters \ {c} : record'[d] = record[d],
           Mark(rec) \in Bare(c) \cup Coming(c), rec.epoch >= record[c].now.epoch,
           Recorded \/ rec.epoch = record[c].now.epoch
    PROVE  Keeps
<1> DEFINE old == Mark(record[c].now)
           new == Mark(rec)
<1>1. Owed' = Owed /\ Closed' = Closed
  <2>1. \A s : Recording(s)' = Recording(s)
    BY DEF Recording
  <2> QED BY <2>1 DEF Owed, Closed
<1>2. /\ MarksFit(c) /\ Records(c) \subseteq Bare(c) /\ old \in Records(c)
      /\ Bare(c) \subseteq Marks /\ new \in Marks
  BY MarkTypes, HeldMarks DEF Promised
<1>3. record[c].now \in record[c].mayBe /\ record[c].now \in Fence!Record
  BY <1>2, CharacterTypes DEF MarksFit, EpochsFit, Promised
<1>4. old.epoch = record[c].now.epoch /\ new.epoch = rec.epoch
  BY DEF Mark
<1>5. /\ record'[c].now \in record'[c].mayBe
      /\ Records(c)' \subseteq Records(c) \cup {new}
  BY <1>3, WrittenMarks DEF Promised
<1>6. \A d \in Characters \ {c} : Records(d)' = Records(d)
  BY DEF Records
<1>7. \A p \in Parts : old.grants[p] <= new.grants[p]
  BY <1>2, <1>4, RecordFields, <1>3 DEF MarksFit, Chained, Marks
<1>8. Records(c)' # {}
  BY <1>5 DEF Records
<1> HIDE DEF old, new
<1>9. Delivered \subseteq Delivered'
  <2>1. ASSUME NEW d \in Characters, NEW p \in Parts, <<d, p>> \in Delivered
        PROVE  <<d, p>> \in Delivered'
    <3>1. \A m \in Records(d) : m.grants[p] >= 1
      BY <2>1, DeliveredIs
    <3>2. d = c => new.grants[p] >= 1
      BY <1>2, <1>7, <3>1 DEF Marks
    <3>3. \A m \in Records(d)' : m.grants[p] >= 1
      BY <1>5, <1>6, <3>1, <3>2
    <3> QED BY <3>3, DeliveredLater
  <2> QED BY <2>1, Promise DEF Shares
<1>10. Delivered' \subseteq Shares
  BY DEF Delivered
<1>11. CASE Recorded
  <2>1. Owed = Shares /\ Closed \subseteq Delivered
    BY <1>11, OwedIs, Promise DEF Promised
  <2> QED BY <1>1, <1>9, <1>10, <2>1, Settles
<1>12. CASE ~Recorded
  <2>1. \A m, n \in Records(c) : m = n
    <3>1. ~HasRun(journal) /\ journal \in Images
      BY <1>12, ImageTypes DEF Promised, EInv, Recorded
    <3> QED BY <3>1, Uniform DEF Promised
  <2>2. new = old
    BY <1>2, <1>4, <1>12, SameGrants DEF Promised, old, new
  <2>3. Records(c)' = Records(c)
    BY <1>2, <1>5, <1>8, <2>1, <2>2
  <2>4. ASSUME NEW d \in Characters, NEW p \in Parts, <<d, p>> \in Delivered'
        PROVE  <<d, p>> \in Delivered
    <3>1. Records(d)' = Records(d)
      BY <1>6, <2>3
    <3> QED BY <2>4, <3>1, DeliveredIs, DeliveredLater
  <2>5. Delivered' = Delivered
    <3>1. Delivered' \subseteq Delivered
      BY <1>10, <2>4 DEF Shares
    <3> QED BY <1>9, <3>1
  <2> QED BY <1>1, <2>5 DEF Keeps, entitled
<1> QED BY <1>11, <1>12

(* The write of a prepared reward: its intent is in the journal. *)
LEMMA WriteKeepsPromise ==
    ASSUME Promised, Promised', NEW c \in Characters, NEW outcome \in Outcomes,
           WritePrepared(c, outcome)
    PROVE  Keeps
<1> DEFINE image == task[c].image
<1>1. /\ At(c, {"prepared"}) /\ image \in Fence!Record /\ image.epoch = floor[c] + 1
      /\ fence[c].postimage = image /\ IntentOf(c) \in journal.intents /\ Sealed(c)
      /\ floor[c] \in Nat
  BY CharacterTypes, IntentOfClaim, TaskFields
  DEF WritePrepared, Promised, IInv, CharacterFits, BarrierFits, ClaimFits, At, Unwritten, Landed, Sealed
<1>2. /\ record'[c] = Written(record[c], image, outcome) /\ UNCHANGED journalFile
      /\ \A d \in Characters \ {c} : record'[d] = record[d]
  <2>1. Fence!Written(record[c], image, outcome) = Written(record[c], image, outcome)
    BY <1>1, CharacterTypes, RecordWritten DEF Promised
  <2> QED BY <1>1, <2>1
      DEF WritePrepared, Fence!WritePreparedReward, Promised, IInv, TypeOK, Fence!TypeOK, journalVars
<1>3. Mark(image) \in Coming(c) /\ MarksFit(c) /\ Mark(record[c].now) \in Bare(c)
  BY <1>1, MarkTypes, HeldMarks DEF Promised
<1>4. image.epoch >= record[c].now.epoch
  <2>1. record[c].now.epoch <= floor[c] \/ record[c].now.epoch = image.epoch
    BY <1>3 DEF MarksFit, EpochsFit, Mark
  <2>2. record[c].now.epoch \in Nat
    BY CharacterTypes, RecordFields DEF Promised
  <2> QED BY <1>1, <2>1, <2>2
<1>5. Recorded
  <2>1. HasRun(journal)
    BY <1>1, ImageTypes, NothingPending DEF Promised
  <2> QED BY <2>1 DEF Promised, EInv, Recorded
<1> HIDE DEF image
<1> QED BY <1>1, <1>2, <1>3, <1>4, <1>5, RecordStep

(* A save of what a life was, or its refusal. *)
LEMMA SaveKeepsPromise ==
    ASSUME Promised, Promised', UNCHANGED journalFile, NEW c \in Characters,
           NEW rec \in Fence!Record, NEW outcome \in Outcomes, Mark(rec) \in Bare(c),
           UNCHANGED fenceVars \/ SaveOrRefuse(c, rec, outcome)
    PROVE  Keeps
<1>1. CASE UNCHANGED fenceVars
  BY <1>1, Stutters DEF fenceVars
<1>2. CASE fence[c] = NoToken /\ rec.epoch = floor[c] /\ Fence!Save(c, rec, outcome)
  <2>1. /\ record'[c] = Written(record[c], rec, outcome)
        /\ \A d \in Characters \ {c} : record'[d] = record[d]
    <3>1. Fence!Written(record[c], rec, outcome) = Written(record[c], rec, outcome)
      BY CharacterTypes, RecordWritten DEF Promised
    <3> QED BY <1>2, <3>1 DEF Fence!Save, Promised, IInv, TypeOK, Fence!TypeOK
  <2>2. record[c].now.epoch = floor[c]
    BY <1>2, CharacterTypes DEF Promised, IInv, CharacterFits, BarrierFits, At, Unwritten
  <2>3. rec.epoch = record[c].now.epoch /\ rec.epoch >= record[c].now.epoch
    BY <1>2, <2>2, RecordFields
  <2> QED BY <2>1, <2>3, RecordStep
<1> QED BY <1>1, <1>2 DEF SaveOrRefuse

LEMMA RememberKeepsPromise ==
    ASSUME Promised, Promised', NEW c \in Characters, NEW place \in Places,
           NEW outcome \in Outcomes, Remember(c, place, outcome)
    PROVE  Keeps
<1>1. live[c] \in Fence!Record /\ live[c] # NoLife
  <2>1. session[c] = "asked"
    BY DEF Remember
  <2> QED BY <2>1, CharacterTypes DEF Promised, CharacterFits, SessionFits
<1>2. UNCHANGED journalFile /\ (UNCHANGED fenceVars \/ SaveOrRefuse(c, Disk(live[c]), outcome))
  BY DEF Remember, journalVars
<1>3. Disk(live[c]) \in Fence!Record /\ Mark(Disk(live[c])) \in Bare(c)
  BY <1>1, HeldMarks, MarkOf, DiskRecord DEF Promised
<1> QED BY <1>2, <1>3, SaveKeepsPromise

LEMMA EndDetachedKeepsPromise ==
    ASSUME Promised, Promised', NEW c \in Characters, NEW outcome \in Outcomes,
           EndDetached(c, outcome)
    PROVE  Keeps
<1>1. task[c] # NoTask /\ task[c].last # NoLife /\ task[c].last \in Fence!Record
  <2>1. At(c, {"ended"}) /\ task[c] # NoTask
    BY DEF EndDetached, At
  <2>2. task[c].last # NoLife
    BY <2>1, CharacterTypes DEF Promised, CharacterFits, SessionFits, Attached
  <2> QED BY <2>1, <2>2, CharacterTypes, TaskFields DEF Promised
<1>2. UNCHANGED journalFile /\ (UNCHANGED fenceVars \/ SaveOrRefuse(c, Disk(task[c].last), outcome))
  BY DEF EndDetached, journalVars
<1>3. Disk(task[c].last) \in Fence!Record /\ Mark(Disk(task[c].last)) \in Bare(c)
  BY <1>1, HeldMarks, MarkOf, DiskRecord DEF Promised
<1> QED BY <1>2, <1>3, SaveKeepsPromise

LEMMA WriteCapturedKeepsPromise ==
    ASSUME Promised, Promised', NEW c \in Characters, NEW outcome \in Outcomes,
           WriteCaptured(c, outcome)
    PROVE  Keeps
<1>1. /\ saving[c] # NoLife /\ UNCHANGED journalFile
      /\ UNCHANGED fenceVars \/ SaveOrRefuse(c, saving[c], outcome)
  BY DEF WriteCaptured, journalVars
<1>2. saving[c] \in Fence!Record /\ Mark(saving[c]) \in Bare(c)
  BY <1>1, HeldMarks, CharacterTypes DEF Promised
<1> QED BY <1>1, <1>2, SaveKeepsPromise

(* The record an intent is recovered into. *)
LEMMA RecoverRecordKeepsPromise ==
    ASSUME Promised, Promised', NEW intent \in journal.intents, NEW outcome \in Outcomes,
           RecoverRecord(intent, outcome)
    PROVE  Keeps
<1> DEFINE c == intent.owner
           old == record[c].now
           rec == Recovered(old, intent)
<1>1. /\ c \in Characters /\ intent.image \in Fence!Record /\ old \in Fence!Record
      /\ Mark(intent.image) \in Coming(c) /\ Mark(old) \in Bare(c)
  <2>1. c \in Characters /\ intent \in IntentsFor(c)
    BY ImageTypes, IntentTypes DEF IntentsFor, Promised
  <2> QED BY <2>1, MarkTypes, HeldMarks, CharacterTypes DEF Promised
<1>2. /\ record' = [record EXCEPT ![c] = Written(record[c], rec, outcome)]
      /\ UNCHANGED journalFile
  BY DEF RecoverRecord, journalVars
<1>3. /\ rec \in Fence!Record /\ rec.epoch >= old.epoch /\ Mark(rec) \in Bare(c) \cup Coming(c)
  <2>1. old.epoch \in Nat /\ intent.image.epoch \in Nat
    BY <1>1, RecordFields
  <2>2. CASE old.epoch >= intent.image.epoch
    BY <1>1, <2>1, <2>2 DEF Recovered
  <2>3. CASE ~(old.epoch >= intent.image.epoch)
    BY <1>1, <2>1, <2>3 DEF Recovered
  <2> QED BY <2>2, <2>3
<1>4. Recorded
  <2>1. HasRun(journal)
    BY ImageTypes, NothingPending DEF Promised
  <2> QED BY <2>1 DEF Promised, EInv, Recorded
<1> HIDE DEF rec
<1>5. /\ record'[c] = Written(record[c], rec, outcome)
      /\ \A d \in Characters \ {c} : record'[d] = record[d]
  BY <1>1, <1>2 DEF Promised, IInv, TypeOK, Fence!TypeOK
<1> HIDE DEF c
<1> QED BY <1>1, <1>2, <1>3, <1>4, <1>5, RecordStep DEF c

-----------------------------------------------------------------------------
(* A power loss settles what was in doubt, or takes the run away again.      *)

LEMMA CrashKeepsPromise ==
    ASSUME Steady, Promised, Promised', Crash
    PROVE  Keeps
<1>1. PICK found \in journalFile.mayBe : journalFile'.mayBe = {found}
  BY CrashEntitled DEF Promised
<1>2. PICK files \in Fence!RecordsAfter("power") : Fence!Reopen(files)
  BY DEF Crash, Steady
<1>3. ASSUME NEW c \in Characters
      PROVE  Records(c)' \subseteq Records(c) /\ Records(c)' # {}
  <2>1. PICK rec \in record[c].mayBe : files[c] = [now |-> rec, mayBe |-> {rec}]
    BY <1>2 DEF Fence!RecordsAfter, Fence!FilesAfter, Fence!AfterPowerLoss, Fence!Settled
  <2>2. record'[c].mayBe = {rec}
    BY <1>2, <2>1 DEF Fence!Reopen
  <2> QED BY <2>2 DEF Records
<1>4. Delivered \subseteq Delivered'
  <2>1. ASSUME NEW c \in Characters, NEW p \in Parts, <<c, p>> \in Delivered
        PROVE  <<c, p>> \in Delivered'
    BY <1>3, <2>1, DeliveredIs, DeliveredLater
  <2> QED BY <2>1, Promise DEF Shares
<1>5. Delivered' \subseteq Shares /\ Closed' \subseteq Owed'
  BY DEF Delivered, Closed
<1>6. CASE HasRun(found)
  <2>1. Recorded /\ Recorded'
    BY <1>1, <1>6 DEF Recorded, HasRun
  <2>2. Owed = Shares /\ Owed' = Shares
    BY <2>1, OwedIs, OwedLater DEF Promised
  <2>3. Closed' = {s \in Shares : Gone(found, s)}
    BY <1>1, <1>6, <2>2, OwedLater DEF Promised, Gone, HasRun
  <2>4. Closed \subseteq Closed'
    BY <1>6, <2>2, <2>3, OwedIs DEF Promised
  <2>5. Closed' \subseteq Delivered
    BY <2>3, Promise
  <2> QED BY <1>4, <1>5, <2>2, <2>4, <2>5, Settles
<1>7. CASE ~HasRun(found)
  <2>1. Owed' = {}
    <3>1. ~Recorded'
      BY <1>1, <1>7 DEF Recorded, HasRun
    <3> QED BY <3>1, OwedLater DEF Promised
  <2>2. ASSUME NEW c \in Characters, NEW p \in Parts, <<c, p>> \in Delivered'
        PROVE  <<c, p>> \in Delivered
    <3>1. found \in Images
      BY ImageTypes DEF Promised
    <3>2. \A m, n \in Records(c) : m = n
      BY <1>7, <3>1, Uniform DEF Promised
    <3> QED BY <1>3, <2>2, <3>2, DeliveredIs, DeliveredLater
  <2>3. Delivered' = Delivered
    <3>1. Delivered' \subseteq Delivered
      BY <1>5, <2>2 DEF Shares
    <3> QED BY <1>4, <3>1
  <2>4. CASE Recorded
    BY <1>5, <2>1, <2>3, <2>4, OwedIs, Promise, Forgets DEF Promised
  <2>5. CASE ~Recorded
    BY <1>5, <2>1, <2>3, <2>5, OwedIs, Promise DEF Promised, Keeps, entitled
  <2> QED BY <2>4, <2>5
<1> QED BY <1>6, <1>7

-----------------------------------------------------------------------------
(* Every step. *)

LEMMA OwnEntitled ==
    ASSUME IInv, EInv, NEW c \in Characters,
           Playing(c) \/ Reserves(c) \/ Delivers(c) \/ TearsDown(c) \/ Autosaves(c)
    PROVE  EInv'
<1>1. CASE Playing(c) \/ Reserves(c)
  <2>1. UNCHANGED <<journalVars, reset, startup>>
    BY <1>1 DEF Playing, Join, ChangePack, Die, EarnExperience, Leave, Reserves, ClaimBossReward,
                ReserveLive, ReserveReward, RefuseLive, Seal, RefuseSeal, worldOnly
  <2> QED BY <2>1, QuietEntitled DEF Running
<1>2. CASE TearsDown(c) \/ Autosaves(c)
  <2>1. UNCHANGED <<journalVars, reset, startup>>
    BY <1>2 DEF TearsDown, DetachReward, NothingToDetach, Remember, Autosaves, Capture,
                WriteCaptured, worldOnly
  <2> QED BY <2>1, QuietEntitled DEF Running
<1>3. CASE Delivers(c)
  <2>1. CASE \E outcome \in Outcomes : PrepareClaim(c, outcome)
    BY <2>1, PrepareEntitled
  <2>2. CASE \E outcome \in Outcomes : AcknowledgeClaim(c, outcome)
    BY <2>2, AcknowledgeEntitled
  <2>3. CASE \/ \E outcome \in Outcomes : WritePrepared(c, outcome) \/ EndDetached(c, outcome)
             \/ PublishReward(c) \/ FinishReward(c)
    <3>1. UNCHANGED <<journalVars, reset, startup>>
      BY <2>3 DEF WritePrepared, EndDetached, PublishReward, FinishReward, worldOnly
    <3> QED BY <3>1, QuietEntitled DEF Running
  <2> QED BY <1>3, <2>1, <2>2, <2>3 DEF Delivers
<1> QED BY <1>1, <1>2, <1>3

LEMMA NextEntitled ==
    ASSUME Steady, IInv, DInv, EInv, [Next]_vars
    PROVE  EInv'
<1>1. CASE SyncStep
  BY <1>1, SyncEntitled DEF Steady
<1>2. CASE Reset
  BY <1>2, ResetEntitled
<1>3. CASE Crash
  BY <1>3, CrashEntitled
<1>4. CASE RecoveryStep
  <2>1. ASSUME NEW intent \in journal.intents, NEW outcome \in Outcomes,
               RecoverRecord(intent, outcome)
        PROVE  EInv'
    <3>1. UNCHANGED journalVars /\ reset' = reset /\ ~Running /\ ~Running'
      BY <2>1 DEF RecoverRecord, AfterWrite, Running, IInv, TypeOK, Startup
    <3> QED BY <3>1, QuietEntitled
  <2> QED BY <1>4, <2>1, RestartEntitled, RecoverAllEntitled DEF RecoveryStep
<1>5. ASSUME NEW c \in Characters,
             Playing(c) \/ Reserves(c) \/ Delivers(c) \/ TearsDown(c) \/ Autosaves(c)
      PROVE  EInv'
  BY <1>5, OwnEntitled
<1>6. CASE UNCHANGED vars
  BY <1>6, QuietEntitled DEF vars, journalVars, Running
<1> QED BY <1>1, <1>2, <1>3, <1>4, <1>5, <1>6 DEF Next

LEMMA OwnKeepsPromise ==
    ASSUME Promised, Promised', NEW c \in Characters,
           Playing(c) \/ Reserves(c) \/ Delivers(c) \/ TearsDown(c) \/ Autosaves(c)
    PROVE  Keeps
<1>1. CASE Playing(c) \/ Reserves(c)
  <2>1. UNCHANGED <<record, journalFile>>
    BY <1>1 DEF Playing, Join, ChangePack, Die, EarnExperience, Leave, Reserves, ClaimBossReward,
                ReserveLive, ReserveReward, RefuseLive, Seal, RefuseSeal, worldOnly, journalVars,
                fenceVars, Fence!ReserveReward, Fence!AbortReward, Fence!BeginRewardIntent
  <2> QED BY <2>1, Stutters
<1>2. CASE TearsDown(c) \/ Autosaves(c)
  <2>1. CASE NothingToDetach(c) \/ Capture(c) \/ \E place \in Places : DetachReward(c, place)
    <3>1. UNCHANGED <<record, journalFile>>
      BY <2>1 DEF NothingToDetach, Capture, DetachReward, worldOnly, journalVars, fenceVars
    <3> QED BY <3>1, Stutters
  <2> QED BY <1>2, <2>1, RememberKeepsPromise, WriteCapturedKeepsPromise DEF TearsDown, Autosaves
<1>3. CASE Delivers(c)
  <2>1. CASE \E outcome \in Outcomes : PrepareClaim(c, outcome)
    BY <2>1, PrepareEntitled, CommitKeeps DEF Promised
  <2>2. CASE \E outcome \in Outcomes : AcknowledgeClaim(c, outcome)
    BY <2>2, AcknowledgeEntitled, CommitKeeps DEF Promised
  <2>3. CASE PublishReward(c) \/ FinishReward(c)
    <3>1. UNCHANGED <<record, journalFile>>
      BY <2>3 DEF PublishReward, FinishReward, Fence!ReleaseReward, worldOnly, journalVars, fenceVars
    <3> QED BY <3>1, Stutters
  <2> QED BY <1>3, <2>1, <2>2, <2>3, WriteKeepsPromise, EndDetachedKeepsPromise DEF Delivers
<1> QED BY <1>1, <1>2, <1>3

LEMMA NextKeepsPromise ==
    ASSUME Steady, Promised, Promised', [Next]_vars
    PROVE  Keeps
<1>1. CASE SyncStep
  BY <1>1, SyncEntitled, CommitKeeps DEF Steady, Promised
<1>2. CASE Reset
  <2>1. UNCHANGED <<record, journalFile>>
    BY <1>2 DEF Reset, journalVars, fenceVars
  <2> QED BY <2>1, Stutters
<1>3. CASE Crash
  BY <1>3, CrashKeepsPromise
<1>4. CASE RecoveryStep
  <2>1. CASE Restart
    <3>1. UNCHANGED <<record, journalFile>>
      BY <2>1 DEF Restart, Journal!Reopen, Fence!Reopen
    <3> QED BY <3>1, Stutters
  <2>2. ASSUME NEW outcome \in Outcomes, RecoverAll(outcome)
        PROVE  Keeps
    BY <2>2, RecoverAllEntitled, CommitKeeps, Stutters DEF Promised
  <2> QED BY <1>4, <2>1, <2>2, RecoverRecordKeepsPromise DEF RecoveryStep
<1>5. ASSUME NEW c \in Characters,
             Playing(c) \/ Reserves(c) \/ Delivers(c) \/ TearsDown(c) \/ Autosaves(c)
      PROVE  Keeps
  BY <1>5, OwnKeepsPromise
<1>6. CASE UNCHANGED vars
  BY <1>6, Stutters DEF vars
<1> QED BY <1>1, <1>2, <1>3, <1>4, <1>5, <1>6 DEF Next

LEMMA InitEntitled ==
    ASSUME Init
    PROVE  EInv /\ Entitlement!Init
<1> DEFINE e == Journal!EmptyImage
<1>1. /\ journal = e /\ uncertain = NoImage /\ journalFile.now = e /\ journalFile.mayBe = {e}
      /\ Running /\ e.owed = {} /\ DOMAIN e.runs = {}
      /\ record = [c \in Characters |-> [now |-> Newborn, mayBe |-> {Newborn}]]
  BY DEF Init, Journal!Init, Journal!Settled, Settled, Journal!EmptyImage, Running
<1> HIDE DEF e
<1>2. Images = {e} /\ ~HasRun(e) /\ Whole(e)
  BY <1>1 DEF Images, HasRun, Whole, Owing
<1>3. Owed = {} /\ Closed = {}
  BY <1>1 DEF Owed, Closed, Recording
<1>4. Delivered = {}
  BY <1>1 DEF Delivered, Shares, Newborn
<1> QED BY <1>1, <1>2, <1>3, <1>4 DEF EInv, Entitlement!Init

(* Every image of the journal owes a run's defeat in full or not at all, and *)
(* only the one in doubt may differ from memory in this (AllocateRun writes  *)
(* the run and its defeat at once, ExpireRuns takes both).                   *)
THEOREM ImagesAreWhole == ASSUME Steady PROVE Spec => []Promised
<1>1. Init => EInv
  BY InitEntitled
<1>2. IInv /\ DInv /\ EInv /\ [Next]_vars => EInv'
  BY NextEntitled
<1> QED BY <1>1, <1>2, MarksAreChained, PTL DEF Spec, Promised

(* The delivery, its files, failures and power losses and all, implements    *)
(* the promise of RewardEntitlement: a share becomes owed undelivered, is    *)
(* delivered at most once, closed only when delivered and never reopened.    *)
THEOREM DeliveryIsPromised == ASSUME Steady PROVE Spec => KeepsThePromise
<1>1. Init => Entitlement!Init
  BY InitEntitled
<1>2. Promised /\ Promised' /\ [Next]_vars => Keeps
  BY NextKeepsPromise
<1> QED BY <1>1, <1>2, ImagesAreWhole, PTL
    DEF Spec, KeepsThePromise, Entitlement!Spec, Entitlement!entitlementVars, Keeps, entitled
=============================================================================
