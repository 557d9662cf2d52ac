----------------------------- MODULE RewardFence -----------------------------
(***************************************************************************)
(* The character records of persist.Store and the barrier a boss reward    *)
(* holds on one of them (server/internal/persist/reward_fence.go and       *)
(* store.go).  A record is a reward epoch and a life.  The floor is the    *)
(* epoch an ordinary save must carry; a reservation raises it by one, and  *)
(* only by writing the image it has sealed.                                *)
(*                                                                         *)
(* The index, the appearance, quarantine and strict-receipt refusals of    *)
(* the store are left out: here every character has a readable record.     *)
(***************************************************************************)
EXTENDS Naturals, AtomicFile

CONSTANTS
    Characters,
    Lives,     \* what a record holds beside its epoch
    MaxEpoch,  \* bound in place of MaxUint64: the last epoch a reward reaches
    Crashes,   \* which crashes happen: a subset of {"process", "power"}
    NoToken    \* no reservation holds the character

VARIABLES
    record,  \* the character files
    fence,   \* Store.rewardFences
    floor    \* Store.rewardFloors, read from the record when first asked for

fenceVars == <<record, fence, floor>>

-----------------------------------------------------------------------------
Epochs == 0..MaxEpoch
Record == [epoch : Epochs, life : Lives]
Token == [epoch : Epochs, intent : BOOLEAN, written : BOOLEAN, postimage : Record]

ASSUME RewardFenceAssumption ==
    /\ MaxEpoch \in Nat
    /\ Crashes \subseteq {"process", "power"}
    /\ NoToken \notin Token

Fenced(c) == fence[c] # NoToken

(* Mutant: a reservation may be taken over one that is held. *)
MutantReserveHeld(c) ==
    /\ record[c].now.epoch = floor[c] /\ floor[c] < MaxEpoch
    /\ fence' = [fence EXCEPT ![c] = [epoch |-> floor[c] + 1, intent |-> FALSE,
                                      written |-> FALSE, postimage |-> record[c].now]]
    /\ UNCHANGED <<record, floor>>

(* The token's postimage is meaningless until BeginRewardIntent seals one. *)
ReserveReward(c) ==
    /\ ~Fenced(c)
    /\ record[c].now.epoch = floor[c] /\ floor[c] < MaxEpoch
    /\ fence' = [fence EXCEPT ![c] = [epoch |-> floor[c] + 1, intent |-> FALSE,
                                      written |-> FALSE, postimage |-> record[c].now]]
    /\ UNCHANGED <<record, floor>>

BeginRewardIntent(c, image) ==
    /\ Fenced(c) /\ ~fence[c].intent
    /\ image.epoch = fence[c].epoch
    /\ fence' = [fence EXCEPT ![c].intent = TRUE, ![c].postimage = image]
    /\ UNCHANGED <<record, floor>>

(* Mutant: the floor rises though the write may not have reached the disk. *)
MutantWritePreparedReward(c, outcome) ==
    /\ Fenced(c) /\ fence[c].intent
    /\ record' = [record EXCEPT ![c] = Written(@, fence[c].postimage, outcome)]
    /\ floor' = [floor EXCEPT ![c] = fence[c].epoch]
    /\ fence' = [fence EXCEPT ![c].written = TRUE]

WritePreparedReward(c, outcome) ==
    /\ Fenced(c) /\ fence[c].intent
    /\ record' = [record EXCEPT ![c] = Written(@, fence[c].postimage, outcome)]
    /\ IF outcome = "done"
       THEN /\ floor' = [floor EXCEPT ![c] = fence[c].epoch]
            /\ fence' = [fence EXCEPT ![c].written = TRUE]
       ELSE UNCHANGED <<floor, fence>>

ReleaseReward(c) ==
    /\ Fenced(c) /\ fence[c].written
    /\ fence' = [fence EXCEPT ![c] = NoToken]
    /\ UNCHANGED <<record, floor>>

AbortReward(c) ==
    /\ Fenced(c) /\ ~fence[c].intent
    /\ fence' = [fence EXCEPT ![c] = NoToken]
    /\ UNCHANGED <<record, floor>>

(* Mutant: a save is checked against the floor and not against the barrier. *)
MutantSave(c, rec, outcome) ==
    /\ rec.epoch = floor[c]
    /\ record' = [record EXCEPT ![c] = Written(@, rec, outcome)]
    /\ UNCHANGED <<fence, floor>>

(* Save, by a caller that may hold a life captured long ago. *)
Save(c, rec, outcome) ==
    /\ ~Fenced(c) /\ rec.epoch = floor[c]
    /\ record' = [record EXCEPT ![c] = Written(@, rec, outcome)]
    /\ UNCHANGED <<fence, floor>>

(* The next process opens the records it finds. *)
Reopen(files) ==
    /\ record' = files
    /\ fence' = [c \in Characters |-> NoToken]
    /\ floor' = [c \in Characters |-> files[c].now.epoch]

(* Every way the character files may be found after a crash. *)
RecordsAfter(crash) ==
    {files \in [Characters -> UNION {FilesAfter(crash, record[c]) : c \in Characters}] :
        \A c \in Characters : files[c] \in FilesAfter(crash, record[c])}

Crash == \E crash \in Crashes : \E files \in RecordsAfter(crash) : Reopen(files)

-----------------------------------------------------------------------------
(* The store under arbitrary callers. *)

Init ==
    /\ record \in [Characters -> {Settled([epoch |-> 0, life |-> life]) : life \in Lives}]
    /\ fence = [c \in Characters |-> NoToken]
    /\ floor = [c \in Characters |-> 0]

Reserves == \E c \in Characters : ReserveReward(c)
Seals == \E c \in Characters, image \in Record : BeginRewardIntent(c, image)
Writes == \E c \in Characters, outcome \in WriteOutcomes : WritePreparedReward(c, outcome)
Ends == \E c \in Characters : ReleaseReward(c) \/ AbortReward(c)
Saves == \E c \in Characters, rec \in Record, outcome \in WriteOutcomes : Save(c, rec, outcome)

Next == Reserves \/ Seals \/ Writes \/ Ends \/ Saves \/ Crash

Spec == Init /\ [][Next]_fenceVars

-----------------------------------------------------------------------------
(* Properties. *)

TypeOK ==
    /\ record \in [Characters -> Files(Record)]
    /\ fence \in [Characters -> Token \cup {NoToken}]
    /\ floor \in [Characters -> Epochs]

(* A reward whose write was confirmed survives whatever a power loss leaves: *)
(* every content the record may be carries at least the floor's epoch, so a  *)
(* save captured before the reward has not landed and never may.             *)
FloorIsDurable ==
    \A c \in Characters : \A rec \in record[c].mayBe : rec.epoch >= floor[c]

(* The epoch a save must carry never goes back, restarts included, so the    *)
(* receipt of a delivered reward is never forgotten.                         *)
GrowsFloors == \A c \in Characters : floor'[c] >= floor[c]
FloorsOnlyGrow == [][GrowsFloors]_fenceVars

(* From reservation to release nothing reaches the record but the one sealed *)
(* image, however many saves and retries race with it.                       *)
OnlyImageLands(c) ==
    fence[c] # NoToken =>
        \/ record'[c] = record[c]
        \/ fence[c].intent /\ record'[c].now \in {record[c].now, fence[c].postimage}
OnlyTheImageLands == [][Crash \/ \A c \in Characters : OnlyImageLands(c)]_fenceVars

(* A sealed image is never exchanged for another while its write may have    *)
(* begun: a retry writes the same bytes.                                     *)
KeepsSealed(c) ==
    fence[c] # NoToken =>
        (fence[c].intent /\ ~fence[c].written => fence'[c] # NoToken /\ fence'[c].postimage = fence[c].postimage)
SealedImageIsKept == [][Crash \/ \A c \in Characters : KeepsSealed(c)]_fenceVars
=============================================================================
