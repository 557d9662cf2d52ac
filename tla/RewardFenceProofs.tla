-------------------------- MODULE RewardFenceProofs --------------------------
(***************************************************************************)
(* The reward barrier proved for every set of characters and lives, every  *)
(* number of epochs and every mix of saves and crashes.  FloorIsDurable is *)
(* not inductive: a write raises the floor to the token's epoch, so the    *)
(* invariant must know that a token is one above the floor until it has    *)
(* been written, and that the sealed image carries the token's epoch.      *)
(***************************************************************************)
EXTENDS RewardFence, TLAPS

(* A process that dies leaves an unsynced record to be read as if it were    *)
(* durable; what is claimed of a loss of power is claimed without such       *)
(* deaths.                                                                   *)
PowerLossOnly == Crashes \subseteq {"power"}

(* Reopening does not make a doubtful rename durable either: what is claimed *)
(* of both kinds of crash is claimed of one of them at a time.               *)
OneKindOfCrash == ~({"process", "power"} \subseteq Crashes)

RecordIsReadable ==
    \A c \in Characters : /\ record[c].now \in record[c].mayBe
                           /\ record[c].now.epoch >= floor[c]

TokenFollowsFloor ==
    \A c \in Characters : fence[c] # NoToken =>
        /\ fence[c].epoch = IF fence[c].written THEN floor[c] ELSE floor[c] + 1
        /\ fence[c].intent => fence[c].postimage.epoch = fence[c].epoch
        /\ fence[c].written => fence[c].intent

IInv ==
    /\ TypeOK
    /\ RecordIsReadable
    /\ TokenFollowsFloor
    /\ PowerLossOnly => FloorIsDurable

-----------------------------------------------------------------------------
(* What one write leaves of a file. *)
LEMMA WrittenFile ==
    ASSUME NEW Content, NEW file \in Files(Content), NEW content \in Content,
           NEW outcome \in WriteOutcomes
    PROVE  LET left == Written(file, content, outcome)
           IN  /\ left \in Files(Content)
               /\ left.now \in {file.now, content}
               /\ left.mayBe \subseteq file.mayBe \cup {content}
               /\ outcome = "done" => left = Settled(content)
               /\ file.now \in file.mayBe => left.now \in left.mayBe
  BY DEF Files, WriteOutcomes, Written, Settled

LEMMA FenceInit == Init => IInv
  BY RewardFenceAssumption DEF Init, IInv, TypeOK, RecordIsReadable,
         FloorIsDurable, TokenFollowsFloor, Files, Record,
         Epochs, Token, Settled

LEMMA ReserveKeeps ==
    ASSUME IInv, NEW c \in Characters, ReserveReward(c)
    PROVE  IInv'
<1>1. fence[c] = NoToken /\ floor[c] < MaxEpoch
  BY DEF ReserveReward, Fenced
<1> DEFINE token == [epoch |-> floor[c] + 1, intent |-> FALSE, written |-> FALSE,
                     postimage |-> record[c].now]
<1>2. token \in Token
  <2>1. record[c].now \in Record
    BY DEF IInv, TypeOK, Files
  <2>2. floor[c] + 1 \in Epochs
    BY <1>1, RewardFenceAssumption DEF IInv, TypeOK, Epochs
  <2> QED BY <2>1, <2>2 DEF Token
<1>3. fence' = [fence EXCEPT ![c] = token] /\ UNCHANGED <<record, floor>>
  BY DEF ReserveReward
<1>4. TypeOK'
  BY <1>2, <1>3 DEF IInv, TypeOK
<1>5. TokenFollowsFloor'
  BY <1>3 DEF IInv, TypeOK, TokenFollowsFloor
<1> QED BY <1>3, <1>4, <1>5 DEF IInv, RecordIsReadable, FloorIsDurable, PowerLossOnly

LEMMA SealKeeps ==
    ASSUME IInv, NEW c \in Characters, NEW image \in Record,
           BeginRewardIntent(c, image)
    PROVE  IInv'
<1>1. fence[c] \in Token /\ fence[c] # NoToken /\ ~fence[c].intent
  BY DEF BeginRewardIntent, Fenced, IInv, TypeOK
<1>2. fence' = [fence EXCEPT ![c] = [fence[c] EXCEPT !.intent = TRUE, !.postimage = image]]
  BY <1>1 DEF BeginRewardIntent, IInv, TypeOK, Token
<1>3. [fence[c] EXCEPT !.intent = TRUE, !.postimage = image] \in Token
  BY <1>1 DEF Token
<1>4. TypeOK'
  BY <1>2, <1>3 DEF BeginRewardIntent, IInv, TypeOK
<1>5. TokenFollowsFloor'
  BY <1>1, <1>2 DEF BeginRewardIntent, IInv, TypeOK, TokenFollowsFloor,
                    Token
<1> QED BY <1>4, <1>5 DEF BeginRewardIntent, IInv, RecordIsReadable,
                          FloorIsDurable, PowerLossOnly

LEMMA WriteKeeps ==
    ASSUME IInv, NEW c \in Characters,
           NEW outcome \in WriteOutcomes,
           WritePreparedReward(c, outcome)
    PROVE  IInv'
<1> DEFINE image == fence[c].postimage
<1>1. /\ fence[c] \in Token /\ fence[c] # NoToken /\ fence[c].intent
      /\ image \in Record /\ image.epoch = fence[c].epoch
      /\ record[c] \in Files(Record)
      /\ floor[c] \in Nat /\ image.epoch \in Nat /\ image.epoch >= floor[c]
      /\ record[c].now \in record[c].mayBe /\ record[c].now.epoch >= floor[c]
  <2>1. fence[c] \in Token /\ fence[c] # NoToken /\ fence[c].intent
    BY DEF WritePreparedReward, Fenced, IInv, TypeOK
  <2>2. image \in Record /\ fence[c].epoch \in Epochs /\ fence[c].written \in BOOLEAN
    BY <2>1 DEF Token
  <2>3. record[c] \in Files(Record) /\ floor[c] \in Nat /\ fence[c].epoch \in Nat
    BY <2>2, RewardFenceAssumption DEF IInv, TypeOK, Epochs
  <2>4. image.epoch = fence[c].epoch
    BY <2>1 DEF IInv, TokenFollowsFloor
  <2>5. fence[c].epoch = IF fence[c].written THEN floor[c] ELSE floor[c] + 1
    BY <2>1 DEF IInv, TokenFollowsFloor
  <2>6. fence[c].epoch >= floor[c]
    BY <2>2, <2>3, <2>5
  <2> QED BY <2>1, <2>2, <2>3, <2>4, <2>6 DEF IInv, RecordIsReadable
<1> DEFINE file == Written(record[c], image, outcome)
<1>2. record' = [record EXCEPT ![c] = file]
  BY DEF WritePreparedReward
<1>3. /\ file \in Files(Record)
      /\ file.mayBe \subseteq record[c].mayBe \cup {image}
      /\ outcome = "done" => file = Settled(image)
      /\ file.now \in file.mayBe /\ file.now.epoch >= floor[c]
  BY <1>1, WrittenFile
<1> HIDE DEF file
<1>5. CASE outcome = "done"
  <2>1. /\ floor' = [floor EXCEPT ![c] = fence[c].epoch]
        /\ fence' = [fence EXCEPT ![c] = [fence[c] EXCEPT !.written = TRUE]]
    BY <1>1, <1>5 DEF WritePreparedReward, IInv, TypeOK, Token
  <2>2. [fence[c] EXCEPT !.written = TRUE] \in Token /\ fence[c].epoch \in Epochs
    BY <1>1 DEF Token
  <2>3. TypeOK'
    BY <1>2, <1>3, <2>1, <2>2 DEF IInv, TypeOK
  <2>4. file.mayBe = {image}
    BY <1>3, <1>5 DEF Settled
  <2>5. PowerLossOnly => FloorIsDurable'
    BY <1>1, <1>2, <2>1, <2>4 DEF IInv, TypeOK, FloorIsDurable
  <2>6. TokenFollowsFloor'
    BY <1>1, <2>1 DEF IInv, TypeOK, TokenFollowsFloor, Token
  <2>7. file.now = image /\ floor'[c] = image.epoch
    BY <1>1, <1>3, <1>5, <2>1 DEF IInv, TypeOK, Settled
  <2>8. RecordIsReadable'
    BY <1>1, <1>2, <1>3, <2>1, <2>7 DEF IInv, TypeOK, RecordIsReadable
  <2> QED BY <2>3, <2>5, <2>6, <2>8 DEF IInv, PowerLossOnly
<1>6. CASE outcome # "done"
  <2>1. UNCHANGED <<floor, fence>>
    BY <1>6 DEF WritePreparedReward
  <2>2. TypeOK'
    BY <1>2, <1>3, <2>1 DEF IInv, TypeOK
  <2>3. PowerLossOnly => FloorIsDurable'
    BY <1>1, <1>2, <1>3, <2>1 DEF IInv, TypeOK, FloorIsDurable
  <2>4. RecordIsReadable'
    BY <1>2, <1>3, <2>1 DEF IInv, TypeOK, RecordIsReadable
  <2> QED BY <2>1, <2>2, <2>3, <2>4 DEF IInv, TokenFollowsFloor, PowerLossOnly
<1> QED BY <1>5, <1>6

LEMMA EndKeeps ==
    ASSUME IInv, NEW c \in Characters,
           ReleaseReward(c) \/ AbortReward(c)
    PROVE  IInv'
  BY DEF ReleaseReward, AbortReward, IInv, TypeOK,
         RecordIsReadable, FloorIsDurable, TokenFollowsFloor, PowerLossOnly

LEMMA SaveKeeps ==
    ASSUME IInv, NEW c \in Characters, NEW rec \in Record,
           NEW outcome \in WriteOutcomes,
           Save(c, rec, outcome)
    PROVE  IInv'
<1> DEFINE file == Written(record[c], rec, outcome)
<1>1. /\ record' = [record EXCEPT ![c] = file]
      /\ UNCHANGED <<fence, floor>> /\ rec.epoch = floor[c]
      /\ record[c] \in Files(Record) /\ floor[c] \in Nat
      /\ record[c].now \in record[c].mayBe /\ record[c].now.epoch >= floor[c]
  BY RewardFenceAssumption DEF Save, IInv, TypeOK, Epochs, RecordIsReadable
<1>2. /\ file \in Files(Record)
      /\ file.mayBe \subseteq record[c].mayBe \cup {rec}
      /\ file.now \in file.mayBe /\ file.now.epoch >= floor[c]
  BY <1>1, WrittenFile
<1> HIDE DEF file
<1>3. TypeOK' /\ RecordIsReadable'
  BY <1>1, <1>2 DEF IInv, TypeOK, RecordIsReadable
<1>4. PowerLossOnly => FloorIsDurable'
  BY <1>1, <1>2 DEF IInv, TypeOK, FloorIsDurable
<1> QED BY <1>1, <1>3, <1>4 DEF IInv, TokenFollowsFloor, PowerLossOnly

(* What a crash leaves: well formed records, each reread as it was visible    *)
(* or, after a power loss, as one of the contents it could be.               *)
LEMMA CrashReads ==
    ASSUME TypeOK, Crash
    PROVE  \E files \in [Characters -> Files(Record)] :
              /\ Reopen(files)
              /\ PowerLossOnly =>
                    \A c \in Characters : /\ files[c].now \in record[c].mayBe
                                           /\ files[c] = Settled(files[c].now)
              /\ "power" \notin Crashes => \A c \in Characters : files[c] = record[c]
<1>1. PICK crash \in Crashes :
           \E files \in RecordsAfter(crash) : Reopen(files)
  BY DEF Crash
<1>2. PICK files \in RecordsAfter(crash) : Reopen(files)
  BY <1>1
<1>3. ASSUME NEW c \in Characters
      PROVE  files[c] \in FilesAfter(crash, record[c])
  BY <1>2 DEF RecordsAfter
<1>4. ASSUME NEW c \in Characters, crash # "process"
      PROVE  /\ files[c] \in Files(Record)
             /\ files[c].now \in record[c].mayBe
             /\ files[c] = Settled(files[c].now)
  <2>1. FilesAfter(crash, record[c])
           = {Settled(content) : content \in record[c].mayBe}
    BY <1>4 DEF FilesAfter, AfterPowerLoss
  <2>2. PICK content \in record[c].mayBe : files[c] = Settled(content)
    BY <1>3, <2>1
  <2>3. content \in Record
    BY <2>2 DEF TypeOK, Files
  <2> QED BY <2>2, <2>3 DEF Settled, Files
<1>5. ASSUME NEW c \in Characters, crash = "process"
      PROVE  files[c] = record[c] /\ files[c] \in Files(Record)
  BY <1>3, <1>5 DEF FilesAfter, TypeOK
<1>6. files \in [Characters -> Files(Record)]
  <2>1. files \in [Characters -> UNION {FilesAfter(crash, record[c]) : c \in Characters}]
    BY <1>2 DEF RecordsAfter
  <2> QED BY <1>4, <1>5, <2>1
<1>7. /\ PowerLossOnly => crash # "process"
      /\ "power" \notin Crashes => crash = "process"
  BY RewardFenceAssumption DEF PowerLossOnly
<1> QED BY <1>2, <1>4, <1>5, <1>6, <1>7

LEMMA CrashKeepsShape ==
    ASSUME TypeOK, Crash
    PROVE  TypeOK'
<1>1. PICK files \in [Characters -> Files(Record)] : Reopen(files)
  BY CrashReads
<1>2. \A c \in Characters : files[c].now.epoch \in Epochs
  BY DEF Files, Record
<1> QED BY <1>1, <1>2 DEF Reopen, TypeOK

LEMMA CrashKeeps ==
    ASSUME OneKindOfCrash, IInv, Crash
    PROVE  IInv' /\ GrowsFloors
<1>1. PICK files \in [Characters -> Files(Record)] :
              /\ Reopen(files)
              /\ PowerLossOnly =>
                    \A c \in Characters : /\ files[c].now \in record[c].mayBe
                                           /\ files[c] = Settled(files[c].now)
              /\ "power" \notin Crashes => \A c \in Characters : files[c] = record[c]
  BY CrashReads DEF IInv
<1>2. /\ record' = files
      /\ fence' = [c \in Characters |-> NoToken]
      /\ floor' = [c \in Characters |-> files[c].now.epoch]
  BY <1>1 DEF Reopen
<1>3. PowerLossOnly \/ "power" \notin Crashes
  BY RewardFenceAssumption DEF OneKindOfCrash, PowerLossOnly
<1>4. \A c \in Characters : files[c].now.epoch \in Nat /\ floor[c] \in Nat
  BY RewardFenceAssumption DEF IInv, TypeOK, Files, Record, Epochs
<1>5. ASSUME NEW c \in Characters
      PROVE  /\ files[c].now \in files[c].mayBe
             /\ files[c].now.epoch >= floor[c]
             /\ PowerLossOnly => files[c].mayBe = {files[c].now}
  <2>1. CASE PowerLossOnly
    <3>1. files[c].now \in record[c].mayBe /\ files[c].mayBe = {files[c].now}
      BY <1>1, <2>1 DEF Settled
    <3> QED BY <2>1, <3>1 DEF IInv, FloorIsDurable
  <2>2. CASE ~PowerLossOnly
    BY <1>1, <1>3, <2>2 DEF IInv, RecordIsReadable
  <2> QED BY <2>1, <2>2
<1>6. TypeOK'
  BY CrashKeepsShape DEF IInv
<1>7. RecordIsReadable' /\ TokenFollowsFloor'
  BY <1>2, <1>4, <1>5 DEF RecordIsReadable, TokenFollowsFloor
<1>8. PowerLossOnly => FloorIsDurable'
  BY <1>2, <1>4, <1>5 DEF FloorIsDurable
<1>9. GrowsFloors
  BY <1>2, <1>5 DEF GrowsFloors
<1> QED BY <1>6, <1>7, <1>8, <1>9 DEF IInv, PowerLossOnly

-----------------------------------------------------------------------------
(* Whatever crashes there are, the shape is kept, nothing but the sealed     *)
(* image lands under a barrier and no sealed image is exchanged.             *)
LEMMA StepKeepsShape ==
    ASSUME TypeOK, Next
    PROVE  /\ TypeOK'
           /\ Crash \/ \A c \in Characters : OnlyImageLands(c)
           /\ Crash \/ \A c \in Characters : KeepsSealed(c)
<1>1. CASE Reserves
  <2>1. PICK c \in Characters : ReserveReward(c)
    BY <1>1 DEF Reserves
  <2> DEFINE token == [epoch |-> floor[c] + 1, intent |-> FALSE, written |-> FALSE,
                       postimage |-> record[c].now]
  <2>2. /\ fence[c] = NoToken
        /\ fence' = [fence EXCEPT ![c] = token] /\ UNCHANGED <<record, floor>>
    BY <2>1 DEF ReserveReward, Fenced
  <2>3. token \in Token
    <3>1. record[c].now \in Record /\ floor[c] + 1 \in Epochs
      BY <2>1, RewardFenceAssumption DEF ReserveReward, TypeOK, Files,
                  Epochs
    <3> QED BY <3>1 DEF Token
  <2> HIDE DEF token
  <2> QED BY <2>2, <2>3 DEF TypeOK, OnlyImageLands, KeepsSealed
<1>2. CASE Seals
  <2>1. PICK c \in Characters, image \in Record : BeginRewardIntent(c, image)
    BY <1>2 DEF Seals
  <2> DEFINE token == [fence[c] EXCEPT !.intent = TRUE, !.postimage = image]
  <2>2. fence[c] \in Token /\ ~fence[c].intent
    BY <2>1 DEF BeginRewardIntent, Fenced, TypeOK
  <2>3. token \in Token
    BY <2>2 DEF Token
  <2>4. fence' = [fence EXCEPT ![c] = token] /\ UNCHANGED <<record, floor>>
    BY <2>1, <2>2 DEF BeginRewardIntent, TypeOK, Token
  <2> HIDE DEF token
  <2> QED BY <2>2, <2>3, <2>4 DEF TypeOK, OnlyImageLands, KeepsSealed
<1>3. CASE Writes
  <2>1. PICK c \in Characters, outcome \in WriteOutcomes :
                WritePreparedReward(c, outcome)
    BY <1>3 DEF Writes
  <2> DEFINE file == Written(record[c], fence[c].postimage, outcome)
             token == [fence[c] EXCEPT !.written = TRUE]
  <2>2. /\ fence[c] \in Token /\ fence[c].intent
        /\ fence[c].postimage \in Record /\ fence[c].epoch \in Epochs
        /\ record[c] \in Files(Record)
    BY <2>1 DEF WritePreparedReward, Fenced, TypeOK, Token
  <2>3. /\ file \in Files(Record)
        /\ file.now \in {record[c].now, fence[c].postimage}
    BY <2>2, WrittenFile
  <2>4. token \in Token /\ token.postimage = fence[c].postimage
    BY <2>2 DEF Token
  <2>5. token # NoToken
    BY <2>4, RewardFenceAssumption
  <2>6. /\ record' = [record EXCEPT ![c] = file]
        /\ \/ fence' = fence /\ floor' = floor
           \/ /\ fence' = [fence EXCEPT ![c] = token]
              /\ floor' = [floor EXCEPT ![c] = fence[c].epoch]
    BY <2>1, <2>2 DEF WritePreparedReward, TypeOK, Token
  <2> HIDE DEF file, token
  <2>7. TypeOK'
    BY <2>2, <2>3, <2>4, <2>6 DEF TypeOK
  <2>8. ASSUME NEW k \in Characters PROVE OnlyImageLands(k)
    BY <2>2, <2>3, <2>6 DEF TypeOK, OnlyImageLands
  <2>9. ASSUME NEW k \in Characters PROVE KeepsSealed(k)
    BY <2>4, <2>5, <2>6 DEF TypeOK, KeepsSealed
  <2> QED BY <2>7, <2>8, <2>9
<1>4. CASE Ends
  <2>1. PICK c \in Characters : ReleaseReward(c) \/ AbortReward(c)
    BY <1>4 DEF Ends
  <2> QED BY <2>1 DEF ReleaseReward, AbortReward, TypeOK,
                      OnlyImageLands, KeepsSealed
<1>5. CASE Saves
  <2>1. PICK c \in Characters, rec \in Record, outcome \in WriteOutcomes :
                Save(c, rec, outcome)
    BY <1>5 DEF Saves
  <2>2. Written(record[c], rec, outcome) \in Files(Record)
    BY WrittenFile DEF TypeOK
  <2> QED BY <2>1, <2>2 DEF Save, Fenced, TypeOK,
                            OnlyImageLands, KeepsSealed
<1>6. CASE Crash
  BY <1>6, CrashKeepsShape
<1> QED BY <1>1, <1>2, <1>3, <1>4, <1>5, <1>6 DEF Next

LEMMA FenceShape == Spec => []TypeOK
<1>1. Init => TypeOK
  BY FenceInit DEF IInv
<1>2. TypeOK /\ [Next]_fenceVars => TypeOK'
  BY StepKeepsShape DEF fenceVars, TypeOK
<1> QED BY <1>1, <1>2, PTL DEF Spec

(* Every step keeps the invariant, and no step lowers a floor. *)
LEMMA StepKeeps ==
    ASSUME OneKindOfCrash, IInv, Next
    PROVE  IInv' /\ GrowsFloors
<1>1. \A c \in Characters : floor[c] \in Nat
  BY RewardFenceAssumption DEF IInv, TypeOK, Epochs
<1>2. CASE Reserves
  <2>1. PICK c \in Characters : ReserveReward(c)
    BY <1>2 DEF Reserves
  <2>2. GrowsFloors
    BY <1>1, <2>1 DEF ReserveReward, GrowsFloors
  <2> QED BY <2>1, <2>2, ReserveKeeps
<1>3. CASE Seals
  <2>1. PICK c \in Characters, image \in Record : BeginRewardIntent(c, image)
    BY <1>3 DEF Seals
  <2>2. GrowsFloors
    BY <1>1, <2>1 DEF BeginRewardIntent, GrowsFloors
  <2> QED BY <2>1, <2>2, SealKeeps
<1>4. CASE Writes
  <2>1. PICK c \in Characters, outcome \in WriteOutcomes :
                WritePreparedReward(c, outcome)
    BY <1>4 DEF Writes
  <2>2. /\ fence[c] \in Token /\ fence[c] # NoToken
        /\ fence[c].epoch = IF fence[c].written THEN floor[c] ELSE floor[c] + 1
    BY <2>1 DEF WritePreparedReward, Fenced, IInv, TypeOK,
                TokenFollowsFloor
  <2>3. fence[c].epoch \in Nat /\ fence[c].epoch >= floor[c]
    BY <1>1, <2>2, RewardFenceAssumption DEF Epochs, Token
  <2>4. GrowsFloors
    BY <1>1, <2>1, <2>3 DEF WritePreparedReward, IInv, TypeOK,
                            GrowsFloors
  <2> QED BY <2>1, <2>4, WriteKeeps
<1>5. CASE Ends
  <2>1. PICK c \in Characters : ReleaseReward(c) \/ AbortReward(c)
    BY <1>5 DEF Ends
  <2>2. GrowsFloors
    BY <1>1, <2>1 DEF ReleaseReward, AbortReward, GrowsFloors
  <2> QED BY <2>1, <2>2, EndKeeps
<1>6. CASE Saves
  <2>1. PICK c \in Characters, rec \in Record, outcome \in WriteOutcomes :
                Save(c, rec, outcome)
    BY <1>6 DEF Saves
  <2>2. GrowsFloors
    BY <1>1, <2>1 DEF Save, GrowsFloors
  <2> QED BY <2>1, <2>2, SaveKeeps
<1>7. CASE Crash
  BY <1>7, CrashKeeps
<1> QED BY <1>2, <1>3, <1>4, <1>5, <1>6, <1>7 DEF Next

LEMMA StutterKeeps ==
    ASSUME IInv, UNCHANGED fenceVars
    PROVE  IInv'
  BY DEF fenceVars, IInv, TypeOK, RecordIsReadable, TokenFollowsFloor,
         FloorIsDurable, PowerLossOnly

LEMMA FenceInvariant ==
    ASSUME OneKindOfCrash
    PROVE  Spec => []IInv
<1>1. Init => IInv
  BY FenceInit
<1>2. IInv /\ [Next]_fenceVars => IInv'
  BY StepKeeps, StutterKeeps
<1> QED BY <1>1, <1>2, PTL DEF Spec

-----------------------------------------------------------------------------
(* Records, tokens and floors are well formed whatever the callers do and    *)
(* however the process dies.                                                 *)
THEOREM FenceTypeCorrect == Spec => []TypeOK
BY FenceShape

(* A confirmed reward survives every power loss: no content the record may   *)
(* turn out to hold is older than the floor (WritePreparedReward, Save).     *)
THEOREM ConfirmedRewardIsDurable ==
    ASSUME PowerLossOnly
    PROVE  Spec => []FloorIsDurable
<1>1. OneKindOfCrash
  BY DEF PowerLossOnly, OneKindOfCrash
<1>2. IInv => FloorIsDurable
  BY DEF IInv
<1> QED BY <1>1, <1>2, FenceInvariant, PTL

(* The reward epoch a save must carry never goes back, restarts after either *)
(* kind of crash included.                                                   *)
THEOREM EpochNeverGoesBack ==
    ASSUME OneKindOfCrash
    PROVE  Spec => FloorsOnlyGrow
<1>1. IInv /\ [Next]_fenceVars => [GrowsFloors]_fenceVars
  BY StepKeeps
<1> QED BY <1>1, FenceInvariant, PTL DEF Spec, FloorsOnlyGrow

(* While a reservation stands only the image it sealed reaches the record    *)
(* (Save is refused, WritePreparedReward writes nothing else).               *)
THEOREM BarrierAdmitsOnlyTheImage == Spec => OnlyTheImageLands
<1>1. TypeOK /\ [Next]_fenceVars
          => [Crash \/ \A c \in Characters : OnlyImageLands(c)]_fenceVars
  BY StepKeepsShape
<1> QED BY <1>1, FenceShape, PTL DEF Spec, OnlyTheImageLands

(* A sealed image is kept, unchanged, until its write is confirmed. *)
THEOREM SealedImageStays == Spec => SealedImageIsKept
<1>1. TypeOK /\ [Next]_fenceVars
          => [Crash \/ \A c \in Characters : KeepsSealed(c)]_fenceVars
  BY StepKeepsShape
<1> QED BY <1>1, FenceShape, PTL DEF Spec, SealedImageIsKept
=============================================================================
