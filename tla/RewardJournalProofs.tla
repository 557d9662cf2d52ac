------------------------- MODULE RewardJournalProofs -------------------------
(***************************************************************************)
(* What the boss reward journal guarantees for every instance, proved from *)
(* one inductive invariant: the image in memory is valid, and a write in   *)
(* doubt is a valid image that one operation leads to from it.             *)
(***************************************************************************)
EXTENDS RewardJournal, FiniteSetTheorems, TLAPS

(* A process death leaves the file as its next reader sees it, and reopening *)
(* does not make a doubtful rename durable.  The guarantees below are for a  *)
(* world in which a power loss never follows such a death before the journal *)
(* has been written again.                                                   *)
OneKindOfCrash == ~({"process", "power"} \subseteq Crashes)

(* Everything one image may do to the next. *)
Succeeds(j, k) ==
    /\ LeavesOnlyAsTaken(j, k)
    /\ KeepsTaken(j, k)
    /\ KeepsEntitlements(j, k)
    /\ KeepsGenerations(j, k)

IInv ==
    /\ TypeOK
    /\ Valid(journal)
    /\ uncertain # NoImage => Valid(uncertain) /\ Succeeds(journal, uncertain)
    /\ OneWriteInDoubt

-----------------------------------------------------------------------------
(* Facts about images. *)

LEMMA SucceedsReflexive ==
    ASSUME NEW j \in Image PROVE Succeeds(j, j)
BY DEF Image, Succeeds, LeavesOnlyAsTaken, KeepsTaken, KeepsEntitlements, KeepsGenerations

LEMMA EmptyImageOK == EmptyImage \in Image /\ Valid(EmptyImage)
<1>1. EmptyImage \in Image
  <2>1. EmptyImage.next \in 1..(MaxGeneration + 1)
    BY RewardJournalAssumption DEF EmptyImage
  <2>2. EmptyImage.runs \in UNION {[known -> RunIds] : known \in SUBSET Generations}
    <3>1. [g \in {} |-> NoImage] \in [{} -> RunIds]
      OBVIOUS
    <3> QED BY <3>1 DEF EmptyImage
  <2> QED BY <2>1, <2>2 DEF EmptyImage, Image
<1>2. Valid(EmptyImage)
  BY FS_EmptySet, RewardJournalAssumption DEF EmptyImage, Valid
<1> QED BY <1>1, <1>2

(* Each transition leads from an image of the right type to another one that *)
(* succeeds it.                                                              *)

LEMMA SharesOfType ==
    ASSUME NEW i \in Intent PROVE SharesOf(i) \subseteq Share
BY DEF Intent, SharesOf, Share

LEMMA WithRunOK ==
    ASSUME NEW j \in Image, Valid(j),
           NEW g \in Generations, g = j.next, NEW id \in RunIds,
           NEW bound \in SUBSET Characters, NEW defeats \in SUBSET Bosses,
           NEW rows \in SUBSET (defeats \X Characters \X Parts)
    PROVE  /\ WithRun(j, g, id, bound, defeats, rows) \in Image
           /\ Succeeds(j, WithRun(j, g, id, bound, defeats, rows))
<1> DEFINE k == WithRun(j, g, id, bound, defeats, rows)
<1>1. k.next \in 1..(MaxGeneration + 1)
  BY RewardJournalAssumption DEF WithRun, Image, Generations
<1>2. k.runs \in [DOMAIN j.runs \cup {g} -> RunIds] /\ DOMAIN j.runs \subseteq Generations
  BY DEF WithRun, Image
<1>3. k.runs \in UNION {[known -> RunIds] : known \in SUBSET Generations}
  BY <1>2
<1>4. k.owed \subseteq Share
  BY DEF WithRun, Image, Share
<1>5. k \in Image
  BY <1>1, <1>3, <1>4 DEF WithRun, Image
<1>6. /\ k.intents = j.intents /\ k.taken = j.taken
      /\ k.owed = j.owed \cup {<<g, r[1], r[2], r[3]>> : r \in rows}
      /\ DOMAIN k.runs = DOMAIN j.runs \cup {g}
      /\ \A h \in DOMAIN j.runs : k.runs[h] = j.runs[h]
  <2>1. g \notin DOMAIN j.runs
    BY <1>2 DEF Valid, Generations
  <2>2. k.runs = [h \in DOMAIN j.runs \cup {g} |-> IF h = g THEN id ELSE j.runs[h]]
    BY DEF WithRun, Image
  <2>3. /\ k.intents = j.intents /\ k.taken = j.taken
        /\ k.owed = j.owed \cup {<<g, r[1], r[2], r[3]>> : r \in rows}
    BY DEF WithRun, Image
  <2> HIDE DEF k
  <2> QED BY <2>1, <2>2, <2>3
<1>7. KeepsEntitlements(j, k)
  <2> SUFFICES ASSUME NEW d \in j.defeats
               PROVE  DefeatShares(k.owed, d[1], d[2]) = DefeatShares(j.owed, d[1], d[2])
    BY DEF KeepsEntitlements
  <2>1. d[1] # g
    BY <1>2 DEF Valid, Generations
  <2> QED BY <2>1, <1>6 DEF DefeatShares
<1>8. LeavesOnlyAsTaken(j, k) /\ KeepsTaken(j, k)
  BY <1>6 DEF LeavesOnlyAsTaken, KeepsTaken
<1>9. KeepsGenerations(j, k)
  <2>1. k.next >= j.next
    BY DEF WithRun, Image, Generations
  <2> QED BY <2>1, <1>6, <1>2 DEF KeepsGenerations, Generations
<1> QED BY <1>5, <1>7, <1>8, <1>9 DEF Succeeds

LEMMA WithDefeatOK ==
    ASSUME NEW j \in Image, Valid(j),
           NEW g \in DOMAIN j.runs, NEW boss \in Bosses,
           NEW rows \in SUBSET (Characters \X Parts), NEW bound \in SUBSET Characters,
           <<g, boss>> \in j.defeats => DefeatRows(g, boss, rows) = DefeatShares(j.owed, g, boss)
    PROVE  /\ WithDefeat(j, g, boss, rows, bound) \in Image
           /\ Succeeds(j, WithDefeat(j, g, boss, rows, bound))
<1> DEFINE k == WithDefeat(j, g, boss, rows, bound)
<1>1. g \in Generations
  BY DEF Image
<1>2. DefeatRows(g, boss, rows) \subseteq Share
  BY <1>1 DEF DefeatRows, Share
<1>3. k \in Image
  <2>1. {<<g, boss>>} \subseteq Generations \X Bosses /\ {g} \X bound \subseteq Generations \X Characters
    BY <1>1
  <2> QED BY <2>1, <1>2 DEF WithDefeat, Image
<1>4. /\ k.next = j.next /\ j.next \in Nat
      /\ k.intents = j.intents /\ k.taken = j.taken /\ k.runs = j.runs
      /\ k.owed = j.owed \cup DefeatRows(g, boss, rows)
  BY DEF WithDefeat, Image
<1>5. KeepsEntitlements(j, k)
  <2> SUFFICES ASSUME NEW d \in j.defeats
               PROVE  DefeatShares(k.owed, d[1], d[2]) = DefeatShares(j.owed, d[1], d[2])
    BY DEF KeepsEntitlements
  <2>1. d \in Generations \X Bosses
    BY DEF Image
  <2>2. CASE d = <<g, boss>>
    <3>1. DefeatRows(g, boss, rows) = DefeatShares(j.owed, g, boss)
      BY <2>2
    <3>2. k.owed = j.owed \cup DefeatShares(j.owed, g, boss)
      BY <3>1, <1>4
    <3> QED BY <3>2 DEF DefeatShares
  <2>3. CASE d # <<g, boss>>
    <3>1. d[1] # g \/ d[2] # boss
      BY <2>1, <2>3
    <3>2. \A s \in DefeatRows(g, boss, rows) : s[1] = g /\ s[2] = boss
      BY DEF DefeatRows
    <3> QED BY <3>1, <3>2, <1>4 DEF DefeatShares
  <2> QED BY <2>2, <2>3
<1>6. LeavesOnlyAsTaken(j, k) /\ KeepsTaken(j, k) /\ KeepsGenerations(j, k)
  BY <1>4 DEF LeavesOnlyAsTaken, KeepsTaken, KeepsGenerations
<1> QED BY <1>3, <1>5, <1>6 DEF Succeeds

LEMMA WithIntentOK ==
    ASSUME NEW j \in Image, NEW i \in Intent
    PROVE  WithIntent(j, i) \in Image /\ Succeeds(j, WithIntent(j, i))
BY DEF WithIntent, Image, Succeeds, LeavesOnlyAsTaken, KeepsTaken, KeepsEntitlements,
       KeepsGenerations

LEMMA AcknowledgedOK ==
    ASSUME NEW j \in Image, NEW done \in SUBSET j.intents
    PROVE  Acknowledged(j, done) \in Image /\ Succeeds(j, Acknowledged(j, done))
<1> DEFINE k == Acknowledged(j, done)
<1>1. UNION {SharesOf(i) : i \in done} \subseteq Share
  BY SharesOfType DEF Image
<1>2. k \in Image
  BY <1>1 DEF Acknowledged, Image
<1>3. /\ k.next = j.next /\ j.next \in Nat
      /\ k.runs = j.runs /\ k.owed = j.owed /\ k.intents = j.intents \ done
      /\ k.taken = j.taken \cup UNION {SharesOf(i) : i \in done}
  BY DEF Acknowledged, Image
<1>4. LeavesOnlyAsTaken(j, k)
  BY <1>3 DEF LeavesOnlyAsTaken
<1>5. KeepsTaken(j, k) /\ KeepsEntitlements(j, k) /\ KeepsGenerations(j, k)
  BY <1>3 DEF KeepsTaken, KeepsEntitlements, KeepsGenerations
<1> QED BY <1>2, <1>4, <1>5 DEF Succeeds

LEMMA CollectedOK ==
    ASSUME NEW j \in Image, NEW kept \in SUBSET DOMAIN j.runs
    PROVE  Collected(j, kept) \in Image /\ Succeeds(j, Collected(j, kept))
<1> DEFINE k == Collected(j, kept)
<1>1. kept \in SUBSET Generations /\ k.runs \in [kept -> RunIds]
  BY DEF Collected, Image
<1>2. k.runs \in UNION {[known -> RunIds] : known \in SUBSET Generations}
  BY <1>1
<1>3. k \in Image
  BY <1>2 DEF Collected, Image
<1>4. /\ k.next = j.next /\ j.next \in Nat
      /\ k.intents = j.intents /\ DOMAIN k.runs = kept
      /\ \A g \in kept : k.runs[g] = j.runs[g]
      /\ k.owed = {s \in j.owed : s[1] \in kept}
      /\ k.taken = {s \in j.taken : s[1] \in kept}
  BY DEF Collected, Image
<1>5. KeepsEntitlements(j, k)
  BY <1>4 DEF KeepsEntitlements, DefeatShares
<1>6. LeavesOnlyAsTaken(j, k) /\ KeepsTaken(j, k) /\ KeepsGenerations(j, k)
  BY <1>4 DEF LeavesOnlyAsTaken, KeepsTaken, KeepsGenerations
<1> QED BY <1>3, <1>5, <1>6 DEF Succeeds

-----------------------------------------------------------------------------
(* The invariant. *)

LEMMA WrittenType ==
    ASSUME NEW Content, NEW file \in Files(Content), NEW content \in Content,
           NEW outcome \in WriteOutcomes
    PROVE  /\ Written(file, content, outcome) \in Files(Content)
           /\ Written(file, content, outcome).now \in {file.now, content}
           /\ Written(file, content, outcome).mayBe \subseteq file.mayBe \cup {content}
BY DEF Files, Written, WriteOutcomes, Settled

(* What a restart may read, for the two kinds of crash. *)
LEMMA InDoubt ==
    OneWriteInDoubt <=> /\ "process" \in Crashes => journalFile.now \in {journal, uncertain}
                        /\ "power" \in Crashes => journalFile.mayBe \subseteq {journal, uncertain}
<1>1. ASSUME "process" \in Crashes
      PROVE  (\A file \in FilesAfter("process", journalFile) : file.now \in {journal, uncertain})
                <=> journalFile.now \in {journal, uncertain}
  BY DEF FilesAfter
<1>2. ASSUME "power" \in Crashes
      PROVE  (\A file \in FilesAfter("power", journalFile) : file.now \in {journal, uncertain})
                <=> journalFile.mayBe \subseteq {journal, uncertain}
  <2>1. FilesAfter("power", journalFile) = {[now |-> c, mayBe |-> {c}] : c \in journalFile.mayBe}
    BY DEF FilesAfter, AfterPowerLoss, Settled
  <2>2. (\A file \in FilesAfter("power", journalFile) : file.now \in {journal, uncertain})
           <=> \A c \in journalFile.mayBe : [now |-> c, mayBe |-> {c}].now \in {journal, uncertain}
    BY <2>1, Zenon
  <2> QED BY <2>2
<1>3. OneWriteInDoubt <=>
        /\ "process" \in Crashes =>
              \A file \in FilesAfter("process", journalFile) : file.now \in {journal, uncertain}
        /\ "power" \in Crashes =>
              \A file \in FilesAfter("power", journalFile) : file.now \in {journal, uncertain}
  <2>1. \A crash \in Crashes : crash = "process" \/ crash = "power"
    BY RewardJournalAssumption
  <2> QED BY <2>1, Zenon DEF OneWriteInDoubt
<1> QED BY <1>1, <1>2, <1>3

LEMMA CommitKeepsIInv ==
    ASSUME IInv, NEW next \in Image, NEW acknowledged, NEW outcome \in WriteOutcomes,
           Succeeds(journal, next), Commit(next, acknowledged, outcome)
    PROVE  IInv' /\ Succeeds(journal, journal')
<1>1. Valid(next) /\ uncertain \in {NoImage, next} /\ journalFile' = Written(journalFile, next, outcome)
  BY DEF Commit, Committable
<1>2. /\ journalFile' \in Files(Image)
      /\ journalFile'.now \in {journalFile.now, next}
      /\ journalFile'.mayBe \subseteq journalFile.mayBe \cup {next}
  BY <1>1, WrittenType DEF IInv, TypeOK
<1>3. CASE outcome = "done"
  <2>1. journal' = next /\ uncertain' = NoImage
    BY <1>3 DEF Commit
  <2>2. journalFile'.now = next /\ journalFile'.mayBe = {next}
    BY <1>1, <1>3 DEF Written, Settled
  <2>3. OneWriteInDoubt'
    <3>1. \A file \in AfterPowerLoss(journalFile') : file.now = next
      BY <2>2 DEF AfterPowerLoss, Settled
    <3> QED BY <2>1, <2>2, <3>1 DEF OneWriteInDoubt, FilesAfter
  <2> QED BY <1>1, <1>2, <2>1, <2>3 DEF IInv, TypeOK
<1>4. CASE outcome # "done"
  <2>1. journal' = journal /\ uncertain' = next
    BY <1>4 DEF Commit
  <2>2. /\ "process" \in Crashes => journalFile.now \in {journal, next, NoImage}
        /\ "power" \in Crashes => journalFile.mayBe \subseteq {journal, next, NoImage}
    BY <1>1, InDoubt DEF IInv
  <2>3. journalFile.now # NoImage /\ NoImage \notin journalFile.mayBe
    BY RewardJournalAssumption DEF IInv, TypeOK, Files
  <2>4. /\ "process" \in Crashes => journalFile'.now \in {journal, next}
        /\ "power" \in Crashes => journalFile'.mayBe \subseteq {journal, next}
    BY <1>2, <2>2, <2>3
  <2>5. OneWriteInDoubt'
    BY <2>1, <2>4, RewardJournalAssumption DEF OneWriteInDoubt, FilesAfter, AfterPowerLoss, Settled
  <2>6. Succeeds(journal, journal')
    BY <2>1, SucceedsReflexive DEF IInv, TypeOK
  <2> QED BY <1>1, <1>2, <2>1, <2>5, <2>6 DEF IInv, TypeOK
<1> QED BY <1>3, <1>4

LEMMA CrashKeepsIInv ==
    ASSUME OneKindOfCrash, IInv, Crash
    PROVE  IInv' /\ Succeeds(journal, journal')
<1>0. PICK crash \in Crashes : \E file \in FilesAfter(crash, journalFile) : Reopen(file)
  BY DEF Crash
<1>1. PICK file \in FilesAfter(crash, journalFile) : Reopen(file)
  BY <1>0
<1>2. journalFile' = file /\ journal' = file.now /\ uncertain' = NoImage
  BY <1>1 DEF Reopen
<1>3. file.now \in {journal, uncertain}
  BY <1>1 DEF IInv, OneWriteInDoubt
<1>4. file \in Files(Image)
  BY RewardJournalAssumption DEF IInv, TypeOK, FilesAfter, AfterPowerLoss, Settled, Files
<1>5. file.now \in Image /\ file.now # NoImage
  BY <1>4, RewardJournalAssumption DEF Files
<1>6. Valid(journal') /\ Succeeds(journal, journal')
  BY <1>2, <1>3, <1>5, SucceedsReflexive DEF IInv
<1>7. OneWriteInDoubt'
  <2>1. CASE crash = "process"
    <3>1. Crashes = {"process"}
      BY <1>1, <2>1, RewardJournalAssumption DEF OneKindOfCrash
    <3> QED BY <3>1, <1>2 DEF OneWriteInDoubt, FilesAfter
  <2>2. CASE crash = "power"
    <3>1. file.mayBe = {file.now}
      BY <2>2 DEF FilesAfter, AfterPowerLoss, Settled
    <3> QED BY <3>1, <1>2 DEF OneWriteInDoubt, FilesAfter, AfterPowerLoss, Settled
  <2> QED BY <2>1, <2>2, RewardJournalAssumption
<1> QED BY <1>2, <1>4, <1>5, <1>6, <1>7 DEF IInv, TypeOK

LEMMA NextKeepsIInv ==
    ASSUME OneKindOfCrash, IInv, [Next]_journalVars
    PROVE  IInv' /\ Succeeds(journal, journal')
<1> USE DEF IInv, TypeOK
<1>1. CASE Allocates
  <2>1. PICK id \in RunIds, bound \in SUBSET Characters, defeats \in SUBSET Bosses,
             outcome \in WriteOutcomes :
          \E rows \in SUBSET (defeats \X Characters \X Parts) :
             AllocateRun(journal.next, id, bound, defeats, rows, outcome)
    BY <1>1 DEF Allocates
  <2>2. PICK rows \in SUBSET (defeats \X Characters \X Parts) :
             AllocateRun(journal.next, id, bound, defeats, rows, outcome)
    BY <2>1
  <2> QED BY <2>2, WithRunOK, CommitKeepsIInv DEF AllocateRun
<1>2. CASE Appends
  <2>1. PICK g \in Generations, boss \in Bosses, bound \in SUBSET Characters,
             outcome \in WriteOutcomes :
          \E rows, taken \in SUBSET (Characters \X Parts) :
             AppendDefeat(g, boss, rows, taken, bound, outcome)
    BY <1>2 DEF Appends
  <2>2. PICK rows \in SUBSET (Characters \X Parts), taken \in SUBSET (Characters \X Parts) :
             AppendDefeat(g, boss, rows, taken, bound, outcome)
    BY <2>1
  <2> QED BY <2>2, WithDefeatOK, CommitKeepsIInv DEF AppendDefeat
<1>3. CASE Prepares
  BY <1>3, WithIntentOK, CommitKeepsIInv DEF Prepares, PrepareClaim
<1>4. CASE Acknowledges
  BY <1>4, AcknowledgedOK, CommitKeepsIInv DEF Acknowledges, AcknowledgeClaim, AcknowledgeAll
<1>5. CASE Expiries
  <2>1. PICK now \in 0..MaxTime, retain \in SUBSET Generations, outcome \in WriteOutcomes :
             ExpireRuns(now, retain, outcome)
    BY <1>5 DEF Expiries
  <2>2. KeptAt(journal, now, retain) \subseteq DOMAIN journal.runs
    BY DEF KeptAt
  <2> QED BY <2>1, <2>2, CollectedOK, CommitKeepsIInv DEF ExpireRuns
<1>6. CASE Crash
  BY <1>6, CrashKeepsIInv
<1>7. CASE UNCHANGED journalVars
  <2>1. journal' = journal /\ uncertain' = uncertain /\ journalFile' = journalFile
    BY <1>7 DEF journalVars
  <2> QED BY <2>1, SucceedsReflexive DEF OneWriteInDoubt, FilesAfter
<1> QED BY <1>1, <1>2, <1>3, <1>4, <1>5, <1>6, <1>7 DEF Next

LEMMA InitIInv == Init => IInv
<1> SUFFICES ASSUME Init PROVE IInv
  OBVIOUS
<1>1. journal = EmptyImage /\ uncertain = NoImage /\ journalFile = Settled(EmptyImage)
  BY DEF Init
<1>2. TypeOK /\ Valid(journal)
  BY <1>1, EmptyImageOK DEF TypeOK, Settled, Files
<1>3. OneWriteInDoubt
  BY <1>1 DEF OneWriteInDoubt, FilesAfter, AfterPowerLoss, Settled
<1> QED BY <1>1, <1>2, <1>3 DEF IInv

(* The invariant of every reachable state, from which the guarantees follow. *)
THEOREM Invariance == ASSUME OneKindOfCrash PROVE Spec => []IInv
<1>1. IInv /\ [Next]_journalVars => IInv'
  BY NextKeepsIInv
<1> QED BY <1>1, InitIInv, PTL DEF Spec

-----------------------------------------------------------------------------
(* The guarantees. *)

(* Every image in memory, in doubt and on disk is well formed. *)
THEOREM JournalTypeCorrect == ASSUME OneKindOfCrash PROVE Spec => []TypeOK
<1>1. IInv => TypeOK
  BY DEF IInv
<1> QED BY <1>1, Invariance, PTL

(* Whatever a crash leaves is the image in memory or the one write in doubt. *)
THEOREM AtMostOneWriteInDoubt == ASSUME OneKindOfCrash PROVE Spec => []OneWriteInDoubt
<1>1. IInv => OneWriteInDoubt
  BY DEF IInv
<1> QED BY <1>1, Invariance, PTL

(* No operation, write error or crash loses a prepared claim. *)
THEOREM IntentsAreNeverLost == ASSUME OneKindOfCrash PROVE Spec => IntentLeavesOnlyAsTaken
<1>1. IInv /\ [Next]_journalVars => [LeavesOnlyAsTaken(journal, journal')]_journalVars
  BY NextKeepsIInv DEF Succeeds
<1> QED BY <1>1, Invariance, PTL DEF Spec, IntentLeavesOnlyAsTaken

(* No operation, write error or crash offers a taken share again. *)
THEOREM TakenIsNeverOfferedAgain == ASSUME OneKindOfCrash PROVE Spec => TakenStaysTaken
<1>1. IInv /\ [Next]_journalVars => [KeepsTaken(journal, journal')]_journalVars
  BY NextKeepsIInv DEF Succeeds
<1> QED BY <1>1, Invariance, PTL DEF Spec, TakenStaysTaken

(* What a journaled defeat owes never changes. *)
THEOREM EntitlementsNeverChange == ASSUME OneKindOfCrash PROVE Spec => EntitlementsFrozen
<1>1. IInv /\ [Next]_journalVars => [KeepsEntitlements(journal, journal')]_journalVars
  BY NextKeepsIInv DEF Succeeds
<1> QED BY <1>1, Invariance, PTL DEF Spec, EntitlementsFrozen

(* A generation is never reused, across any number of restarts. *)
THEOREM GenerationsAreNeverReused == ASSUME OneKindOfCrash PROVE Spec => GenerationNamesOneRun
<1>1. IInv /\ [Next]_journalVars => [KeepsGenerations(journal, journal')]_journalVars
  BY NextKeepsIInv DEF Succeeds
<1> QED BY <1>1, Invariance, PTL DEF Spec, GenerationNamesOneRun
=============================================================================
