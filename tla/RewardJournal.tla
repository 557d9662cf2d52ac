---------------------------- MODULE RewardJournal ----------------------------
(***************************************************************************)
(* persist.RewardStore: the serialized journal of what saved dungeon runs  *)
(* still owe (server/internal/persist/rewards.go, reward_transitions.go,   *)
(* reward_expiry.go).  Every operation builds the next image from the one  *)
(* in memory and commits it through one atomic file write; a write whose   *)
(* outcome is unknown locks its exact bytes until they have been retried.  *)
(*                                                                         *)
(* Rows are kept as relations: a share <<generation, boss, owner, part>>   *)
(* is one roll entry, the silver or the experience that one defeat owes    *)
(* one character.  The revision is left out: it counts commits, and every  *)
(* caller reads it under the lock that the commit holds.                   *)
(***************************************************************************)
EXTENDS Naturals, FiniteSets, AtomicFile

CONSTANTS
    Characters,    \* the owners of shares
    RunIds,        \* identities of saved runs: seed, ruin and reset
    Expires,       \* the reset of each run identity
    Bosses,        \* dungeon boss species
    Parts,         \* roll entries, the silver, the experience
    Postimages,    \* complete character records an intent may carry
    MaxGeneration, \* bound: how many generations are ever issued
    MaxRuns,       \* MaxRewardRuns
    MaxIntents,    \* MaxRewardIntents
    MaxTime,       \* bound: the latest second of the wall clock
    Crashes,       \* which crashes happen: a subset of {"process", "power"}
    NoImage        \* no write is in doubt

VARIABLES
    journal,      \* RewardStore.journal, the last confirmed image
    uncertain,    \* RewardStore.uncertain, the image whose write is in doubt
    journalFile   \* boss-rewards.bin

journalVars == <<journal, uncertain, journalFile>>

-----------------------------------------------------------------------------
(* Images. *)

Generations == 1..MaxGeneration
Share == Generations \X Bosses \X Characters \X Parts

Intent == [gen : Generations, boss : Bosses, owner : Characters,
           parts : SUBSET Parts, image : Postimages]

Image == [next    : 1..(MaxGeneration + 1),
          runs    : UNION {[known -> RunIds] : known \in SUBSET Generations},
          bound   : SUBSET (Generations \X Characters),
          defeats : SUBSET (Generations \X Bosses),
          owed    : SUBSET Share,
          taken   : SUBSET Share,
          intents : SUBSET Intent]

ASSUME RewardJournalAssumption ==
    /\ MaxGeneration \in Nat /\ MaxTime \in Nat
    /\ MaxRuns \in Nat /\ MaxIntents \in Nat
    /\ Expires \in [RunIds -> Nat]
    /\ Crashes \subseteq {"process", "power"}
    /\ NoImage \notin Image

EmptyImage == [next |-> 1, runs |-> [g \in {} |-> NoImage], bound |-> {},
               defeats |-> {}, owed |-> {}, taken |-> {}, intents |-> {}]

SharesOf(intent) == {intent.gen} \X {intent.boss} \X {intent.owner} \X intent.parts

(* validateRewardJournal. *)
ValidIntent(j, intent) ==
    /\ intent.gen \in DOMAIN j.runs
    /\ <<intent.gen, intent.boss>> \in j.defeats
    /\ intent.parts # {}
    /\ SharesOf(intent) \subseteq j.owed \ j.taken

Valid(j) ==
    /\ \A g \in DOMAIN j.runs : g < j.next
    /\ Cardinality(DOMAIN j.runs) <= MaxRuns
    /\ Cardinality(j.intents) <= MaxIntents
    /\ \A d \in j.defeats : d[1] \in DOMAIN j.runs
    /\ \A b \in j.bound : b[1] \in DOMAIN j.runs
    /\ \A s \in j.owed : <<s[1], s[2]>> \in j.defeats
    /\ j.taken \subseteq j.owed
    /\ \A i \in j.intents : ValidIntent(j, i)
    /\ \A i, k \in j.intents : i.owner = k.owner => i = k

-----------------------------------------------------------------------------
(* The images the transitions build. *)

(* A new run's rows are <<boss, owner, part>>, a new defeat's <<owner, part>>. *)
WithRun(j, g, id, bound, defeats, rows) ==
    [j EXCEPT !.next = g + 1,
              !.runs = [h \in DOMAIN j.runs \cup {g} |-> IF h = g THEN id ELSE j.runs[h]],
              !.bound = @ \cup ({g} \X bound),
              !.defeats = @ \cup ({g} \X defeats),
              !.owed = @ \cup {<<g, r[1], r[2], r[3]>> : r \in rows}]

DefeatRows(g, boss, rows) == {<<g, boss, r[1], r[2]>> : r \in rows}

(* Mutant: the stored defeat is rebuilt, its taken flags with it. *)
MutantWithDefeat(j, g, boss, rows, bound) ==
    [j EXCEPT !.defeats = @ \cup {<<g, boss>>},
              !.owed = @ \cup DefeatRows(g, boss, rows),
              !.taken = @ \ DefeatRows(g, boss, rows),
              !.bound = @ \cup ({g} \X bound)]

WithDefeat(j, g, boss, rows, bound) ==
    [j EXCEPT !.defeats = @ \cup {<<g, boss>>},
              !.owed = @ \cup DefeatRows(g, boss, rows),
              !.bound = @ \cup ({g} \X bound)]

WithIntent(j, intent) == [j EXCEPT !.intents = @ \cup {intent}]

(* Mutant: the intent is removed and its entitlement left owed. *)
MutantAcknowledged(j, done) == [j EXCEPT !.intents = @ \ done]

(* markRewardAcknowledged, for every intent of done. *)
Acknowledged(j, done) ==
    [j EXCEPT !.taken = @ \cup UNION {SharesOf(i) : i \in done},
              !.intents = @ \ done]

(* The runs a collection keeps: not yet reset, named by an intent, or retained. *)
KeptAt(j, now, retain) ==
    {g \in DOMAIN j.runs : \/ Expires[j.runs[g]] > now
                           \/ \E i \in j.intents : i.gen = g
                           \/ g \in retain}

Collected(j, kept) ==
    [j EXCEPT !.runs = [g \in kept |-> j.runs[g]],
              !.bound = {b \in @ : b[1] \in kept},
              !.defeats = {d \in @ : d[1] \in kept},
              !.owed = {s \in @ : s[1] \in kept},
              !.taken = {s \in @ : s[1] \in kept}]

DefeatShares(shares, g, boss) == {s \in shares : s[1] = g /\ s[2] = boss}

-----------------------------------------------------------------------------
(* commitLocked: only verified acknowledgements remove an intent, a new run  *)
(* takes a generation never issued, and while a write is in doubt nothing    *)
(* but its own bytes may be written.                                         *)

(* Mutant: an ordinary operation is written over a doubtful one. *)
MutantCommittable(next, acknowledged) ==
    /\ next.next >= journal.next
    /\ journal.intents \ next.intents \subseteq acknowledged
    /\ \A g \in DOMAIN next.runs \ DOMAIN journal.runs : g >= journal.next
    /\ Valid(next)

Committable(next, acknowledged) ==
    /\ next.next >= journal.next
    /\ journal.intents \ next.intents \subseteq acknowledged
    /\ \A g \in DOMAIN next.runs \ DOMAIN journal.runs : g >= journal.next
    /\ Valid(next)
    /\ uncertain \in {NoImage, next}

Commit(next, acknowledged, outcome) ==
    /\ Committable(next, acknowledged)
    /\ journalFile' = Written(journalFile, next, outcome)
    /\ IF outcome = "done"
       THEN journal' = next /\ uncertain' = NoImage
       ELSE uncertain' = next /\ UNCHANGED journal

-----------------------------------------------------------------------------
(* The operations.  One that would change nothing, or that the journal       *)
(* refuses, writes nothing and is no step.                                   *)

(* Mutant: the generation counter is not checked for exhaustion. *)
MutantAllocateRun(g, id, bound, defeats, rows, outcome) ==
    /\ g = journal.next
    /\ Commit(WithRun(journal, g, id, bound, defeats, rows), {}, outcome)

AllocateRun(g, id, bound, defeats, rows, outcome) ==
    /\ g = journal.next /\ g \in Generations
    /\ Commit(WithRun(journal, g, id, bound, defeats, rows), {}, outcome)

(* Mutant: a recorded defeat accepts rows it did not owe. *)
MutantAppendDefeat(g, boss, rows, taken, bound, outcome) ==
    /\ g \in DOMAIN journal.runs
    /\ <<g, boss>> \in journal.defeats \/ taken = {}
    /\ Commit(WithDefeat(journal, g, boss, rows, bound), {}, outcome)

(* The defeat is new and wholly unconsumed, or exactly the stored one, which *)
(* then only adds bindings.                                                  *)
AppendDefeat(g, boss, rows, taken, bound, outcome) ==
    /\ g \in DOMAIN journal.runs
    /\ IF <<g, boss>> \in journal.defeats
       THEN /\ DefeatRows(g, boss, rows) = DefeatShares(journal.owed, g, boss)
            /\ DefeatRows(g, boss, taken) = DefeatShares(journal.taken, g, boss)
            /\ ~({g} \X bound \subseteq journal.bound)
       ELSE taken = {}
    /\ Commit(WithDefeat(journal, g, boss, rows, bound), {}, outcome)

PrepareClaim(intent, outcome) ==
    /\ \A i \in journal.intents : i.owner # intent.owner
    /\ Commit(WithIntent(journal, intent), {}, outcome)

AcknowledgeClaim(intent, outcome) ==
    /\ intent \in journal.intents
    /\ Commit(Acknowledged(journal, {intent}), {intent}, outcome)

ExpireRuns(now, retain, outcome) ==
    /\ KeptAt(journal, now, retain) # DOMAIN journal.runs
    /\ Commit(Collected(journal, KeptAt(journal, now, retain)), {}, outcome)

(* The end of recoverRecordsLocked: every intent acknowledged in one write.  *)
AcknowledgeAll(outcome) ==
    /\ journal.intents # {}
    /\ Commit(Acknowledged(journal, journal.intents), journal.intents, outcome)

-----------------------------------------------------------------------------
(* A crash, and OpenRewardStore in the next process. *)

(* Mutant: the next generation is counted from the runs found. *)
MutantReopen(file) ==
    /\ journalFile' = file
    /\ journal' = [file.now EXCEPT !.next =
                      CHOOSE n \in 1..(MaxGeneration + 1) :
                         /\ \A g \in DOMAIN file.now.runs : g < n
                         /\ n = 1 \/ n - 1 \in DOMAIN file.now.runs]
    /\ uncertain' = NoImage

Reopen(file) ==
    /\ journalFile' = file
    /\ journal' = file.now
    /\ uncertain' = NoImage

Crash == \E crash \in Crashes : \E file \in FilesAfter(crash, journalFile) : Reopen(file)

-----------------------------------------------------------------------------
(* The store under arbitrary callers. *)

Init ==
    /\ journal = EmptyImage
    /\ uncertain = NoImage
    /\ journalFile = Settled(EmptyImage)

Allocates == \E id \in RunIds, bound \in SUBSET Characters, defeats \in SUBSET Bosses,
                outcome \in WriteOutcomes :
             \E rows \in SUBSET (defeats \X Characters \X Parts) :
                AllocateRun(journal.next, id, bound, defeats, rows, outcome)

Appends == \E g \in Generations, boss \in Bosses, bound \in SUBSET Characters,
              outcome \in WriteOutcomes :
           \E rows, taken \in SUBSET (Characters \X Parts) :
              AppendDefeat(g, boss, rows, taken, bound, outcome)

Prepares == \E intent \in Intent, outcome \in WriteOutcomes : PrepareClaim(intent, outcome)

Acknowledges == \E outcome \in WriteOutcomes :
                   \/ \E intent \in journal.intents : AcknowledgeClaim(intent, outcome)
                   \/ AcknowledgeAll(outcome)

Expiries == \E now \in 0..MaxTime, retain \in SUBSET Generations, outcome \in WriteOutcomes :
               ExpireRuns(now, retain, outcome)

Next == Allocates \/ Appends \/ Prepares \/ Acknowledges \/ Expiries \/ Crash

Spec == Init /\ [][Next]_journalVars

-----------------------------------------------------------------------------
(* Properties. *)

(* Every image and file holds what the code's types allow. *)
TypeOK ==
    /\ journal \in Image
    /\ uncertain \in Image \cup {NoImage}
    /\ journalFile \in Files(Image)

(* At most one write is ever in doubt: whatever the next startup may read is *)
(* the image in memory or the one whose bytes are locked for retry           *)
(* (commitLocked: an uncertain write refuses every other).                   *)
OneWriteInDoubt ==
    \A crash \in Crashes : \A file \in FilesAfter(crash, journalFile) :
        file.now \in {journal, uncertain}

(* What one image may do to the next, whichever operation or crash is        *)
(* between them.                                                             *)
LeavesOnlyAsTaken(j, k) ==
    \A i \in j.intents \ k.intents : SharesOf(i) \subseteq k.taken
KeepsTaken(j, k) ==
    \A s \in j.taken : s[1] \in DOMAIN k.runs => s \in k.taken
KeepsEntitlements(j, k) ==
    \A d \in j.defeats : d[1] \in DOMAIN k.runs =>
        DefeatShares(k.owed, d[1], d[2]) = DefeatShares(j.owed, d[1], d[2])
KeepsGenerations(j, k) ==
    /\ k.next >= j.next
    /\ \A g \in DOMAIN k.runs :
          IF g \in DOMAIN j.runs THEN k.runs[g] = j.runs[g] ELSE g >= j.next

(* Neither expiry, a restart nor a stale caller loses a prepared claim: an   *)
(* intent leaves the journal only in the write that marks every share it     *)
(* names taken.                                                              *)
IntentLeavesOnlyAsTaken == [][LeavesOnlyAsTaken(journal, journal')]_journalVars

(* A share once taken is never offered again: no retry, append or restart    *)
(* clears a taken flag while its run exists.                                 *)
TakenStaysTaken == [][KeepsTaken(journal, journal')]_journalVars

(* What a recorded defeat owes is frozen: nothing adds a row to it or drops  *)
(* one from it while its run exists.                                         *)
EntitlementsFrozen == [][KeepsEntitlements(journal, journal')]_journalVars

(* A generation names one run for ever: it is never given to another run,    *)
(* and a collected one is never issued again, across restarts too.           *)
GenerationNamesOneRun == [][KeepsGenerations(journal, journal')]_journalVars
=============================================================================
