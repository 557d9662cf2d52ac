----------------------------- MODULE Identities -----------------------------
(***************************************************************************)
(* Who may write a character's record, and in which order: the claim one   *)
(* account has (session.Identities), the session that plays under it       *)
(* (session.Serve), the autosave loop (savePlayersLoop in voxelheimd) and  *)
(* the experience a character earns after it has left (game.Sim's pending  *)
(* awards).  Accounts do not interact here, so one is modelled.            *)
(*                                                                         *)
(* A life is its age, which everything that happens to the character in    *)
(* the world moves on, and its lifetime experience.  The world lives on    *)
(* beside the session: a mob the character hit first may die while it is   *)
(* playing, while it is choosing, or long after it has gone.               *)
(***************************************************************************)
EXTENDS Naturals, FiniteSets, AtomicFile

CONSTANTS
    Characters,     \* the account's characters
    NoCharacter,    \* nobody chosen yet
    ExperienceCap,  \* game.ExperienceCap
    MaxAge,         \* bound: how often the world changes a life
    MaxSessions,    \* bound: how many sessions the account opens
    MaxTaps,        \* bound: living mobs a character hit first
    Outcomes,       \* which outcomes a record write has
    SlowPass,       \* an autosave may outlast a reconnect of the character it captured
    FlushRaces      \* an award may be written while its character's record is being read

VARIABLES
    record,   \* the character files
    claim,    \* Identities.live of the account
    session,  \* what Serve is doing, the character and its life
    sessions, \* sessions opened so far
    taps,     \* per character: mobs it hit first, and the total they know it by
    pending,  \* Sim.pendingExperience, 0 when there is none
    pass,     \* the autosave pass: captured lives, awards to write, one to acknowledge
    earned,   \* history: the experience each character has earned
    unsaved   \* history: characters whose last record write of a session failed

vars == <<record, claim, session, sessions, taps, pending, pass, earned, unsaved>>

-----------------------------------------------------------------------------
Experience == 0..ExperienceCap
Life == [age : 0..MaxAge, experience : Experience]

Claim == [character : Characters \cup {NoCharacter}, finalised : BOOLEAN]
NoClaim == [character |-> NoCharacter, finalised |-> TRUE]

(* "recalled": Select has read the record and not yet named the character on *)
(* the claim.  "left": Sim.Leave has returned.  "remembered": the last       *)
(* record write is over.                                                     *)
Phases == {"none", "character", "recalled", "selected", "world", "left", "remembered"}
Session == [phase : Phases, character : Characters \cup {NoCharacter}, life : Life]

NewLife == [age |-> 0, experience |-> 0]
NoSession == [phase |-> "none", character |-> NoCharacter, life |-> NewLife]

Pass == [step : {"idle", "writing", "written", "awarding"},
         lives : UNION {[captured -> Life] : captured \in SUBSET Characters},
         awards : [Characters -> Experience],
         saved : Characters \cup {NoCharacter}]
NoAwards == [c \in Characters |-> 0]
IdlePass == [step |-> "idle", lives |-> [c \in {} |-> NewLife], awards |-> NoAwards,
             saved |-> NoCharacter]

ASSUME IdentitiesAssumption ==
    /\ ExperienceCap \in Nat \ {0} /\ MaxAge \in Nat
    /\ MaxSessions \in Nat /\ MaxTaps \in Nat
    /\ Outcomes \subseteq WriteOutcomes
    /\ SlowPass \in BOOLEAN /\ FlushRaces \in BOOLEAN
    /\ NoCharacter \notin Characters

Greater(m, n) == IF m > n THEN m ELSE n

experienceAfter(total) == IF total >= ExperienceCap THEN ExperienceCap ELSE total + 1

InWorld(c) == session.phase = "world" /\ session.character = c

Init ==
    /\ record = [c \in Characters |-> Settled(NewLife)]
    /\ claim = NoClaim
    /\ session = NoSession
    /\ sessions = 0
    /\ taps = [c \in Characters |-> [mobs |-> 0, known |-> 0]]
    /\ pending = NoAwards
    /\ pass = IdlePass
    /\ earned = NoAwards
    /\ unsaved = {}

-----------------------------------------------------------------------------
(* The session. *)

Admit ==
    /\ session.phase = "none" /\ claim = NoClaim
    /\ sessions < MaxSessions
    /\ sessions' = sessions + 1
    /\ claim' = [character |-> NoCharacter, finalised |-> FALSE]
    /\ session' = [NoSession EXCEPT !.phase = "character"]
    /\ UNCHANGED <<record, taps, pending, pass, earned, unsaved>>

(* The first half of Select: the record is read with no lock held. *)
Recall(c) ==
    /\ session.phase = "character"
    /\ SlowPass \/ c \notin DOMAIN pass.lives
    /\ session' = [phase |-> "recalled", character |-> c, life |-> record[c].now]
    /\ UNCHANGED <<record, claim, sessions, taps, pending, pass, earned, unsaved>>

(* The second half, playing: the claim learns the character. *)
Playing ==
    /\ session.phase = "recalled"
    /\ claim' = [claim EXCEPT !.character = session.character]
    /\ session' = [session EXCEPT !.phase = "selected"]
    /\ UNCHANGED <<record, sessions, taps, pending, pass, earned, unsaved>>

(* Mutant: the total queued for the character is not looked at. *)
MutantJoin ==
    /\ session.phase = "selected"
    /\ session' = [session EXCEPT !.phase = "world"]
    /\ UNCHANGED <<record, claim, sessions, taps, pending, pass, earned, unsaved>>

(* Sim.Join merges the queued total and leaves it queued. *)
Join ==
    /\ session.phase = "selected"
    /\ session' = [session EXCEPT !.phase = "world",
                      !.life.experience = Greater(@, pending[session.character])]
    /\ UNCHANGED <<record, claim, sessions, taps, pending, pass, earned, unsaved>>

(* Something happens to the character: loot, a blow, a craft that teaches. *)
Live(gain) ==
    /\ session.phase = "world" /\ session.life.age < MaxAge
    /\ LET total == IF gain THEN experienceAfter(session.life.experience)
                            ELSE session.life.experience
       IN  /\ session' = [session EXCEPT !.life = [age |-> @.age + 1, experience |-> total]]
           /\ earned' = [earned EXCEPT ![session.character] =
                            IF gain THEN experienceAfter(@) ELSE @]
    /\ UNCHANGED <<record, claim, sessions, taps, pending, pass, unsaved>>

(* Sim.Leave refreshes what the character's mobs know of its total. *)
Leave ==
    /\ session.phase = "world"
    /\ session' = [session EXCEPT !.phase = "left"]
    /\ taps' = [taps EXCEPT ![session.character].known = Greater(@, session.life.experience)]
    /\ UNCHANGED <<record, claim, sessions, pending, pass, earned, unsaved>>

(* Mutant: the claim is not told that the last word has been written. *)
MutantRemember(outcome) ==
    /\ session.phase = "left"
    /\ record' = [record EXCEPT ![session.character] = Written(@, session.life, outcome)]
    /\ session' = [session EXCEPT !.phase = "remembered"]
    /\ unsaved' = IF outcome = "done" THEN unsaved ELSE unsaved \cup {session.character}
    /\ UNCHANGED <<claim, sessions, taps, pending, pass, earned>>

(* Remember: the session's last word, under writeMu. *)
Remember(outcome) ==
    /\ session.phase = "left"
    /\ record' = [record EXCEPT ![session.character] = Written(@, session.life, outcome)]
    /\ claim' = [claim EXCEPT !.finalised = TRUE]
    /\ session' = [session EXCEPT !.phase = "remembered"]
    /\ unsaved' = IF outcome = "done" THEN unsaved ELSE unsaved \cup {session.character}
    /\ UNCHANGED <<sessions, taps, pending, pass, earned>>

(* The claim goes last; a session that never joined, refused or hung up, has *)
(* nothing to write.                                                         *)
Release ==
    /\ session.phase \in {"character", "recalled", "selected", "remembered"}
    /\ claim' = NoClaim
    /\ session' = NoSession
    /\ UNCHANGED <<record, sessions, taps, pending, pass, earned, unsaved>>

-----------------------------------------------------------------------------
(* Mobs. *)

Tap(c) ==
    /\ InWorld(c) /\ taps[c].mobs < MaxTaps
    /\ taps' = [taps EXCEPT ![c] = [mobs |-> @.mobs + 1,
                                    known |-> Greater(@.known, session.life.experience)]]
    /\ UNCHANGED <<record, claim, session, sessions, pending, pass, earned, unsaved>>

(* awardOfflineExperienceLocked: an absolute total over the newest one known. *)
OfflineKill(c) ==
    /\ ~InWorld(c) /\ taps[c].mobs > 0
    /\ LET total == experienceAfter(Greater(taps[c].known, pending[c]))
       IN  /\ pending' = [pending EXCEPT ![c] = total]
           /\ taps' = [taps EXCEPT ![c] = [mobs |-> @.mobs - 1, known |-> Greater(@.known, total)]]
    /\ earned' = [earned EXCEPT ![c] = experienceAfter(@)]
    /\ UNCHANGED <<record, claim, session, sessions, pass, unsaved>>

OnlineKill(c) ==
    /\ InWorld(c) /\ taps[c].mobs > 0
    /\ taps' = [taps EXCEPT ![c].mobs = @ - 1]
    /\ session' = [session EXCEPT !.life.experience = experienceAfter(@)]
    /\ earned' = [earned EXCEPT ![c] = experienceAfter(@)]
    /\ UNCHANGED <<record, claim, sessions, pending, pass, unsaved>>

-----------------------------------------------------------------------------
(* The autosave pass: capture, write, then the queued awards one by one. *)

Capture ==
    /\ pass.step = "idle"
    /\ pass' = [pass EXCEPT !.step = "writing",
                   !.lives = [c \in {k \in Characters : InWorld(k)} |-> session.life]]
    /\ UNCHANGED <<record, claim, session, sessions, taps, pending, earned, unsaved>>

stillPlaying(c) == claim.character = c /\ ~claim.finalised

RememberCharacters(outcome) ==
    /\ pass.step = "writing"
    /\ record' = [c \in Characters |->
                    IF c \in DOMAIN pass.lives /\ stillPlaying(c)
                    THEN Written(record[c], pass.lives[c], outcome)
                    ELSE record[c]]
    /\ pass' = [pass EXCEPT !.step = "written", !.lives = IdlePass.lives]
    /\ UNCHANGED <<claim, session, sessions, taps, pending, earned, unsaved>>

PendingExperienceAwards ==
    /\ pass.step = "written"
    /\ pass' = [pass EXCEPT !.step = "awarding", !.awards = pending]
    /\ UNCHANGED <<record, claim, session, sessions, taps, pending, earned, unsaved>>

sessionMayStillWrite(c) == claim.character = c /\ ~claim.finalised

(* Mutant: a failed write counts as done. *)
MutantLoseAward(c, outcome) ==
    /\ pass.step = "awarding" /\ pass.saved = NoCharacter
    /\ pass.awards[c] > 0
    /\ FlushRaces \/ ~(session.phase = "recalled" /\ session.character = c)
    /\ LET rec == record[c].now
           write == ~sessionMayStillWrite(c) /\ rec.experience < pass.awards[c]
       IN  /\ record' = IF write
                        THEN [record EXCEPT ![c] =
                                Written(@, [rec EXCEPT !.experience = pass.awards[c]], outcome)]
                        ELSE record
           /\ pass' = IF ~sessionMayStillWrite(c) THEN [pass EXCEPT !.saved = c]
                                                  ELSE [pass EXCEPT !.awards[c] = 0]
    /\ UNCHANGED <<claim, session, sessions, taps, pending, earned, unsaved>>

(* RememberExperience: an award is dropped from this pass, and stays queued, *)
(* while a session may still write an older total or when its write fails.   *)
RememberExperience(c, outcome) ==
    /\ pass.step = "awarding" /\ pass.saved = NoCharacter
    /\ pass.awards[c] > 0
    /\ FlushRaces \/ ~(session.phase = "recalled" /\ session.character = c)
    /\ LET rec == record[c].now
           write == ~sessionMayStillWrite(c) /\ rec.experience < pass.awards[c]
           persisted == ~sessionMayStillWrite(c) /\ (write => outcome = "done")
       IN  /\ record' = IF write
                        THEN [record EXCEPT ![c] =
                                Written(@, [rec EXCEPT !.experience = pass.awards[c]], outcome)]
                        ELSE record
           /\ pass' = IF persisted THEN [pass EXCEPT !.saved = c]
                                   ELSE [pass EXCEPT !.awards[c] = 0]
    /\ UNCHANGED <<claim, session, sessions, taps, pending, earned, unsaved>>

(* Mutant: whatever is queued by now is forgotten with the award. *)
MutantAcknowledge ==
    /\ pass.saved # NoCharacter
    /\ pending' = [pending EXCEPT ![pass.saved] = 0]
    /\ pass' = [pass EXCEPT !.awards[pass.saved] = 0, !.saved = NoCharacter]
    /\ UNCHANGED <<record, claim, session, sessions, taps, earned, unsaved>>

(* AcknowledgeExperienceAward: a newer total queued meanwhile is kept. *)
Acknowledge ==
    /\ pass.saved # NoCharacter
    /\ pending' = [pending EXCEPT ![pass.saved] = IF @ <= pass.awards[pass.saved] THEN 0 ELSE @]
    /\ pass' = [pass EXCEPT !.awards[pass.saved] = 0, !.saved = NoCharacter]
    /\ UNCHANGED <<record, claim, session, sessions, taps, earned, unsaved>>

EndPass ==
    /\ pass.step = "awarding" /\ pass.awards = NoAwards
    /\ pass' = IdlePass
    /\ UNCHANGED <<record, claim, session, sessions, taps, pending, earned, unsaved>>

-----------------------------------------------------------------------------
SessionStep ==
    \/ Admit \/ Playing \/ Join \/ Leave \/ Release
    \/ \E c \in Characters : Recall(c)
    \/ \E gain \in BOOLEAN : Live(gain)
    \/ \E outcome \in Outcomes : Remember(outcome)

MobStep == \E c \in Characters : Tap(c) \/ OfflineKill(c) \/ OnlineKill(c)

PassStep ==
    \/ Capture \/ PendingExperienceAwards \/ Acknowledge \/ EndPass
    \/ \E outcome \in Outcomes : RememberCharacters(outcome)
    \/ \E c \in Characters, outcome \in Outcomes : RememberExperience(c, outcome)

Next == SessionStep \/ MobStep \/ PassStep

Spec == Init /\ [][Next]_vars

(* The loops and handlers keep running, a session that has chosen gets to    *)
(* its end or to the world, and a write tried for ever succeeds in the end.  *)
Fairness ==
    /\ WF_vars(Capture) /\ WF_vars(PendingExperienceAwards)
    /\ WF_vars(Acknowledge) /\ WF_vars(EndPass)
    /\ WF_vars(\E outcome \in Outcomes : RememberCharacters(outcome))
    /\ SF_vars(RememberCharacters("done"))
    /\ \A c \in Characters :
          /\ WF_vars(\E outcome \in Outcomes : RememberExperience(c, outcome))
          /\ SF_vars(RememberExperience(c, "done"))
    /\ WF_vars(session.phase = "recalled" /\ (Playing \/ Release))
    /\ WF_vars(session.phase = "selected" /\ (Join \/ Release))
    /\ WF_vars(\E outcome \in Outcomes : Remember(outcome))
    /\ WF_vars(session.phase = "remembered" /\ Release)

FairSpec == Spec /\ Fairness

-----------------------------------------------------------------------------
(* Properties. *)

TypeOK ==
    /\ record \in [Characters -> Files(Life)]
    /\ claim \in Claim
    /\ session \in Session
    /\ sessions \in 0..MaxSessions
    /\ taps \in [Characters -> [mobs : 0..MaxTaps, known : Experience]]
    /\ pending \in [Characters -> Experience]
    /\ pass \in Pass
    /\ earned \in [Characters -> Experience]
    /\ unsaved \subseteq Characters

(* No save puts an older life back over a newer one: an autosave that        *)
(* captured a player before they left never lands after their teardown, and  *)
(* the stored lifetime total is never moved backwards, by a teardown, an     *)
(* autosave or an award written for a character that has come back.          *)
RecordNeverGoesBack ==
    [][\A c \in Characters : /\ record'[c].now.age >= record[c].now.age
                            /\ record'[c].now.experience >= record[c].now.experience]_vars

(* An award leaves the queue only when a durable record carries it.          *)
AcknowledgedIsDurable ==
    [][\A c \in Characters : pending[c] # 0 /\ pending'[c] = 0 =>
          \A life \in record[c].mayBe : life.experience >= pending[c]]_vars

(* Once a character is at rest, with no award queued and no pass about to    *)
(* write, its record holds every point it earned, unless the last write of   *)
(* a session failed.                                                         *)
AtRest(c) ==
    /\ session.character # c /\ pending[c] = 0
EveryKillCounts ==
    \A c \in Characters \ unsaved : AtRest(c) => record[c].now.experience = earned[c]

(* An award that is queued reaches the record: through the flush, or through *)
(* the session that took it over.                                            *)
AwardReachesRecord ==
    \A c \in Characters, total \in 1..ExperienceCap :
        pending[c] = total ~> (record[c].now.experience >= total \/ c \in unsaved)
=============================================================================
