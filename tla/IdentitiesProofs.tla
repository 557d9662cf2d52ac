--------------------------- MODULE IdentitiesProofs ---------------------------
(***************************************************************************)
(* Character records and experience proved for every set of characters and *)
(* every number of sessions, mobs and passes, with an autosave that ends   *)
(* before the account is back and no flush during a read of the record.    *)
(*                                                                         *)
(* A record, a playing life, a total known to a mob and a queued award are *)
(* four copies of one total, and each is stale at some moment.  The        *)
(* invariant says which of them is the newest in every phase of a session, *)
(* and that a pass never holds a life older than the record it may still   *)
(* write.                                                                  *)
(***************************************************************************)
EXTENDS Identities, TLAPS

Careful == ~SlowPass /\ ~FlushRaces /\ "unsynced" \notin Outcomes

Lives == [age : Nat, experience : Experience]
PassLives == UNION {[captured -> Lives] : captured \in SUBSET Characters}
Steps == {"idle", "writing", "written", "awarding"}

Types ==
    /\ record \in [Characters -> Files(Lives)]
    /\ claim \in Claim
    /\ session \in [phase : Phases, character : Characters \cup {NoCharacter}, life : Lives]
    /\ taps \in [Characters -> [mobs : Nat, known : Experience]]
    /\ pending \in [Characters -> Experience] /\ earned \in [Characters -> Experience]
    /\ pass \in [step : Steps, lives : PassLives, awards : [Characters -> Experience],
                 saved : Characters \cup {NoCharacter}]

NotOlder(new, old) == new.age >= old.age /\ new.experience >= old.experience

(* The claim and the session name the same character, and only a session     *)
(* that may still write holds the claim open.                                *)
ClaimFits ==
    /\ session.phase \in {"none", "character"} => session.character = NoCharacter
    /\ session.phase \notin {"none", "character"} => session.character \in Characters
    /\ session.phase = "none" => claim.character = NoCharacter
    /\ session.phase \in {"character", "recalled"} =>
          claim = [character |-> NoCharacter, finalised |-> FALSE]
    /\ session.phase \in {"selected", "world", "left"} =>
          claim = [character |-> session.character, finalised |-> FALSE]
    /\ session.phase = "remembered" => claim.finalised

RecordsAreDurable == \A c \in Characters : record[c].mayBe = {record[c].now}

(* A session's life is the record it was read from until it joins, and never *)
(* behind it afterwards.                                                     *)
SessionIsAhead ==
    /\ session.phase \in {"recalled", "selected"} => session.life = record[session.character].now
    /\ session.phase \in {"world", "left"} => NotOlder(session.life, record[session.character].now)

(* A captured life is between the record and the life it was captured from,  *)
(* and its character has not been chosen again since.                        *)
CapturedIsBetween ==
    /\ pass.step # "writing" => DOMAIN pass.lives = {}
    /\ \A c \in DOMAIN pass.lives : session.character = c =>
          /\ session.phase \notin {"recalled", "selected"}
          /\ session.phase \in {"world", "left"} =>
                /\ NotOlder(pass.lives[c], record[c].now)
                /\ NotOlder(session.life, pass.lives[c])

(* An award about to be acknowledged is in the record. *)
SavedIsRecorded ==
    pass.saved # NoCharacter =>
        /\ pass.step = "awarding"
        /\ record[pass.saved].now.experience >= pass.awards[pass.saved]

(* Where the newest total of a character is. *)
TotalsAgree(c) ==
    /\ taps[c].known <= earned[c] /\ pending[c] <= earned[c] /\ pass.awards[c] <= earned[c]
    /\ ~InWorld(c) => taps[c].known = earned[c]
    /\ InWorld(c) => session.life.experience = earned[c]
    /\ session.character = c /\ session.phase = "left" =>
          Greater(session.life.experience, pending[c]) = earned[c]
    /\ ~(session.character = c /\ session.phase \in {"world", "left"}) =>
          Greater(record[c].now.experience, pending[c]) = earned[c]

TotalsFit == \A c \in Characters \ unsaved : TotalsAgree(c)

IInv ==
    /\ Types /\ ClaimFits /\ RecordsAreDurable /\ SessionIsAhead /\ CapturedIsBetween
    /\ SavedIsRecorded /\ TotalsFit

-----------------------------------------------------------------------------
(* Totals. *)

LEMMA TotalsGrow ==
    /\ 0 \in Experience /\ Experience \subseteq Nat
    /\ \A n \in Experience : /\ experienceAfter(n) \in Experience
                             /\ experienceAfter(n) >= n /\ experienceAfter(n) > 0
    /\ \A m, n \in Experience : Greater(m, n) \in Experience
  BY IdentitiesAssumption DEF Experience, experienceAfter, Greater

(* What one write without the middle outcome leaves of a record. *)
LEMMA WrittenRecord ==
    ASSUME Careful, NEW old \in Files(Lives), NEW life \in Lives, NEW outcome \in Outcomes
    PROVE  /\ Written(old, life, outcome) \in Files(Lives)
           /\ outcome = "done" => Written(old, life, outcome) = Settled(life)
           /\ outcome # "done" => Written(old, life, outcome) = old
<1>1. outcome \in {"done", "failed"}
  BY IdentitiesAssumption DEF Careful, WriteOutcomes
<1> QED BY <1>1 DEF Files, Written, Settled

LEMMA CapturedLives ==
    /\ \A lives \in PassLives : /\ DOMAIN lives \subseteq Characters
                                 /\ \A c \in DOMAIN lives : lives[c] \in Lives
    /\ \A captured \in SUBSET Characters : \A life \in Lives :
          [c \in captured |-> life] \in PassLives
<1>1. ASSUME NEW lives \in PassLives
      PROVE  DOMAIN lives \subseteq Characters /\ \A c \in DOMAIN lives : lives[c] \in Lives
  <2>1. PICK captured \in SUBSET Characters : lives \in [captured -> Lives]
    BY DEF PassLives
  <2> QED BY <2>1
<1>2. ASSUME NEW captured \in SUBSET Characters, NEW life \in Lives
      PROVE  [c \in captured |-> life] \in PassLives
  <2>1. [c \in captured |-> life] \in [captured -> Lives]
    OBVIOUS
  <2> QED BY <2>1 DEF PassLives
<1> QED BY <1>1, <1>2

LEMMA NewLifeIsLife == NewLife \in Lives
  BY TotalsGrow DEF NewLife, Lives

(* The same with no set in sight, for arithmetic. *)
LEMMA GreaterIs ==
    \A m, n \in Nat : /\ Greater(m, n) \in Nat
                      /\ Greater(m, n) >= m /\ Greater(m, n) >= n
                      /\ Greater(m, n) = m \/ Greater(m, n) = n
  BY DEF Greater

LEMMA LifeFields ==
    \A life \in Lives : /\ life.age \in Nat /\ life.experience \in Nat
                        /\ NotOlder(life, life)
<1> SUFFICES ASSUME NEW life \in Lives
             PROVE  life.age \in Nat /\ life.experience \in Nat /\ NotOlder(life, life)
  OBVIOUS
<1>1. life.age \in Nat /\ life.experience \in Experience
  BY DEF Lives
<1>2. life.age \in Nat /\ life.experience \in Nat
  BY <1>1, TotalsGrow
<1> QED BY <1>2 DEF NotOlder

(* What the types say of every field the steps read. *)
LEMMA FieldTypes ==
    ASSUME IInv
    PROVE  /\ session = [phase |-> session.phase, character |-> session.character,
                         life |-> session.life]
           /\ session.life = [age |-> session.life.age, experience |-> session.life.experience]
           /\ session.life \in Lives
           /\ session.life.age \in Nat /\ session.life.experience \in Nat
           /\ session.life.experience \in Experience
           /\ \A c \in Characters :
                 /\ record[c] \in Files(Lives) /\ record[c].now \in Lives
                 /\ record[c].now.age \in Nat /\ record[c].now.experience \in Nat
                 /\ taps[c] = [mobs |-> taps[c].mobs, known |-> taps[c].known]
                 /\ taps[c].mobs \in Nat
                 /\ taps[c].known \in Experience /\ taps[c].known \in Nat
                 /\ pending[c] \in Experience /\ pending[c] \in Nat
                 /\ earned[c] \in Experience /\ earned[c] \in Nat
                 /\ pass.awards[c] \in Experience /\ pass.awards[c] \in Nat
<1>1. /\ session \in [phase : Phases, character : Characters \cup {NoCharacter}, life : Lives]
      /\ taps \in [Characters -> [mobs : Nat, known : Experience]]
      /\ record \in [Characters -> Files(Lives)]
      /\ pending \in [Characters -> Experience] /\ earned \in [Characters -> Experience]
      /\ pass.awards \in [Characters -> Experience]
  BY DEF IInv, Types
<1>2. \A life \in Lives : /\ life = [age |-> life.age, experience |-> life.experience]
                          /\ life.age \in Nat /\ life.experience \in Experience
                          /\ life.experience \in Nat
  <2> SUFFICES ASSUME NEW life \in Lives
               PROVE  /\ life = [age |-> life.age, experience |-> life.experience]
                      /\ life.age \in Nat /\ life.experience \in Experience
                      /\ life.experience \in Nat
    OBVIOUS
  <2>1. /\ life = [age |-> life.age, experience |-> life.experience]
        /\ life.age \in Nat /\ life.experience \in Experience
    BY DEF Lives
  <2> QED BY <2>1, TotalsGrow
<1>3. \A c \in Characters : record[c] \in Files(Lives) /\ record[c].now \in Lives
  BY <1>1 DEF Files
<1> QED BY <1>1, <1>2, <1>3, TotalsGrow

-----------------------------------------------------------------------------
(* The initial state, and one lemma for each operation. *)
(* An autosave writes what it captured of a character that is still playing. *)
LEMMA AutosaveWrites ==
    ASSUME Careful, IInv, NEW outcome \in Outcomes, RememberCharacters(outcome),
           NEW c \in Characters
    PROVE  /\ record'[c] \in Files(Lives)
           /\ \/ record'[c] = record[c]
              \/ /\ c \in DOMAIN pass.lives /\ pass.lives[c] \in Lives
                 /\ record'[c] = Settled(pass.lives[c])
                 /\ session.character = c /\ session.phase \in {"world", "left"}
                 /\ NotOlder(pass.lives[c], record[c].now)
                 /\ NotOlder(session.life, pass.lives[c])
<1>1. CASE c \in DOMAIN pass.lives /\ stillPlaying(c)
  <2>1. session.character = c /\ session.phase \in {"world", "left"}
    BY <1>1, IdentitiesAssumption
    DEF stillPlaying, IInv, Types, Phases, ClaimFits, CapturedIsBetween
  <2>2. pass.lives[c] \in Lives /\ record[c] \in Files(Lives)
    BY <1>1, CapturedLives DEF IInv, Types
  <2>3. record'[c] = Written(record[c], pass.lives[c], outcome)
    BY <1>1 DEF RememberCharacters
  <2>4. NotOlder(pass.lives[c], record[c].now) /\ NotOlder(session.life, pass.lives[c])
    BY <1>1, <2>1 DEF IInv, CapturedIsBetween
  <2> QED BY <1>1, <2>1, <2>2, <2>3, <2>4, WrittenRecord
<1>2. CASE ~(c \in DOMAIN pass.lives /\ stillPlaying(c))
  BY <1>2 DEF RememberCharacters, IInv, Types
<1> QED BY <1>1, <1>2

LEMMA IdentitiesInit == Init => IInv
<1> SUFFICES ASSUME Init PROVE IInv
  OBVIOUS
<1>1. Types
  <2>1. Settled(NewLife) \in Files(Lives)
    BY NewLifeIsLife DEF Settled, Files
  <2>2. record \in [Characters -> Files(Lives)]
    BY <2>1 DEF Init
  <2>3. NoClaim \in Claim
    BY DEF NoClaim, Claim
  <2>4. NoSession \in [phase : Phases, character : Characters \cup {NoCharacter}, life : Lives]
    BY NewLifeIsLife DEF NoSession, Phases
  <2>5. taps \in [Characters -> [mobs : Nat, known : Experience]]
    BY TotalsGrow DEF Init
  <2>6. NoAwards \in [Characters -> Experience]
    BY TotalsGrow DEF NoAwards
  <2>7. IdlePass \in [step : Steps, lives : PassLives, awards : [Characters -> Experience],
                      saved : Characters \cup {NoCharacter}]
    BY <2>6, CapturedLives, NewLifeIsLife DEF IdlePass, Steps
  <2> QED BY <2>2, <2>3, <2>4, <2>5, <2>6, <2>7 DEF Init, Types
<1>2. ClaimFits /\ SessionIsAhead
  BY DEF Init, ClaimFits, SessionIsAhead, NoSession, NoClaim
<1>3. RecordsAreDurable
  BY DEF Init, RecordsAreDurable, Settled
<1>4. CapturedIsBetween /\ SavedIsRecorded
  BY DEF Init, CapturedIsBetween, SavedIsRecorded, IdlePass
<1>5. TotalsFit
  <2> SUFFICES ASSUME NEW c \in Characters PROVE TotalsAgree(c)
    BY DEF TotalsFit
  <2>1. /\ taps[c].known = 0 /\ pending[c] = 0 /\ earned[c] = 0 /\ pass.awards[c] = 0
        /\ record[c].now.experience = 0 /\ session.phase = "none"
    BY DEF Init, NoAwards, IdlePass, Settled, NewLife, NoSession
  <2>2. Greater(0, 0) = 0
    BY DEF Greater
  <2> QED BY <2>1, <2>2 DEF TotalsAgree, InWorld
<1> QED BY <1>1, <1>2, <1>3, <1>4, <1>5 DEF IInv

LEMMA AdmitKeeps ==
    ASSUME Careful, IInv, Admit
    PROVE  IInv'
<1>1. /\ session.phase = "none"
      /\ claim' = [character |-> NoCharacter, finalised |-> FALSE]
      /\ session' = [phase |-> "character", character |-> NoCharacter, life |-> NewLife]
      /\ NewLife \in Lives
      /\ UNCHANGED <<record, taps, pending, pass, earned, unsaved>>
  BY NewLifeIsLife DEF Admit, NoSession
<1>2. Types'
  BY <1>1
  DEF IInv, Types, ClaimFits, SessionIsAhead, Files, Lives, Claim, Phases, Steps
<1>3. ClaimFits'
  BY <1>1
  DEF IInv, Types, ClaimFits, SessionIsAhead, NoClaim, NoSession
<1>4. RecordsAreDurable'
  BY <1>1
  DEF IInv, Types, ClaimFits, SessionIsAhead, RecordsAreDurable, Settled
<1>5. SessionIsAhead'
  BY <1>1
  DEF IInv, Types, ClaimFits, SessionIsAhead, NotOlder, Lives, Experience, Settled
<1>6. CapturedIsBetween'
  BY <1>1
  DEF IInv, Types, ClaimFits, SessionIsAhead, CapturedIsBetween, NotOlder, Lives, Experience, Settled
<1>7. SavedIsRecorded'
  BY <1>1
  DEF IInv, Types, ClaimFits, SessionIsAhead, SavedIsRecorded, Lives, Experience, Settled
<1>8. TotalsFit'
  <2> SUFFICES ASSUME NEW k \in Characters \ unsaved' PROVE TotalsAgree(k)'
    BY DEF TotalsFit
  <2>1. TotalsAgree(k)
    BY <1>1 DEF IInv, TotalsFit
  <2> QED BY <1>1, <2>1, TotalsGrow
          DEF IInv, Types, ClaimFits, SessionIsAhead, TotalsAgree, InWorld, Greater, Lives, NotOlder
<1> QED BY <1>2, <1>3, <1>4, <1>5, <1>6, <1>7, <1>8 DEF IInv

LEMMA RecallKeeps ==
    ASSUME Careful, IInv, NEW c \in Characters, Recall(c)
    PROVE  IInv'
<1>1. /\ session.phase = "character" /\ c \notin DOMAIN pass.lives
      /\ session' = [phase |-> "recalled", character |-> c, life |-> record[c].now]
      /\ UNCHANGED <<record, claim, taps, pending, pass, earned, unsaved>>
  BY DEF Recall, Careful
<1>2. Types'
  BY <1>1
  DEF IInv, Types, ClaimFits, SessionIsAhead, Files, Lives, Claim, Phases, Steps
<1>3. ClaimFits'
  BY <1>1
  DEF IInv, Types, ClaimFits, SessionIsAhead, NoClaim, NoSession
<1>4. RecordsAreDurable'
  BY <1>1
  DEF IInv, Types, ClaimFits, SessionIsAhead, RecordsAreDurable, Settled
<1>5. SessionIsAhead'
  BY <1>1
  DEF IInv, Types, ClaimFits, SessionIsAhead, NotOlder, Lives, Experience, Settled
<1>6. CapturedIsBetween'
  BY <1>1
  DEF IInv, Types, ClaimFits, SessionIsAhead, CapturedIsBetween, NotOlder, Lives, Experience, Settled
<1>7. SavedIsRecorded'
  BY <1>1
  DEF IInv, Types, ClaimFits, SessionIsAhead, SavedIsRecorded, Lives, Experience, Settled
<1>8. TotalsFit'
  <2> SUFFICES ASSUME NEW k \in Characters \ unsaved' PROVE TotalsAgree(k)'
    BY DEF TotalsFit
  <2>1. TotalsAgree(k)
    BY <1>1 DEF IInv, TotalsFit
  <2> QED BY <1>1, <2>1, TotalsGrow
          DEF IInv, Types, ClaimFits, SessionIsAhead, TotalsAgree, InWorld, Greater, Lives, NotOlder
<1> QED BY <1>2, <1>3, <1>4, <1>5, <1>6, <1>7, <1>8 DEF IInv

LEMMA PlayingKeeps ==
    ASSUME Careful, IInv, Playing
    PROVE  IInv'
<1>1. /\ session.phase = "recalled" /\ session.character \in Characters
      /\ claim' = [character |-> session.character, finalised |-> FALSE]
      /\ session' = [phase |-> "selected", character |-> session.character, life |-> session.life]
      /\ UNCHANGED <<record, taps, pending, pass, earned, unsaved>>
  <2>1. session.phase = "recalled"
    BY DEF Playing
  <2>2. claim = [character |-> NoCharacter, finalised |-> FALSE] /\ session.character \in Characters
    BY <2>1 DEF IInv, ClaimFits
  <2>3. session' = [session EXCEPT !.phase = "selected"]
    BY DEF Playing
  <2>4. session' = [phase |-> "selected", character |-> session.character, life |-> session.life]
    BY <2>3, FieldTypes
  <2>5. claim' = [claim EXCEPT !.character = session.character]
    BY DEF Playing
  <2> QED BY <2>1, <2>2, <2>4, <2>5 DEF Playing
<1>2. Types'
  BY <1>1
  DEF IInv, Types, ClaimFits, SessionIsAhead, Files, Lives, Claim, Phases, Steps
<1>3. ClaimFits'
  BY <1>1
  DEF IInv, Types, ClaimFits, SessionIsAhead, NoClaim, NoSession
<1>4. RecordsAreDurable'
  BY <1>1
  DEF IInv, Types, ClaimFits, SessionIsAhead, RecordsAreDurable, Settled
<1>5. SessionIsAhead'
  BY <1>1
  DEF IInv, Types, ClaimFits, SessionIsAhead, NotOlder, Lives, Experience, Settled
<1>6. CapturedIsBetween'
  BY <1>1
  DEF IInv, Types, ClaimFits, SessionIsAhead, CapturedIsBetween, NotOlder, Lives, Experience, Settled
<1>7. SavedIsRecorded'
  BY <1>1
  DEF IInv, Types, ClaimFits, SessionIsAhead, SavedIsRecorded, Lives, Experience, Settled
<1>8. TotalsFit'
  <2> SUFFICES ASSUME NEW k \in Characters \ unsaved' PROVE TotalsAgree(k)'
    BY DEF TotalsFit
  <2>1. TotalsAgree(k)
    BY <1>1 DEF IInv, TotalsFit
  <2> QED BY <1>1, <2>1, TotalsGrow
          DEF IInv, Types, ClaimFits, SessionIsAhead, TotalsAgree, InWorld, Greater, Lives, NotOlder
<1> QED BY <1>2, <1>3, <1>4, <1>5, <1>6, <1>7, <1>8 DEF IInv

LEMMA JoinKeeps ==
    ASSUME Careful, IInv, Join
    PROVE  IInv'
<1>1. /\ session.phase = "selected" /\ session.character \in Characters
      /\ session' = [phase |-> "world", character |-> session.character,
                     life |-> [age |-> session.life.age,
                               experience |-> Greater(session.life.experience,
                                                      pending[session.character])]]
      /\ UNCHANGED <<record, claim, taps, pending, pass, earned, unsaved>>
  BY DEF Join, IInv, Types, ClaimFits, Lives
<1>2. /\ Greater(session.life.experience, pending[session.character]) \in Experience
      /\ Greater(session.life.experience, pending[session.character]) >= session.life.experience
  BY <1>1, TotalsGrow DEF IInv, Types, Lives, Greater, Experience
<1>3. Types'
  BY <1>1, <1>2
  DEF IInv, Types, ClaimFits, SessionIsAhead, Files, Lives, Claim, Phases, Steps
<1>4. ClaimFits'
  BY <1>1, <1>2
  DEF IInv, Types, ClaimFits, SessionIsAhead, NoClaim, NoSession
<1>5. RecordsAreDurable'
  BY <1>1, <1>2
  DEF IInv, Types, ClaimFits, SessionIsAhead, RecordsAreDurable, Settled
<1>6. SessionIsAhead'
  BY <1>1, <1>2
  DEF IInv, Types, ClaimFits, SessionIsAhead, NotOlder, Lives, Experience, Settled
<1>7. CapturedIsBetween'
  BY <1>1, <1>2
  DEF IInv, Types, ClaimFits, SessionIsAhead, CapturedIsBetween, NotOlder, Lives, Experience, Settled
<1>8. SavedIsRecorded'
  BY <1>1, <1>2
  DEF IInv, Types, ClaimFits, SessionIsAhead, SavedIsRecorded, Lives, Experience, Settled
<1>9. TotalsFit'
  <2> SUFFICES ASSUME NEW k \in Characters \ unsaved' PROVE TotalsAgree(k)'
    BY DEF TotalsFit
  <2>1. TotalsAgree(k)
    BY <1>1, <1>2 DEF IInv, TotalsFit
  <2> QED BY <1>1, <1>2, <2>1, TotalsGrow
          DEF IInv, Types, ClaimFits, SessionIsAhead, TotalsAgree, InWorld, Greater, Lives, NotOlder
<1> QED BY <1>3, <1>4, <1>5, <1>6, <1>7, <1>8, <1>9 DEF IInv

LEMMA LiveKeeps ==
    ASSUME Careful, IInv, NEW gain \in BOOLEAN, Live(gain)
    PROVE  IInv'
<1>1. /\ session.phase = "world" /\ session.character \in Characters
      /\ session' = [phase |-> "world", character |-> session.character,
                     life |-> [age |-> session.life.age + 1,
                               experience |-> IF gain THEN experienceAfter(session.life.experience)
                                              ELSE session.life.experience]]
      /\ earned' = [earned EXCEPT ![session.character] =
                       IF gain THEN experienceAfter(earned[session.character])
                       ELSE earned[session.character]]
      /\ UNCHANGED <<record, claim, taps, pending, pass, unsaved>>
  BY DEF Live, IInv, Types, ClaimFits, Lives
<1>2. /\ earned' \in [Characters -> Experience]
      /\ earned'[session.character] = IF gain THEN experienceAfter(earned[session.character])
                                     ELSE earned[session.character]
      /\ earned'[session.character] >= earned[session.character]
      /\ earned'[session.character] \in Nat
      /\ \A k \in Characters \ {session.character} : earned'[k] = earned[k]
  BY <1>1, FieldTypes, TotalsGrow DEF IInv, Types
<1>3. /\ session'.life.age = session.life.age + 1
      /\ session'.life.experience = IF gain THEN experienceAfter(session.life.experience)
                                   ELSE session.life.experience
      /\ session'.life.experience \in Experience
      /\ session'.life.experience \in Nat
      /\ session'.life.experience >= session.life.experience
      /\ session'.life = [age |-> session'.life.age, experience |-> session'.life.experience]
  BY <1>1, FieldTypes, TotalsGrow
<1>4. session'.life \in Lives /\ NotOlder(session'.life, session.life)
  BY <1>3, FieldTypes DEF Lives, NotOlder
<1>5. Types'
  BY <1>1, <1>2, <1>3, <1>4
  DEF IInv, Types, ClaimFits, SessionIsAhead, Files, Lives, Claim, Phases, Steps
<1>6. ClaimFits'
  BY <1>1, <1>2, <1>3, <1>4
  DEF IInv, Types, ClaimFits, SessionIsAhead, NoClaim, NoSession
<1>7. RecordsAreDurable'
  BY <1>1, <1>2, <1>3, <1>4
  DEF IInv, Types, ClaimFits, SessionIsAhead, RecordsAreDurable, Settled
<1>8. SessionIsAhead'
  <2> DEFINE old == record[session.character].now
  <2>1. NotOlder(session.life, old) /\ session.character \in Characters
    BY <1>1 DEF IInv, SessionIsAhead, ClaimFits
  <2>2. /\ old.age \in Nat /\ old.experience \in Nat
        /\ session.life.age \in Nat /\ session.life.experience \in Nat
        /\ session'.life.age \in Nat /\ session'.life.experience \in Nat
    BY <1>4, <2>1, FieldTypes, LifeFields
  <2>3. NotOlder(session'.life, old)
    BY <1>4, <2>1, <2>2 DEF NotOlder
  <2> QED BY <1>1, <2>3 DEF SessionIsAhead
<1>9. CapturedIsBetween'
  <2> SUFFICES ASSUME NEW k \in DOMAIN pass.lives, session.character = k
               PROVE  /\ NotOlder(pass.lives[k], record[k].now)
                      /\ NotOlder(session'.life, pass.lives[k])
    BY <1>1 DEF IInv, CapturedIsBetween
  <2>1. /\ NotOlder(pass.lives[k], record[k].now) /\ NotOlder(session.life, pass.lives[k])
    BY <1>1 DEF IInv, CapturedIsBetween
  <2>2. pass.lives[k].age \in Nat /\ pass.lives[k].experience \in Nat
    BY CapturedLives, TotalsGrow DEF IInv, Types, Lives
  <2>3. session'.life.age \in Nat /\ session'.life.experience \in Nat
    BY <1>4, TotalsGrow DEF Lives
  <2> QED BY <1>4, <2>1, <2>2, <2>3, FieldTypes DEF NotOlder
<1>10. SavedIsRecorded'
  BY <1>1, <1>2, <1>3, <1>4
  DEF IInv, Types, ClaimFits, SessionIsAhead, SavedIsRecorded, Lives, Experience, Settled
<1>11. TotalsFit'
  <2> SUFFICES ASSUME NEW k \in Characters \ unsaved' PROVE TotalsAgree(k)'
    BY DEF TotalsFit
  <2>1. TotalsAgree(k)
    BY <1>1 DEF IInv, TotalsFit
  <2>2. CASE k # session.character
    BY <1>1, <1>2, <1>3, <2>1, <2>2 DEF IInv, Types, TotalsAgree, InWorld
  <2>3. CASE k = session.character
    <3>1. /\ taps[session.character].known \in Nat /\ pending[session.character] \in Nat /\ earned[session.character] \in Nat
          /\ pass.awards[session.character] \in Nat /\ record[session.character].now.experience \in Nat
          /\ session.life.experience \in Nat
      BY <2>3, FieldTypes
    <3>2. TotalsAgree(session.character)
      BY <2>1, <2>3
    <3>3. TotalsAgree(session.character)'
      BY <1>1, <1>2, <1>3, <3>1, <3>2 DEF TotalsAgree, InWorld, Greater
    <3> QED BY <1>1, <2>3, <3>3
  <2> QED BY <2>2, <2>3
<1> QED BY <1>5, <1>6, <1>7, <1>8, <1>9, <1>10, <1>11 DEF IInv

LEMMA LeaveKeeps ==
    ASSUME Careful, IInv, Leave
    PROVE  IInv'
<1>1. /\ session.phase = "world" /\ session.character \in Characters
      /\ session' = [phase |-> "left", character |-> session.character, life |-> session.life]
      /\ taps' = [taps EXCEPT ![session.character] =
                     [mobs |-> taps[session.character].mobs,
                      known |-> Greater(taps[session.character].known, session.life.experience)]]
      /\ UNCHANGED <<record, claim, pending, pass, earned, unsaved>>
  <2>1. session.phase = "world" /\ session.character \in Characters
    BY DEF Leave, IInv, ClaimFits
  <2>2. session' = [session EXCEPT !.phase = "left"]
    BY DEF Leave
  <2>3. session' = [phase |-> "left", character |-> session.character, life |-> session.life]
    BY <2>2, FieldTypes
  <2>4. taps[session.character] = [mobs |-> taps[session.character].mobs,
                                   known |-> taps[session.character].known]
    BY <2>1, FieldTypes
  <2>5. taps' = [taps EXCEPT ![session.character].known =
                    Greater(taps[session.character].known, session.life.experience)]
    BY DEF Leave
  <2> QED BY <2>1, <2>3, <2>4, <2>5 DEF Leave
<1>2. Greater(taps[session.character].known, session.life.experience) \in Experience
  BY <1>1, FieldTypes, TotalsGrow
<1>3. /\ taps'[session.character].known
             = Greater(taps[session.character].known, session.life.experience)
      /\ \A k \in Characters \ {session.character} : taps'[k] = taps[k]
      /\ session'.phase = "left" /\ session'.character = session.character
      /\ session'.life = session.life
  BY <1>1 DEF IInv, Types
<1>4. Types'
  BY <1>1, <1>2, <1>3
  DEF IInv, Types, ClaimFits, SessionIsAhead, Files, Lives, Claim, Phases, Steps
<1>5. ClaimFits'
  BY <1>1, <1>2, <1>3
  DEF IInv, Types, ClaimFits, SessionIsAhead, NoClaim, NoSession
<1>6. RecordsAreDurable'
  BY <1>1, <1>2, <1>3
  DEF IInv, Types, ClaimFits, SessionIsAhead, RecordsAreDurable, Settled
<1>7. SessionIsAhead'
  BY <1>1, <1>2, <1>3
  DEF IInv, Types, ClaimFits, SessionIsAhead, NotOlder, Lives, Experience, Settled
<1>8. CapturedIsBetween'
  BY <1>1, <1>2, <1>3
  DEF IInv, Types, ClaimFits, SessionIsAhead, CapturedIsBetween, NotOlder, Lives, Experience, Settled
<1>9. SavedIsRecorded'
  BY <1>1, <1>2, <1>3
  DEF IInv, Types, ClaimFits, SessionIsAhead, SavedIsRecorded, Lives, Experience, Settled
<1>10. TotalsFit'
  <2> SUFFICES ASSUME NEW k \in Characters \ unsaved' PROVE TotalsAgree(k)'
    BY DEF TotalsFit
  <2>1. TotalsAgree(k)
    BY <1>1 DEF IInv, TotalsFit
  <2>2. CASE k # session.character
    BY <1>1, <1>3, <2>1, <2>2 DEF IInv, Types, TotalsAgree, InWorld
  <2>3. CASE k = session.character
    <3>1. /\ taps[session.character].known \in Nat /\ pending[session.character] \in Nat /\ earned[session.character] \in Nat
          /\ pass.awards[session.character] \in Nat /\ record[session.character].now.experience \in Nat
          /\ session.life.experience \in Nat
      BY <2>3, FieldTypes
    <3>2. TotalsAgree(session.character)
      BY <2>1, <2>3
    <3>3. TotalsAgree(session.character)'
      BY <1>1, <1>3, <3>1, <3>2 DEF TotalsAgree, InWorld, Greater
    <3> QED BY <1>1, <2>3, <3>3
  <2> QED BY <2>2, <2>3
<1> QED BY <1>4, <1>5, <1>6, <1>7, <1>8, <1>9, <1>10 DEF IInv

LEMMA RememberKeeps ==
    ASSUME Careful, IInv, NEW outcome \in Outcomes, Remember(outcome)
    PROVE  IInv'
<1>1. /\ session.phase = "left" /\ session.character \in Characters
      /\ record' = [record EXCEPT ![session.character] =
                       Written(record[session.character], session.life, outcome)]
      /\ claim' = [character |-> session.character, finalised |-> TRUE]
      /\ session' = [phase |-> "remembered", character |-> session.character, life |-> session.life]
      /\ unsaved' = IF outcome = "done" THEN unsaved ELSE unsaved \cup {session.character}
      /\ UNCHANGED <<taps, pending, pass, earned>>
  <2>1. session.phase = "left" /\ session.character \in Characters
    BY DEF Remember, IInv, ClaimFits
  <2>2. claim = [character |-> session.character, finalised |-> FALSE]
    BY <2>1 DEF IInv, ClaimFits
  <2>3. session' = [session EXCEPT !.phase = "remembered"]
    BY DEF Remember
  <2>4. session' = [phase |-> "remembered", character |-> session.character, life |-> session.life]
    BY <2>3, FieldTypes
  <2>5. claim' = [claim EXCEPT !.finalised = TRUE]
    BY DEF Remember
  <2>6. claim' = [character |-> session.character, finalised |-> TRUE]
    BY <2>2, <2>5
  <2> QED BY <2>1, <2>4, <2>6 DEF Remember
<1>2. /\ record'[session.character] \in Files(Lives)
      /\ record'[session.character] \in {record[session.character], Settled(session.life)}
      /\ outcome = "done" => record'[session.character] = Settled(session.life)
      /\ \A c \in Characters \ {session.character} : record'[c] = record[c]
  BY <1>1, WrittenRecord DEF IInv, Types
<1>3. session'.phase = "remembered" /\ session'.character = session.character
  BY <1>1
<1>4. \A k \in Characters : /\ NotOlder(record'[k].now, record[k].now)
                            /\ record'[k].now \in Lives /\ record'[k].now.experience \in Nat
  <2>1. record'[session.character].now \in {record[session.character].now, session.life}
    BY <1>2 DEF Settled
  <2>2. NotOlder(session.life, record[session.character].now)
    BY <1>1 DEF IInv, SessionIsAhead
  <2>3. session.life \in Lives /\ \A k \in Characters : record[k].now \in Lives
    BY FieldTypes
  <2>4. ASSUME NEW k \in Characters
        PROVE  NotOlder(record'[k].now, record[k].now) /\ record'[k].now \in Lives
    <3>1. CASE k = session.character
      <4>1. NotOlder(record[k].now, record[k].now)
        BY <2>3, LifeFields
      <4> QED BY <2>1, <2>2, <2>3, <3>1, <4>1
    <3>2. CASE k # session.character
      BY <1>2, <2>3, <3>2, LifeFields
    <3> QED BY <3>1, <3>2
  <2> QED BY <2>4, LifeFields
<1>5. Types'
  BY <1>1, <1>2, <1>3, <1>4
  DEF IInv, Types, ClaimFits, SessionIsAhead, Files, Lives, Claim, Phases, Steps
<1>6. ClaimFits'
  BY <1>1, <1>2, <1>3, <1>4
  DEF IInv, Types, ClaimFits, SessionIsAhead, NoClaim, NoSession
<1>7. RecordsAreDurable'
  BY <1>1, <1>2, <1>3, <1>4
  DEF IInv, Types, ClaimFits, SessionIsAhead, RecordsAreDurable, Settled
<1>8. SessionIsAhead'
  BY <1>1, <1>2, <1>3, <1>4
  DEF IInv, Types, ClaimFits, SessionIsAhead, NotOlder, Lives, Experience, Settled
<1>9. CapturedIsBetween'
  BY <1>1, <1>2, <1>3, <1>4
  DEF IInv, Types, ClaimFits, SessionIsAhead, CapturedIsBetween, NotOlder, Lives, Experience, Settled
<1>10. SavedIsRecorded'
  BY <1>1, <1>4, FieldTypes DEF IInv, Types, SavedIsRecorded, NotOlder
<1>11. TotalsFit'
  <2> SUFFICES ASSUME NEW k \in Characters \ unsaved' PROVE TotalsAgree(k)'
    BY DEF TotalsFit
  <2>1. TotalsAgree(k)
    BY <1>1 DEF IInv, TotalsFit
  <2>2. CASE k # session.character
    BY <1>1, <1>2, <1>3, <2>1, <2>2 DEF TotalsAgree, InWorld
  <2>3. CASE k = session.character
    <3>1. outcome = "done"
      BY <1>1, <2>3
    <3>2. record'[k].now = session.life
      BY <1>2, <2>3, <3>1 DEF Settled
    <3>3. /\ Greater(session.life.experience, pending[k]) = earned[k]
          /\ taps[k].known = earned[k]
          /\ pending[k] <= earned[k] /\ pass.awards[k] <= earned[k]
      BY <1>1, <2>1, <2>3 DEF TotalsAgree, InWorld
    <3>4. taps[k].known <= earned[k]
      BY <2>1 DEF TotalsAgree
    <3> QED BY <1>1, <1>3, <3>2, <3>3, <3>4 DEF TotalsAgree, InWorld
  <2> QED BY <2>2, <2>3
<1> QED BY <1>5, <1>6, <1>7, <1>8, <1>9, <1>10, <1>11 DEF IInv

LEMMA ReleaseKeeps ==
    ASSUME Careful, IInv, Release
    PROVE  IInv'
<1>1. /\ session.phase \in {"character", "recalled", "selected", "remembered"}
      /\ session' = [phase |-> "none", character |-> NoCharacter, life |-> NewLife]
      /\ claim' = [character |-> NoCharacter, finalised |-> TRUE]
      /\ NewLife \in Lives
      /\ UNCHANGED <<record, taps, pending, pass, earned, unsaved>>
  BY NewLifeIsLife DEF Release, NoSession, NoClaim
<1>2. Types'
  BY <1>1
  DEF IInv, Types, ClaimFits, SessionIsAhead, Files, Lives, Claim, Phases, Steps
<1>3. ClaimFits'
  BY <1>1
  DEF IInv, Types, ClaimFits, SessionIsAhead, NoClaim, NoSession
<1>4. RecordsAreDurable'
  BY <1>1
  DEF IInv, Types, ClaimFits, SessionIsAhead, RecordsAreDurable, Settled
<1>5. SessionIsAhead'
  BY <1>1
  DEF IInv, Types, ClaimFits, SessionIsAhead, NotOlder, Lives, Experience, Settled
<1>6. CapturedIsBetween'
  BY <1>1
  DEF IInv, Types, ClaimFits, SessionIsAhead, CapturedIsBetween, NotOlder, Lives, Experience, Settled
<1>7. SavedIsRecorded'
  BY <1>1
  DEF IInv, Types, ClaimFits, SessionIsAhead, SavedIsRecorded, Lives, Experience, Settled
<1>8. TotalsFit'
  <2> SUFFICES ASSUME NEW k \in Characters \ unsaved' PROVE TotalsAgree(k)'
    BY DEF TotalsFit
  <2>1. TotalsAgree(k)
    BY <1>1 DEF IInv, TotalsFit
  <2> QED BY <1>1, <2>1, TotalsGrow
          DEF IInv, Types, ClaimFits, SessionIsAhead, TotalsAgree, InWorld, Greater, Lives, NotOlder
<1> QED BY <1>2, <1>3, <1>4, <1>5, <1>6, <1>7, <1>8 DEF IInv

LEMMA TapKeeps ==
    ASSUME Careful, IInv, NEW c \in Characters, Tap(c)
    PROVE  IInv'
<1>1. /\ session.phase = "world" /\ session.character = c
      /\ taps' = [taps EXCEPT ![c] = [mobs |-> taps[c].mobs + 1,
                                      known |-> Greater(taps[c].known, session.life.experience)]]
      /\ UNCHANGED <<record, claim, session, pending, pass, earned, unsaved>>
  BY DEF Tap, InWorld, IInv, Types
<1>2. Greater(taps[c].known, session.life.experience) \in Experience
  BY <1>1, FieldTypes, TotalsGrow
<1>3. /\ taps'[c].known = Greater(taps[c].known, session.life.experience)
      /\ \A k \in Characters \ {c} : taps'[k] = taps[k]
  BY <1>1 DEF IInv, Types
<1>4. Types'
  BY <1>1, <1>2, <1>3
  DEF IInv, Types, ClaimFits, SessionIsAhead, Files, Lives, Claim, Phases, Steps
<1>5. ClaimFits'
  BY <1>1, <1>2, <1>3
  DEF IInv, Types, ClaimFits, SessionIsAhead, NoClaim, NoSession
<1>6. RecordsAreDurable'
  BY <1>1, <1>2, <1>3
  DEF IInv, Types, ClaimFits, SessionIsAhead, RecordsAreDurable, Settled
<1>7. SessionIsAhead'
  BY <1>1, <1>2, <1>3
  DEF IInv, Types, ClaimFits, SessionIsAhead, NotOlder, Lives, Experience, Settled
<1>8. CapturedIsBetween'
  BY <1>1, <1>2, <1>3
  DEF IInv, Types, ClaimFits, SessionIsAhead, CapturedIsBetween, NotOlder, Lives, Experience, Settled
<1>9. SavedIsRecorded'
  BY <1>1, <1>2, <1>3
  DEF IInv, Types, ClaimFits, SessionIsAhead, SavedIsRecorded, Lives, Experience, Settled
<1>10. TotalsFit'
  <2> SUFFICES ASSUME NEW k \in Characters \ unsaved' PROVE TotalsAgree(k)'
    BY DEF TotalsFit
  <2>1. TotalsAgree(k)
    BY <1>1 DEF IInv, TotalsFit
  <2>2. CASE k # c
    BY <1>1, <1>3, <2>1, <2>2 DEF IInv, Types, TotalsAgree, InWorld
  <2>3. CASE k = c
    <3>1. /\ taps[c].known \in Nat /\ pending[c] \in Nat /\ earned[c] \in Nat
          /\ pass.awards[c] \in Nat /\ record[c].now.experience \in Nat
          /\ session.life.experience \in Nat
      BY <2>3, FieldTypes
    <3>2. TotalsAgree(c)
      BY <2>1, <2>3
    <3>3. TotalsAgree(c)'
      BY <1>1, <1>3, <3>1, <3>2 DEF TotalsAgree, InWorld, Greater
    <3> QED BY <1>1, <2>3, <3>3
  <2> QED BY <2>2, <2>3
<1> QED BY <1>4, <1>5, <1>6, <1>7, <1>8, <1>9, <1>10 DEF IInv

LEMMA OfflineKillKeeps ==
    ASSUME Careful, IInv, NEW c \in Characters, OfflineKill(c)
    PROVE  IInv'
<1>1. /\ ~InWorld(c) /\ taps[c].mobs > 0
      /\ pending' = [pending EXCEPT ![c] = experienceAfter(Greater(taps[c].known, pending[c]))]
      /\ taps' = [taps EXCEPT ![c] =
                     [mobs |-> taps[c].mobs - 1,
                      known |-> Greater(taps[c].known,
                                        experienceAfter(Greater(taps[c].known, pending[c])))]]
      /\ earned' = [earned EXCEPT ![c] = experienceAfter(earned[c])]
      /\ UNCHANGED <<record, claim, session, pass, unsaved>>
  BY DEF OfflineKill, IInv, Types
<1> DEFINE best == Greater(taps[c].known, pending[c])
<1>2. /\ best \in Experience /\ experienceAfter(best) \in Experience
      /\ Greater(taps[c].known, experienceAfter(best)) = experienceAfter(best)
      /\ earned'[c] \in Experience /\ earned'[c] >= earned[c]
  BY <1>1, FieldTypes, TotalsGrow DEF IInv, Types, Greater
<1>3. taps[c].mobs - 1 \in Nat
  <2>1. taps[c].mobs \in Nat /\ taps[c].mobs > 0
    BY <1>1, FieldTypes
  <2> QED BY <2>1
<1>4. /\ pending'[c] = experienceAfter(best) /\ taps'[c].known = experienceAfter(best)
      /\ earned'[c] = experienceAfter(earned[c])
      /\ \A k \in Characters \ {c} : /\ pending'[k] = pending[k] /\ taps'[k] = taps[k]
                                     /\ earned'[k] = earned[k]
      /\ best \in Nat /\ experienceAfter(best) \in Nat /\ earned'[c] \in Nat
      /\ experienceAfter(best) >= best
  BY <1>1, <1>2, TotalsGrow DEF IInv, Types
<1>5. Types'
  BY <1>1, <1>2, <1>3, <1>4
  DEF IInv, Types, ClaimFits, SessionIsAhead, Files, Lives, Claim, Phases, Steps
<1>6. ClaimFits'
  BY <1>1, <1>2, <1>3, <1>4
  DEF IInv, Types, ClaimFits, SessionIsAhead, NoClaim, NoSession
<1>7. RecordsAreDurable'
  BY <1>1, <1>2, <1>3, <1>4
  DEF IInv, Types, ClaimFits, SessionIsAhead, RecordsAreDurable, Settled
<1>8. SessionIsAhead'
  BY <1>1, <1>2, <1>3, <1>4
  DEF IInv, Types, ClaimFits, SessionIsAhead, NotOlder, Lives, Experience, Settled
<1>9. CapturedIsBetween'
  BY <1>1, <1>2, <1>3, <1>4
  DEF IInv, Types, ClaimFits, SessionIsAhead, CapturedIsBetween, NotOlder, Lives, Experience, Settled
<1>10. SavedIsRecorded'
  BY <1>1, <1>2, <1>3, <1>4
  DEF IInv, Types, ClaimFits, SessionIsAhead, SavedIsRecorded, Lives, Experience, Settled
<1>11. TotalsFit'
  <2> SUFFICES ASSUME NEW k \in Characters \ unsaved' PROVE TotalsAgree(k)'
    BY DEF TotalsFit
  <2>1. TotalsAgree(k)
    BY <1>1 DEF IInv, TotalsFit
  <2>2. CASE k # c
    BY <1>1, <1>4, <2>1, <2>2 DEF TotalsAgree, InWorld
  <2>3. CASE k = c
    <3>1. taps[c].known = earned[c] /\ pending[c] <= earned[c]
      BY <1>1, <2>1, <2>3 DEF TotalsAgree
    <3>2. best = earned[c]
      <4>1. taps[c].known \in Nat /\ pending[c] \in Nat
        BY FieldTypes
      <4> QED BY <3>1, <4>1, GreaterIs DEF Greater
    <3>3. pending'[c] = earned'[c] /\ taps'[c].known = earned'[c]
      BY <1>4, <3>2
    <3>4. /\ pass.awards[c] <= earned'[c]
          /\ ~(session.character = c /\ session.phase \in {"world", "left"}) =>
                record[c].now.experience <= earned'[c]
          /\ session.character = c /\ session.phase = "left" =>
                session.life.experience <= earned'[c]
      <4>1. /\ pending[c] \in Nat /\ earned[c] \in Nat /\ earned'[c] \in Nat
            /\ pass.awards[c] \in Nat /\ record[c].now.experience \in Nat
            /\ session.life.experience \in Nat /\ earned'[c] >= earned[c]
        BY <1>2, <1>4, FieldTypes
      <4>2. pass.awards[c] <= earned[c]
        BY <2>1, <2>3 DEF TotalsAgree
      <4>3. ASSUME ~(session.character = c /\ session.phase \in {"world", "left"})
            PROVE  record[c].now.experience <= earned[c]
        <5>1. Greater(record[c].now.experience, pending[c]) = earned[c]
          BY <2>1, <2>3, <4>3 DEF TotalsAgree
        <5> QED BY <4>1, <5>1, GreaterIs
      <4>4. ASSUME session.character = c, session.phase = "left"
            PROVE  session.life.experience <= earned[c]
        <5>1. Greater(session.life.experience, pending[c]) = earned[c]
          BY <2>1, <2>3, <4>4 DEF TotalsAgree
        <5> QED BY <4>1, <5>1, GreaterIs
      <4> QED BY <4>1, <4>2, <4>3, <4>4
    <3>5. /\ record[c].now.experience \in Nat /\ session.life.experience \in Nat
          /\ earned'[c] \in Nat
      BY <1>4, FieldTypes
    <3> QED BY <1>1, <2>3, <3>3, <3>4, <3>5 DEF TotalsAgree, InWorld, Greater
  <2> QED BY <2>2, <2>3
<1> QED BY <1>5, <1>6, <1>7, <1>8, <1>9, <1>10, <1>11 DEF IInv

LEMMA OnlineKillKeeps ==
    ASSUME Careful, IInv, NEW c \in Characters, OnlineKill(c)
    PROVE  IInv'
<1>1. /\ session.phase = "world" /\ session.character = c /\ taps[c].mobs > 0
      /\ taps' = [taps EXCEPT ![c] = [mobs |-> taps[c].mobs - 1, known |-> taps[c].known]]
      /\ session' = [phase |-> "world", character |-> c,
                     life |-> [age |-> session.life.age,
                               experience |-> experienceAfter(session.life.experience)]]
      /\ earned' = [earned EXCEPT ![c] = experienceAfter(earned[c])]
      /\ UNCHANGED <<record, claim, pending, pass, unsaved>>
  <2>1. session.phase = "world" /\ session.character = c /\ taps[c].mobs > 0
    BY DEF OnlineKill, InWorld
  <2>2. taps[c] = [mobs |-> taps[c].mobs, known |-> taps[c].known]
    BY FieldTypes
  <2>3. taps' = [taps EXCEPT ![c].mobs = taps[c].mobs - 1]
    BY DEF OnlineKill
  <2>4. session' = [session EXCEPT !.life.experience = experienceAfter(session.life.experience)]
    BY DEF OnlineKill
  <2>5. session' = [phase |-> "world", character |-> c,
                    life |-> [age |-> session.life.age,
                              experience |-> experienceAfter(session.life.experience)]]
    BY <2>1, <2>4, FieldTypes
  <2> QED BY <2>1, <2>2, <2>3, <2>5 DEF OnlineKill
<1>2. /\ earned' \in [Characters -> Experience]
      /\ earned'[c] = experienceAfter(earned[c])
      /\ earned'[c] >= earned[c] /\ earned'[c] \in Nat
      /\ \A k \in Characters \ {c} : earned'[k] = earned[k] /\ taps'[k] = taps[k]
      /\ taps'[c].known = taps[c].known
  BY <1>1, FieldTypes, TotalsGrow DEF IInv, Types
<1>3. /\ session'.life.age = session.life.age
      /\ session'.life.experience = experienceAfter(session.life.experience)
      /\ session'.life.experience \in Experience
      /\ session'.life.experience \in Nat
      /\ session'.life.experience >= session.life.experience
      /\ session'.life = [age |-> session'.life.age, experience |-> session'.life.experience]
  BY <1>1, FieldTypes, TotalsGrow
<1>4. session'.life \in Lives /\ NotOlder(session'.life, session.life)
  BY <1>3, FieldTypes DEF Lives, NotOlder
<1>5. taps[c].mobs - 1 \in Nat
  <2>1. taps[c].mobs \in Nat /\ taps[c].mobs > 0
    BY <1>1, FieldTypes
  <2> QED BY <2>1
<1>6. Types'
  BY <1>1, <1>2, <1>3, <1>4, <1>5
  DEF IInv, Types, ClaimFits, SessionIsAhead, Files, Lives, Claim, Phases, Steps
<1>7. ClaimFits'
  BY <1>1, <1>2, <1>3, <1>4, <1>5
  DEF IInv, Types, ClaimFits, SessionIsAhead, NoClaim, NoSession
<1>8. RecordsAreDurable'
  BY <1>1, <1>2, <1>3, <1>4, <1>5
  DEF IInv, Types, ClaimFits, SessionIsAhead, RecordsAreDurable, Settled
<1>9. SessionIsAhead'
  <2> DEFINE old == record[session.character].now
  <2>1. NotOlder(session.life, old) /\ session.character \in Characters
    BY <1>1 DEF IInv, SessionIsAhead, ClaimFits
  <2>2. /\ old.age \in Nat /\ old.experience \in Nat
        /\ session.life.age \in Nat /\ session.life.experience \in Nat
        /\ session'.life.age \in Nat /\ session'.life.experience \in Nat
    BY <1>4, <2>1, FieldTypes, LifeFields
  <2>3. NotOlder(session'.life, old)
    BY <1>4, <2>1, <2>2 DEF NotOlder
  <2> QED BY <1>1, <2>3 DEF SessionIsAhead
<1>10. CapturedIsBetween'
  <2> SUFFICES ASSUME NEW k \in DOMAIN pass.lives, session.character = k
               PROVE  /\ NotOlder(pass.lives[k], record[k].now)
                      /\ NotOlder(session'.life, pass.lives[k])
    BY <1>1 DEF IInv, CapturedIsBetween
  <2>1. /\ NotOlder(pass.lives[k], record[k].now) /\ NotOlder(session.life, pass.lives[k])
    BY <1>1 DEF IInv, CapturedIsBetween
  <2>2. pass.lives[k].age \in Nat /\ pass.lives[k].experience \in Nat
    BY CapturedLives, TotalsGrow DEF IInv, Types, Lives
  <2>3. session'.life.age \in Nat /\ session'.life.experience \in Nat
    BY <1>4, TotalsGrow DEF Lives
  <2> QED BY <1>4, <2>1, <2>2, <2>3, FieldTypes DEF NotOlder
<1>11. SavedIsRecorded'
  BY <1>1, <1>2, <1>3, <1>4, <1>5
  DEF IInv, Types, ClaimFits, SessionIsAhead, SavedIsRecorded, Lives, Experience, Settled
<1>12. TotalsFit'
  <2> SUFFICES ASSUME NEW k \in Characters \ unsaved' PROVE TotalsAgree(k)'
    BY DEF TotalsFit
  <2>1. TotalsAgree(k)
    BY <1>1 DEF IInv, TotalsFit
  <2>2. CASE k # c
    BY <1>1, <1>2, <1>3, <2>1, <2>2 DEF IInv, Types, TotalsAgree, InWorld
  <2>3. CASE k = c
    <3>1. /\ taps[c].known \in Nat /\ pending[c] \in Nat /\ earned[c] \in Nat
          /\ pass.awards[c] \in Nat /\ record[c].now.experience \in Nat
          /\ session.life.experience \in Nat
      BY <2>3, FieldTypes
    <3>2. TotalsAgree(c)
      BY <2>1, <2>3
    <3>3. TotalsAgree(c)'
      BY <1>1, <1>2, <1>3, <3>1, <3>2 DEF TotalsAgree, InWorld, Greater
    <3> QED BY <1>1, <2>3, <3>3
  <2> QED BY <2>2, <2>3
<1> QED BY <1>6, <1>7, <1>8, <1>9, <1>10, <1>11, <1>12 DEF IInv

LEMMA CaptureKeeps ==
    ASSUME Careful, IInv, Capture
    PROVE  IInv'
<1>1. /\ pass.step = "idle"
      /\ pass' = [step |-> "writing",
                  lives |-> [c \in {k \in Characters : InWorld(k)} |-> session.life],
                  awards |-> pass.awards, saved |-> pass.saved]
      /\ UNCHANGED <<record, claim, session, taps, pending, earned, unsaved>>
  BY DEF Capture, IInv, Types
<1>2. pass'.lives \in PassLives
  BY <1>1, CapturedLives DEF IInv, Types
<1>3. pass.saved = NoCharacter
  BY <1>1 DEF IInv, SavedIsRecorded
<1>4. Types'
  BY <1>1, <1>2, <1>3
  DEF IInv, Types, ClaimFits, SessionIsAhead, Files, Lives, Claim, Phases, Steps
<1>5. ClaimFits'
  BY <1>1, <1>2, <1>3
  DEF IInv, Types, ClaimFits, SessionIsAhead, NoClaim, NoSession
<1>6. RecordsAreDurable'
  BY <1>1, <1>2, <1>3
  DEF IInv, Types, ClaimFits, SessionIsAhead, RecordsAreDurable, Settled
<1>7. SessionIsAhead'
  BY <1>1, <1>2, <1>3
  DEF IInv, Types, ClaimFits, SessionIsAhead, NotOlder, Lives, Experience, Settled
<1>8. CapturedIsBetween'
  <2>1. ASSUME NEW k \in DOMAIN pass'.lives
        PROVE  k \in Characters /\ InWorld(k) /\ pass'.lives[k] = session.life
    BY <1>1
  <2>2. ASSUME NEW k \in DOMAIN pass'.lives
        PROVE  /\ session.phase = "world" /\ session.character = k
               /\ NotOlder(session.life, record[k].now)
               /\ NotOlder(session.life, session.life)
    BY <2>1, FieldTypes DEF InWorld, IInv, SessionIsAhead, NotOlder
  <2> QED BY <1>1, <2>1, <2>2 DEF CapturedIsBetween
<1>9. SavedIsRecorded'
  BY <1>1, <1>2, <1>3
  DEF IInv, Types, ClaimFits, SessionIsAhead, SavedIsRecorded, Lives, Experience, Settled
<1>10. TotalsFit'
  <2> SUFFICES ASSUME NEW k \in Characters \ unsaved' PROVE TotalsAgree(k)'
    BY DEF TotalsFit
  <2>1. TotalsAgree(k)
    BY <1>1, <1>2, <1>3 DEF IInv, TotalsFit
  <2> QED BY <1>1, <1>2, <1>3, <2>1, TotalsGrow
          DEF IInv, Types, ClaimFits, SessionIsAhead, TotalsAgree, InWorld, Greater, Lives, NotOlder
<1> QED BY <1>4, <1>5, <1>6, <1>7, <1>8, <1>9, <1>10 DEF IInv

LEMMA RememberCharactersKeeps ==
    ASSUME Careful, IInv, NEW outcome \in Outcomes, RememberCharacters(outcome)
    PROVE  IInv'
<1>1. /\ pass.step = "writing"
      /\ record' = [c \in Characters |->
                      IF c \in DOMAIN pass.lives /\ stillPlaying(c)
                      THEN Written(record[c], pass.lives[c], outcome)
                      ELSE record[c]]
      /\ pass' = [step |-> "written", lives |-> IdlePass.lives, awards |-> pass.awards,
                  saved |-> pass.saved]
      /\ UNCHANGED <<claim, session, taps, pending, earned, unsaved>>
  BY DEF RememberCharacters, IInv, Types
<1>2. /\ IdlePass.lives \in PassLives /\ DOMAIN IdlePass.lives = {}
      /\ pass.saved = NoCharacter
  BY <1>1, CapturedLives, NewLifeIsLife DEF IInv, SavedIsRecorded, IdlePass
<1>3. \A c \in Characters :
         /\ record'[c] \in Files(Lives)
         /\ \/ record'[c] = record[c]
            \/ /\ c \in DOMAIN pass.lives /\ pass.lives[c] \in Lives
               /\ record'[c] = Settled(pass.lives[c])
               /\ session.character = c /\ session.phase \in {"world", "left"}
               /\ NotOlder(pass.lives[c], record[c].now)
               /\ NotOlder(session.life, pass.lives[c])
  BY AutosaveWrites
<1>4. ASSUME NEW c \in Characters
      PROVE  record'[c].now = record[c].now \/ record'[c].now = pass.lives[c]
  <2>1. record'[c] = record[c] \/ record'[c] = Settled(pass.lives[c])
    BY <1>3
  <2> QED BY <2>1 DEF Settled
<1>5. Types'
  BY <1>1, <1>2, <1>3, <1>4
  DEF IInv, Types, ClaimFits, SessionIsAhead, Files, Lives, Claim, Phases, Steps
<1>6. ClaimFits'
  BY <1>1, <1>2, <1>3, <1>4
  DEF IInv, Types, ClaimFits, SessionIsAhead, NoClaim, NoSession
<1>7. RecordsAreDurable'
  <2> SUFFICES ASSUME NEW c \in Characters PROVE record'[c].mayBe = {record'[c].now}
    BY DEF RecordsAreDurable
  <2>1. CASE record'[c] = record[c]
    BY <2>1 DEF IInv, RecordsAreDurable
  <2>2. CASE record'[c] = Settled(pass.lives[c])
    BY <2>2 DEF Settled
  <2> QED BY <1>3, <2>1, <2>2
<1>8. SessionIsAhead'
  <2>1. session.phase \in {"recalled", "selected"} => record'[session.character] = record[session.character]
    BY <1>3 DEF IInv, ClaimFits, Phases
  <2>2. ASSUME session.phase \in {"world", "left"}
        PROVE  NotOlder(session.life, record'[session.character].now)
    <3>1. session.character \in Characters
      BY <2>2 DEF IInv, ClaimFits
    <3>2. CASE record'[session.character] = record[session.character]
      BY <2>2, <3>2 DEF IInv, SessionIsAhead
    <3>3. CASE record'[session.character] # record[session.character]
      <4>1. /\ record'[session.character] = Settled(pass.lives[session.character])
            /\ NotOlder(session.life, pass.lives[session.character])
        BY <1>3, <3>1, <3>3
      <4> QED BY <4>1 DEF Settled
    <3> QED BY <3>2, <3>3
  <2> QED BY <1>1, <2>1, <2>2 DEF IInv, SessionIsAhead
<1>9. CapturedIsBetween'
  BY <1>1, <1>2, <1>3, <1>4
  DEF IInv, Types, ClaimFits, SessionIsAhead, CapturedIsBetween, NotOlder, Lives, Experience, Settled
<1>10. SavedIsRecorded'
  BY <1>1, <1>2, <1>3, <1>4
  DEF IInv, Types, ClaimFits, SessionIsAhead, SavedIsRecorded, Lives, Experience, Settled
<1>11. TotalsFit'
  <2> SUFFICES ASSUME NEW k \in Characters \ unsaved' PROVE TotalsAgree(k)'
    BY DEF TotalsFit
  <2>1. TotalsAgree(k)
    BY <1>1, <1>2, <1>3, <1>4 DEF IInv, TotalsFit
  <2> QED BY <1>1, <1>2, <1>3, <1>4, <2>1, TotalsGrow
          DEF IInv, Types, ClaimFits, SessionIsAhead, TotalsAgree, InWorld, Greater, Lives, NotOlder
<1> QED BY <1>5, <1>6, <1>7, <1>8, <1>9, <1>10, <1>11 DEF IInv

LEMMA PendingAwardsKeeps ==
    ASSUME Careful, IInv, PendingExperienceAwards
    PROVE  IInv'
<1>1. /\ pass.step = "written"
      /\ pass' = [step |-> "awarding", lives |-> pass.lives, awards |-> pending,
                  saved |-> pass.saved]
      /\ UNCHANGED <<record, claim, session, taps, pending, earned, unsaved>>
  BY DEF PendingExperienceAwards, IInv, Types
<1>2. pass.saved = NoCharacter
  BY <1>1 DEF IInv, SavedIsRecorded
<1>3. Types'
  BY <1>1, <1>2
  DEF IInv, Types, ClaimFits, SessionIsAhead, Files, Lives, Claim, Phases, Steps
<1>4. ClaimFits'
  BY <1>1, <1>2
  DEF IInv, Types, ClaimFits, SessionIsAhead, NoClaim, NoSession
<1>5. RecordsAreDurable'
  BY <1>1, <1>2
  DEF IInv, Types, ClaimFits, SessionIsAhead, RecordsAreDurable, Settled
<1>6. SessionIsAhead'
  BY <1>1, <1>2
  DEF IInv, Types, ClaimFits, SessionIsAhead, NotOlder, Lives, Experience, Settled
<1>7. CapturedIsBetween'
  BY <1>1, <1>2
  DEF IInv, Types, ClaimFits, SessionIsAhead, CapturedIsBetween, NotOlder, Lives, Experience, Settled
<1>8. SavedIsRecorded'
  BY <1>1, <1>2
  DEF IInv, Types, ClaimFits, SessionIsAhead, SavedIsRecorded, Lives, Experience, Settled
<1>9. TotalsFit'
  <2> SUFFICES ASSUME NEW k \in Characters \ unsaved' PROVE TotalsAgree(k)'
    BY DEF TotalsFit
  <2>1. TotalsAgree(k)
    BY <1>1, <1>2 DEF IInv, TotalsFit
  <2> QED BY <1>1, <1>2, <2>1, TotalsGrow
          DEF IInv, Types, ClaimFits, SessionIsAhead, TotalsAgree, InWorld, Greater, Lives, NotOlder
<1> QED BY <1>3, <1>4, <1>5, <1>6, <1>7, <1>8, <1>9 DEF IInv

LEMMA RememberExperienceKeeps ==
    ASSUME Careful, IInv, NEW c \in Characters, NEW outcome \in Outcomes, RememberExperience(c, outcome)
    PROVE  IInv'
<1>1. /\ pass.step = "awarding" /\ pass.saved = NoCharacter
      /\ ~(session.phase = "recalled" /\ session.character = c)
      /\ UNCHANGED <<claim, session, taps, pending, earned, unsaved>>
  BY DEF RememberExperience, Careful
<1> DEFINE rec == record[c].now
<1> DEFINE paid == [rec EXCEPT !.experience = pass.awards[c]]
<1> DEFINE write == ~sessionMayStillWrite(c) /\ rec.experience < pass.awards[c]
<1> DEFINE persisted == ~sessionMayStillWrite(c) /\ (write => outcome = "done")
<1>2. /\ record' = IF write THEN [record EXCEPT ![c] = Written(record[c], paid, outcome)]
                   ELSE record
      /\ pass' = IF persisted
                 THEN [step |-> pass.step, lives |-> pass.lives, awards |-> pass.awards,
                       saved |-> c]
                 ELSE [step |-> pass.step, lives |-> pass.lives,
                       awards |-> [pass.awards EXCEPT ![c] = 0], saved |-> pass.saved]
  BY DEF RememberExperience, IInv, Types
<1>3. /\ rec \in Lives /\ pass.awards[c] \in Experience /\ paid \in Lives
      /\ paid.experience = pass.awards[c] /\ paid.age = rec.age
  BY DEF IInv, Types, Files, Lives
<1>4. /\ record' \in [Characters -> Files(Lives)]
      /\ \A k \in Characters \ {c} : record'[k] = record[k]
      /\ \/ record'[c] = record[c]
         \/ write /\ record'[c] = Settled(paid)
      /\ write /\ outcome = "done" => record'[c] = Settled(paid)
  BY <1>2, <1>3, WrittenRecord DEF IInv, Types
<1>5. write => ~(session.character = c /\ session.phase \in {"recalled", "selected", "world", "left"})
  BY <1>1 DEF sessionMayStillWrite, IInv, ClaimFits
<1>6. /\ persisted => record'[c].now.experience >= pass.awards[c]
      /\ NotOlder(record'[c].now, record[c].now)
      /\ pass'.awards[c] <= pass.awards[c]
      /\ \A k \in Characters \ {c} : pass'.awards[k] = pass.awards[k]
  BY <1>2, <1>3, <1>4 DEF NotOlder, Settled, Lives, Experience, IInv, Types
<1>7. /\ pass' \in [step : Steps, lives : PassLives, awards : [Characters -> Experience],
                    saved : Characters \cup {NoCharacter}]
      /\ pass'.step = "awarding" /\ pass'.lives = pass.lives
      /\ pass'.saved # NoCharacter => pass'.saved = c /\ persisted /\ pass'.awards = pass.awards
  BY <1>1, <1>2, TotalsGrow DEF IInv, Types
<1> HIDE DEF write, persisted, paid, rec
<1>8. Types'
  BY <1>1, <1>2, <1>3, <1>4, <1>5, <1>6, <1>7
  DEF IInv, Types, ClaimFits, SessionIsAhead, Files, Lives, Claim, Phases, Steps
<1>9. ClaimFits'
  BY <1>1, <1>2, <1>3, <1>4, <1>5, <1>6, <1>7
  DEF IInv, Types, ClaimFits, SessionIsAhead, NoClaim, NoSession
<1>10. RecordsAreDurable'
  BY <1>1, <1>2, <1>3, <1>4, <1>5, <1>6, <1>7
  DEF IInv, Types, ClaimFits, SessionIsAhead, RecordsAreDurable, Settled
<1>11. SessionIsAhead'
  BY <1>1, <1>2, <1>3, <1>4, <1>5, <1>6, <1>7
  DEF IInv, Types, ClaimFits, SessionIsAhead, NotOlder, Lives, Experience, Settled
<1>12. CapturedIsBetween'
  BY <1>1, <1>2, <1>3, <1>4, <1>5, <1>6, <1>7
  DEF IInv, Types, ClaimFits, SessionIsAhead, CapturedIsBetween, NotOlder, Lives, Experience, Settled
<1>13. SavedIsRecorded'
  BY <1>1, <1>2, <1>3, <1>4, <1>5, <1>6, <1>7
  DEF IInv, Types, ClaimFits, SessionIsAhead, SavedIsRecorded, Lives, Experience, Settled
<1>14. TotalsFit'
  <2> SUFFICES ASSUME NEW k \in Characters \ unsaved' PROVE TotalsAgree(k)'
    BY DEF TotalsFit
  <2>1. TotalsAgree(k)
    BY <1>1 DEF IInv, TotalsFit
  <2>2. CASE k # c
    BY <1>1, <1>4, <1>6, <2>1, <2>2 DEF TotalsAgree, InWorld
  <2>3. CASE k = c
    <3>1. pass'.awards[c] <= earned[c]
      <4>1. pass'.awards[c] \in Nat /\ pass.awards[c] \in Nat /\ earned[c] \in Nat
        BY <1>7, FieldTypes, TotalsGrow
      <4> QED BY <1>6, <2>1, <2>3, <4>1 DEF TotalsAgree
    <3>2. CASE record'[c] = record[c]
      BY <1>1, <2>1, <2>3, <3>1, <3>2 DEF TotalsAgree, InWorld
    <3>3. CASE write /\ record'[c] = Settled(paid)
      <4>1. record'[c].now.experience = pass.awards[c]
        BY <1>3, <3>3 DEF Settled
      <4>2. /\ ~(session.character = c /\ session.phase \in {"world", "left"})
            /\ record[c].now.experience < pass.awards[c]
        BY <1>5, <3>3 DEF write, rec
      <4>3. Greater(record'[c].now.experience, pending[c]) = earned[c]
        <5>1. /\ pending[c] \in Nat /\ earned[c] \in Nat /\ pass.awards[c] \in Nat
              /\ record[c].now.experience \in Nat
          BY FieldTypes
        <5>2. /\ Greater(record[c].now.experience, pending[c]) = earned[c]
              /\ pass.awards[c] <= earned[c]
          BY <2>1, <2>3, <4>2 DEF TotalsAgree
        <5> QED BY <4>1, <4>2, <5>1, <5>2 DEF Greater
      <4> QED BY <1>1, <2>1, <2>3, <3>1, <4>2, <4>3 DEF TotalsAgree, InWorld
    <3> QED BY <1>4, <3>2, <3>3
  <2> QED BY <2>2, <2>3
<1> QED BY <1>8, <1>9, <1>10, <1>11, <1>12, <1>13, <1>14 DEF IInv

LEMMA AcknowledgeKeeps ==
    ASSUME Careful, IInv, Acknowledge
    PROVE  IInv'
<1>1. /\ pass.saved \in Characters /\ pass.step = "awarding"
      /\ pending' = [pending EXCEPT ![pass.saved] =
                        IF pending[pass.saved] <= pass.awards[pass.saved] THEN 0
                        ELSE pending[pass.saved]]
      /\ pass' = [step |-> pass.step, lives |-> pass.lives,
                  awards |-> [pass.awards EXCEPT ![pass.saved] = 0], saved |-> NoCharacter]
      /\ UNCHANGED <<record, claim, session, taps, earned, unsaved>>
  BY DEF Acknowledge, IInv, Types, SavedIsRecorded
<1>2. record[pass.saved].now.experience >= pass.awards[pass.saved]
  BY <1>1, IdentitiesAssumption DEF IInv, SavedIsRecorded
<1>3. /\ [pass.awards EXCEPT ![pass.saved] = 0] \in [Characters -> Experience]
      /\ pending' \in [Characters -> Experience]
  BY <1>1, FieldTypes, TotalsGrow DEF IInv, Types
<1>4. /\ pending'[pass.saved] = IF pending[pass.saved] <= pass.awards[pass.saved] THEN 0
                                ELSE pending[pass.saved]
      /\ pass'.awards[pass.saved] = 0
      /\ \A k \in Characters \ {pass.saved} : /\ pending'[k] = pending[k]
                                              /\ pass'.awards[k] = pass.awards[k]
  BY <1>1 DEF IInv, Types
<1>5. Types'
  BY <1>1, <1>2, <1>3, <1>4
  DEF IInv, Types, ClaimFits, SessionIsAhead, Files, Lives, Claim, Phases, Steps
<1>6. ClaimFits'
  BY <1>1, <1>2, <1>3, <1>4
  DEF IInv, Types, ClaimFits, SessionIsAhead, NoClaim, NoSession
<1>7. RecordsAreDurable'
  BY <1>1, <1>2, <1>3, <1>4
  DEF IInv, Types, ClaimFits, SessionIsAhead, RecordsAreDurable, Settled
<1>8. SessionIsAhead'
  BY <1>1, <1>2, <1>3, <1>4
  DEF IInv, Types, ClaimFits, SessionIsAhead, NotOlder, Lives, Experience, Settled
<1>9. CapturedIsBetween'
  BY <1>1, <1>2, <1>3, <1>4
  DEF IInv, Types, ClaimFits, SessionIsAhead, CapturedIsBetween, NotOlder, Lives, Experience, Settled
<1>10. SavedIsRecorded'
  BY <1>1, <1>2, <1>3, <1>4
  DEF IInv, Types, ClaimFits, SessionIsAhead, SavedIsRecorded, Lives, Experience, Settled
<1>11. TotalsFit'
  <2> SUFFICES ASSUME NEW k \in Characters \ unsaved' PROVE TotalsAgree(k)'
    BY DEF TotalsFit
  <2>1. TotalsAgree(k)
    BY <1>1 DEF IInv, TotalsFit
  <2>2. CASE k # pass.saved
    BY <1>1, <1>4, <2>1, <2>2 DEF TotalsAgree, InWorld
  <2>3. CASE k = pass.saved
    <3>1. /\ pending[k] \in Nat /\ earned[k] \in Nat /\ pass.awards[k] \in Nat
          /\ record[k].now.experience \in Nat /\ session.life.experience \in Nat
      BY FieldTypes
    <3>2. /\ pending'[k] = pending[k] \/ (pending'[k] = 0 /\ pending[k] <= record[k].now.experience)
          /\ pass'.awards[k] = 0
      BY <1>2, <1>4, <2>3, <3>1
    <3>3. CASE pending'[k] = pending[k]
      BY <1>1, <2>1, <3>1, <3>2, <3>3 DEF TotalsAgree, InWorld
    <3>4. CASE pending'[k] = 0 /\ pending[k] <= record[k].now.experience
      <4>1. session.character = k /\ session.phase = "left" =>
                session.life.experience >= pending[k]
        BY <3>1, <3>4 DEF IInv, SessionIsAhead, NotOlder
      <4>2. \A m, n \in Nat : n <= m => Greater(m, n) = m /\ Greater(m, 0) = m
        BY DEF Greater
      <4>3. session.character = k /\ session.phase = "left" =>
                Greater(session.life.experience, pending'[k]) = earned[k]
        BY <2>1, <3>1, <3>4, <4>1, <4>2 DEF TotalsAgree
      <4>4. ~(session.character = k /\ session.phase \in {"world", "left"}) =>
                Greater(record[k].now.experience, pending'[k]) = earned[k]
        BY <2>1, <3>1, <3>4, <4>2 DEF TotalsAgree
      <4>5. pending'[k] <= earned[k] /\ pass'.awards[k] <= earned[k]
        BY <3>1, <3>2, <3>4
      <4> QED BY <1>1, <2>1, <4>3, <4>4, <4>5 DEF TotalsAgree, InWorld
    <3> QED BY <3>2, <3>3, <3>4
  <2> QED BY <2>2, <2>3
<1> QED BY <1>5, <1>6, <1>7, <1>8, <1>9, <1>10, <1>11 DEF IInv

LEMMA EndPassKeeps ==
    ASSUME Careful, IInv, EndPass
    PROVE  IInv'
<1>1. /\ pass.step = "awarding" /\ pass.awards = NoAwards /\ pass' = IdlePass
      /\ UNCHANGED <<record, claim, session, taps, pending, earned, unsaved>>
  BY DEF EndPass
<1>2. /\ IdlePass.lives \in PassLives /\ DOMAIN IdlePass.lives = {}
      /\ IdlePass.step = "idle" /\ IdlePass.saved = NoCharacter
      /\ IdlePass.awards = NoAwards /\ NoAwards \in [Characters -> Experience]
      /\ IdlePass = [step |-> IdlePass.step, lives |-> IdlePass.lives,
                     awards |-> IdlePass.awards, saved |-> IdlePass.saved]
  BY CapturedLives, NewLifeIsLife, TotalsGrow DEF IdlePass, NoAwards
<1>3. Types'
  BY <1>1, <1>2
  DEF IInv, Types, ClaimFits, SessionIsAhead, Files, Lives, Claim, Phases, Steps
<1>4. ClaimFits'
  BY <1>1, <1>2
  DEF IInv, Types, ClaimFits, SessionIsAhead, NoClaim, NoSession
<1>5. RecordsAreDurable'
  BY <1>1, <1>2
  DEF IInv, Types, ClaimFits, SessionIsAhead, RecordsAreDurable, Settled
<1>6. SessionIsAhead'
  BY <1>1, <1>2
  DEF IInv, Types, ClaimFits, SessionIsAhead, NotOlder, Lives, Experience, Settled
<1>7. CapturedIsBetween'
  BY <1>1, <1>2
  DEF IInv, Types, ClaimFits, SessionIsAhead, CapturedIsBetween, NotOlder, Lives, Experience, Settled
<1>8. SavedIsRecorded'
  BY <1>1, <1>2
  DEF IInv, Types, ClaimFits, SessionIsAhead, SavedIsRecorded, Lives, Experience, Settled
<1>9. TotalsFit'
  <2> SUFFICES ASSUME NEW k \in Characters \ unsaved' PROVE TotalsAgree(k)'
    BY DEF TotalsFit
  <2>1. TotalsAgree(k)
    BY <1>1, <1>2 DEF IInv, TotalsFit
  <2> QED BY <1>1, <1>2, <2>1, TotalsGrow
          DEF IInv, Types, ClaimFits, SessionIsAhead, TotalsAgree, InWorld, Greater, Lives, NotOlder
<1> QED BY <1>3, <1>4, <1>5, <1>6, <1>7, <1>8, <1>9 DEF IInv

LEMMA StutterKeeps ==
    ASSUME IInv, UNCHANGED vars
    PROVE  IInv'
  BY DEF vars, IInv, Types, ClaimFits, RecordsAreDurable, SessionIsAhead, CapturedIsBetween,
         SavedIsRecorded, TotalsFit, TotalsAgree, InWorld

LEMMA StepKeeps ==
    ASSUME Careful, IInv, [Next]_vars
    PROVE  IInv'
<1>1. CASE SessionStep
  BY <1>1, AdmitKeeps, RecallKeeps, PlayingKeeps, JoinKeeps, LiveKeeps, LeaveKeeps,
     RememberKeeps, ReleaseKeeps DEF SessionStep
<1>2. CASE MobStep
  BY <1>2, TapKeeps, OfflineKillKeeps, OnlineKillKeeps DEF MobStep
<1>3. CASE PassStep
  BY <1>3, CaptureKeeps, RememberCharactersKeeps, PendingAwardsKeeps, RememberExperienceKeeps,
     AcknowledgeKeeps, EndPassKeeps DEF PassStep
<1>4. CASE UNCHANGED vars
  BY <1>4, StutterKeeps
<1> QED BY <1>1, <1>2, <1>3, <1>4 DEF Next

LEMMA IdentitiesInvariant ==
    ASSUME Careful
    PROVE  Spec => []IInv
<1>1. IInv /\ [Next]_vars => IInv'
  BY StepKeeps
<1> QED BY <1>1, IdentitiesInit, PTL DEF Spec

-----------------------------------------------------------------------------
(* What a step does to a record and to the queue. *)

LEMMA StepWrites ==
    ASSUME Careful, IInv, [Next]_vars, NEW c \in Characters
    PROVE  NotOlder(record'[c].now, record[c].now)
<1>1. record[c] \in Files(Lives) /\ record[c].now \in Lives /\ NotOlder(record[c].now, record[c].now)
  BY FieldTypes, LifeFields
<1>2. CASE record' = record
  BY <1>1, <1>2
<1>3. ASSUME NEW outcome \in Outcomes, Remember(outcome)
      PROVE  NotOlder(record'[c].now, record[c].now)
  <2>1. session.phase = "left" /\ session.character \in Characters
    BY <1>3 DEF Remember, IInv, ClaimFits
  <2>2. CASE c = session.character
    <3>1. record'[c] = Written(record[c], session.life, outcome)
      BY <1>3, <2>1, <2>2 DEF Remember, IInv, Types
    <3>2. record'[c].now \in {record[c].now, session.life}
      BY <1>1, <3>1, FieldTypes, WrittenRecord DEF Settled
    <3> QED BY <1>1, <2>1, <2>2, <3>2 DEF IInv, SessionIsAhead
  <2>3. CASE c # session.character
    BY <1>1, <1>3, <2>3 DEF Remember, IInv, Types
  <2> QED BY <2>2, <2>3
<1>4. ASSUME NEW outcome \in Outcomes, RememberCharacters(outcome)
      PROVE  NotOlder(record'[c].now, record[c].now)
  <2>1. \/ record'[c] = record[c]
        \/ record'[c] = Settled(pass.lives[c]) /\ NotOlder(pass.lives[c], record[c].now)
    BY <1>4, AutosaveWrites
  <2> QED BY <1>1, <2>1 DEF Settled
<1>5. ASSUME NEW k \in Characters, NEW outcome \in Outcomes, RememberExperience(k, outcome)
      PROVE  NotOlder(record'[c].now, record[c].now)
  <2> DEFINE paid == [record[c].now EXCEPT !.experience = pass.awards[c]]
  <2>1. \/ record'[c] = record[c]
        \/ /\ record[c].now.experience < pass.awards[c]
           /\ record'[c] = Written(record[c], paid, outcome)
    BY <1>5 DEF RememberExperience, IInv, Types
  <2>2. CASE record'[c] = record[c]
    BY <1>1, <2>2
  <2>3. CASE /\ record[c].now.experience < pass.awards[c]
             /\ record'[c] = Written(record[c], paid, outcome)
    <3>1. /\ paid \in Lives /\ paid.age = record[c].now.age
          /\ paid.experience = pass.awards[c]
      BY <1>1, FieldTypes DEF Lives
    <3>2. record'[c].now \in {record[c].now, paid}
      BY <1>1, <2>3, <3>1, WrittenRecord DEF Settled
    <3>3. NotOlder(paid, record[c].now)
      <4>1. /\ record[c].now.age \in Nat /\ record[c].now.experience \in Nat
            /\ pass.awards[c] \in Nat
        BY FieldTypes
      <4> QED BY <2>3, <3>1, <4>1 DEF NotOlder
    <3> QED BY <1>1, <3>2, <3>3
  <2> QED BY <2>1, <2>2, <2>3
<1>6. CASE UNCHANGED vars
  BY <1>2, <1>6 DEF vars
<1>7. CASE SessionStep
  BY <1>2, <1>3, <1>7 DEF SessionStep, Admit, Playing, Join, Leave, Release, Recall, Live
<1>8. CASE MobStep
  BY <1>2, <1>8 DEF MobStep, Tap, OfflineKill, OnlineKill
<1>9. CASE PassStep
  BY <1>2, <1>4, <1>5, <1>9 DEF PassStep, Capture, PendingExperienceAwards, Acknowledge, EndPass
<1> QED BY <1>6, <1>7, <1>8, <1>9 DEF Next

LEMMA StepAcknowledges ==
    ASSUME Careful, IInv, [Next]_vars, NEW c \in Characters, pending[c] # 0, pending'[c] = 0
    PROVE  \A life \in record[c].mayBe : life.experience >= pending[c]
<1>1. pending' # pending
  OBVIOUS
<1>2. ASSUME NEW k \in Characters, OfflineKill(k)
      PROVE  FALSE
  <2>1. /\ pending \in [Characters -> Experience]
        /\ pending' = [pending EXCEPT ![k] = experienceAfter(Greater(taps[k].known, pending[k]))]
    BY <1>2 DEF OfflineKill, IInv, Types
  <2>2. experienceAfter(Greater(taps[k].known, pending[k])) # 0
    <3>1. Greater(taps[k].known, pending[k]) \in Experience
      BY FieldTypes, TotalsGrow
    <3>2. experienceAfter(Greater(taps[k].known, pending[k])) > 0
      BY <3>1, TotalsGrow
    <3> QED BY <3>2
  <2> QED BY <2>1, <2>2
<1>3. CASE Acknowledge
  <2>1. /\ pass.saved = c /\ pass.saved # NoCharacter
        /\ pending[c] <= pass.awards[c]
    BY <1>3 DEF Acknowledge, IInv, Types
  <2>2. record[c].now.experience >= pass.awards[c] /\ record[c].mayBe = {record[c].now}
    BY <2>1 DEF IInv, SavedIsRecorded, RecordsAreDurable
  <2>3. record[c].now.experience \in Nat /\ pass.awards[c] \in Nat /\ pending[c] \in Nat
    BY FieldTypes
  <2> QED BY <2>1, <2>2, <2>3
<1>4. CASE UNCHANGED vars
  BY <1>1, <1>4 DEF vars
<1>5. CASE SessionStep
  BY <1>1, <1>5 DEF SessionStep, Admit, Playing, Join, Leave, Release, Recall, Live, Remember
<1>6. CASE MobStep
  BY <1>1, <1>2, <1>6 DEF MobStep, Tap, OnlineKill
<1>7. CASE PassStep
  BY <1>1, <1>3, <1>7
  DEF PassStep, Capture, PendingExperienceAwards, EndPass, RememberCharacters, RememberExperience
<1> QED BY <1>4, <1>5, <1>6, <1>7 DEF Next

-----------------------------------------------------------------------------
(* The theorems. *)

(* No save puts an older life back over a newer one: not an autosave that    *)
(* captured a player before they left, not a teardown, not an award written  *)
(* for a character that has come back.                                       *)
THEOREM SavesOnlyGoForward ==
    ASSUME Careful
    PROVE  Spec => RecordNeverGoesBack
<1>1. IInv /\ [Next]_vars =>
        [\A c \in Characters : /\ record'[c].now.age >= record[c].now.age
                              /\ record'[c].now.experience >= record[c].now.experience]_vars
  BY StepWrites DEF NotOlder
<1> QED BY <1>1, IdentitiesInvariant, PTL DEF Spec, RecordNeverGoesBack

(* An award leaves the queue only when the record that carries it survives a *)
(* loss of power.                                                            *)
THEOREM AcknowledgedAwardsAreDurable ==
    ASSUME Careful
    PROVE  Spec => AcknowledgedIsDurable
<1>1. IInv /\ [Next]_vars =>
        [\A c \in Characters : pending[c] # 0 /\ pending'[c] = 0 =>
            \A life \in record[c].mayBe : life.experience >= pending[c]]_vars
  BY StepAcknowledges
<1> QED BY <1>1, IdentitiesInvariant, PTL DEF Spec, AcknowledgedIsDurable

(* At rest, a character's record holds every point it has earned, in the     *)
(* world or after it left, unless the last write of a session failed.        *)
THEOREM NoKillIsLost ==
    ASSUME Careful
    PROVE  Spec => []EveryKillCounts
<1>1. IInv => EveryKillCounts
  <2> SUFFICES ASSUME IInv, NEW c \in Characters \ unsaved, AtRest(c)
               PROVE  record[c].now.experience = earned[c]
    BY DEF EveryKillCounts
  <2>1. Greater(record[c].now.experience, 0) = earned[c]
    BY DEF IInv, TotalsFit, TotalsAgree, AtRest
  <2>2. record[c].now.experience \in Nat
    BY FieldTypes
  <2> QED BY <2>1, <2>2 DEF Greater
<1> QED BY <1>1, IdentitiesInvariant, PTL
=============================================================================
