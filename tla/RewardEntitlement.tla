-------------------------- MODULE RewardEntitlement --------------------------
(***************************************************************************)
(* What the boss reward system promises, with no journal, record, claim or *)
(* crash in sight: a share of a defeat becomes owed, is delivered to its   *)
(* character at most once, is closed only after it has been delivered, and *)
(* is never reopened.  Several shares may move in one step: a restart      *)
(* settles at once whatever the crash left in doubt.                       *)
(***************************************************************************)
CONSTANT Shares

VARIABLES
    owed,       \* shares some run still records
    delivered,  \* shares in their character's record for good
    closed      \* owed shares that are offered no longer

entitlementVars == <<owed, delivered, closed>>

Init == owed = {} /\ delivered = {} /\ closed = {}

(* A defeat is recorded: nothing it owes was ever delivered. *)
Owe(shares) ==
    /\ shares \cap (owed \cup delivered) = {}
    /\ owed' = owed \cup shares
    /\ UNCHANGED <<delivered, closed>>

(* Shares are delivered, and others, delivered before, are closed. *)
Settle(paid, done) ==
    /\ paid \subseteq owed \ (delivered \cup closed)
    /\ done \subseteq (owed \cap delivered) \ closed
    /\ delivered' = delivered \cup paid
    /\ closed' = closed \cup done
    /\ UNCHANGED owed

(* A run is collected at its reset, what it owed with it. *)
Forget(shares) ==
    /\ owed' = owed \ shares
    /\ closed' = closed \ shares
    /\ UNCHANGED delivered

Next == \E shares, done \in SUBSET Shares :
           Owe(shares) \/ Settle(shares, done) \/ Forget(shares)

Spec == Init /\ [][Next]_entitlementVars
=============================================================================
