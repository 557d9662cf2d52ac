---------------------------- MODULE PlayerTrade ----------------------------
(***************************************************************************)
(* Two players trading: the session the server keeps under Sim.mu, the     *)
(* windows their clients show, and the messages between them, which keep   *)
(* their order on one connection.                                          *)
(*                                                                         *)
(* One pair is modelled, so the trade both players point to is a single    *)
(* variable; that they are near, alive and online is Part's to deny, which *)
(* is the review's close seen as a step of its own.  An offer maps the     *)
(* pack slots it names to the stacks they held; which of the window's      *)
(* places each one lies in is left out.  A stack is one value that moves   *)
(* whole.                                                                  *)
(***************************************************************************)
EXTENDS Naturals, FiniteSets, Sequences, Functions

CONSTANTS
    Players,      \* the pair
    Stacks,       \* what their packs hold
    Empty,        \* an empty pack slot
    Slots,        \* the slots of a pack that can be offered
    TradeSlots,   \* how many of them one offer may name
    PurseCap,     \* the most silver a purse holds (math.MaxUint32)
    Packs0, Purses0, Vendors0,  \* what the players and the vendors start with
    NoTrade,      \* Player.trade is nil; no window is shown
    InFlight,     \* bound: requests a client has on the way
    MaxClicks,    \* bound: requests the clients send
    MaxChanges,   \* bound: outside changes of the packs and purses
    MaxTrades     \* bound: trades opened

VARIABLES
    pack, purse,  \* Inventory.slots and Inventory.silver
    ground,       \* stacks dropped
    vendors,      \* the silver the vendors hold
    trade,        \* the playerTrade, or NoTrade
    closed,       \* whether playerTradeClosures holds one
    cooling,      \* whether tradeCooldowns holds the pair
    requests,     \* per player: requests on their way to the server
    window,       \* PlayerTradeWindow.current
    dismissed,    \* PlayerTradeWindow.locally_cancelled_partner is the partner
    meant,        \* history: the deal the Confirm that counts was pressed on
    clicks, changes, trades  \* how many so far

goods == <<pack, purse, ground, vendors>>
clientVars == <<window, dismissed>>
counters == <<clicks, changes, trades>>
vars == <<goods, trade, closed, cooling, requests, clientVars, meant, counters>>

-----------------------------------------------------------------------------
Partner(p) == CHOOSE q \in Players : q # p
Revisions == 1..(MaxClicks + MaxChanges + 1)

Offers == UNION {[named -> Stacks] : named \in {s \in SUBSET Slots : Cardinality(s) <= TradeSlots}}
NoOffer == [s \in {} |-> Empty]
NoSilver == [p \in Players |-> 0]
Nobody == [p \in Players |-> FALSE]
Everybody == [p \in Players |-> TRUE]

Trade == [revision : Revisions, offers : [Players -> Offers], silver : [Players -> 0..PurseCap],
          confirmed : [Players -> BOOLEAN], dirty : [Players -> BOOLEAN]]

(* What one side would give and get, and in which trade. *)
Deal == [gives : SUBSET Stacks, pays : 0..PurseCap, gets : SUBSET Stacks, earns : 0..PurseCap,
         of : 0..MaxTrades]
NoDeal == [gives |-> {}, pays |-> 0, gets |-> {}, earns |-> 0, of |-> 0]
DealOf(t, p) == [gives |-> Range(t.offers[p]),          pays  |-> t.silver[p],
                 gets  |-> Range(t.offers[Partner(p)]), earns |-> t.silver[Partner(p)],
                 of    |-> trades]

(* playerTradeStateFor, without the partner's pack slots; deal.of is not on  *)
(* the wire.                                                                 *)
View == [revision : Revisions, mine : Offers, deal : Deal, confirmed : [Players -> BOOLEAN]]
ViewOf(t, p) == [revision |-> t.revision, mine |-> t.offers[p], deal |-> DealOf(t, p),
                 confirmed |-> t.confirmed]

Actions == {"Open", "SetItem", "ClearItem", "SetSilver", "Confirm", "Cancel"}

(* Open and Cancel name no revision the server reads; deal is what the       *)
(* window showed when Confirm was pressed, and not on the wire.              *)
Request(action, slot, silver, view) ==
    [action |-> action, slot |-> slot, silver |-> silver,
     revision |-> IF view = NoTrade THEN 0 ELSE view.revision,
     deal |-> IF action = "Confirm" THEN view.deal ELSE NoDeal]
Requests == [action : Actions, slot : Slots, silver : 0..PurseCap,
             revision : Revisions \cup {0}, deal : Deal]
AnySlot == CHOOSE s \in Slots : TRUE

ASSUME PlayerTradeAssumption ==
    /\ IsFiniteSet(Players) /\ Cardinality(Players) = 2
    /\ Slots \subseteq Nat /\ Slots # {}
    /\ Empty \notin Stacks /\ NoTrade \notin Trade /\ NoTrade \notin View
    /\ {TradeSlots, PurseCap, InFlight, MaxClicks, MaxChanges, MaxTrades} \subseteq Nat
    /\ Packs0 \in [Players -> [Slots -> Stacks \cup {Empty}]]
    /\ IsFiniteSet(Stacks) /\ IsFiniteSet(Slots)
    /\ \A p, q \in Players : \A s, r \in Slots :
          Packs0[p][s] = Packs0[q][r] /\ Packs0[p][s] # Empty => p = q /\ s = r
    /\ Purses0 \in [Players -> 0..PurseCap] /\ Vendors0 \in Nat

Init ==
    /\ pack = Packs0 /\ purse = Purses0 /\ vendors = Vendors0
    /\ ground = Stacks \ UNION {Range(Packs0[p]) : p \in Players}
    /\ trade = NoTrade /\ closed = Nobody /\ cooling = FALSE
    /\ requests = [p \in Players |-> <<>>] 
    /\ window = [p \in Players |-> NoTrade] /\ dismissed = Nobody
    /\ meant = [p \in Players |-> NoDeal]
    /\ clicks = 0 /\ changes = 0 /\ trades = 0

-----------------------------------------------------------------------------
(* The trade session. *)

(* Mutant: a change leaves the confirmations standing. *)
MutantChanged(t) == [t EXCEPT !.revision = t.revision + 1, !.dirty = Everybody]

(* playerTrade.changed *)
Changed(t) == [t EXCEPT !.revision = t.revision + 1, !.confirmed = Nobody, !.dirty = Everybody]

(* playerTrade.clearConfirmations *)
ClearConfirmations(t) == [t EXCEPT !.confirmed = Nobody, !.dirty = Everybody]

StillThere(t, p) == {s \in DOMAIN t.offers[p] : pack[p][s] = t.offers[p][s]}
StillHeld(t, p) == IF t.silver[p] > purse[p] THEN 0 ELSE t.silver[p]

(* reviewPlayerTradeOffersLocked with both inventories free: what is no      *)
(* longer there is withdrawn.                                                *)
Review(t) ==
    LET kept == [t EXCEPT !.offers = [p \in Players |-> Restrict(t.offers[p], StillThere(t, p))],
                          !.silver = [p \in Players |-> StillHeld(t, p)]]
    IN  IF kept = t THEN t ELSE Changed(kept)

(* closePlayerTradeLocked *)
Close(cancelled) ==
    /\ trade' = NoTrade
    /\ closed' = Everybody
    /\ cooling' = (cooling \/ cancelled)

Free(slots) == {s \in Slots : slots[s] = Empty}
Without(p) == [s \in Slots |-> IF s \in DOMAIN trade.offers[p] THEN Empty ELSE pack[p][s]]

(* insertTradeOffer: the lowest free slots, one stack each. *)
Inserted(slots, stacks) ==
    CHOOSE filled \in [Slots -> Stacks \cup {Empty}] :
        /\ \A s \in Slots \ Free(slots) : filled[s] = slots[s]
        /\ {filled[s] : s \in Free(slots)} \ {Empty} = stacks
        /\ Cardinality({s \in Free(slots) : filled[s] # Empty}) = Cardinality(stacks)
        /\ \A s \in Free(slots) : filled[s] # Empty => \A r \in Free(slots) : r < s => filled[r] # Empty

Fits(p) == Cardinality(Range(trade.offers[Partner(p)])) <= Cardinality(Free(Without(p)))
PurseAfter(p) == (purse[p] - trade.silver[p]) + trade.silver[Partner(p)]

(* Mutant: what is given away stays in the pack. *)
MutantPackAfter(p) == Inserted(pack[p], Range(trade.offers[Partner(p)]))

(* What one side holds after the exchange: its offer is taken out before the *)
(* partner's is put in, so a full pack can receive into what it gives.       *)
PackAfter(p) == Inserted(Without(p), Range(trade.offers[Partner(p)]))

(* settlePlayerTradeLocked after a review that changed nothing; Sim.mu keeps *)
(* the packs as the review found them.                                       *)
Settle ==
    IF \A p \in Players : Fits(p) /\ PurseAfter(p) <= PurseCap
    THEN /\ pack' = [p \in Players |-> PackAfter(p)]
         /\ purse' = [p \in Players |-> PurseAfter(p)]
         /\ Close(FALSE)
    ELSE /\ trade' = ClearConfirmations(trade)
         /\ UNCHANGED <<pack, purse, closed, cooling>>

-----------------------------------------------------------------------------
(* Player.PlayerTrade, one request each.  Taken is the request leaving the   *)
(* connection.                                                               *)

Asks(p, action) == requests[p] # <<>> /\ Head(requests[p]).action = action
Taken(p) == requests' = [requests EXCEPT ![p] = Tail(@)]

Open(p) ==
    /\ Asks(p, "Open") /\ Taken(p)
    /\ trade = NoTrade /\ ~cooling /\ trades < MaxTrades
    /\ trade' = [revision |-> 1, offers |-> [q \in Players |-> NoOffer], silver |-> NoSilver,
                 confirmed |-> Nobody, dirty |-> Everybody]
    /\ trades' = trades + 1
    /\ meant' = [q \in Players |-> NoDeal]
    /\ UNCHANGED <<goods, closed, cooling, clientVars, clicks, changes>>

(* Refused before anything changes: the request came in the tick of the one  *)
(* before it, a participant's inventory is busy, or there is nothing to open *)
(* or no open trade to act on.                                               *)
Refuse(p) ==
    /\ requests[p] # <<>> /\ Taken(p)
    /\ UNCHANGED <<goods, trade, closed, cooling, clientVars, meant, counters>>

Cancel(p) ==
    /\ Asks(p, "Cancel") /\ Taken(p)
    /\ trade # NoTrade /\ Close(TRUE)
    /\ UNCHANGED <<goods, clientVars, meant, counters>>

(* The request names another revision, or the review just made one. *)
RefuseStale(p) ==
    /\ requests[p] # <<>> /\ Taken(p)
    /\ Head(requests[p]).action \notin {"Open", "Cancel"}
    /\ trade # NoTrade
    /\ LET reviewed == Review(trade)
       IN  /\ Head(requests[p]).revision # reviewed.revision
           /\ trade' = [reviewed EXCEPT !.dirty[p] = TRUE]
    /\ UNCHANGED <<goods, closed, cooling, clientVars, meant, counters>>

(* The request names the revision, and the review found nothing to withdraw. *)
Names(p, action) ==
    /\ Asks(p, action) /\ Taken(p)
    /\ trade # NoTrade /\ Review(trade) = trade
    /\ Head(requests[p]).revision = trade.revision

SetItem(p) ==
    /\ Names(p, "SetItem")
    /\ LET s == Head(requests[p]).slot
           offer == trade.offers[p]
       IN  /\ s \notin DOMAIN offer /\ pack[p][s] # Empty
           /\ Cardinality(DOMAIN offer) < TradeSlots
           /\ trade' = Changed([trade EXCEPT !.offers[p] =
                [r \in DOMAIN offer \cup {s} |-> IF r = s THEN pack[p][s] ELSE offer[r]]])
    /\ UNCHANGED <<goods, closed, cooling, clientVars, meant, counters>>

ClearItem(p) ==
    /\ Names(p, "ClearItem")
    /\ trade' = Changed([trade EXCEPT !.offers[p] = Restrict(@, DOMAIN @ \ {Head(requests[p]).slot})])
    /\ UNCHANGED <<goods, closed, cooling, clientVars, meant, counters>>

SetSilver(p) ==
    /\ Names(p, "SetSilver")
    /\ Head(requests[p]).silver <= purse[p]
    /\ trade' = Changed([trade EXCEPT !.silver[p] = Head(requests[p]).silver])
    /\ UNCHANGED <<goods, closed, cooling, clientVars, meant, counters>>

Confirm(p) ==
    /\ Names(p, "Confirm")
    /\ meant' = [meant EXCEPT ![p] = Head(requests[p]).deal]
    /\ IF trade.confirmed[Partner(p)]
       THEN Settle
       ELSE /\ trade' = [trade EXCEPT !.confirmed[p] = TRUE, !.dirty = Everybody]
            /\ UNCHANGED <<pack, purse, closed, cooling>>
    /\ UNCHANGED <<ground, vendors, clientVars, counters>>

(* settlePlayerTradeLocked finds an inventory busy the review found free, or *)
(* a reward being claimed.                                                   *)
ConfirmBusy(p) ==
    /\ Names(p, "Confirm")
    /\ trade.confirmed[Partner(p)]
    /\ trade' = ClearConfirmations(trade)
    /\ UNCHANGED <<goods, closed, cooling, clientVars, meant, counters>>

-----------------------------------------------------------------------------
(* The tick: review, then offerPlayerTradeLocked for one session. *)

(* reconcile_player_trade.  A message on its way is one not yet offered: what *)
(* the client does before it arrives, it could have done before it was sent. *)
ReceiveClosed(p) ==
    /\ dismissed' = [dismissed EXCEPT ![p] = FALSE]
    /\ window' = IF dismissed[p] THEN window ELSE [window EXCEPT ![p] = NoTrade]

ReceiveState(p, view) ==
    /\ window' = IF dismissed[p] THEN window ELSE [window EXCEPT ![p] = view]
    /\ UNCHANGED dismissed

(* They are out of reach, one is dead or one has left. *)
Part ==
    /\ trade # NoTrade /\ Close(FALSE)
    /\ UNCHANGED <<goods, requests, clientVars, meant, counters>>

Withdraw ==
    /\ trade # NoTrade /\ Review(trade) # trade
    /\ trade' = Review(trade)
    /\ UNCHANGED <<goods, closed, cooling, requests, clientVars, meant, counters>>

OfferClosed(p) ==
    /\ closed[p]
    /\ closed' = [closed EXCEPT ![p] = FALSE]
    /\ ReceiveClosed(p)
    /\ UNCHANGED <<goods, trade, cooling, requests, meant, counters>>

(* Mutant: the state of a trade goes out before the close of the last one. *)
MutantOfferState(p) ==
    /\ trade # NoTrade /\ trade.dirty[p]
    /\ trade' = [trade EXCEPT !.dirty[p] = FALSE]
    /\ ReceiveState(p, ViewOf(trade, p))
    /\ UNCHANGED <<goods, closed, cooling, requests, meant, counters>>

(* Closures go out first, so a state never overtakes the end of the trade    *)
(* before it.                                                                *)
OfferState(p) ==
    /\ trade # NoTrade /\ trade.dirty[p] /\ ~closed[p]
    /\ trade' = [trade EXCEPT !.dirty[p] = FALSE]
    /\ ReceiveState(p, ViewOf(trade, p))
    /\ UNCHANGED <<goods, closed, cooling, requests, meant, counters>>

CoolDown ==
    /\ cooling
    /\ cooling' = FALSE
    /\ UNCHANGED <<goods, trade, closed, requests, clientVars, meant, counters>>

-----------------------------------------------------------------------------
(* The clients. *)

Send(p, request) ==
    /\ Len(requests[p]) < InFlight
    /\ clicks < MaxClicks /\ clicks' = clicks + 1
    /\ requests' = [requests EXCEPT ![p] = Append(@, request)]
    /\ UNCHANGED <<goods, trade, closed, cooling, meant, changes, trades>>

(* send_player_trade_prompt_answer *)
ClickOpen(p) ==
    /\ window[p] = NoTrade /\ trades < MaxTrades
    /\ Send(p, Request("Open", AnySlot, 0, NoTrade))
    /\ UNCHANGED clientVars

(* send_player_trade_intents: a window that shows the player's own           *)
(* confirmation takes no other change.  Nobody asks for what the pack or the *)
(* purse refuses there and then: Refuse drops any request.                   *)
Click(p) ==
    /\ window[p] # NoTrade /\ ~window[p].confirmed[p]
    /\ \/ \E s \in Slots : pack[p][s] # Empty
                               /\ Cardinality(DOMAIN window[p].mine) < TradeSlots
                               /\ Send(p, Request("SetItem", s, 0, window[p]))
       \/ \E s \in DOMAIN window[p].mine : Send(p, Request("ClearItem", s, 0, window[p]))
       \/ \E silver \in 0..purse[p] :
              Send(p, Request("SetSilver", AnySlot, silver, window[p]))
       \/ Send(p, Request("Confirm", AnySlot, 0, window[p]))
    /\ UNCHANGED clientVars

ClickCancel(p) ==
    /\ window[p] # NoTrade
    /\ Send(p, Request("Cancel", AnySlot, 0, NoTrade))
    /\ window' = [window EXCEPT ![p] = NoTrade]
    /\ dismissed' = [dismissed EXCEPT ![p] = TRUE]

-----------------------------------------------------------------------------
(* Everything else that changes a pack or a purse. *)

Outside ==
    /\ changes < MaxChanges /\ changes' = changes + 1
    /\ UNCHANGED <<trade, closed, cooling, requests, clientVars, meant, clicks, trades>>

Drop(p, s) ==
    /\ pack[p][s] # Empty
    /\ pack' = [pack EXCEPT ![p][s] = Empty]
    /\ ground' = ground \cup {pack[p][s]}
    /\ UNCHANGED <<purse, vendors>> /\ Outside

PickUp(p, s, stack) ==
    /\ stack \in ground /\ pack[p][s] = Empty
    /\ pack' = [pack EXCEPT ![p][s] = stack]
    /\ ground' = ground \ {stack}
    /\ UNCHANGED <<purse, vendors>> /\ Outside

Spend(p) ==
    /\ purse[p] > 0
    /\ purse' = [purse EXCEPT ![p] = @ - 1]
    /\ vendors' = vendors + 1
    /\ UNCHANGED <<pack, ground>> /\ Outside

Earn(p) ==
    /\ vendors > 0 /\ purse[p] < PurseCap
    /\ purse' = [purse EXCEPT ![p] = @ + 1]
    /\ vendors' = vendors - 1
    /\ UNCHANGED <<pack, ground>> /\ Outside

RequestStep(p) ==
    \/ Open(p) \/ Refuse(p) \/ Cancel(p) \/ RefuseStale(p)
    \/ SetItem(p) \/ ClearItem(p) \/ SetSilver(p) \/ Confirm(p) \/ ConfirmBusy(p)
TickStep == Part \/ Withdraw \/ CoolDown \/ \E p \in Players : OfferClosed(p) \/ OfferState(p)
ClientStep(p) == ClickOpen(p) \/ Click(p) \/ ClickCancel(p)
OutsideStep(p) ==
    \/ Spend(p) \/ Earn(p)
    \/ \E s \in Slots : Drop(p, s) \/ \E stack \in Stacks : PickUp(p, s, stack)

Next == TickStep \/ \E p \in Players : RequestStep(p) \/ ClientStep(p) \/ OutsideStep(p)

Spec == Init /\ [][Next]_vars

-----------------------------------------------------------------------------
(* Properties. *)

TypeOK ==
    /\ pack \in [Players -> [Slots -> Stacks \cup {Empty}]]
    /\ purse \in [Players -> 0..PurseCap]
    /\ trade = NoTrade \/ trade \in Trade
    /\ \A p \in Players :
        /\ \A i \in DOMAIN requests[p] : requests[p][i] \in Requests
        /\ Len(requests[p]) <= InFlight
        /\ window[p] = NoTrade \/ window[p] \in View
    /\ closed \in [Players -> BOOLEAN] /\ dismissed \in [Players -> BOOLEAN] /\ cooling \in BOOLEAN
    /\ meant \in [Players -> Deal]

(* A trade makes nothing and loses nothing: every stack is in one place and  *)
(* the silver adds up, whatever happens to the packs behind an open trade.   *)
NothingMadeOrLost ==
    LET places == {at \in Players \X Slots : pack[at[1]][at[2]] # Empty}
    IN  /\ ground \cup {pack[at[1]][at[2]] : at \in places} = Stacks
        /\ Cardinality(places) + Cardinality(ground) = Cardinality(Stacks)
        /\ \E p \in Players : purse[p] + purse[Partner(p)] + vendors
                                = Purses0[p] + Purses0[Partner(p)] + Vendors0

Settles == (pack' # pack \/ purse' # purse) /\ trade # NoTrade /\ trade' = NoTrade
Gives(deal) == deal.gives # {} \/ deal.pays > 0

(* Whoever gives anything away on a Confirm pressed in this trade gives and  *)
(* gets what the window showed then, whatever either side changed since and  *)
(* however late the window and the requests were.                            *)
GivesWhatThisTradeShowed ==
    [][Settles => \A p \in Players :
            Gives(DealOf(trade, p)) /\ meant'[p].of = trades => DealOf(trade, p) = meant'[p]]_vars

(* Confirm names the revision the player saw: the same of every Confirm that *)
(* is accepted.                                                              *)
GivesWhatWasSeen ==
    [][Settles => \A p \in Players : Gives(DealOf(trade, p)) => DealOf(trade, p) = meant'[p]]_vars

(* Once everything sent has arrived, a window shows the trade as it stands   *)
(* and no window outlives its trade, through any run of closes and reopens.  *)
QuietWindowIsCurrent ==
    \A p \in Players :
        ~closed[p] /\ ~dismissed[p] =>
            IF trade = NoTrade THEN window[p] = NoTrade
            ELSE ~trade.dirty[p] => window[p] = ViewOf(trade, p)
=============================================================================
