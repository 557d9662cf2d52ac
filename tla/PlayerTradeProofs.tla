-------------------------- MODULE PlayerTradeProofs --------------------------
(***************************************************************************)
(* A trade proved for every pack, purse and number of requests, outside    *)
(* changes and trades: whoever gives on a Confirm pressed in the trade     *)
(* gives what its window showed, and a window with nothing on its way      *)
(* shows the trade as it stands.                                           *)
(*                                                                         *)
(* A revision names what is offered only within its trade: requests and    *)
(* windows of an earlier trade may name the revision of this one.  So what *)
(* a window or a request knows (Dealt) is said with the trade it knows it  *)
(* of, and of earlier trades nothing is said.                              *)
(***************************************************************************)
EXTENDS PlayerTrade, FiniteSetTheorems, FunctionTheorems, WellFoundedInduction, TLAPS

(* A trade, whatever it offers. *)
Session(O, S) == [revision : Nat, offers : O, silver : S,
                  confirmed : [Players -> BOOLEAN], dirty : [Players -> BOOLEAN]]
Shape(t) == \E O, S : t \in Session(O, S)

(* What stands for no trade is no trade, and what for no window no window. *)
Apart ==
    /\ ~Shape(NoTrade)
    /\ \A r, m, d, c : NoTrade # [revision |-> r, mine |-> m, deal |-> d, confirmed |-> c]

(* What a revision and a deal in hand say of the trade that is open. *)
Dealt(p, revision, deal) ==
    /\ deal.of \in Nat /\ deal.of <= trades
    /\ trade # NoTrade /\ deal.of = trades =>
          /\ revision \in Nat /\ revision <= trade.revision
          /\ revision = trade.revision => deal = DealOf(trade, p)

Sequence(s) == \E S : s \in Seq(S)

Types ==
    /\ trades \in Nat
    /\ trade # NoTrade => Shape(trade) /\ trades >= 1
    /\ DOMAIN requests = Players /\ DOMAIN window = Players /\ DOMAIN meant = Players
    /\ \A p \in Players : Sequence(requests[p])
    /\ closed \in [Players -> BOOLEAN] /\ dismissed \in [Players -> BOOLEAN]

Requested(p) == \A i \in 1..Len(requests[p]) : Dealt(p, requests[p][i].revision, requests[p][i].deal)
Shown(p) == window[p] # NoTrade => Dealt(p, window[p].revision, window[p].deal)
Confirmed(p) ==
    trade # NoTrade /\ trade.confirmed[p] /\ meant[p].of = trades => meant[p] = DealOf(trade, p)

(* What the tick has still to tell a window. *)
Told(p) ==
    /\ dismissed[p] => window[p] = NoTrade
    /\ closed[p] /\ trade # NoTrade => trade.dirty[p]
    /\ ~closed[p] /\ ~dismissed[p] =>
          IF trade = NoTrade THEN window[p] = NoTrade
          ELSE ~trade.dirty[p] => window[p] = ViewOf(trade, p)

IInv ==
    /\ Types
    /\ \A p \in Players : Requested(p) /\ Shown(p) /\ Confirmed(p) /\ Told(p)

-----------------------------------------------------------------------------
(* The pair, and sequences. *)

LEMMA Pair ==
    ASSUME NEW p \in Players
    PROVE  /\ Partner(p) \in Players /\ Partner(p) # p
           /\ \A q \in Players : q = p \/ q = Partner(p)
<1>1. IsFiniteSet(Players) /\ Cardinality(Players) = 2
  BY PlayerTradeAssumption
<1>2. IsFiniteSet(Players \ {p}) /\ Cardinality(Players \ {p}) = 1
  BY <1>1, FS_RemoveElement
<1>3. PICK q : Players \ {p} = {q}
  BY <1>2, FS_Singleton
<1>4. \E r \in Players : r # p
  BY <1>3
<1>5. Partner(p) \in Players /\ Partner(p) # p
  BY <1>4 DEF Partner
<1> QED BY <1>3, <1>5

LEMMA Appended ==
    ASSUME NEW s, NEW e, Sequence(s)
    PROVE  /\ Sequence(Append(s, e))
           /\ \A i \in 1..Len(Append(s, e)) : Append(s, e)[i] = e \/ (i \in 1..Len(s) /\ Append(s, e)[i] = s[i])
<1>1. PICK S : s \in Seq(S)
  BY DEF Sequence
<1>2. s \in Seq(S \cup {e}) /\ e \in S \cup {e}
  BY <1>1
<1>3. Append(s, e) \in Seq(S \cup {e})
  BY <1>2
<1>4. /\ Len(Append(s, e)) = Len(s) + 1 /\ Len(s) \in Nat
      /\ \A i \in 1..Len(s) + 1 : Append(s, e)[i] = IF i <= Len(s) THEN s[i] ELSE e
  BY <1>2
<1> QED BY <1>3, <1>4 DEF Sequence

LEMMA TailTaken ==
    ASSUME NEW s, Sequence(s), s # <<>>
    PROVE  /\ Sequence(Tail(s)) /\ 1 \in 1..Len(s) /\ Head(s) = s[1]
           /\ \A i \in 1..Len(Tail(s)) : i + 1 \in 1..Len(s) /\ Tail(s)[i] = s[i + 1]
<1>1. PICK S : s \in Seq(S)
  BY DEF Sequence
<1>2. /\ Tail(s) \in Seq(S) /\ Len(Tail(s)) = Len(s) - 1 /\ Len(s) \in Nat /\ Len(s) >= 1
      /\ Head(s) = s[1] /\ \A i \in 1..Len(s) - 1 : Tail(s)[i] = s[i + 1]
  BY <1>1
<1> QED BY <1>2 DEF Sequence

-----------------------------------------------------------------------------
(* What a change of the trade leaves of what is known of it. *)

(* From t to u nothing is offered anew under the same revision, and nobody   *)
(* has confirmed who had not.                                                *)
Later(t, u) ==
    /\ u.revision >= t.revision
    /\ u.revision = t.revision => u.offers = t.offers /\ u.silver = t.silver
    /\ \A p \in Players : u.confirmed[p] => t.confirmed[p] /\ u.revision = t.revision

LEMMA ChangedLater ==
    ASSUME NEW t, Shape(t), NEW u, Shape(u), u.revision = t.revision
    PROVE  /\ Shape(Changed(u)) /\ Later(t, Changed(u)) /\ Changed(u).dirty = Everybody
           /\ Changed(u).revision = t.revision + 1 /\ Changed(u).confirmed = Nobody
<1>1. PICK O, S : u \in Session(O, S)
  BY DEF Shape
<1>2. Nobody \in [Players -> BOOLEAN] /\ Everybody \in [Players -> BOOLEAN]
      /\ \A p \in Players : ~Nobody[p]
  BY DEF Nobody, Everybody
<1>3. /\ Changed(u) \in Session(O, S) /\ Changed(u).revision = u.revision + 1
      /\ Changed(u).confirmed = Nobody /\ Changed(u).dirty = Everybody
  <2> DEFINE next == u.revision + 1
             v == [u EXCEPT !.revision = next, !.confirmed = Nobody, !.dirty = Everybody]
  <2>1. next \in Nat
    BY <1>1 DEF Session
  <2>2. Changed(u) = v
    BY DEF Changed
  <2> HIDE DEF next
  <2>3. v \in Session(O, S) /\ v.revision = next /\ v.confirmed = Nobody /\ v.dirty = Everybody
    BY <1>1, <1>2, <2>1 DEF Session
  <2> QED BY <2>2, <2>3 DEF next
<1>4. t.revision \in Nat
  BY DEF Shape, Session
<1> QED BY <1>2, <1>3, <1>4 DEF Later, Shape

LEMMA ReviewLater ==
    ASSUME NEW t, Shape(t)
    PROVE  \/ Review(t) = t
           \/ Shape(Review(t)) /\ Later(t, Review(t)) /\ Review(t).dirty = Everybody
<1> DEFINE o == [p \in Players |-> Restrict(t.offers[p], StillThere(t, p))]
           s == [p \in Players |-> StillHeld(t, p)]
           kept == [t EXCEPT !.offers = o, !.silver = s]
<1>1. Review(t) = IF kept = t THEN t ELSE Changed(kept)
  BY DEF Review
<1>2. Shape(kept) /\ kept.revision = t.revision
  <2>1. PICK O, S : t \in Session(O, S)
    BY DEF Shape
  <2>2. kept \in Session({o}, {s}) /\ kept.revision = t.revision
    BY <2>1 DEF Session
  <2> QED BY <2>2 DEF Shape
<1> HIDE DEF kept
<1> QED BY <1>1, <1>2, ChangedLater

-----------------------------------------------------------------------------
(* A step of the server: what is known, and what the tick has still to tell. *)

(* Every request there is was there before. *)
Carried(p) ==
    /\ Sequence(requests'[p])
    /\ \A i \in 1..Len(requests'[p]) : \E j \in 1..Len(requests[p]) : requests'[p][i] = requests[p][j]

(* The trade closes, or goes on with nothing new under the same revision,    *)
(* nobody confirmed on something else and nobody left in the dark.           *)
Closes == trade' = NoTrade /\ closed' = Everybody
GoesOn ==
    /\ trade # NoTrade /\ Shape(trade') /\ closed' = closed
    /\ trade'.revision >= trade.revision
    /\ trade'.revision = trade.revision => trade'.offers = trade.offers /\ trade'.silver = trade.silver
    /\ \A p \in Players : trade'.confirmed[p] =>
          \/ Confirmed(p)'
          \/ trade.confirmed[p] /\ trade'.revision = trade.revision /\ meant'[p] = meant[p]
    /\ \A p \in Players :
          \/ trade'.dirty[p]
          \/ /\ ~trade.dirty[p] /\ trade'.revision = trade.revision
             /\ trade'.confirmed = trade.confirmed

Stays == trade' = trade /\ closed' = closed /\ meant' = meant

LEMMA SameDeal ==
    ASSUME trades' = trades, trade'.offers = trade.offers, trade'.silver = trade.silver,
           NEW p \in Players
    PROVE  DealOf(trade, p)' = DealOf(trade, p)
  BY DEF DealOf

LEMMA StillDealt ==
    ASSUME IInv, trades' = trades, Closes \/ GoesOn \/ Stays, NEW p \in Players, NEW r, NEW d, Dealt(p, r, d)
    PROVE  Dealt(p, r, d)'
<1>1. CASE Closes
  BY <1>1 DEF Closes, Dealt
<1>2. CASE GoesOn
  <2>1. trade.revision \in Nat /\ trade'.revision \in Nat
    BY <1>2 DEF GoesOn, IInv, Types, Shape, Session
  <2>2. CASE d.of # trades
    BY <2>2 DEF Dealt
  <2>3. CASE d.of = trades
    <3>1. r \in Nat /\ r <= trade.revision /\ (r = trade.revision => d = DealOf(trade, p))
      BY <1>2, <2>3 DEF Dealt, GoesOn
    <3>2. r <= trade'.revision /\ (r = trade'.revision => trade'.revision = trade.revision)
      BY <1>2, <2>1, <3>1 DEF GoesOn
    <3>3. r = trade'.revision => d = DealOf(trade, p)'
      BY <1>2, <3>1, <3>2, SameDeal DEF GoesOn
    <3> QED BY <3>1, <3>2, <3>3 DEF Dealt
  <2> QED BY <2>2, <2>3
<1>3. CASE Stays
  BY <1>3 DEF Stays, Dealt, DealOf
<1> QED BY <1>1, <1>2, <1>3

LEMMA ServerStep ==
    ASSUME Apart, IInv, trades' = trades, UNCHANGED clientVars, DOMAIN requests' = Players,
           DOMAIN meant' = Players, \A p \in Players : Carried(p), Closes \/ GoesOn \/ Stays
    PROVE  IInv'
<1>1. /\ window' = window /\ dismissed' = dismissed
  BY DEF clientVars
<1>2. Types'
  <2>1. closed' \in [Players -> BOOLEAN]
    BY DEF Closes, GoesOn, Stays, IInv, Types, Everybody
  <2>2. trade' # NoTrade => Shape(trade)' /\ trades >= 1
    BY DEF Closes, GoesOn, Stays, IInv, Types, Shape, Session
  <2> QED BY <1>1, <2>1, <2>2 DEF IInv, Types, Carried, Shape, Session
<1>3. ASSUME NEW p \in Players
      PROVE  Requested(p)' /\ Shown(p)' /\ Confirmed(p)' /\ Told(p)'
  <2>1. Requested(p)'
    <3>1. ASSUME NEW i \in 1..Len(requests'[p]), NEW r, NEW d,
                 r = requests'[p][i].revision, d = requests'[p][i].deal
          PROVE  Dealt(p, r, d)'
      <4>1. PICK j \in 1..Len(requests[p]) : requests'[p][i] = requests[p][j]
        BY <3>1 DEF Carried
      <4>2. Dealt(p, requests[p][j].revision, requests[p][j].deal)
        BY DEF IInv, Requested
      <4>3. Dealt(p, r, d)
        BY <3>1, <4>1, <4>2
      <4> QED BY <4>3, StillDealt
    <3> QED BY <3>1 DEF Requested, Dealt
  <2>2. Shown(p)'
    <3>1. CASE window[p] = NoTrade
      BY <1>1, <3>1 DEF Shown
    <3>2. CASE window[p] # NoTrade
      <4>1. Dealt(p, window[p].revision, window[p].deal)
        BY <3>2 DEF IInv, Shown
      <4>2. ASSUME NEW r, NEW d, r = window[p].revision, d = window[p].deal
            PROVE  Dealt(p, r, d)'
        BY <4>1, <4>2, StillDealt
      <4> QED BY <1>1, <4>2 DEF Dealt, Shown
    <3> QED BY <3>1, <3>2
  <2>3. Confirmed(p)'
    <3>1. CASE Closes
      BY <3>1 DEF Closes, Confirmed
    <3>2. CASE GoesOn
      <4>1. CASE trade.confirmed[p] /\ trade'.revision = trade.revision /\ meant'[p] = meant[p]
        BY <3>2, <4>1, SameDeal DEF GoesOn, IInv, Confirmed
      <4> QED BY <3>2, <4>1 DEF GoesOn, Confirmed
    <3>3. CASE Stays
      BY <3>3 DEF Stays, IInv, Confirmed, DealOf
    <3> QED BY <3>1, <3>2, <3>3
  <2>4. Told(p)'
    <3>1. Told(p)
      BY DEF IInv
    <3>2. CASE Closes
      BY <1>1, <3>1, <3>2 DEF Closes, Told, Everybody
    <3>3. CASE GoesOn
      <4>1. CASE trade'.dirty[p] /\ trade' # NoTrade
        BY <1>1, <3>1, <4>1 DEF Told
      <4>2. CASE ~trade'.dirty[p] /\ trade' # NoTrade
        <5>1. /\ ~trade.dirty[p] /\ trade'.revision = trade.revision
              /\ trade'.confirmed = trade.confirmed /\ trade'.offers = trade.offers
              /\ DealOf(trade, p)' = DealOf(trade, p)
          BY <3>3, <4>2, SameDeal DEF GoesOn
        <5>2. ViewOf(trade, p)' = ViewOf(trade, p)
          BY <5>1 DEF ViewOf
        <5> QED BY <1>1, <3>1, <3>3, <4>2, <5>1, <5>2 DEF Told, GoesOn
      <4>3. CASE trade' = NoTrade
        BY <3>3, <4>3 DEF GoesOn, Apart
      <4> QED BY <4>1, <4>2, <4>3
    <3>4. CASE Stays
      BY <1>1, <3>1, <3>4 DEF Stays, Told, ViewOf, DealOf
    <3> QED BY <3>2, <3>3, <3>4
  <2> QED BY <2>1, <2>2, <2>3, <2>4
<1> QED BY <1>2, <1>3 DEF IInv

LEMMA AllCarried ==
    ASSUME IInv, UNCHANGED requests \/ \E p \in Players : requests[p] # <<>> /\ Taken(p)
    PROVE  DOMAIN requests' = Players /\ \A q \in Players : Carried(q)
<1>1. DOMAIN requests = Players /\ \A q \in Players : Sequence(requests[q])
  BY DEF IInv, Types
<1>2. CASE UNCHANGED requests
  BY <1>1, <1>2 DEF Carried
<1>3. ASSUME NEW p \in Players, requests[p] # <<>>, Taken(p)
      PROVE  DOMAIN requests' = Players /\ \A q \in Players : Carried(q)
  <2>1. /\ DOMAIN requests' = Players /\ requests'[p] = Tail(requests[p])
        /\ \A q \in Players \ {p} : requests'[q] = requests[q]
    BY <1>1, <1>3 DEF Taken
  <2>2. Carried(p)
    BY <1>1, <1>3, <2>1, TailTaken DEF Carried
  <2> QED BY <1>1, <2>1, <2>2 DEF Carried
<1> QED BY <1>2, <1>3

-----------------------------------------------------------------------------
(* The server's steps. *)

LEMMA LaterGoesOn ==
    ASSUME IInv, trade # NoTrade, NEW u, Shape(u), Later(trade, u), trade' = u,
           closed' = closed, meant' = meant, \A p \in Players : u.dirty[p]
    PROVE  GoesOn
  BY DEF GoesOn, Later, Shape

LEMMA ConfirmationsCleared ==
    ASSUME NEW t, Shape(t)
    PROVE  /\ Shape(ClearConfirmations(t)) /\ Later(t, ClearConfirmations(t))
           /\ \A p \in Players : ClearConfirmations(t).dirty[p]
<1>1. PICK O, S : t \in Session(O, S)
  BY DEF Shape
<1> DEFINE u == ClearConfirmations(t)
<1>2. Nobody \in [Players -> BOOLEAN] /\ Everybody \in [Players -> BOOLEAN]
      /\ \A p \in Players : ~Nobody[p] /\ Everybody[p]
  BY DEF Nobody, Everybody
<1>3. /\ u \in Session(O, S) /\ u.revision = t.revision /\ u.offers = t.offers
      /\ u.silver = t.silver /\ u.confirmed = Nobody /\ u.dirty = Everybody
  BY <1>1, <1>2 DEF ClearConfirmations, Session
<1>4. t.revision \in Nat
  BY <1>1 DEF Session
<1> HIDE DEF u
<1>5. Shape(u) /\ Later(t, u) /\ \A p \in Players : u.dirty[p]
  BY <1>2, <1>3, <1>4 DEF Shape, Later
<1> QED BY <1>5 DEF u

LEMMA OfferedShape ==
    ASSUME NEW t, Shape(t), NEW p \in Players, NEW e
    PROVE  /\ Shape([t EXCEPT !.offers[p] = e]) /\ [t EXCEPT !.offers[p] = e].revision = t.revision
           /\ Shape([t EXCEPT !.silver[p] = e]) /\ [t EXCEPT !.silver[p] = e].revision = t.revision
<1>1. PICK O, S : t \in Session(O, S)
  BY DEF Shape
<1> DEFINE o == [t.offers EXCEPT ![p] = e]
           s == [t.silver EXCEPT ![p] = e]
<1>2. [t EXCEPT !.offers[p] = e] = [t EXCEPT !.offers = o]
  OBVIOUS
<1>3. [t EXCEPT !.silver[p] = e] = [t EXCEPT !.silver = s]
  OBVIOUS
<1> HIDE DEF o, s
<1>4. [t EXCEPT !.offers = o] \in Session({o}, S) /\ [t EXCEPT !.offers = o].revision = t.revision
  BY <1>1 DEF Session
<1>5. [t EXCEPT !.silver = s] \in Session(O, {s}) /\ [t EXCEPT !.silver = s].revision = t.revision
  BY <1>1 DEF Session
<1>6. Shape([t EXCEPT !.offers = o]) /\ Shape([t EXCEPT !.silver = s])
  BY <1>4, <1>5 DEF Shape
<1> QED BY <1>2, <1>3, <1>4, <1>5, <1>6

(* The trade is withdrawn from, refused on, or offered to anew. *)
LEMMA ReviewKeeps ==
    ASSUME Apart, IInv, NEW p \in Players, Withdraw \/ RefuseStale(p)
    PROVE  IInv'
<1>1. /\ trade # NoTrade /\ Shape(trade) /\ closed' = closed /\ meant' = meant /\ trades' = trades
      /\ UNCHANGED clientVars
  BY DEF Withdraw, RefuseStale, IInv, Types, counters
<1>2. DOMAIN requests' = Players /\ DOMAIN meant' = Players /\ \A q \in Players : Carried(q)
  BY <1>1, AllCarried DEF Withdraw, RefuseStale, IInv, Types
<1>3. Everybody \in [Players -> BOOLEAN] /\ \A q \in Players : Everybody[q]
  BY DEF Everybody
<1>4. CASE Withdraw
  <2>1. GoesOn
    BY <1>1, <1>3, <1>4, ReviewLater, LaterGoesOn DEF Withdraw
  <2> QED BY <1>1, <1>2, <2>1, ServerStep
<1>5. CASE RefuseStale(p)
  <2> DEFINE t == Review(trade)
             u == [t EXCEPT !.dirty[p] = TRUE]
  <2>1. trade' = u
    BY <1>5 DEF RefuseStale
  <2>2. Shape(t) /\ (t = trade \/ (Later(trade, t) /\ t.dirty = Everybody))
    BY <1>1, ReviewLater
  <2>3. PICK O, S : t \in Session(O, S)
    BY <2>2 DEF Shape
  <2> HIDE DEF t
  <2>4. /\ u \in Session(O, S) /\ u.revision = t.revision /\ u.offers = t.offers
        /\ u.silver = t.silver /\ u.confirmed = t.confirmed
        /\ \A q \in Players : u.dirty[q] = (IF q = p THEN TRUE ELSE t.dirty[q])
    BY <2>3 DEF Session
  <2> HIDE DEF u
  <2>5. /\ Shape(u) /\ u.revision >= trade.revision /\ trade.revision \in Nat
        /\ (u.revision = trade.revision => u.offers = trade.offers /\ u.silver = trade.silver)
        /\ \A q \in Players : u.confirmed[q] => trade.confirmed[q] /\ u.revision = trade.revision
    BY <1>1, <2>2, <2>4 DEF Shape, Later, Session
  <2>6. \A q \in Players :
           u.dirty[q] \/ (~trade.dirty[q] /\ u.revision = trade.revision /\ u.confirmed = trade.confirmed)
    BY <1>3, <2>2, <2>4
  <2>7. GoesOn
    BY <1>1, <2>1, <2>5, <2>6 DEF GoesOn, Shape
  <2> QED BY <1>1, <1>2, <2>7, ServerStep
<1> QED BY <1>4, <1>5

LEMMA OfferKeeps ==
    ASSUME Apart, IInv, NEW p \in Players, SetItem(p) \/ ClearItem(p) \/ SetSilver(p)
    PROVE  IInv'
<1>1. /\ trade # NoTrade /\ Shape(trade) /\ closed' = closed /\ meant' = meant /\ trades' = trades
      /\ UNCHANGED clientVars /\ requests[p] # <<>> /\ Taken(p)
  BY DEF SetItem, ClearItem, SetSilver, Names, Asks, IInv, Types, counters
<1>2. DOMAIN requests' = Players /\ DOMAIN meant' = Players /\ \A q \in Players : Carried(q)
  BY <1>1, AllCarried DEF IInv, Types
<1>3. \E e : \/ trade' = Changed([trade EXCEPT !.offers[p] = e])
             \/ trade' = Changed([trade EXCEPT !.silver[p] = e])
  BY DEF SetItem, ClearItem, SetSilver
<1>4. PICK u : trade' = Changed(u) /\ Shape(u) /\ u.revision = trade.revision
  <2>1. PICK e : \/ trade' = Changed([trade EXCEPT !.offers[p] = e])
                 \/ trade' = Changed([trade EXCEPT !.silver[p] = e])
    BY <1>3
  <2> DEFINE a == [trade EXCEPT !.offers[p] = e]
             b == [trade EXCEPT !.silver[p] = e]
  <2>2. Shape(a) /\ a.revision = trade.revision /\ Shape(b) /\ b.revision = trade.revision
    BY <1>1, OfferedShape
  <2>3. trade' = Changed(a) \/ trade' = Changed(b)
    BY <2>1
  <2> HIDE DEF a, b
  <2> QED BY <2>2, <2>3
<1>5. /\ Shape(Changed(u)) /\ Later(trade, Changed(u))
      /\ \A q \in Players : Changed(u).dirty[q]
  BY <1>1, <1>4, ChangedLater DEF Everybody
<1>6. GoesOn
  BY <1>1, <1>4, <1>5, LaterGoesOn
<1> QED BY <1>1, <1>2, <1>6, ServerStep

(* The head of what a player sent knows the trade it names. *)
LEMMA HeadIsDealt ==
    ASSUME IInv, NEW p \in Players, requests[p] # <<>>
    PROVE  Dealt(p, Head(requests[p]).revision, Head(requests[p]).deal)
<1>1. 1 \in 1..Len(requests[p]) /\ Head(requests[p]) = requests[p][1]
  BY TailTaken DEF IInv, Types
<1> QED BY <1>1 DEF IInv, Requested

LEMMA ConfirmKeeps ==
    ASSUME Apart, IInv, NEW p \in Players, Confirm(p) \/ ConfirmBusy(p)
    PROVE  IInv'
<1>1. /\ trade # NoTrade /\ Shape(trade) /\ trades' = trades
      /\ UNCHANGED clientVars /\ requests[p] # <<>> /\ Taken(p)
      /\ Head(requests[p]).revision = trade.revision
  BY DEF Confirm, ConfirmBusy, Names, Asks, IInv, Types, counters
<1>2. DOMAIN requests' = Players /\ DOMAIN meant' = Players /\ \A q \in Players : Carried(q)
  BY <1>1, AllCarried DEF Confirm, ConfirmBusy, IInv, Types
<1>3. \A q \in Players \ {p} : meant'[q] = meant[q]
  BY DEF Confirm, ConfirmBusy, IInv, Types
<1>4. CASE trade' = ClearConfirmations(trade) /\ closed' = closed
  <2> DEFINE u == ClearConfirmations(trade)
  <2>1. /\ Shape(u) /\ Later(trade, u) /\ \A q \in Players : u.dirty[q]
        /\ \A q \in Players : ~u.confirmed[q]
    BY <1>1, ConfirmationsCleared DEF ClearConfirmations, Nobody, Shape, Session
  <2> HIDE DEF u
  <2>2. GoesOn
    BY <1>1, <1>4, <2>1 DEF GoesOn, Later, Shape, u
  <2> QED BY <1>1, <1>2, <2>2, ServerStep
<1>5. CASE Confirm(p) /\ Closes
  BY <1>1, <1>2, <1>5, ServerStep
<1>6. CASE /\ Confirm(p) /\ closed' = closed
           /\ trade' = [trade EXCEPT !.confirmed[p] = TRUE, !.dirty = Everybody]
  <2> DEFINE u == [trade EXCEPT !.confirmed[p] = TRUE, !.dirty = Everybody]
  <2>1. PICK O, S : trade \in Session(O, S)
    BY <1>1 DEF Shape
  <2>2. Everybody \in [Players -> BOOLEAN] /\ \A q \in Players : Everybody[q]
    BY DEF Everybody
  <2>3. /\ u \in Session(O, S) /\ u.revision = trade.revision /\ u.offers = trade.offers
        /\ u.silver = trade.silver /\ u.dirty = Everybody
        /\ \A q \in Players \ {p} : u.confirmed[q] = trade.confirmed[q]
    BY <2>1, <2>2 DEF Session
  <2> HIDE DEF u
  <2>4. trade' = u /\ Shape(u) /\ trade.revision \in Nat
    BY <1>6, <2>1, <2>3 DEF Shape, Session, u
  <2>5. meant'[p] = Head(requests[p]).deal
    BY <1>6 DEF Confirm, IInv, Types
  <2>6. Confirmed(p)'
    <3>1. Dealt(p, Head(requests[p]).revision, Head(requests[p]).deal)
      BY <1>1, HeadIsDealt
    <3>2. meant'[p].of = trades => meant'[p] = DealOf(trade, p)
      BY <1>1, <2>5, <3>1 DEF Dealt
    <3>3. DealOf(trade, p)' = DealOf(trade, p)
      BY <1>1, <2>3, <2>4, SameDeal
    <3> QED BY <1>1, <3>2, <3>3 DEF Confirmed
  <2>7. GoesOn
    BY <1>1, <1>3, <1>6, <2>2, <2>3, <2>4, <2>6 DEF GoesOn, Shape
  <2> QED BY <1>1, <1>2, <2>7, ServerStep
<1>7. CASE Confirm(p)
  <2>1. CASE trade.confirmed[Partner(p)]
    BY <1>4, <1>5, <1>7, <2>1 DEF Confirm, Settle, Close, Closes
  <2>2. CASE ~trade.confirmed[Partner(p)]
    BY <1>6, <1>7, <2>2 DEF Confirm
  <2> QED BY <2>1, <2>2
<1>8. CASE ConfirmBusy(p)
  BY <1>4, <1>8 DEF ConfirmBusy
<1> QED BY <1>7, <1>8

(* What touches no trade, and what ends one. *)
LEMMA OthersKeep ==
    ASSUME Apart, IInv, CoolDown \/ Part \/ \E p \in Players : Refuse(p) \/ Cancel(p) \/ OutsideStep(p)
    PROVE  IInv'
<1>1. /\ UNCHANGED clientVars /\ trades' = trades /\ meant' = meant
      /\ UNCHANGED requests \/ \E p \in Players : requests[p] # <<>> /\ Taken(p)
  <2>1. ASSUME NEW p \in Players, OutsideStep(p)
        PROVE  UNCHANGED clientVars /\ trades' = trades /\ meant' = meant /\ UNCHANGED requests
    BY <2>1 DEF OutsideStep, Spend, Earn, Drop, PickUp, Outside
  <2>2. CASE CoolDown \/ Part
    BY <2>2 DEF CoolDown, Part, counters
  <2>3. ASSUME NEW p \in Players, Refuse(p) \/ Cancel(p)
        PROVE  /\ UNCHANGED clientVars /\ trades' = trades /\ meant' = meant
               /\ requests[p] # <<>> /\ Taken(p)
    BY <2>3 DEF Refuse, Cancel, Asks, counters
  <2> QED BY <2>1, <2>2, <2>3
<1>2. DOMAIN requests' = Players /\ DOMAIN meant' = Players /\ \A q \in Players : Carried(q)
  BY <1>1, AllCarried DEF IInv, Types
<1>3. Closes \/ Stays
  <2>1. ASSUME NEW p \in Players, OutsideStep(p)
        PROVE  Stays
    BY <2>1 DEF OutsideStep, Spend, Earn, Drop, PickUp, Outside, Stays
  <2>2. ASSUME NEW p \in Players, Refuse(p) \/ Cancel(p)
        PROVE  Closes \/ Stays
    BY <2>2 DEF Refuse, Cancel, Close, Closes, Stays
  <2> QED BY <2>1, <2>2 DEF CoolDown, Part, Close, Closes, Stays
<1> QED BY <1>1, <1>2, <1>3, ServerStep

(* A trade opens: whatever is on its way was said of an earlier one. *)
LEMMA OpenKeeps ==
    ASSUME Apart, IInv, NEW p \in Players, Open(p)
    PROVE  IInv'
<1>1. /\ trade = NoTrade /\ trades' = trades + 1 /\ trades \in Nat
      /\ closed' = closed /\ window' = window /\ dismissed' = dismissed
      /\ meant' = [q \in Players |-> NoDeal] /\ requests[p] # <<>> /\ Taken(p)
  BY DEF Open, Asks, clientVars, IInv, Types
<1>2. DOMAIN requests' = Players /\ \A q \in Players : Carried(q)
  BY <1>1, AllCarried
<1>3. Shape(trade') /\ \A q \in Players : trade'.dirty[q] /\ ~trade'.confirmed[q]
  <2>1. Nobody \in [Players -> BOOLEAN] /\ Everybody \in [Players -> BOOLEAN]
        /\ \A q \in Players : Everybody[q] /\ ~Nobody[q]
    BY DEF Nobody, Everybody
  <2> DEFINE o == [q \in Players |-> NoOffer]
             u == [revision |-> 1, offers |-> o, silver |-> NoSilver,
                   confirmed |-> Nobody, dirty |-> Everybody]
  <2>2. trade' = u
    BY DEF Open
  <2> HIDE DEF o
  <2>3. u \in Session({o}, {NoSilver}) /\ u.dirty = Everybody /\ u.confirmed = Nobody
    BY <2>1 DEF Session
  <2> HIDE DEF u
  <2> QED BY <2>1, <2>2, <2>3 DEF Shape
<1>4. Types'
  BY <1>1, <1>2, <1>3 DEF IInv, Types, Carried, Shape, Session
<1>5. ASSUME NEW q \in Players, NEW r, NEW d, Dealt(q, r, d)
      PROVE  Dealt(q, r, d)'
  BY <1>1, <1>5 DEF Dealt
<1>6. ASSUME NEW q \in Players
      PROVE  Requested(q)' /\ Shown(q)' /\ Confirmed(q)' /\ Told(q)'
  <2>1. Requested(q)'
    <3>1. ASSUME NEW i \in 1..Len(requests'[q]), NEW r, NEW d,
                 r = requests'[q][i].revision, d = requests'[q][i].deal
          PROVE  Dealt(q, r, d)'
      <4>1. PICK j \in 1..Len(requests[q]) : requests'[q][i] = requests[q][j]
        BY <1>2, <3>1 DEF Carried
      <4>2. Dealt(q, requests[q][j].revision, requests[q][j].deal)
        BY DEF IInv, Requested
      <4>3. Dealt(q, r, d)
        BY <3>1, <4>1, <4>2
      <4> QED BY <1>5, <4>3
    <3> QED BY <3>1 DEF Requested, Dealt
  <2>2. Shown(q)'
    <3>1. ASSUME window[q] # NoTrade, NEW r, NEW d, r = window[q].revision, d = window[q].deal
          PROVE  Dealt(q, r, d)'
      BY <1>5, <3>1 DEF IInv, Shown
    <3> QED BY <1>1, <3>1 DEF Shown, Dealt
  <2>3. Confirmed(q)'
    BY <1>3 DEF Confirmed
  <2>4. Told(q)'
    BY <1>1, <1>3 DEF Told, IInv
  <2> QED BY <2>1, <2>2, <2>3, <2>4
<1> QED BY <1>4, <1>6 DEF IInv

-----------------------------------------------------------------------------
(* What is offered to a client, and what a client asks. *)

LEMMA ClosedKeeps ==
    ASSUME Apart, IInv, NEW p \in Players, OfferClosed(p)
    PROVE  IInv'
<1>1. /\ trade' = trade /\ requests' = requests /\ meant' = meant /\ trades' = trades
      /\ closed[p] /\ closed' = [closed EXCEPT ![p] = FALSE]
      /\ dismissed' = [dismissed EXCEPT ![p] = FALSE]
      /\ window' = IF dismissed[p] THEN window ELSE [window EXCEPT ![p] = NoTrade]
  BY DEF OfferClosed, ReceiveClosed, counters
<1>2. Types'
  BY <1>1 DEF IInv, Types, Sequence, Shape, Session
<1>3. /\ window'[p] = NoTrade /\ ~closed'[p] /\ ~dismissed'[p]
      /\ \A q \in Players \ {p} :
            window'[q] = window[q] /\ closed'[q] = closed[q] /\ dismissed'[q] = dismissed[q]
  BY <1>1 DEF IInv, Types, Told
<1>4. ASSUME NEW q \in Players
      PROVE  Requested(q)' /\ Shown(q)' /\ Confirmed(q)'
  BY <1>1, <1>3 DEF IInv, Requested, Shown, Confirmed, Dealt, DealOf
<1>5. ASSUME NEW q \in Players
      PROVE  Told(q)'
  BY <1>1, <1>3 DEF IInv, Told, ViewOf, DealOf
<1> QED BY <1>2, <1>4, <1>5 DEF IInv

LEMMA StateKeeps ==
    ASSUME Apart, IInv, NEW p \in Players, OfferState(p)
    PROVE  IInv'
<1> DEFINE u == [trade EXCEPT !.dirty[p] = FALSE]
           v == ViewOf(trade, p)
<1>1. /\ trade # NoTrade /\ ~closed[p] /\ trade' = u
      /\ requests' = requests /\ meant' = meant /\ trades' = trades /\ closed' = closed
      /\ dismissed' = dismissed
      /\ window' = IF dismissed[p] THEN window ELSE [window EXCEPT ![p] = v]
  BY DEF OfferState, ReceiveState, counters
<1>2. PICK O, S : trade \in Session(O, S)
  BY <1>1 DEF IInv, Types, Shape
<1>3. /\ u \in Session(O, S) /\ u.revision = trade.revision /\ u.offers = trade.offers
      /\ u.silver = trade.silver /\ u.confirmed = trade.confirmed /\ ~u.dirty[p]
      /\ \A q \in Players \ {p} : u.dirty[q] = trade.dirty[q]
  BY <1>2 DEF Session
<1>4. v.revision = trade.revision /\ v.deal = DealOf(trade, p) /\ v # NoTrade
      /\ v.deal.of = trades
  BY DEF ViewOf, DealOf, Apart
<1> HIDE DEF u, v
<1>5. Shape(trade') /\ trade' # NoTrade
  BY <1>1, <1>3 DEF Shape, Apart
<1>6. Types'
  BY <1>1, <1>5 DEF IInv, Types, Sequence, Shape, Session
<1>7. \A q \in Players : DealOf(trade, q)' = DealOf(trade, q)
  BY <1>1, <1>3, SameDeal
<1>8. ASSUME NEW q \in Players
      PROVE  Requested(q)' /\ Confirmed(q)'
  BY <1>1, <1>3, <1>5, <1>7 DEF IInv, Requested, Confirmed, Dealt
<1>9. ASSUME NEW q \in Players
      PROVE  Shown(q)'
  <2>1. CASE q = p /\ ~dismissed[p]
    <3>1. window'[q] = v
      BY <1>1, <2>1 DEF IInv, Types
    <3>2. trade.revision \in Nat /\ trades \in Nat
      BY <1>2 DEF Session, IInv, Types
    <3> QED BY <1>1, <1>3, <1>4, <1>5, <1>7, <2>1, <3>1, <3>2 DEF Shown, Dealt
  <2>2. CASE q # p \/ dismissed[p]
    <3>1. window'[q] = window[q]
      BY <1>1, <2>2 DEF IInv, Types
    <3> QED BY <1>1, <1>3, <1>5, <1>7, <3>1 DEF IInv, Shown, Dealt
  <2> QED BY <2>1, <2>2
<1>10. ASSUME NEW q \in Players
      PROVE  Told(q)'
  <2>1. ViewOf(trade, q)' = ViewOf(trade, q)
    BY <1>1, <1>3, <1>7 DEF ViewOf
  <2>2. CASE q = p
    <3>1. ~dismissed[p] => window'[p] = ViewOf(trade, p)'
      BY <1>1, <2>1, <2>2 DEF v, IInv, Types
    <3>2. dismissed[p] => window'[p] = NoTrade
      BY <1>1 DEF IInv, Told
    <3> QED BY <1>1, <1>5, <2>2, <3>1, <3>2 DEF Told
  <2>3. CASE q # p
    <3>1. window'[q] = window[q] /\ trade'.dirty[q] = trade.dirty[q]
      BY <1>1, <1>3, <2>3 DEF IInv, Types
    <3> QED BY <1>1, <1>5, <2>1, <3>1 DEF IInv, Told
  <2> QED BY <2>2, <2>3
<1> QED BY <1>6, <1>8, <1>9, <1>10 DEF IInv

(* A request says of the trade what the window it was made in says. *)
LEMMA RequestIsDealt ==
    ASSUME IInv, NEW p \in Players, NEW action, NEW slot, NEW silver, NEW view,
           view = NoTrade \/ (view # NoTrade /\ view = window[p]),
           action # "Confirm" \/ view # NoTrade
    PROVE  Dealt(p, Request(action, slot, silver, view).revision,
                    Request(action, slot, silver, view).deal)
<1> DEFINE r == Request(action, slot, silver, view)
<1>1. NoDeal.of = 0 /\ trades \in Nat /\ (trade # NoTrade => trades >= 1)
  BY DEF NoDeal, IInv, Types
<1>2. CASE action = "Confirm"
  <2>1. r.revision = window[p].revision /\ r.deal = window[p].deal
    BY <1>2 DEF Request
  <2>2. Dealt(p, window[p].revision, window[p].deal)
    BY <1>2 DEF IInv, Shown
  <2> QED BY <2>1, <2>2
<1>3. CASE action # "Confirm"
  <2>1. r.deal = NoDeal
    BY <1>3 DEF Request
  <2> QED BY <1>1, <2>1 DEF Dealt
<1> QED BY <1>2, <1>3

LEMMA ClickKeeps ==
    ASSUME Apart, IInv, NEW p \in Players, ClientStep(p)
    PROVE  IInv'
<1>1. PICK request : Dealt(p, request.revision, request.deal) /\ Send(p, request)
  <2>1. CASE ClickOpen(p)
    BY <2>1, RequestIsDealt DEF ClickOpen
  <2>2. CASE Click(p)
    BY <2>2, RequestIsDealt DEF Click
  <2>3. CASE ClickCancel(p)
    BY <2>3, RequestIsDealt DEF ClickCancel
  <2> QED BY <2>1, <2>2, <2>3 DEF ClientStep
<1>2. /\ trade' = trade /\ closed' = closed /\ meant' = meant /\ trades' = trades
      /\ requests' = [requests EXCEPT ![p] = Append(@, request)]
  BY <1>1 DEF Send
<1>3. /\ DOMAIN window' = Players /\ dismissed' \in [Players -> BOOLEAN]
      /\ \A q \in Players : \/ window'[q] = window[q] /\ dismissed'[q] = dismissed[q]
                            \/ window'[q] = NoTrade /\ dismissed'[q]
  BY DEF ClientStep, ClickOpen, Click, ClickCancel, clientVars, IInv, Types
<1>4. /\ DOMAIN requests' = Players /\ requests'[p] = Append(requests[p], request)
      /\ \A q \in Players \ {p} : requests'[q] = requests[q]
      /\ \A q \in Players : Sequence(requests[q])
  BY <1>2 DEF IInv, Types
<1>5. \A q \in Players : Sequence(requests'[q])
  <2>1. Sequence(Append(requests[p], request))
    BY <1>4, Appended
  <2> QED BY <1>4, <2>1
<1>6. Types'
  BY <1>2, <1>3, <1>4, <1>5 DEF IInv, Types, Shape, Session
<1>7. ASSUME NEW q \in Players
      PROVE  Requested(q)'
  <2>1. CASE q # p
    BY <1>2, <1>4, <2>1 DEF IInv, Requested, Dealt, DealOf
  <2>2. CASE q = p
    <3>1. ASSUME NEW i \in 1..Len(requests'[p]), NEW e, e = requests'[p][i]
          PROVE  Dealt(p, e.revision, e.deal)
      <4>1. e = request \/ \E j \in 1..Len(requests[p]) : e = requests[p][j]
        BY <1>4, <3>1, Appended
      <4> QED BY <1>1, <4>1 DEF IInv, Requested
    <3>2. ASSUME NEW i \in 1..Len(requests'[p]), NEW e, e = requests'[p][i]
          PROVE  Dealt(p, e.revision, e.deal)'
      BY <1>2, <3>1, <3>2 DEF Dealt, DealOf
    <3> QED BY <2>2, <3>2 DEF Requested, Dealt
  <2> QED BY <2>1, <2>2
<1>8. ASSUME NEW q \in Players
      PROVE  Shown(q)' /\ Confirmed(q)' /\ Told(q)'
  BY <1>2, <1>3 DEF IInv, Shown, Confirmed, Told, Dealt, DealOf, ViewOf
<1> QED BY <1>6, <1>7, <1>8 DEF IInv

-----------------------------------------------------------------------------
(* Every step, and the theorems. *)

LEMMA InitialInv == ASSUME Apart, Init PROVE IInv
<1>1. Types
  BY DEF Init, Types, Nobody, Sequence
<1>2. ASSUME NEW p \in Players
      PROVE  Requested(p) /\ Shown(p) /\ Confirmed(p) /\ Told(p)
  BY DEF Init, Requested, Shown, Confirmed, Told, Nobody
<1> QED BY <1>1, <1>2 DEF IInv

LEMMA NextKeeps == ASSUME Apart, IInv, [Next]_vars PROVE IInv'
<1>1. CASE TickStep
  <2>1. PICK p \in Players : TRUE
    BY PlayerTradeAssumption, FS_EmptySet
  <2>2. CASE Part \/ CoolDown
    BY <2>2, OthersKeep
  <2>3. CASE Withdraw
    BY <2>1, <2>3, ReviewKeeps
  <2>4. ASSUME NEW q \in Players, OfferClosed(q) \/ OfferState(q)
        PROVE  IInv'
    BY <2>4, ClosedKeeps, StateKeeps
  <2> QED BY <1>1, <2>2, <2>3, <2>4 DEF TickStep
<1>2. ASSUME NEW p \in Players, RequestStep(p)
      PROVE  IInv'
  BY <1>2, OthersKeep, OpenKeeps, ReviewKeeps, OfferKeeps, ConfirmKeeps DEF RequestStep
<1>3. ASSUME NEW p \in Players, ClientStep(p) \/ OutsideStep(p)
      PROVE  IInv'
  BY <1>3, OthersKeep, ClickKeeps
<1>4. CASE UNCHANGED vars
  <2>1. /\ trade' = trade /\ closed' = closed /\ meant' = meant /\ trades' = trades
        /\ requests' = requests /\ UNCHANGED clientVars
    BY <1>4 DEF vars, clientVars, counters
  <2> QED BY <2>1, AllCarried, ServerStep DEF Stays, IInv, Types
<1> QED BY <1>1, <1>2, <1>3, <1>4 DEF Next

LEMMA Invariance == ASSUME Apart PROVE Spec => []IInv
  BY InitialInv, NextKeeps, PTL DEF Spec

(* However late a window is told, and however often the pair closes one      *)
(* trade and opens the next: with nothing left to tell it, it shows the      *)
(* trade as the server has it, and none when there is none.  The tick offers *)
(* a close before the state of the trade after it.                           *)
THEOREM WindowsAreCurrent == ASSUME Apart PROVE Spec => []QuietWindowIsCurrent
<1>1. IInv => QuietWindowIsCurrent
  BY DEF IInv, Told, QuietWindowIsCurrent
<1> QED BY <1>1, Invariance, PTL

(* settlePlayerTradeLocked runs on the second Confirm only; the first one's  *)
(* deal still stands because every change of the trade takes it back, and    *)
(* the second names the revision its window showed.                          *)
LEMMA SettlesAsShown ==
    ASSUME Apart, IInv, [Next]_vars, Settles, NEW p \in Players, meant'[p].of = trades
    PROVE  DealOf(trade, p) = meant'[p]
<1>1. PICK q \in Players : Confirm(q) /\ trade.confirmed[Partner(q)]
  <2>1. ASSUME NEW q \in Players, OutsideStep(q)
        PROVE  trade' = trade
    BY <2>1 DEF OutsideStep, Spend, Earn, Drop, PickUp, Outside
  <2>2. ASSUME NEW q \in Players, ClientStep(q)
        PROVE  trade' = trade
    BY <2>2 DEF ClientStep, ClickOpen, Click, ClickCancel, Send
  <2>3. CASE TickStep \/ UNCHANGED vars
    BY <2>3 DEF Settles, TickStep, Part, Withdraw, CoolDown, OfferClosed, OfferState, vars, goods
  <2>4. ASSUME NEW q \in Players, RequestStep(q), ~Confirm(q)
        PROVE  pack' = pack /\ purse' = purse
    BY <2>4 DEF RequestStep, Open, Refuse, Cancel, RefuseStale, SetItem, ClearItem, SetSilver,
                ConfirmBusy, goods
  <2>5. ASSUME NEW q \in Players, Confirm(q), ~trade.confirmed[Partner(q)]
        PROVE  pack' = pack /\ purse' = purse
    BY <2>5 DEF Confirm
  <2> QED BY <2>1, <2>2, <2>3, <2>4, <2>5 DEF Next, Settles
<1>2. /\ trade # NoTrade /\ requests[q] # <<>> /\ Head(requests[q]).revision = trade.revision
      /\ meant' = [meant EXCEPT ![q] = Head(requests[q]).deal]
  BY <1>1 DEF Confirm, Names, Asks
<1>3. CASE p = q
  <2>1. meant'[q] = Head(requests[q]).deal
    BY <1>2 DEF IInv, Types
  <2>2. Dealt(q, Head(requests[q]).revision, Head(requests[q]).deal)
    BY <1>2, HeadIsDealt
  <2> QED BY <1>2, <1>3, <2>1, <2>2 DEF Dealt
<1>4. CASE p # q
  <2>1. p = Partner(q)
    BY <1>4, Pair
  <2>2. meant'[p] = meant[p]
    BY <1>2, <1>4 DEF IInv, Types
  <2> QED BY <1>1, <1>2, <2>1, <2>2 DEF IInv, Confirmed
<1> QED BY <1>3, <1>4

(* Whoever gives on a Confirm pressed in a trade gives and gets what the     *)
(* window showed when it was pressed, for every number of requests on their  *)
(* way, of changes behind the trade, and of trades before it.                *)
THEOREM TradesGiveWhatTheyShowed == ASSUME Apart PROVE Spec => GivesWhatThisTradeShowed
<1>1. ASSUME IInv, [Next]_vars
      PROVE  [Settles => \A p \in Players :
                Gives(DealOf(trade, p)) /\ meant'[p].of = trades => DealOf(trade, p) = meant'[p]]_vars
  BY <1>1, SettlesAsShown
<1> QED BY <1>1, Invariance, PTL DEF Spec, GivesWhatThisTradeShowed
-----------------------------------------------------------------------------
(* The goods: insertTradeOffer finds room, and the exchange moves what was *)
(* offered and nothing else.                                               *)

LEMMA LeastElement ==
    ASSUME NEW T, T \subseteq Nat, T # {}
    PROVE  \E x \in T : \A y \in T : x <= y
<1>1. IsWellFoundedOn(OpToRel(<,Nat), Nat)
  BY NatLessThanWellFounded
<1>2. PICK x \in T : \A y \in T : ~ (<<y, x>> \in OpToRel(<,Nat))
  BY <1>1, WFMin
<1>3. \A y \in T : ~ (y < x)
  BY <1>2 DEF OpToRel
<1> QED BY <1>3

(* What insertTradeOffer leaves. *)
Filling(slots, stacks, filled) ==
    /\ \A s \in Slots \ Free(slots) : filled[s] = slots[s]
    /\ {filled[s] : s \in Free(slots)} \ {Empty} = stacks
    /\ Cardinality({s \in Free(slots) : filled[s] # Empty}) = Cardinality(stacks)
    /\ \A s \in Free(slots) : filled[s] # Empty => \A r \in Free(slots) : r < s => filled[r] # Empty

Packs == [Slots -> Stacks \cup {Empty}]

LEMMA FillNone ==
    ASSUME NEW slots \in Packs
    PROVE  Filling(slots, {}, slots)
<1>1. \A s \in Free(slots) : slots[s] = Empty
  BY DEF Free
<1>2. {s \in Free(slots) : slots[s] # Empty} = {}
  BY <1>1
<1> QED BY <1>1, <1>2, FS_EmptySet DEF Filling

(* One more stack goes to the lowest slot that is still free. *)
LEMMA FillOneMore ==
    ASSUME NEW slots \in Packs, NEW S \in SUBSET Stacks, NEW x \in Stacks, x \notin S, IsFiniteSet(S),
           Cardinality(S) < Cardinality(Free(slots)),
           NEW f \in Packs, Filling(slots, S, f)
    PROVE  \E g \in Packs : Filling(slots, S \cup {x}, g)
<1> DEFINE F == Free(slots)
           used == {s \in F : f[s] # Empty}
<1>1. F \subseteq Slots /\ Slots \subseteq Nat /\ IsFiniteSet(F) /\ Empty \notin Stacks
  BY PlayerTradeAssumption, FS_Subset DEF Free
<1>2. used \subseteq F /\ IsFiniteSet(used) /\ Cardinality(used) = Cardinality(S)
  BY <1>1, FS_Subset DEF Filling
<1>3. F \ used # {}
  <2>1. Cardinality(S) \in Nat /\ Cardinality(F) \in Nat
    BY <1>1, FS_CardinalityType
  <2>2. used # F
    BY <1>2, <2>1
  <2> QED BY <1>2, <2>2
<1>4. PICK r \in F \ used : \A q \in F \ used : r <= q
  <2> DEFINE T == F \ used
  <2>1. T \subseteq Nat /\ T # {}
    BY <1>1, <1>3
  <2> HIDE DEF T
  <2>2. \E r \in T : \A q \in T : r <= q
    BY <2>1, LeastElement
  <2> QED BY <2>2 DEF T
<1> DEFINE g == [f EXCEPT ![r] = x]
<1>5. /\ g \in Packs /\ g[r] = x /\ x # Empty /\ r \in F /\ r \in Nat
      /\ \A s \in Slots : s # r => g[s] = f[s]
  BY <1>1, <1>4 DEF Packs
<1>6. f[r] = Empty
  BY <1>4
<1> HIDE DEF g
<1>7. \A s \in Slots \ F : g[s] = slots[s]
  BY <1>1, <1>5 DEF Filling
<1>8. {g[s] : s \in F} \ {Empty} = S \cup {x}
  <2>1. ASSUME NEW y \in S
        PROVE  y \in {g[s] : s \in F} \ {Empty}
    <3>1. PICK s \in F : f[s] = y /\ y # Empty
      BY DEF Filling
    <3>2. s # r
      BY <3>1, <1>6
    <3> QED BY <3>1, <3>2, <1>1, <1>5
  <2>2. ASSUME NEW s \in F, g[s] # Empty
        PROVE  g[s] \in S \cup {x}
    <3>1. CASE s = r
      BY <3>1, <1>5
    <3>2. CASE s # r
      BY <2>2, <3>2, <1>1, <1>5 DEF Filling
    <3> QED BY <3>1, <3>2
  <2>3. x \in {g[s] : s \in F} \ {Empty}
    BY <1>5
  <2> QED BY <2>1, <2>2, <2>3
<1>9. Cardinality({s \in F : g[s] # Empty}) = Cardinality(S \cup {x})
  <2>1. {s \in F : g[s] # Empty} = used \cup {r}
    BY <1>1, <1>5
  <2>2. Cardinality(used \cup {r}) = Cardinality(used) + 1
    BY <1>2, <1>4, FS_AddElement
  <2>3. Cardinality(S \cup {x}) = Cardinality(S) + 1
    BY FS_AddElement
  <2> QED BY <2>1, <2>2, <2>3, <1>2
<1>10. ASSUME NEW s \in F, g[s] # Empty, NEW q \in F, q < s
       PROVE  g[q] # Empty
  <2>1. CASE q = r
    BY <2>1, <1>5
  <2>2. CASE q # r /\ s = r
    <3>1. ~ (r <= q)
      <4>1. q \in Nat /\ q < r
        BY <1>10, <2>2, <1>1
      <4> QED BY <4>1, <1>5
    <3>2. q \in used
      BY <1>4, <3>1
    <3> QED BY <3>2, <2>2, <1>1, <1>5
  <2>3. CASE q # r /\ s # r
    <3>1. f[s] # Empty
      BY <1>10, <2>3, <1>1, <1>5
    <3>2. f[q] # Empty
      BY <3>1, <1>10 DEF Filling
    <3> QED BY <3>2, <2>3, <1>1, <1>5
  <2> QED BY <2>1, <2>2, <2>3
<1> QED BY <1>5, <1>7, <1>8, <1>9, <1>10 DEF Filling

LEMMA FillAny ==
    ASSUME NEW slots \in Packs, NEW S \in SUBSET Stacks,
           Cardinality(S) <= Cardinality(Free(slots))
    PROVE  \E f \in Packs : Filling(slots, S, f)
<1> DEFINE Fillable(U) == \E f \in Packs : Filling(slots, U, f)
           Stuck == {U \in SUBSET Stacks : /\ Cardinality(U) <= Cardinality(Free(slots))
                                           /\ ~Fillable(U)}
           T == {Cardinality(U) : U \in Stuck}
<1>0. IsFiniteSet(Free(slots)) /\ Cardinality(Free(slots)) \in Nat
  BY PlayerTradeAssumption, FS_Subset, FS_CardinalityType DEF Free
<1>1. \A U \in SUBSET Stacks : IsFiniteSet(U) /\ Cardinality(U) \in Nat
  BY PlayerTradeAssumption, FS_Subset, FS_CardinalityType
<1> HIDE DEF Fillable
<1>2. ASSUME Stuck # {}
      PROVE  FALSE
  <2>1. T \subseteq Nat /\ T # {}
    BY <1>1, <1>2
  <2> HIDE DEF T
  <2>2. PICK n \in T : \A m \in T : n <= m
    BY <2>1, LeastElement
  <2>3. PICK U \in Stuck : n = Cardinality(U)
    BY <2>2 DEF T
  <2>4. U # {}
    BY <2>3, FillNone DEF Fillable
  <2>5. PICK x : x \in U
    BY <2>4
  <2> DEFINE V == U \ {x}
  <2>6. /\ V \in SUBSET Stacks /\ x \in Stacks /\ x \notin V /\ V \cup {x} = U
        /\ Cardinality(V) = Cardinality(U) - 1
    BY <2>3, <2>5, <1>1, FS_RemoveElement
  <2>7. Cardinality(V) < Cardinality(Free(slots)) /\ Cardinality(V) < n
    BY <1>0, <1>1, <2>3, <2>6
  <2> HIDE DEF V
  <2>8. Fillable(V)
    <3>1. SUFFICES ASSUME ~Fillable(V)
                   PROVE  FALSE
      OBVIOUS
    <3>2. V \in Stuck
      BY <1>0, <1>1, <2>6, <2>7, <3>1
    <3>3. Cardinality(V) \in T
      BY <3>2 DEF T
    <3>4. n \in Nat /\ Cardinality(V) \in Nat /\ n <= Cardinality(V)
      BY <3>3, <2>1, <2>2
    <3> QED BY <3>4, <2>7
  <2>9. Fillable(V \cup {x})
    BY <2>6, <2>7, <2>8, <1>1, FillOneMore DEF Fillable
  <2> QED BY <2>3, <2>6, <2>9
<1>3. S \notin Stuck
  BY <1>2
<1> QED BY <1>3 DEF Fillable

(* The choice of the model is of a filling there is. *)
LEMMA InsertedFills ==
    ASSUME NEW slots \in Packs, NEW S \in SUBSET Stacks,
           Cardinality(S) <= Cardinality(Free(slots))
    PROVE  Inserted(slots, S) \in Packs /\ Filling(slots, S, Inserted(slots, S))
<1>1. PICK f \in Packs : Filling(slots, S, f)
  BY FillAny
<1> DEFINE Filled(g) == /\ \A s \in Slots \ Free(slots) : g[s] = slots[s]
                        /\ {g[s] : s \in Free(slots)} \ {Empty} = S
                        /\ Cardinality({s \in Free(slots) : g[s] # Empty}) = Cardinality(S)
                        /\ \A s \in Free(slots) : g[s] # Empty =>
                              \A r \in Free(slots) : r < s => g[r] # Empty
<1>2. Inserted(slots, S) = CHOOSE g \in Packs : Filled(g)
  BY DEF Inserted, Packs
<1>3. \A g : Filled(g) <=> Filling(slots, S, g)
  BY DEF Filling
<1> HIDE DEF Filled
<1>4. \E g \in Packs : Filled(g)
  BY <1>1, <1>3
<1>5. Inserted(slots, S) \in Packs /\ Filled(Inserted(slots, S))
  BY <1>2, <1>4
<1> QED BY <1>3, <1>5

(* An open trade offers stacks, from slots there are, and some silver.       *)
OfferMaps == UNION {[named -> Stacks] : named \in SUBSET Slots}
Sessions == Session([Players -> OfferMaps], [Players -> Nat])

(* Every stack is in one place. *)
Placed ==
    /\ pack \in [Players -> Packs]
    /\ ground \subseteq Stacks
    /\ \A p, q \in Players : \A s, r \in Slots :
          pack[p][s] = pack[q][r] /\ pack[p][s] # Empty => p = q /\ s = r
    /\ \A p \in Players, s \in Slots : pack[p][s] \notin ground
    /\ \A x \in Stacks : x \in ground \/ \E p \in Players, s \in Slots : pack[p][s] = x

(* Every coin is in a purse or with the vendors. *)
Coined ==
    /\ purse \in [Players -> 0..PurseCap] /\ vendors \in Nat
    /\ \A p \in Players : purse[p] + purse[Partner(p)] + vendors
                            = Purses0[p] + Purses0[Partner(p)] + Vendors0

LEMMA PartnersPartner ==
    ASSUME NEW p \in Players
    PROVE  /\ Partner(p) \in Players /\ Partner(Partner(p)) = p
           /\ \A q \in Players : Partner(p) = Partner(q) => p = q
BY Pair

LEMMA SessionParts ==
    ASSUME NEW t \in Sessions, NEW p \in Players
    PROVE  /\ DOMAIN t.offers = Players /\ DOMAIN t.silver = Players
           /\ t.silver[p] \in Nat /\ t.revision \in Nat
           /\ DOMAIN t.offers[p] \subseteq Slots
           /\ \A s \in DOMAIN t.offers[p] : t.offers[p][s] \in Stacks
           /\ t.offers[p] = [s \in DOMAIN t.offers[p] |-> t.offers[p][s]]
<1>1. t.offers \in [Players -> OfferMaps] /\ t.silver \in [Players -> Nat] /\ t.revision \in Nat
  BY DEF Sessions, Session
<1>2. PICK named \in SUBSET Slots : t.offers[p] \in [named -> Stacks]
  <2>1. t.offers[p] \in OfferMaps
    BY <1>1
  <2> QED BY <2>1 DEF OfferMaps
<1> QED BY <1>1, <1>2

(* A review that withdraws nothing has found everything still there. *)
LEMMA ReviewedIsThere ==
    ASSUME NEW t \in Sessions, Review(t) = t, purse \in [Players -> Nat], NEW p \in Players
    PROVE  /\ \A s \in DOMAIN t.offers[p] : pack[p][s] = t.offers[p][s]
           /\ t.silver[p] <= purse[p]
<1> DEFINE o == [q \in Players |-> Restrict(t.offers[q], StillThere(t, q))]
           m == [q \in Players |-> StillHeld(t, q)]
           kept == [t EXCEPT !.offers = o, !.silver = m]
<1>1. Review(t) = IF kept = t THEN t ELSE Changed(kept)
  BY DEF Review
<1>2. t \in [revision : Nat, offers : [Players -> OfferMaps], silver : [Players -> Nat],
             confirmed : [Players -> BOOLEAN], dirty : [Players -> BOOLEAN]]
  BY DEF Sessions, Session
<1> HIDE DEF o, m
<1>3. kept.offers = o /\ kept.silver = m /\ kept.revision = t.revision /\ t.revision \in Nat
      /\ DOMAIN kept = DOMAIN t /\ "revision" \in DOMAIN t
  BY <1>2
<1> HIDE DEF kept
<1>4. Changed(kept).revision = kept.revision + 1
  <2>1. "revision" \in DOMAIN kept
    BY <1>3
  <2> DEFINE next == kept.revision + 1
  <2> HIDE DEF next
  <2>2. Changed(kept) = [kept EXCEPT !.revision = next, !.confirmed = Nobody, !.dirty = Everybody]
    BY DEF Changed, next
  <2>3. Changed(kept).revision = next
    BY <2>1, <2>2
  <2> QED BY <2>3 DEF next
<1>5. kept = t
  <2>1. SUFFICES ASSUME kept # t
                 PROVE  FALSE
    OBVIOUS
  <2>2. Changed(kept) = t
    BY <1>1, <2>1
  <2>3. t.revision = t.revision + 1
    BY <1>3, <1>4, <2>2
  <2>4. t.revision \in Nat
    BY <1>3
  <2> QED BY <2>3, <2>4
<1>6. t.offers[p] = Restrict(t.offers[p], StillThere(t, p)) /\ t.silver[p] = StillHeld(t, p)
  BY <1>3, <1>5 DEF o, m
<1>7. DOMAIN t.offers[p] = StillThere(t, p)
  BY <1>6 DEF Restrict
<1>8. t.silver[p] \in Nat /\ purse[p] \in Nat
  BY SessionParts
<1>9. t.silver[p] <= purse[p]
  BY <1>6, <1>8 DEF StillHeld
<1> QED BY <1>7, <1>9 DEF StillThere

(* A function onto as many values as it has arguments takes each once. *)
LEMMA FilledOnce ==
    ASSUME NEW slots \in Packs, NEW S \in SUBSET Stacks, NEW f \in Packs, Filling(slots, S, f),
           NEW s \in Free(slots), NEW r \in Free(slots), f[s] = f[r], f[s] # Empty
    PROVE  s = r
<1> DEFINE U == {u \in Free(slots) : f[u] # Empty}
           g == [u \in U |-> f[u]]
<1>1. IsFiniteSet(U) /\ Cardinality(U) = Cardinality(S)
  BY PlayerTradeAssumption, FS_Subset DEF Free, Filling
<1>2. {f[u] : u \in Free(slots)} \ {Empty} = S
  BY DEF Filling
<1>3. g \in Surjection(U, S)
  <2>1. \A u \in U : g[u] \in S
    BY <1>2
  <2>2. \A y \in S : \E u \in U : g[u] = y
    BY <1>2
  <2> QED BY <2>1, <2>2 DEF Surjection
<1>4. g \in Injection(U, S)
  BY <1>1, <1>3, FS_SurjSameCardinalityImpliesInj
<1>5. s \in U /\ r \in U /\ g[s] = g[r]
  OBVIOUS
<1> QED BY <1>4, <1>5 DEF Injection, IsInjective

(* settlePlayerTradeLocked. *)
LEMMA ExchangePlaces ==
    ASSUME Placed, trade \in Sessions, purse \in [Players -> Nat], Review(trade) = trade,
           \A p \in Players : Fits(p),
           pack' = [p \in Players |-> PackAfter(p)], ground' = ground
    PROVE  Placed'
<1> DEFINE N(p) == DOMAIN trade.offers[p]
           F(p) == Free(Without(p))
           S(p) == Range(trade.offers[Partner(p)])
           A(p) == PackAfter(p)
<1>1. ASSUME NEW p \in Players
      PROVE  /\ N(p) \subseteq Slots
             /\ \A s \in N(p) : pack[p][s] = trade.offers[p][s] /\ pack[p][s] \in Stacks
             /\ Range(trade.offers[p]) = {pack[p][s] : s \in N(p)}
  <2>1. N(p) \subseteq Slots /\ \A s \in N(p) : trade.offers[p][s] \in Stacks
    BY SessionParts
  <2>2. \A s \in N(p) : pack[p][s] = trade.offers[p][s]
    BY ReviewedIsThere
  <2>3. Range(trade.offers[p]) = {trade.offers[p][s] : s \in N(p)}
    BY DEF Range
  <2> HIDE DEF N
  <2>4. {trade.offers[p][s] : s \in N(p)} = {pack[p][s] : s \in N(p)}
    BY <2>2
  <2> QED BY <2>1, <2>2, <2>3, <2>4
<1>2. ASSUME NEW p \in Players
      PROVE  /\ Without(p) \in Packs
             /\ \A s \in Slots : s \in F(p) <=> s \in N(p) \/ pack[p][s] = Empty
             /\ \A s \in Slots : s \notin F(p) => Without(p)[s] = pack[p][s]
  BY DEF Without, Packs, Placed, Free
<1>3. Empty \notin Stacks
  BY PlayerTradeAssumption
<1>4. ASSUME NEW p \in Players
      PROVE  /\ S(p) \in SUBSET Stacks
             /\ S(p) = {pack[Partner(p)][s] : s \in N(Partner(p))}
  <2>1. Partner(p) \in Players
    BY PartnersPartner
  <2>2. S(p) = {pack[Partner(p)][s] : s \in N(Partner(p))}
    BY <1>1, <2>1
  <2>3. \A s \in N(Partner(p)) : pack[Partner(p)][s] \in Stacks
    BY <1>1, <2>1
  <2> HIDE DEF S, N
  <2> QED BY <2>2, <2>3
<1>5. ASSUME NEW p \in Players
      PROVE  A(p) \in Packs /\ Filling(Without(p), S(p), A(p))
  <2>1. Cardinality(S(p)) <= Cardinality(Free(Without(p)))
    BY DEF Fits
  <2> QED BY <1>2, <1>4, <2>1, InsertedFills DEF PackAfter
<1>6. pack' \in [Players -> Packs] /\ \A p \in Players : pack'[p] = A(p)
  BY <1>5
<1> HIDE DEF A, S, F, N
<1>7. ASSUME NEW p \in Players, NEW s \in Slots, s \notin F(p)
      PROVE  A(p)[s] = pack[p][s] /\ pack[p][s] # Empty /\ s \notin N(p)
  BY <1>2, <1>5, <1>7 DEF Filling, F
<1>8. ASSUME NEW p \in Players, NEW s \in Slots, s \in F(p), A(p)[s] # Empty
      PROVE  \E o \in N(Partner(p)) : A(p)[s] = pack[Partner(p)][o]
  <2>1. A(p)[s] \in S(p)
    BY <1>5, <1>8 DEF Filling, F
  <2> QED BY <2>1, <1>4
<1>9. ASSUME NEW p \in Players, NEW s \in F(p), NEW r \in F(p), A(p)[s] = A(p)[r], A(p)[s] # Empty
      PROVE  s = r
  <2>1. Without(p) \in Packs /\ S(p) \in SUBSET Stacks /\ A(p) \in Packs
        /\ Filling(Without(p), S(p), A(p))
    BY <1>2, <1>4, <1>5
  <2>2. s \in Free(Without(p)) /\ r \in Free(Without(p))
    BY DEF F
  <2> QED BY <2>1, <2>2, <1>9, FilledOnce
<1>10. ASSUME NEW p \in Players, NEW q \in Players, NEW s \in Slots, NEW r \in Slots,
              A(p)[s] = A(q)[r], A(p)[s] # Empty
       PROVE  p = q /\ s = r
  <2>0. Partner(p) \in Players /\ Partner(q) \in Players /\ N(Partner(p)) \subseteq Slots
        /\ N(Partner(q)) \subseteq Slots
    BY <1>1, PartnersPartner
  <2>1. CASE s \notin F(p) /\ r \notin F(q)
    BY <2>1, <1>7, <1>10 DEF Placed
  <2>2. CASE s \in F(p) /\ r \notin F(q)
    <3>1. PICK o \in N(Partner(p)) : A(p)[s] = pack[Partner(p)][o]
      BY <2>2, <1>8, <1>10
    <3>2. pack[q][r] = pack[Partner(p)][o] /\ pack[q][r] # Empty /\ r \notin N(q)
      BY <2>2, <3>1, <1>7, <1>10
    <3> QED BY <3>1, <3>2, <2>0 DEF Placed
  <2>3. CASE s \notin F(p) /\ r \in F(q)
    <3>1. PICK o \in N(Partner(q)) : A(q)[r] = pack[Partner(q)][o]
      BY <2>3, <1>8, <1>10
    <3>2. pack[p][s] = pack[Partner(q)][o] /\ pack[p][s] # Empty /\ s \notin N(p)
      BY <2>3, <3>1, <1>7, <1>10
    <3> QED BY <3>1, <3>2, <2>0 DEF Placed
  <2>4. CASE s \in F(p) /\ r \in F(q)
    <3>1. PICK o \in N(Partner(p)) : A(p)[s] = pack[Partner(p)][o]
      BY <2>4, <1>8, <1>10
    <3>2. PICK i \in N(Partner(q)) : A(q)[r] = pack[Partner(q)][i]
      BY <2>4, <1>8, <1>10
    <3>3. Partner(p) = Partner(q)
      <4>1. o \in Slots /\ i \in Slots
        BY <2>0
      <4>2. pack[Partner(p)][o] = pack[Partner(q)][i] /\ pack[Partner(p)][o] # Empty
        BY <3>1, <3>2, <1>10
      <4> QED BY <4>1, <4>2, <2>0 DEF Placed
    <3>4. p = q
      BY <3>3, PartnersPartner
    <3> QED BY <3>4, <2>4, <1>9, <1>10
  <2> QED BY <2>1, <2>2, <2>3, <2>4
<1>11. ASSUME NEW p \in Players, NEW s \in Slots
       PROVE  A(p)[s] \notin ground
  <2>1. CASE A(p)[s] = Empty
    BY <2>1, <1>3 DEF Placed
  <2>2. CASE A(p)[s] # Empty /\ s \in F(p)
    <3>1. Partner(p) \in Players /\ N(Partner(p)) \subseteq Slots
      BY <1>1, PartnersPartner
    <3> QED BY <2>2, <3>1, <1>8 DEF Placed
  <2>3. CASE s \notin F(p)
    BY <2>3, <1>7 DEF Placed
  <2> QED BY <2>1, <2>2, <2>3
<1>12. ASSUME NEW x \in Stacks, x \notin ground
       PROVE  \E p \in Players, s \in Slots : A(p)[s] = x
  <2>1. PICK p \in Players, s \in Slots : pack[p][s] = x
    BY <1>12 DEF Placed
  <2>2. CASE s \in N(p)
    <3> DEFINE q == Partner(p)
    <3>1. q \in Players /\ Partner(q) = p
      BY PartnersPartner
    <3>2. x \in S(q)
      BY <2>1, <2>2, <3>1, <1>4
    <3>3. PICK r \in F(q) : A(q)[r] = x
      <4>1. {A(q)[r] : r \in Free(Without(q))} \ {Empty} = S(q)
        BY <3>1, <1>5 DEF Filling
      <4> QED BY <3>2, <4>1 DEF F
    <3> QED BY <3>1, <3>3 DEF F, Free
  <2>3. CASE s \notin N(p)
    <3>1. s \notin F(p)
      BY <2>1, <2>3, <1>2, <1>3
    <3> QED BY <2>1, <3>1, <1>7
  <2> QED BY <2>2, <2>3
<1>13. \A p, q \in Players : \A s, r \in Slots :
          pack'[p][s] = pack'[q][r] /\ pack'[p][s] # Empty => p = q /\ s = r
  BY <1>6, <1>10
<1>14. \A p \in Players, s \in Slots : pack'[p][s] \notin ground
  BY <1>6, <1>11
<1>15. \A x \in Stacks : x \in ground \/ \E p \in Players, s \in Slots : pack'[p][s] = x
  BY <1>6, <1>12
<1> QED BY <1>6, <1>13, <1>14, <1>15 DEF Placed

LEMMA ExchangeCoins ==
    ASSUME Coined, trade \in Sessions, Review(trade) = trade,
           \A p \in Players : PurseAfter(p) <= PurseCap,
           purse' = [p \in Players |-> PurseAfter(p)], vendors' = vendors
    PROVE  Coined'
<1>0. PurseCap \in Nat
  BY PlayerTradeAssumption
<1>1. purse \in [Players -> Nat]
  BY <1>0 DEF Coined
<1>2. ASSUME NEW p \in Players
      PROVE  /\ purse[p] \in Nat /\ trade.silver[p] \in Nat /\ trade.silver[p] <= purse[p]
             /\ Partner(p) \in Players /\ Partner(Partner(p)) = p
  BY <1>1, ReviewedIsThere, SessionParts, PartnersPartner
<1>3. ASSUME NEW p \in Players
      PROVE  /\ PurseAfter(p) \in 0..PurseCap
             /\ PurseAfter(p) + PurseAfter(Partner(p)) = purse[p] + purse[Partner(p)]
  <2> DEFINE q == Partner(p)
  <2>1. q \in Players /\ Partner(q) = p
    BY <1>2
  <2>2. PurseAfter(p) = (purse[p] - trade.silver[p]) + trade.silver[q]
    BY DEF PurseAfter
  <2>3. PurseAfter(q) = (purse[q] - trade.silver[q]) + trade.silver[p]
    BY <2>1 DEF PurseAfter
  <2> HIDE DEF q
  <2>4. PurseAfter(p) <= PurseCap
    OBVIOUS
  <2>5. /\ purse[p] \in Nat /\ trade.silver[p] \in Nat /\ trade.silver[p] <= purse[p]
        /\ purse[q] \in Nat /\ trade.silver[q] \in Nat /\ trade.silver[q] <= purse[q]
    BY <1>2, <2>1
  <2>6. PurseAfter(p) \in Nat
    BY <2>2, <2>5
  <2>7. PurseAfter(p) + PurseAfter(q) = purse[p] + purse[q]
    BY <2>2, <2>3, <2>5
  <2> QED BY <1>0, <2>4, <2>6, <2>7 DEF q
<1>4. \A p \in Players : purse'[p] = PurseAfter(p)
  OBVIOUS
<1>5. purse' \in [Players -> 0..PurseCap]
  BY <1>3
<1>6. ASSUME NEW p \in Players
      PROVE  purse'[p] + purse'[Partner(p)] + vendors' = Purses0[p] + Purses0[Partner(p)] + Vendors0
  <2>1. purse'[p] + purse'[Partner(p)] = purse[p] + purse[Partner(p)]
    BY <1>2, <1>3, <1>4
  <2> QED BY <2>1 DEF Coined
<1> QED BY <1>5, <1>6 DEF Coined

Put(held, p, s, v) == [held EXCEPT ![p][s] = v]

LEMMA PutOne ==
    ASSUME NEW held \in [Players -> Packs], NEW p \in Players, NEW s \in Slots,
           NEW v \in Stacks \cup {Empty}
    PROVE  /\ Put(held, p, s, v) \in [Players -> Packs]
           /\ \A q \in Players : \A r \in Slots :
                 Put(held, p, s, v)[q][r] = IF q = p /\ r = s THEN v ELSE held[q][r]
<1> DEFINE slots == [held[p] EXCEPT ![s] = v]
           put == [held EXCEPT ![p] = slots]
<1>1. Put(held, p, s, v) = put
  BY DEF Put
<1>2. slots \in Packs /\ \A r \in Slots : slots[r] = IF r = s THEN v ELSE held[p][r]
  BY DEF Packs
<1> HIDE DEF slots
<1>3. /\ put \in [Players -> Packs]
      /\ \A q \in Players : \A r \in Slots : put[q][r] = IF q = p /\ r = s THEN v ELSE held[q][r]
  BY <1>2
<1> HIDE DEF put
<1> QED BY <1>1, <1>3, Zenon

LEMMA DropPlaces ==
    ASSUME Placed, NEW p \in Players, NEW s \in Slots, Drop(p, s)
    PROVE  Placed'
<1>1. /\ pack[p][s] # Empty /\ pack[p][s] \in Stacks
      /\ pack' = [pack EXCEPT ![p][s] = Empty] /\ ground' = ground \cup {pack[p][s]}
  BY DEF Drop, Placed, Packs
<1>2. /\ pack' \in [Players -> Packs]
      /\ \A q \in Players : \A r \in Slots :
            pack'[q][r] = IF q = p /\ r = s THEN Empty ELSE pack[q][r]
  <2>1. pack \in [Players -> Packs] /\ Empty \in Stacks \cup {Empty}
    BY DEF Placed
  <2>2. pack' = Put(pack, p, s, Empty)
    BY <1>1 DEF Put
  <2> QED BY <2>1, <2>2, PutOne
<1>3. Empty \notin Stacks
  BY PlayerTradeAssumption
<1>4. \A q, o \in Players : \A r, i \in Slots :
         pack'[q][r] = pack'[o][i] /\ pack'[q][r] # Empty => q = o /\ r = i
  BY <1>2 DEF Placed
<1>5. ASSUME NEW q \in Players, NEW r \in Slots
      PROVE  pack'[q][r] \notin ground'
  BY <1>1, <1>2, <1>3 DEF Placed
<1>6. ASSUME NEW x \in Stacks, x \notin ground'
      PROVE  \E q \in Players, r \in Slots : pack'[q][r] = x
  <2>1. PICK q \in Players, r \in Slots : pack[q][r] = x
    BY <1>1, <1>6 DEF Placed
  <2> QED BY <2>1, <1>1, <1>2, <1>6
<1>7. ground' \subseteq Stacks
  BY <1>1 DEF Placed
<1> QED BY <1>2, <1>4, <1>5, <1>6, <1>7 DEF Placed

LEMMA PickUpPlaces ==
    ASSUME Placed, NEW p \in Players, NEW s \in Slots, NEW stack \in Stacks, PickUp(p, s, stack)
    PROVE  Placed'
<1>1. /\ pack[p][s] = Empty /\ stack \in ground
      /\ pack' = [pack EXCEPT ![p][s] = stack] /\ ground' = ground \ {stack}
  BY DEF PickUp
<1>2. /\ pack' \in [Players -> Packs]
      /\ \A q \in Players : \A r \in Slots :
            pack'[q][r] = IF q = p /\ r = s THEN stack ELSE pack[q][r]
  <2>1. pack \in [Players -> Packs] /\ stack \in Stacks \cup {Empty}
    BY DEF Placed
  <2>2. pack' = Put(pack, p, s, stack)
    BY <1>1 DEF Put
  <2> QED BY <2>1, <2>2, PutOne
<1>3. Empty \notin Stacks
  BY PlayerTradeAssumption
<1>4. \A q, o \in Players : \A r, i \in Slots :
         pack'[q][r] = pack'[o][i] /\ pack'[q][r] # Empty => q = o /\ r = i
  BY <1>1, <1>2 DEF Placed
<1>5. ASSUME NEW q \in Players, NEW r \in Slots
      PROVE  pack'[q][r] \notin ground'
  BY <1>1, <1>2 DEF Placed
<1>6. ASSUME NEW x \in Stacks, x \notin ground'
      PROVE  \E q \in Players, r \in Slots : pack'[q][r] = x
  <2>1. CASE x = stack
    BY <2>1, <1>2
  <2>2. CASE x # stack
    <3>1. PICK q \in Players, r \in Slots : pack[q][r] = x
      BY <1>1, <1>6, <2>2 DEF Placed
    <3> QED BY <3>1, <1>1, <1>2, <1>3
  <2> QED BY <2>1, <2>2
<1>7. ground' \subseteq Stacks
  BY <1>1 DEF Placed
<1> QED BY <1>2, <1>4, <1>5, <1>6, <1>7 DEF Placed

LEMMA SpendCoins ==
    ASSUME Coined, NEW p \in Players, Spend(p) \/ Earn(p)
    PROVE  Coined'
<1>0. PurseCap \in Nat /\ \A q \in Players : purse[q] \in Nat /\ purse[q] <= PurseCap
  BY PlayerTradeAssumption DEF Coined
<1>1. \E left \in 0..PurseCap :
         /\ purse' = [purse EXCEPT ![p] = left] /\ vendors' \in Nat
         /\ left + vendors' = purse[p] + vendors
  <2>1. CASE Spend(p)
    <3> DEFINE left == purse[p] - 1
    <3>1. purse' = [purse EXCEPT ![p] = left] /\ vendors' = vendors + 1 /\ purse[p] > 0
      BY <2>1 DEF Spend
    <3>2. left \in 0..PurseCap /\ vendors' \in Nat /\ left + vendors' = purse[p] + vendors
      BY <1>0, <3>1 DEF Coined
    <3> QED BY <3>1, <3>2
  <2>2. CASE Earn(p)
    <3> DEFINE left == purse[p] + 1
    <3>1. /\ purse' = [purse EXCEPT ![p] = left] /\ vendors' = vendors - 1
          /\ vendors > 0 /\ purse[p] < PurseCap
      BY <2>2 DEF Earn
    <3>2. left \in 0..PurseCap /\ vendors' \in Nat /\ left + vendors' = purse[p] + vendors
      BY <1>0, <3>1 DEF Coined
    <3> QED BY <3>1, <3>2
  <2> QED BY <2>1, <2>2
<1>4. PICK left \in 0..PurseCap :
         /\ purse' = [purse EXCEPT ![p] = left] /\ vendors' \in Nat
         /\ left + vendors' = purse[p] + vendors
  BY <1>1
<1>2. /\ purse' \in [Players -> 0..PurseCap]
      /\ \A q \in Players : purse'[q] = IF q = p THEN left ELSE purse[q]
  BY <1>4 DEF Coined
<1>3. ASSUME NEW q \in Players
      PROVE  purse'[q] + purse'[Partner(q)] + vendors' = purse[q] + purse[Partner(q)] + vendors
  <2>1. Partner(q) \in Players /\ Partner(q) # q /\ (q = p \/ Partner(q) = p)
    BY Pair
  <2>2. vendors \in Nat
    BY DEF Coined
  <2> QED BY <2>1, <2>2, <1>0, <1>4, <1>2
<1> QED BY <1>4, <1>2, <1>3 DEF Coined

-----------------------------------------------------------------------------
(* What may be on offer. *)

Asked(e) == /\ e.action = "SetItem" => e.slot \in Slots
            /\ e.action = "SetSilver" => e.silver \in Nat

Queues ==
    /\ DOMAIN requests = Players
    /\ \A p \in Players : Sequence(requests[p])
    /\ \A p \in Players : \A i \in 1..Len(requests[p]) : Asked(requests[p][i])

Owned ==
    /\ Queues
    /\ trade # NoTrade => trade \in Sessions
    /\ Placed /\ Coined

LEMMA Flags ==
    /\ Nobody \in [Players -> BOOLEAN] /\ Everybody \in [Players -> BOOLEAN]
    /\ NoSilver \in [Players -> Nat] /\ NoOffer \in OfferMaps
<1>1. NoOffer \in [{} -> Stacks] /\ {} \in SUBSET Slots
  BY DEF NoOffer
<1> QED BY <1>1 DEF Nobody, Everybody, NoSilver, OfferMaps

LEMMA ChangedSession ==
    ASSUME NEW t \in Sessions
    PROVE  Changed(t) \in Sessions /\ ClearConfirmations(t) \in Sessions
<1> DEFINE next == t.revision + 1
<1>1. next \in Nat
  BY DEF Sessions, Session
<1>2. Changed(t) = [t EXCEPT !.revision = next, !.confirmed = Nobody, !.dirty = Everybody]
  BY DEF Changed
<1> HIDE DEF next
<1> QED BY <1>1, <1>2, Flags DEF ClearConfirmations, Sessions, Session

LEMMA OffersSession ==
    ASSUME NEW t \in Sessions, NEW o \in [Players -> OfferMaps], NEW m \in [Players -> Nat]
    PROVE  [t EXCEPT !.offers = o, !.silver = m] \in Sessions
BY DEF Sessions, Session

LEMMA FlagsSession ==
    ASSUME NEW t \in Sessions, NEW p \in Players, NEW b \in BOOLEAN
    PROVE  /\ [t EXCEPT !.dirty[p] = b] \in Sessions
           /\ [t EXCEPT !.confirmed[p] = b, !.dirty = Everybody] \in Sessions
<1> DEFINE d == [t.dirty EXCEPT ![p] = b]
           c == [t.confirmed EXCEPT ![p] = b]
<1>1. d \in [Players -> BOOLEAN] /\ c \in [Players -> BOOLEAN]
  BY DEF Sessions, Session
<1>2. /\ [t EXCEPT !.dirty[p] = b] = [t EXCEPT !.dirty = d]
      /\ [t EXCEPT !.confirmed[p] = b, !.dirty = Everybody]
           = [t EXCEPT !.confirmed = c, !.dirty = Everybody]
  OBVIOUS
<1> HIDE DEF d, c
<1> QED BY <1>1, <1>2, Flags DEF Sessions, Session

LEMMA RestrictedOffer ==
    ASSUME NEW o \in OfferMaps, NEW named, named \subseteq DOMAIN o
    PROVE  Restrict(o, named) \in OfferMaps
<1>1. PICK S \in SUBSET Slots : o \in [S -> Stacks]
  BY DEF OfferMaps
<1>2. Restrict(o, named) \in [named -> Stacks] /\ named \in SUBSET Slots
  BY <1>1 DEF Restrict
<1> QED BY <1>2 DEF OfferMaps

LEMMA ReviewSession ==
    ASSUME NEW t \in Sessions
    PROVE  Review(t) \in Sessions
<1> DEFINE o == [q \in Players |-> Restrict(t.offers[q], StillThere(t, q))]
           m == [q \in Players |-> StillHeld(t, q)]
           kept == [t EXCEPT !.offers = o, !.silver = m]
<1>1. Review(t) = IF kept = t THEN t ELSE Changed(kept)
  BY DEF Review
<1>2. t.offers \in [Players -> OfferMaps] /\ t.silver \in [Players -> Nat]
  BY DEF Sessions, Session
<1>3. o \in [Players -> OfferMaps]
  BY <1>2, RestrictedOffer DEF StillThere
<1>4. m \in [Players -> Nat]
  BY <1>2 DEF StillHeld
<1> HIDE DEF o, m
<1>5. kept \in Sessions
  BY <1>3, <1>4, OffersSession
<1> HIDE DEF kept
<1> QED BY <1>1, <1>5, ChangedSession

LEMMA OpenSession ==
    ASSUME NEW p \in Players, Open(p)
    PROVE  trade' \in Sessions
<1> DEFINE o == [q \in Players |-> NoOffer]
<1>1. o \in [Players -> OfferMaps]
  BY Flags
<1>2. trade' = [revision |-> 1, offers |-> o, silver |-> NoSilver,
                confirmed |-> Nobody, dirty |-> Everybody]
  BY DEF Open
<1> HIDE DEF o
<1> QED BY <1>1, <1>2, Flags DEF Sessions, Session

LEMMA OfferSession ==
    ASSUME Owned, NEW p \in Players, SetItem(p) \/ ClearItem(p) \/ SetSilver(p)
    PROVE  trade' \in Sessions
<1> DEFINE e == Head(requests[p])
<1>1. trade \in Sessions /\ requests[p] # <<>>
  BY DEF SetItem, ClearItem, SetSilver, Names, Asks, Owned
<1>2. Asked(e)
  <2>1. 1 \in 1..Len(requests[p]) /\ e = requests[p][1]
    BY <1>1, TailTaken DEF Owned, Queues
  <2> QED BY <2>1 DEF Owned, Queues
<1>3. /\ trade.offers \in [Players -> OfferMaps] /\ trade.silver \in [Players -> Nat]
      /\ trade.offers[p] \in OfferMaps
  BY <1>1 DEF Sessions, Session
<1>4. ASSUME NEW o \in OfferMaps
      PROVE  Changed([trade EXCEPT !.offers[p] = o]) \in Sessions
  <2> DEFINE os == [trade.offers EXCEPT ![p] = o]
             t == [trade EXCEPT !.offers = os]
  <2>1. os \in [Players -> OfferMaps]
    BY <1>3
  <2>2. [trade EXCEPT !.offers[p] = o] = t
    OBVIOUS
  <2> HIDE DEF os
  <2>3. t \in Sessions
    BY <1>1, <2>1 DEF Sessions, Session
  <2> HIDE DEF t
  <2> QED BY <2>2, <2>3, ChangedSession
<1>5. CASE SetItem(p)
  <2> DEFINE s == e.slot
             offer == trade.offers[p]
             o == [r \in DOMAIN offer \cup {s} |-> IF r = s THEN pack[p][s] ELSE offer[r]]
  <2>1. pack[p][s] # Empty /\ e.action = "SetItem" /\ trade' = Changed([trade EXCEPT !.offers[p] = o])
    BY <1>5 DEF SetItem, Names, Asks
  <2>2. s \in Slots /\ pack[p][s] \in Stacks
    BY <1>2, <2>1 DEF Asked, Owned, Placed, Packs
  <2>3. PICK named \in SUBSET Slots : offer \in [named -> Stacks]
    BY <1>3 DEF OfferMaps
  <2>4. o \in [named \cup {s} -> Stacks] /\ named \cup {s} \in SUBSET Slots
    BY <2>2, <2>3
  <2>5. o \in OfferMaps
    BY <2>4 DEF OfferMaps
  <2> HIDE DEF o
  <2> QED BY <2>1, <2>5, <1>4
<1>6. CASE ClearItem(p)
  <2> DEFINE o == Restrict(trade.offers[p], DOMAIN trade.offers[p] \ {e.slot})
  <2>1. trade' = Changed([trade EXCEPT !.offers[p] = o])
    BY <1>6 DEF ClearItem
  <2>2. o \in OfferMaps
    BY <1>3, RestrictedOffer
  <2> HIDE DEF o
  <2> QED BY <2>1, <2>2, <1>4
<1>7. CASE SetSilver(p)
  <2> DEFINE ms == [trade.silver EXCEPT ![p] = e.silver]
             t == [trade EXCEPT !.silver = ms]
  <2>1. e.action = "SetSilver" /\ trade' = Changed([trade EXCEPT !.silver[p] = e.silver])
    BY <1>7 DEF SetSilver, Names, Asks
  <2>2. ms \in [Players -> Nat]
    BY <1>2, <1>3, <2>1 DEF Asked
  <2>3. [trade EXCEPT !.silver[p] = e.silver] = t
    OBVIOUS
  <2> HIDE DEF ms
  <2>4. t \in Sessions
    BY <1>1, <2>2 DEF Sessions, Session
  <2> HIDE DEF t
  <2> QED BY <2>1, <2>3, <2>4, ChangedSession
<1> QED BY <1>5, <1>6, <1>7


LEMMA RequestsTaken ==
    ASSUME Queues, UNCHANGED requests \/ \E p \in Players : requests[p] # <<>> /\ Taken(p)
    PROVE  Queues'
<1>1. CASE UNCHANGED requests
  BY <1>1 DEF Queues
<1>2. ASSUME NEW p \in Players, requests[p] # <<>>, Taken(p)
      PROVE  Queues'
  <2>1. /\ DOMAIN requests' = Players /\ requests'[p] = Tail(requests[p])
        /\ \A q \in Players \ {p} : requests'[q] = requests[q]
    BY <1>2 DEF Taken, Queues
  <2>2. Sequence(Tail(requests[p])) /\ \A i \in 1..Len(Tail(requests[p])) : Asked(Tail(requests[p])[i])
    BY <1>2, TailTaken DEF Queues
  <2>3. \A q \in Players : /\ Sequence(requests'[q])
                           /\ \A i \in 1..Len(requests'[q]) : Asked(requests'[q][i])
    BY <2>1, <2>2 DEF Queues
  <2> QED BY <2>1, <2>3 DEF Queues
<1> QED BY <1>1, <1>2

LEMMA RequestSent ==
    ASSUME Queues, NEW p \in Players, NEW e, Asked(e), Send(p, e)
    PROVE  Queues'
<1>1. /\ DOMAIN requests' = Players /\ requests'[p] = Append(requests[p], e)
      /\ \A q \in Players \ {p} : requests'[q] = requests[q]
  BY DEF Send, Queues
<1>2. Sequence(Append(requests[p], e))
  BY Appended DEF Queues
<1>3. \A i \in 1..Len(Append(requests[p], e)) : Asked(Append(requests[p], e)[i])
  <2>1. Sequence(requests[p]) /\ \A i \in 1..Len(requests[p]) : Asked(requests[p][i])
    BY DEF Queues
  <2> QED BY <2>1, Appended
<1>4. \A q \in Players : /\ Sequence(requests'[q])
                         /\ \A i \in 1..Len(requests'[q]) : Asked(requests'[q][i])
  BY <1>1, <1>2, <1>3 DEF Queues
<1> QED BY <1>1, <1>4 DEF Queues

LEMMA ClickAsks ==
    ASSUME Owned, NEW p \in Players, ClientStep(p)
    PROVE  \E e : Asked(e) /\ Send(p, e)
<1>1. CASE ClickOpen(p)
  <2> DEFINE e == Request("Open", AnySlot, 0, NoTrade)
  <2>1. Asked(e) /\ Send(p, e)
    BY <1>1 DEF ClickOpen, Asked, Request
  <2> QED BY <2>1
<1>2. CASE ClickCancel(p)
  <2> DEFINE e == Request("Cancel", AnySlot, 0, NoTrade)
  <2>1. Asked(e) /\ Send(p, e)
    BY <1>2 DEF ClickCancel, Asked, Request
  <2> QED BY <2>1
<1>3. CASE Click(p)
  <2>1. ASSUME NEW s \in Slots, Send(p, Request("SetItem", s, 0, window[p]))
        PROVE  \E e : Asked(e) /\ Send(p, e)
    <3>1. Asked(Request("SetItem", s, 0, window[p]))
      BY DEF Asked, Request
    <3> QED BY <2>1, <3>1
  <2>2. ASSUME NEW s, Send(p, Request("ClearItem", s, 0, window[p]))
        PROVE  \E e : Asked(e) /\ Send(p, e)
    <3>1. Asked(Request("ClearItem", s, 0, window[p]))
      BY DEF Asked, Request
    <3> QED BY <2>2, <3>1
  <2>3. ASSUME NEW silver \in 0..purse[p], Send(p, Request("SetSilver", AnySlot, silver, window[p]))
        PROVE  \E e : Asked(e) /\ Send(p, e)
    <3>1. silver \in Nat
      OBVIOUS
    <3>2. Asked(Request("SetSilver", AnySlot, silver, window[p]))
      BY <3>1 DEF Asked, Request
    <3> QED BY <2>3, <3>2
  <2>4. ASSUME Send(p, Request("Confirm", AnySlot, 0, window[p]))
        PROVE  \E e : Asked(e) /\ Send(p, e)
    <3>1. Asked(Request("Confirm", AnySlot, 0, window[p]))
      BY DEF Asked, Request
    <3> QED BY <2>4, <3>1
  <2> QED BY <1>3, <2>1, <2>2, <2>3, <2>4 DEF Click
<1> QED BY <1>1, <1>2, <1>3 DEF ClientStep

LEMMA InitialOwned == ASSUME Init PROVE Owned
<1>1. Queues
  <2>1. <<>> \in Seq({}) /\ Len(<<>>) = 0
    OBVIOUS
  <2>2. Sequence(<<>>)
    BY <2>1 DEF Sequence
  <2> QED BY <2>1, <2>2 DEF Init, Queues
<1>2. Placed
  <2>1. pack \in [Players -> Packs] /\ Empty \notin Stacks
    BY PlayerTradeAssumption DEF Init, Packs
  <2>2. ground = Stacks \ UNION {Range(pack[p]) : p \in Players}
    BY DEF Init
  <2>3. \A p \in Players : Range(pack[p]) = {pack[p][s] : s \in Slots}
    BY <2>1 DEF Range, Packs
  <2>4. \A x : x \in UNION {Range(pack[p]) : p \in Players} <=> \E p \in Players, s \in Slots : pack[p][s] = x
    BY <2>3
  <2>5. \A p, q \in Players : \A s, r \in Slots :
           pack[p][s] = pack[q][r] /\ pack[p][s] # Empty => p = q /\ s = r
    <3>1. \A p, q \in Players : \A s, r \in Slots :
             Packs0[p][s] = Packs0[q][r] /\ Packs0[p][s] # Empty => p = q /\ s = r
      BY PlayerTradeAssumption
    <3>2. pack = Packs0
      BY DEF Init
    <3> QED BY <3>1, <3>2
  <2> QED BY <2>1, <2>2, <2>4, <2>5 DEF Placed
<1>3. Coined
  BY PlayerTradeAssumption DEF Init, Coined
<1> QED BY <1>1, <1>2, <1>3 DEF Init, Owned

LEMMA RequestOwned ==
    ASSUME Owned, NEW p \in Players, RequestStep(p)
    PROVE  Owned'
<1>1. Queues'
  <2>1. requests[p] # <<>> /\ Taken(p)
    BY DEF RequestStep, Open, Refuse, Cancel, RefuseStale, SetItem, ClearItem, SetSilver, Confirm,
           ConfirmBusy, Names, Asks
  <2> QED BY <2>1, RequestsTaken DEF Owned
<1>2. SUFFICES (trade' # NoTrade => trade' \in Sessions) /\ Placed' /\ Coined'
  BY <1>1 DEF Owned
<1>3. ASSUME UNCHANGED goods
      PROVE  Placed' /\ Coined'
  BY <1>3 DEF goods, Placed, Coined, Owned
<1>4. CASE Open(p)
  BY <1>3, <1>4, OpenSession DEF Open
<1>5. CASE Refuse(p) \/ Cancel(p)
  BY <1>3, <1>5 DEF Refuse, Cancel, Close, Owned
<1>6. CASE RefuseStale(p)
  <2>1. Review(trade) \in Sessions
    BY <1>6, ReviewSession DEF RefuseStale, Owned
  <2>2. trade' = [Review(trade) EXCEPT !.dirty[p] = TRUE]
    BY <1>6 DEF RefuseStale
  <2>3. trade' \in Sessions
    BY <2>1, <2>2, FlagsSession
  <2> QED BY <1>3, <1>6, <2>3 DEF RefuseStale
<1>7. CASE SetItem(p) \/ ClearItem(p) \/ SetSilver(p)
  BY <1>3, <1>7, OfferSession DEF SetItem, ClearItem, SetSilver
<1>8. CASE ConfirmBusy(p)
  BY <1>3, <1>8, ChangedSession DEF ConfirmBusy, Names, Owned
<1>9. CASE Confirm(p)
  <2>1. trade \in Sessions /\ Review(trade) = trade /\ UNCHANGED <<ground, vendors>>
    BY <1>9 DEF Confirm, Names, Owned
  <2>2. CASE /\ trade.confirmed[Partner(p)]
             /\ \A q \in Players : Fits(q) /\ PurseAfter(q) <= PurseCap
    <3>1. /\ pack' = [q \in Players |-> PackAfter(q)] /\ purse' = [q \in Players |-> PurseAfter(q)]
          /\ trade' = NoTrade
      BY <1>9, <2>2 DEF Confirm, Settle, Close
    <3>2. purse \in [Players -> Nat]
      BY PlayerTradeAssumption DEF Owned, Coined
    <3>3. Placed'
      BY <2>1, <2>2, <3>1, <3>2, ExchangePlaces DEF Owned
    <3>4. Coined'
      BY <2>1, <2>2, <3>1, ExchangeCoins DEF Owned
    <3> QED BY <3>1, <3>3, <3>4
  <2>3. CASE /\ trade.confirmed[Partner(p)]
             /\ ~ \A q \in Players : Fits(q) /\ PurseAfter(q) <= PurseCap
    <3>1. trade' = ClearConfirmations(trade) /\ UNCHANGED <<pack, purse>>
      BY <1>9, <2>3 DEF Confirm, Settle
    <3> QED BY <1>3, <2>1, <3>1, ChangedSession DEF goods
  <2>4. CASE ~trade.confirmed[Partner(p)]
    <3>1. /\ trade' = [trade EXCEPT !.confirmed[p] = TRUE, !.dirty = Everybody]
          /\ UNCHANGED <<pack, purse>>
      BY <1>9, <2>4 DEF Confirm
    <3> QED BY <1>3, <2>1, <3>1, FlagsSession DEF goods
  <2> QED BY <2>2, <2>3, <2>4
<1> QED BY <1>4, <1>5, <1>6, <1>7, <1>8, <1>9 DEF RequestStep

LEMMA TickOwned == ASSUME Owned, TickStep PROVE Owned'
<1>1. Placed' /\ Coined' /\ Queues'
  <2>1. UNCHANGED <<goods, requests>>
    BY DEF TickStep, Part, Withdraw, CoolDown, OfferClosed, OfferState
  <2> QED BY <2>1, RequestsTaken DEF goods, Placed, Coined, Owned
<1>2. trade' # NoTrade => trade' \in Sessions
  <2>1. CASE Part
    BY <2>1 DEF Part, Close
  <2>2. CASE Withdraw
    BY <2>2, ReviewSession DEF Withdraw, Owned
  <2>3. CASE CoolDown
    BY <2>3 DEF CoolDown, Owned
  <2>4. ASSUME NEW p \in Players, OfferClosed(p)
        PROVE  trade' # NoTrade => trade' \in Sessions
    BY <2>4 DEF OfferClosed, Owned
  <2>5. ASSUME NEW p \in Players, OfferState(p)
        PROVE  trade' # NoTrade => trade' \in Sessions
    BY <2>5, FlagsSession DEF OfferState, Owned
  <2> QED BY <2>1, <2>2, <2>3, <2>4, <2>5 DEF TickStep
<1> QED BY <1>1, <1>2 DEF Owned

LEMMA NextOwned == ASSUME Owned, [Next]_vars PROVE Owned'
<1>1. ASSUME UNCHANGED vars
      PROVE  Owned'
  BY <1>1 DEF vars, goods, Owned, Queues, Placed, Coined
<1>2. ASSUME NEW p \in Players, ClientStep(p)
      PROVE  Owned'
  <2>1. UNCHANGED <<goods, trade>>
    BY <1>2 DEF ClientStep, ClickOpen, Click, ClickCancel, Send
  <2>2. Queues'
    BY <1>2, ClickAsks, RequestSent DEF Owned
  <2> QED BY <2>1, <2>2 DEF goods, Owned, Placed, Coined
<1>3. ASSUME NEW p \in Players, OutsideStep(p)
      PROVE  Owned'
  <2>1. UNCHANGED <<trade, requests>>
    BY <1>3 DEF OutsideStep, Spend, Earn, Drop, PickUp, Outside
  <2>2. Queues'
    BY <2>1, RequestsTaken DEF Owned
  <2>3. CASE Spend(p) \/ Earn(p)
    <3>1. Coined'
      BY <2>3, SpendCoins DEF Owned
    <3>2. Placed'
      BY <2>3 DEF Spend, Earn, Owned, Placed
    <3> QED BY <2>1, <2>2, <3>1, <3>2 DEF Owned
  <2>4. ASSUME NEW s \in Slots, Drop(p, s) \/ \E stack \in Stacks : PickUp(p, s, stack)
        PROVE  Owned'
    <3>1. Placed'
      BY <2>4, DropPlaces, PickUpPlaces DEF Owned
    <3>2. Coined'
      BY <2>4 DEF Drop, PickUp, Owned, Coined
    <3> QED BY <2>1, <2>2, <3>1, <3>2 DEF Owned
  <2> QED BY <1>3, <2>3, <2>4 DEF OutsideStep
<1> QED BY <1>1, <1>2, <1>3, RequestOwned, TickOwned DEF Next

(* A stack in every place that is not empty, and every other on the ground.  *)
LEMMA OwnedIsWhole == ASSUME Placed, Coined PROVE NothingMadeOrLost
<1> DEFINE places == {at \in Players \X Slots : pack[at[1]][at[2]] # Empty}
           held == {pack[at[1]][at[2]] : at \in places}
<1>1. /\ IsFiniteSet(Stacks) /\ ground \subseteq Stacks /\ Empty \notin Stacks
      /\ pack \in [Players -> Packs]
  BY PlayerTradeAssumption DEF Placed
<1>2. \A at \in places : at[1] \in Players /\ at[2] \in Slots /\ at = <<at[1], at[2]>>
                         /\ pack[at[1]][at[2]] \in Stacks
  BY <1>1 DEF Packs
<1>3. held \subseteq Stacks
  BY <1>2
<1>4. held \cap ground = {}
  BY <1>2 DEF Placed
<1>5. ASSUME NEW x \in Stacks, x \notin ground
      PROVE  x \in held
  <2>1. PICK p \in Players, s \in Slots : pack[p][s] = x
    BY <1>5 DEF Placed
  <2>2. <<p, s>> \in places /\ pack[<<p, s>>[1]][<<p, s>>[2]] = x
    BY <2>1, <1>1
  <2> QED BY <2>2
<1>6. ground \cup held = Stacks
  BY <1>1, <1>3, <1>5
<1>7. IsFiniteSet(ground) /\ IsFiniteSet(held)
  BY <1>1, <1>3, FS_Subset
<1>8. IsFiniteSet(places) /\ Cardinality(places) = Cardinality(held)
  <2> DEFINE f == [at \in places |-> pack[at[1]][at[2]]]
  <2>1. f \in Bijection(places, held)
    <3>1. \A a, b \in places : pack[a[1]][a[2]] = pack[b[1]][b[2]] => a = b
      BY <1>2 DEF Placed
    <3> HIDE DEF places
    <3>2. f \in [places -> held]
      OBVIOUS
    <3>3. \A a, b \in places : f[a] = f[b] => a = b
      BY <3>1
    <3>4. \A x \in held : \E a \in places : f[a] = x
      OBVIOUS
    <3> HIDE DEF f, held
    <3> QED BY <3>2, <3>3, <3>4 DEF Bijection, Injection, Surjection, IsInjective
  <2> HIDE DEF f, places, held
  <2>2. ExistsBijection(places, held)
    BY <2>1 DEF ExistsBijection
  <2>3. ExistsBijection(held, places)
    BY <2>2, Fun_ExistsBijSymmetric
  <2> QED BY <1>7, <2>3, FS_Bijection
<1>9. Cardinality(places) + Cardinality(ground) = Cardinality(Stacks)
  <2> HIDE DEF places, held
  <2>1. Cardinality(ground \cup held) = Cardinality(ground) + Cardinality(held) - Cardinality(ground \cap held)
    BY <1>7, FS_Union
  <2>2. Cardinality(ground \cap held) = 0
    BY <1>4, FS_EmptySet
  <2>3. Cardinality(ground) \in Nat /\ Cardinality(held) \in Nat
    BY <1>7, FS_CardinalityType
  <2>4. Cardinality(ground \cup held) = Cardinality(Stacks)
    BY <1>6
  <2>5. Cardinality(places) = Cardinality(held)
    BY <1>8
  <2> QED BY <2>1, <2>2, <2>3, <2>4, <2>5
<1>10. \E p \in Players : purse[p] + purse[Partner(p)] + vendors
                            = Purses0[p] + Purses0[Partner(p)] + Vendors0
  <2>1. \E p \in Players : TRUE
    <3>1. Players # {}
      BY PlayerTradeAssumption, FS_EmptySet
    <3> QED BY <3>1
  <2> QED BY <2>1 DEF Coined
<1> QED BY <1>6, <1>9, <1>10 DEF NothingMadeOrLost

(* A trade makes nothing and loses nothing (settlePlayerTradeLocked): however  *)
(* the packs change behind an open trade, every stack stays in one place and  *)
(* the silver adds up.                                                        *)
THEOREM TradesConserve == Spec => []NothingMadeOrLost
<1>1. Init => Owned
  BY InitialOwned
<1>2. Owned /\ [Next]_vars => Owned'
  BY NextOwned
<1>3. Owned => NothingMadeOrLost
  BY OwnedIsWhole DEF Owned
<1> QED BY <1>1, <1>2, <1>3, PTL DEF Spec
=============================================================================
