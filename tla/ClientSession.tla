---------------------------- MODULE ClientSession ----------------------------
(***************************************************************************)
(* A client's way into a world and out of it: the systems of a frame that  *)
(* dial, drain and ask (client/src/net/mod.rs), the net thread they talk   *)
(* to (session.rs, handshake.rs), and the server's end of the connection   *)
(* (server/internal/session/session.go).                                   *)
(*                                                                         *)
(* One connection at a time: a dial over a link that is still there drops  *)
(* it, which tells the old thread to stop, and what that one still does is *)
(* left out.  Frames, commands and events are the ones that move this      *)
(* exchange; gameplay is what ServerReadsInput stands for.                 *)
(***************************************************************************)
EXTENDS Integers, Sequences, FiniteSets

CONSTANTS
    Launches,   \* how the client is started: "list", "server" or "account"
    NoForm,     \* no CharacterChoice
    NoRoute,    \* no RejoinBy
    MaxArrivals \* bound: arrivals on their way to the client at a time

Routes == {"row", "address"}
Forms == [answered : BOOLEAN, attempted : {"none", "play", "create"}, refused : BOOLEAN]

ASSUME ClientSessionAssumption ==
    /\ Launches \subseteq {"list", "server", "account"}
    /\ NoForm \notin Forms
    /\ NoRoute \notin Routes
    /\ MaxArrivals \in Nat

VARIABLES
    launch,     \* the Dial the plugin was built with
    turn,       \* the part of the chain that runs next: "rejoin", "dial", "drain" or "act"
    client,     \* ConnectionState and the resources that go with it
    route,      \* RejoinBy: "row" or "address"
    asked,      \* a ConnectRequest for the recorded row is waiting
    thread,     \* the net thread: its phase, leave_sent, leave_cancel_sent
    commands,   \* NetCommands on their way to the thread
    events,     \* SessionEvents on their way to the frame
    up,         \* frames on their way to the server
    down,       \* frames on their way to the client
    server,     \* phase of the server's session, "leaving" once a leave has begun
    stale,      \* the server's outstanding read was issued in another world
    lost,       \* history: a change of world swallowed a frame of this connection
    offended    \* history: one end of it closed because the other broke the contract

netVars == <<thread, commands, events, up, down, server, stale>>
frameVars == <<turn, client, route, asked>>
historyVars == <<lost, offended>>
sessionVars == <<launch, frameVars, netVars, historyVars>>

-----------------------------------------------------------------------------
States == {"Idle", "Connecting", "Handshaking", "Choosing", "Connected", "Leaving",
           "Rejected", "Disconnected"}
Over == {"Rejected", "Disconnected"}

Form(refused) == [answered |-> FALSE, attempted |-> "none", refused |-> refused]
Refused(form) == form # NoForm /\ form.refused

Fresh == [phase |-> "connecting", leaveSent |-> FALSE, cancelSent |-> FALSE]
NoThread == [Fresh EXCEPT !.phase = "gone"]

Started(state, link) ==
    [state |-> state, form |-> NoForm, rejoining |-> FALSE, link |-> link, session |-> FALSE,
     outbound |-> link, suspended |-> FALSE, cancellation |-> "none"]

(* What every ending takes away. *)
Ended(c, state) ==
    [c EXCEPT !.state = state, !.outbound = FALSE, !.session = FALSE, !.suspended = FALSE,
              !.cancellation = "none"]

SessionInit ==
    /\ launch \in Launches
    /\ turn = "rejoin"
    /\ \E dialled \in BOOLEAN :
           /\ client = IF launch = "server"
                       THEN Started(IF dialled THEN "Connecting" ELSE "Rejected", dialled)
                       ELSE Started("Idle", FALSE)
           /\ route = IF launch = "server" /\ dialled THEN "address" ELSE NoRoute
    /\ asked = FALSE
    /\ thread = IF client.link THEN Fresh ELSE NoThread
    /\ commands = <<>> /\ events = <<>>
    /\ up = <<>> /\ down = <<>>
    /\ server = "closed" /\ stale = FALSE
    /\ lost = FALSE /\ offended = FALSE

-----------------------------------------------------------------------------
(* The dials. *)

NotDialled == UNCHANGED <<netVars, historyVars>>

(* A form is left standing over a dial that failed. *)
MutantStartSession(c) ==
    \/ /\ client' = [c EXCEPT !.state = "Connecting", !.link = TRUE, !.outbound = TRUE]
       /\ thread' = Fresh
       /\ commands' = <<>> /\ events' = <<>>
       /\ up' = <<>> /\ down' = <<>>
       /\ server' = "closed" /\ stale' = FALSE
       /\ lost' = FALSE /\ offended' = FALSE
    \/ /\ client' = [c EXCEPT !.state = "Rejected"]
       /\ NotDialled

(* start_session: a thread and the three channels to it.  If it or the     *)
(* row it was for cannot be had, the attempt is over, and so is the form   *)
(* it was made for.                                                        *)
StartSession(c) ==
    \/ /\ client' = [c EXCEPT !.state = "Connecting", !.link = TRUE, !.outbound = TRUE]
       /\ thread' = Fresh
       /\ commands' = <<>> /\ events' = <<>>
       /\ up' = <<>> /\ down' = <<>>
       /\ server' = "closed" /\ stale' = FALSE
       /\ lost' = FALSE /\ offended' = FALSE
    \/ /\ client' = [c EXCEPT !.state = "Rejected", !.form = NoForm]
       /\ NotDialled

(* With nowhere to go back to, the ending is drawn after all. *)
NoRejoin(c) ==
    IF c.state \notin Over \cup {"Choosing"}
    THEN [c EXCEPT !.rejoining = FALSE]
    ELSE [c EXCEPT !.rejoining = FALSE, !.form = NoForm,
                   !.state = IF @ = "Choosing" THEN "Disconnected" ELSE @]

RejoinForACharacter ==
    LET due == client.rejoining /\ ~client.link
        proceeds == client.state \in Over \cup {"Choosing"} /\ route # NoRoute
    IN  /\ turn \in {"act", "rejoin"} /\ turn' = "dial"
        /\ \/ /\ ~due \/ ~proceeds
              /\ client' = IF due THEN NoRejoin(client) ELSE client
              /\ NotDialled /\ UNCHANGED asked
           \/ /\ due /\ proceeds /\ route = "row"
              /\ asked' = TRUE
              /\ NotDialled /\ UNCHANGED client
           \/ /\ due /\ proceeds /\ route = "address"
              /\ StartSession([client EXCEPT !.rejoining = FALSE])
              /\ UNCHANGED asked
        /\ UNCHANGED <<launch, route>>

(* RECONNECT, pressed on the screen of an ending. *)
ReconnectOnRequest ==
    /\ turn = "dial" /\ ~asked
    /\ ~client.link /\ client.state \in Over /\ route # NoRoute
    /\ IF route = "row"
       THEN asked' = TRUE /\ UNCHANGED <<turn, client>> /\ NotDialled
       ELSE StartSession(client) /\ turn' = "drain" /\ UNCHANGED asked
    /\ UNCHANGED <<launch, route>>

(* Only Choosing consumes the flag. *)
MutantConsumed(c) == IF c.state = "Choosing" THEN [c EXCEPT !.rejoining = FALSE] ELSE c

(* One return, whether the row is still there or not. *)
Consumed(c) == [c EXCEPT !.rejoining = FALSE]

(* A click on a row, or the request another system has written.  There is  *)
(* no look at the link.                                                    *)
ConnectOnRequest ==
    LET reopening == client.rejoining /\ client.state = "Choosing"
        standing == client.state \in Over \cup {"Idle"}
    IN  /\ turn = "dial" /\ turn' = "drain"
        /\ launch = "list"
        /\ asked' = FALSE
        /\ reopening \/ standing
        /\ StartSession(Consumed(client))
        /\ route' = IF client'.state = "Connecting" THEN "row" ELSE route
        /\ UNCHANGED launch

ConnectOnceSignedIn ==
    /\ turn = "dial" /\ turn' = "drain" /\ ~asked
    /\ launch = "account" /\ client.state = "Idle"
    /\ StartSession(client)
    /\ route' = IF client'.state = "Connecting" THEN "address" ELSE route
    /\ UNCHANGED <<launch, asked>>

-----------------------------------------------------------------------------
(* drain_session_events: one event of its loop at a time.                  *)

DrainRuns == turn \in {"dial", "drain"} /\ ~asked /\ client.link

(* A name was refused: the form stays, for the connection that follows. *)
Reopening == client.rejoining /\ Refused(client.form)

Event(kind) ==
    /\ DrainRuns /\ events # <<>> /\ Head(events) = kind
    /\ events' = Tail(events)
    /\ UNCHANGED <<launch, route, asked, thread, up, down, server, stale, historyVars>>

Handled(kind, now) ==
    /\ Event(kind)
    /\ client' = now
    /\ turn' = "drain"
    /\ UNCHANGED commands

DrainHandshaking == Handled("handshaking", [client EXCEPT !.state = "Handshaking"])

DrainCharacters ==
    Handled("characters",
            [client EXCEPT !.form = Form(Refused(client.form)), !.state = "Choosing"])

DrainEstablished ==
    Handled("established",
            [client EXCEPT !.session = TRUE, !.form = NoForm, !.state = "Connected"])

DrainLeaving ==
    Handled("leaving",
            [client EXCEPT !.state = "Leaving",
                           !.cancellation = IF @ = "none" THEN "available" ELSE @])

Resumed(c) ==
    [c EXCEPT !.outbound = TRUE, !.suspended = FALSE, !.state = "Connected",
              !.cancellation = "none", !.rejoining = FALSE]

(* Accepted with no writer set aside, the session is given up instead, and *)
(* the drain goes no further.                                              *)
DrainLeaveAccepted ==
    /\ Event("accepted")
    /\ IF client.suspended
       THEN client' = Resumed(client) /\ turn' = "drain" /\ UNCHANGED commands
       ELSE /\ client' = [Ended(client, "Disconnected") EXCEPT !.form = NoForm,
                                                               !.rejoining = FALSE]
            /\ turn' = "act"
            /\ commands' = Append(commands, "disconnect")

(* The character's name was refused: the only answer that is dialled again. *)
DrainNameRefused ==
    LET retryable == client.form # NoForm /\ client.form.attempted = "create"
    IN  Handled("nameRefused",
                IF retryable
                THEN [Ended(client, "Choosing") EXCEPT !.form.refused = TRUE, !.rejoining = TRUE]
                ELSE [Ended(client, "Rejected") EXCEPT !.form = NoForm])

DrainRefused ==
    Handled("refused", [Ended(client, "Rejected") EXCEPT !.form = NoForm])

DrainEnded ==
    Handled("ended", IF Reopening THEN Ended(client, client.state)
                     ELSE [Ended(client, "Disconnected") EXCEPT !.form = NoForm])

DrainEmpty ==
    /\ turn \in {"dial", "drain"} /\ ~asked /\ turn' = "act"
    /\ client.link => events = <<>> /\ thread.phase # "gone"
    /\ UNCHANGED <<launch, client, route, asked, netVars, historyVars>>

(* Only the states of a dial are put right. *)
MutantDrainClosed ==
    LET corrected == ~Reopening /\ client.state \in {"Connecting", "Handshaking", "Choosing"}
    IN  /\ DrainRuns /\ turn' = "act"
        /\ events = <<>> /\ thread.phase = "gone"
        /\ client' = IF corrected
                     THEN [Ended(client, "Disconnected") EXCEPT !.form = NoForm, !.link = FALSE]
                     ELSE [client EXCEPT !.link = FALSE]
        /\ UNCHANGED <<launch, route, asked, netVars, historyVars>>

(* A terminal state keeps its reason; the link goes whatever the state. *)
DrainClosed ==
    LET corrected == ~Reopening /\ client.state \notin Over \cup {"Idle"}
    IN  /\ DrainRuns /\ turn' = "act"
        /\ events = <<>> /\ thread.phase = "gone"
        /\ client' = IF corrected
                     THEN [Ended(client, "Disconnected") EXCEPT !.form = NoForm, !.link = FALSE]
                     ELSE [client EXCEPT !.link = FALSE]
        /\ UNCHANGED <<launch, route, asked, netVars, historyVars>>

-----------------------------------------------------------------------------
(* What the player asks for, one thing in a frame.  A command to a thread  *)
(* that has gone is not sent.                                              *)

Asks(command) ==
    /\ turn = "act" /\ turn' = "rejoin"
    /\ client.link
    /\ commands' = IF thread.phase = "gone" THEN commands ELSE Append(commands, command)
    /\ UNCHANGED <<launch, route, asked, thread, events, up, down, server, stale, historyVars>>

SendCharacterChoice ==
    /\ client.form # NoForm /\ ~client.form.answered
    /\ \E attempt \in {"play", "create"} :
           /\ Asks(attempt)
           /\ client' = [client EXCEPT !.form = [answered |-> TRUE, attempted |-> attempt,
                                                 refused |-> FALSE]]

CancelLeaveOnRequest ==
    /\ client.state = "Leaving" /\ client.cancellation = "available"
    /\ thread.phase # "gone"
    /\ Asks("cancel")
    /\ client' = [client EXCEPT !.cancellation = "pending"]

(* A welcomed session leaves; any other is stopped where it is. *)
DisconnectOnRequest ==
    /\ client.state \notin Over \cup {"Leaving"}
    /\ thread.phase # "gone"
    /\ IF client.state = "Connected"
       THEN /\ Asks("leave")
            /\ client' = [client EXCEPT !.rejoining = TRUE, !.form = NoForm,
                                        !.suspended = @ \/ client.outbound,
                                        !.outbound = FALSE,
                                        !.cancellation = "available", !.state = "Leaving"]
       ELSE /\ Asks("disconnect")
            /\ client' = [client EXCEPT !.rejoining = TRUE, !.form = NoForm,
                                        !.session = FALSE, !.suspended = FALSE,
                                        !.cancellation = "none", !.state = "Disconnected"]

-----------------------------------------------------------------------------
(* The net thread: run and pump. *)

Report(event) == events' = Append(events, event)

Pumping == thread.phase \notin {"connecting", "gone"}

(* The hello is written before the ECS hears of the socket. *)
Connect ==
    /\ thread.phase = "connecting"
    /\ \/ /\ thread' = [thread EXCEPT !.phase = "awaitingCharacters"]
          /\ Report("handshaking")
          /\ up' = <<"hello">> /\ server' = "hello"
       \/ /\ thread' = [thread EXCEPT !.phase = "gone"]
          /\ Report("refused")
          /\ UNCHANGED <<up, server>>
    /\ UNCHANGED <<launch, frameVars, commands, down, stale, historyVars>>

TakeCommand(command) ==
    /\ Pumping /\ commands # <<>> /\ Head(commands) = command
    /\ commands' = Tail(commands)
    /\ UNCHANGED <<launch, frameVars, events, down, server, stale, historyVars>>

(* Nobody is left to tell. *)
TakeDisconnect ==
    /\ TakeCommand("disconnect")
    /\ thread' = [thread EXCEPT !.phase = "gone"]
    /\ UNCHANGED up

(* Handshake::chose. *)
TakeChoice ==
    \E attempt \in {"play", "create"} :
        /\ TakeCommand(attempt)
        /\ IF thread.phase = "choosing"
           THEN thread' = [thread EXCEPT !.phase = "awaitingWelcome"] /\ up' = Append(up, attempt)
           ELSE UNCHANGED <<thread, up>>

TakeLeave ==
    /\ TakeCommand("leave")
    /\ IF thread.phase = "established" /\ ~thread.leaveSent
       THEN thread' = [thread EXCEPT !.leaveSent = TRUE] /\ up' = Append(up, "leave")
       ELSE UNCHANGED <<thread, up>>

TakeCancel ==
    /\ TakeCommand("cancel")
    /\ IF thread.phase = "established" /\ thread.leaveSent /\ ~thread.cancelSent
       THEN thread' = [thread EXCEPT !.cancelSent = TRUE] /\ up' = Append(up, "cancel")
       ELSE UNCHANGED <<thread, up>>

(* How far the handshake must be for a frame, and how far it is then. *)
Legal(kind, phase) ==
    CASE kind = "characters" -> phase = "awaitingCharacters"
      [] kind = "welcome" -> phase = "awaitingWelcome"
      [] kind \in {"refused", "nameRefused"} -> phase # "established"
      [] kind = "accepted" -> phase = "established" /\ thread.cancelSent
      [] OTHER -> phase = "established"

(* A cancellation that was accepted leaves the thread as if there had been *)
(* a leave still.                                                          *)
MutantAfter(kind) ==
    CASE kind = "characters" -> [thread EXCEPT !.phase = "choosing"]
      [] kind = "welcome" -> [thread EXCEPT !.phase = "established"]
      [] kind \in {"refused", "nameRefused"} -> [thread EXCEPT !.phase = "gone"]
      [] kind = "accepted" -> [thread EXCEPT !.cancelSent = FALSE]
      [] OTHER -> thread

After(kind) ==
    CASE kind = "characters" -> [thread EXCEPT !.phase = "choosing"]
      [] kind = "welcome" -> [thread EXCEPT !.phase = "established"]
      [] kind \in {"refused", "nameRefused"} -> [thread EXCEPT !.phase = "gone"]
      [] kind = "accepted" -> [thread EXCEPT !.cancelSent = FALSE, !.leaveSent = FALSE]
      [] OTHER -> thread

Failure == IF thread.phase = "established" THEN "ended" ELSE "refused"

ReadFrame ==
    LET kind == Head(down)
        told == CASE kind = "welcome" -> <<"established">>
                  [] kind = "arrival" -> <<>>
                  [] OTHER -> <<kind>>
    IN  /\ Pumping /\ down # <<>>
        /\ down' = Tail(down)
        /\ IF Legal(kind, thread.phase)
           THEN thread' = After(kind) /\ events' = events \o told /\ UNCHANGED offended
           ELSE /\ thread' = [thread EXCEPT !.phase = "gone"]
                /\ Report(Failure)
                /\ offended' = TRUE
        /\ UNCHANGED <<launch, frameVars, commands, up, server, stale, lost>>

(* peer_closed: the end of an unanswered character screen is no refusal. *)
PeerClosed ==
    /\ Pumping /\ server = "closed" /\ down = <<>>
    /\ thread' = [thread EXCEPT !.phase = "gone"]
    /\ Report(IF thread.phase \in {"established", "choosing"} THEN "ended" ELSE "refused")
    /\ UNCHANGED <<launch, frameVars, commands, up, down, server, stale, historyVars>>

(* transport_failure, and the panic that reports nothing. *)
Breaks ==
    /\ Pumping
    /\ thread' = [thread EXCEPT !.phase = "gone"]
    /\ events' \in {Append(events, Failure), events}
    /\ UNCHANGED <<launch, frameVars, commands, up, down, server, stale, historyVars>>

-----------------------------------------------------------------------------
(* The server's session. *)

Send(frames) == down' = down \o frames

ServerReads(phase, kinds) ==
    /\ server = phase /\ up # <<>> /\ Head(up) \in kinds
    /\ up' = Tail(up)
    /\ UNCHANGED <<launch, frameVars, thread, commands, events>>

(* Admit: the account's characters, or a refusal and a close behind it. *)
ServerReadsHello ==
    /\ ServerReads("hello", {"hello"})
    /\ \/ Send(<<"characters">>) /\ server' = "character"
       \/ Send(<<"refused">>) /\ server' = "closed"
    /\ UNCHANGED <<stale, historyVars>>

ServerReadsChoice ==
    /\ ServerReads("character", {"play", "create"})
    /\ \/ Send(<<"welcome">>) /\ server' = "world"
       \/ Send(<<"refused">>) /\ server' = "closed"
       \/ Head(up) = "create" /\ Send(<<"nameRefused">>) /\ server' = "closed"
    /\ UNCHANGED <<stale, historyVars>>

(* A frame the reader was asked for in another world is dropped unread. *)
ServerDropsStale ==
    /\ ServerReads("world", {"leave", "cancel"})
    /\ stale /\ stale' = FALSE
    /\ lost' = TRUE
    /\ UNCHANGED <<down, server, offended>>

ServerReadsLeave ==
    /\ ServerReads("world", {"leave"}) /\ ~stale
    /\ Send(<<"leaving">>) /\ server' = "leaving"
    /\ UNCHANGED <<stale, historyVars>>

(* No countdown: malformed. *)
ServerReadsStrayCancel ==
    /\ ServerReads("world", {"cancel"}) /\ ~stale
    /\ server' = "closed" /\ offended' = TRUE
    /\ UNCHANGED <<down, stale, lost>>

(* The body resumes, which it never refuses, or the countdown has won. *)
ServerReadsCancel ==
    /\ ServerReads("leaving", {"cancel"})
    /\ \/ Send(<<"accepted">>) /\ server' = "world"
       \/ server' = "closed" /\ UNCHANGED down
    /\ UNCHANGED <<stale, historyVars>>

(* A gameplay frame takes the place of the dropped one. *)
ServerReadsInput ==
    /\ server = "world" /\ stale /\ stale' = FALSE
    /\ UNCHANGED <<launch, frameVars, thread, commands, events, up, down, server, historyVars>>

(* changeWorld, on a contact or for another goroutine, while the next read *)
(* is outstanding: what has not been written is discarded.  Bound:         *)
(* MaxArrivals on their way.                                               *)
ChangeWorld ==
    /\ server = "world"
    /\ Cardinality({i \in DOMAIN down : down[i] = "arrival"}) < MaxArrivals
    /\ \E written \in 0..Len(down) :
           /\ down' = Append(SubSeq(down, 1, written), "arrival")
           /\ lost' = (lost \/ written < Len(down))
    /\ stale' = TRUE
    /\ UNCHANGED <<launch, frameVars, thread, commands, events, up, server, offended>>

(* Timeouts, the end of a countdown, a shutdown: what is queued is written *)
(* before the close.                                                       *)
ServerCloses ==
    /\ server # "closed" /\ server' = "closed"
    /\ UNCHANGED <<launch, frameVars, thread, commands, events, up, down, stale, historyVars>>

-----------------------------------------------------------------------------
Dial == RejoinForACharacter \/ ReconnectOnRequest \/ ConnectOnRequest \/ ConnectOnceSignedIn

Drain == DrainHandshaking \/ DrainCharacters \/ DrainEstablished \/ DrainLeaving
         \/ DrainLeaveAccepted \/ DrainNameRefused \/ DrainRefused \/ DrainEnded
         \/ DrainEmpty \/ DrainClosed

Act == SendCharacterChoice \/ CancelLeaveOnRequest \/ DisconnectOnRequest

Take == TakeDisconnect \/ TakeChoice \/ TakeLeave \/ TakeCancel

Thread == Connect \/ Take \/ ReadFrame \/ PeerClosed

Serve == ServerReadsHello \/ ServerReadsChoice \/ ServerDropsStale \/ ServerReadsLeave
         \/ ServerReadsStrayCancel \/ ServerReadsCancel

SessionNext == Dial \/ Drain \/ Act \/ Thread \/ Breaks
        \/ Serve \/ ServerReadsInput \/ ChangeWorld \/ ServerCloses

SessionSpec == SessionInit /\ [][SessionNext]_sessionVars

(* The countdown runs out, and so does the idle timeout of a session whose *)
(* client has set its writer aside.                                        *)
TimesOut == ServerCloses /\ (server = "world" => ~client.outbound) /\ server \in {"world", "leaving"}

(* Frames go on, and both ends of the connection do what they can: the     *)
(* thread takes every command before it reads on.  No player owes a press. *)
FairSessionSpec ==
    /\ SessionSpec
    /\ WF_sessionVars(RejoinForACharacter) /\ WF_sessionVars(asked /\ ConnectOnRequest) /\ WF_sessionVars(Drain)
    /\ WF_sessionVars(Connect) /\ WF_sessionVars(Take) /\ WF_sessionVars(ReadFrame) /\ WF_sessionVars(PeerClosed)
    /\ WF_sessionVars(Serve) /\ WF_sessionVars(TimesOut)

-----------------------------------------------------------------------------
(* Properties. *)

(* Nothing of the connection is on its way. *)
AtRest ==
    /\ client.link /\ thread.phase = "established" /\ server # "closed"
    /\ commands = <<>> /\ events = <<>> /\ up = <<>> /\ down = <<>>

(* Client and server agree on whether the player is leaving, and no answer *)
(* is waited for that will not come, unless a change of world swallowed a  *)
(* frame: leaves, cancellations and their answers cross in any order.      *)
LeavingIsAgreed ==
    AtRest /\ ~lost =>
        \/ client.state = "Connected" /\ server = "world"
        \/ client.state = "Leaving" /\ server = "leaving" /\ client.cancellation = "available"

(* The comment of ConnectionState::Leaving: without seconds to show, it is *)
(* the short interval before the server acknowledges the leave.            *)
LeavingIsAcknowledged ==
    AtRest /\ client.state = "Leaving" => server = "leaving"

(* Neither end ever closes on the other for speaking out of turn           *)
(* (protocol_failure, ErrMalformed), unless a frame was swallowed.         *)
NobodyIsOffended == offended => lost

(* At the end of a frame no screen stands over nothing: what looks alive   *)
(* has a thread, a form has a thread or a dial that is due, a game has a   *)
(* session and a writer, and a leave has kept its writer for a return.     *)
NothingIsOrphaned ==
    turn \in {"act", "rejoin"} =>
        /\ client.state \in {"Connecting", "Handshaking", "Connected", "Leaving"} => client.link
        /\ client.state = "Choosing" => client.form # NoForm
        /\ client.form # NoForm => client.link \/ client.rejoining
        /\ client.session <=> client.state \in {"Connected", "Leaving"}
        /\ client.state = "Connected" => client.outbound /\ ~client.suspended
        /\ client.state = "Leaving" => client.suspended /\ ~client.outbound

(* A leave ends: back in the game, or out of it.                           *)
LeaveEnds == client.state = "Leaving" ~> client.state # "Leaving"

(* A return to the character screen is one return: whatever the dial       *)
(* brings, it is over, and nothing goes on dialling (connect_on_request).  *)
RejoinEnds == client.rejoining ~> ~client.rejoining
=============================================================================
