----------------------------- MODULE ChunkStream -----------------------------
(***************************************************************************)
(* How the terrain one player sees follows the terrain the server has:     *)
(* the session's View and its Streamer (server/internal/session), the      *)
(* broadcasts of other goroutines (Registry.BroadcastChunk, ResendChunk),  *)
(* the connection, and the client that decodes what arrives and asks for   *)
(* what it had to drop (DecodeQueue).                                      *)
(*                                                                         *)
(* One session; everybody else is what edits, broadcasts and evicts.  line *)
(* is everything between the server's enqueue and the client's frame: the  *)
(* outbound channel, the writer, the socket, the net thread and the inbox, *)
(* all of them in order.  What the mesher makes of the store is            *)
(* ClientWorld's.                                                          *)
(***************************************************************************)
EXTENDS DecodeQueue, FiniteSets

CONSTANTS
    Places,          \* where the player can be
    Nearest,         \* what is visible from a place, nearest first
    Start,           \* where they enter a world
    NoPlace,         \* the view has not been placed
    Pristine,        \* the block the generator puts into every chunk of a world
    Editors,         \* goroutines that edit and then broadcast
    NoPost,          \* an editor with nothing to broadcast
    Line,            \* how many frames the connection holds (outboundQueue)
    MaxChunkResends, \* maxChunkResends
    MaxEdits,        \* bound: edits and regenerations
    MaxMoves         \* bound: chunk crossings and changes of world, refused ones too

VARIABLES
    terrain,     \* what the cache composes for each chunk of the bound world
    world,       \* which world the session is bound to
    latest,      \* the place the tick loop last published (chunkFeed.latest)
    wake,        \* the doorbell (chunkFeed.wake)
    held,        \* View.loaded
    centre,      \* View.center
    stream,      \* the streaming goroutine, inside MoveTo
    again,       \* Streamer.repairing
    subscribed,  \* the session is a broadcast target
    posts,       \* per editor: what it has published and not yet broadcast
    line,        \* frames on their way to the client
    asks,        \* ChunkResendRequests on their way to the server
    queue,       \* DecodeQueue.waiting
    store,       \* ChunkStore.chunks
    edits,       \* edits and regenerations so far
    moves,       \* crossings and changes of world so far
    turnedAway,  \* history: chunks lost to a refused payload, or asked for in vain
    silent,      \* history: chunks an edit missed, with nobody woken to repair them
    stray        \* history: chunks the view dropped without unloading them

cacheVars == <<terrain, world, posts, edits>>
playerVars == <<latest, wake, moves>>
viewVars == <<held, centre>>
streamerVars == <<stream, again, subscribed>>
clientVars == <<queue, store>>
historyVars == <<turnedAway, silent, stray>>
vars == <<cacheVars, playerVars, viewVars, streamerVars, line, asks, clientVars,
          historyVars>>

-----------------------------------------------------------------------------
Visible(place) == ToSet(Nearest[place])
WorldEntered == [kind |-> "world"]

(* chunk: what Get returned for the chunk being sent; arc: what Peek would *)
(* say of that allocation: the "same", "changed" by an edit, "gone" from   *)
(* the cache, or edited and gone, which is "missed".                       *)
Resting == [step |-> "get", unload |-> {}, load |-> <<>>, attempt |-> 0,
            repairing |-> FALSE, chunk |-> Absent, arc |-> "same"]
Idle == stream.unload = {} /\ stream.load = <<>> /\ stream.step = "get"

ASSUME ChunkStreamAssumption ==
    /\ Start \in Places /\ NoPlace \notin Places
    /\ NoPost \notin Updates
    /\ \A p \in Places : Nearest[p] \in Seq(Coords) /\ IsInjective(Nearest[p])
    /\ Pristine \in Seq(Blocks) /\ Pristine # <<>>
    /\ Line \in Nat \ {0} /\ MaxChunkResends \in Nat
    /\ MaxEdits \in Nat /\ MaxMoves \in Nat

HasRoom == Len(line) < Line

Generated(w) == [c \in Coords |-> Pristine[w]]

Init ==
    /\ terrain = Generated(1)
    /\ world = 1
    /\ latest = Start
    /\ wake = TRUE
    /\ held = {}
    /\ centre = NoPlace
    /\ stream = Resting
    /\ again = FALSE
    /\ subscribed = TRUE
    /\ posts = [e \in Editors |-> NoPost]
    /\ line = <<>>
    /\ asks = <<>>
    /\ queue = <<>>
    /\ store = Nothing
    /\ edits = 0
    /\ moves = 0
    /\ turnedAway = {}
    /\ silent = {}
    /\ stray = {}

-----------------------------------------------------------------------------
(* The streaming goroutine: followPlayer, Streamer.MoveTo and sendChunk.   *)

(* What the view lacks is sent and what it no longer shows is unloaded.    *)
NextChunk ==
    /\ subscribed /\ Idle /\ wake
    /\ wake' = FALSE
    /\ centre' = latest
    /\ held' = held \cap Visible(latest)
    /\ LET order == Nearest[latest]
       IN  stream' = [Resting EXCEPT !.unload = held \ Visible(latest),
                                     !.load = Picked(order, {i \in DOMAIN order : order[i] \notin held}),
                                     !.repairing = again]
    /\ again' = FALSE
    /\ silent' = silent \cap held
    /\ UNCHANGED <<cacheVars, latest, subscribed, line, asks, clientVars, moves,
                   turnedAway, stray>>

SendUnload ==
    /\ subscribed /\ HasRoom
    /\ \E c \in stream.unload :
           /\ line' = Append(line, ChunkUnload(c))
           /\ stream' = [stream EXCEPT !.unload = @ \ {c}]
    /\ UNCHANGED <<cacheVars, playerVars, viewVars, again, subscribed, asks, clientVars,
                   historyVars>>

Sending(step) ==
    /\ subscribed /\ stream.unload = {} /\ stream.load # <<>>
    /\ stream.step = step

GetChunk ==
    /\ Sending("get")
    /\ stream' = [stream EXCEPT !.step = "send", !.arc = "same",
                                !.chunk = terrain[Head(stream.load)]]
    /\ UNCHANGED <<cacheVars, playerVars, viewVars, again, subscribed, line, asks,
                   clientVars, historyVars>>

(* An edit missed by what is being sent again stays missed. *)
Abandoned == IF stream.attempt > 0 THEN {Head(stream.load)} ELSE {}

(* Get answers with an error: the chunk's file cannot be read, or whoever  *)
(* was generating the chunk is gone, whose error all that wait for it get. *)
(* MoveTo returns it, and followPlayer ends, until a world is entered.     *)
GetFails ==
    /\ Sending("get")
    /\ stream' = [Resting EXCEPT !.step = "ended"]
    /\ silent' = silent \cup Abandoned
    /\ UNCHANGED <<cacheVars, playerVars, viewVars, again, subscribed, line, asks,
                   clientVars, turnedAway, stray>>

SendChunk ==
    /\ Sending("send") /\ HasRoom
    /\ line' = Append(line, ChunkData(Head(stream.load), stream.chunk))
    /\ stream' = [stream EXCEPT !.step = "mark"]
    /\ UNCHANGED <<cacheVars, playerVars, viewVars, again, subscribed, asks, clientVars,
                   historyVars>>

MarkLoaded ==
    /\ Sending("mark")
    /\ held' = held \cup {Head(stream.load)}
    /\ stray' = stray \ {Head(stream.load)}
    /\ stream' = [stream EXCEPT !.step = "peek"]
    /\ UNCHANGED <<cacheVars, playerVars, centre, again, subscribed, line, asks,
                   clientVars, turnedAway, silent>>

NextLoad == [Resting EXCEPT !.load = Tail(stream.load), !.repairing = stream.repairing]

(* Nobody looks. *)
MutantOvertaken == FALSE

(* Only an allocation that has been replaced is sent again: a chunk that   *)
(* has left the cache counts as the one that was sent, edited or not.      *)
Overtaken == stream.arc = "changed"

PeekChunk ==
    /\ Sending("peek")
    /\ stream' = IF Overtaken /\ stream.attempt < MaxChunkResends
                 THEN [stream EXCEPT !.step = "get", !.attempt = @ + 1]
                 ELSE NextLoad
    /\ ~Overtaken \/ stream.attempt < MaxChunkResends
    /\ silent' = IF stream.arc = "missed" THEN silent \cup {Head(stream.load)} ELSE silent
    /\ UNCHANGED <<cacheVars, playerVars, viewVars, again, subscribed, line, asks,
                   clientVars, turnedAway, stray>>

(* Out of re-sends.  A pass that is itself the repair asks for no other.   *)
GiveUp ==
    /\ Sending("peek") /\ Overtaken /\ stream.attempt = MaxChunkResends
    /\ LET c == Head(stream.load)
       IN  /\ held' = held \ {c}
           /\ stray' = stray \cup {c}
           /\ IF stream.repairing
              THEN silent' = silent \cup {c} /\ UNCHANGED <<again, wake>>
              ELSE again' = TRUE /\ wake' = TRUE /\ UNCHANGED silent
    /\ stream' = NextLoad
    /\ UNCHANGED <<cacheVars, latest, centre, subscribed, line, asks, clientVars, moves,
                   turnedAway>>

-----------------------------------------------------------------------------
(* Everybody else. *)

(* What an edit does to a chunk that is being sent: another allocation. *)
Republished(c) ==
    IF stream.load # <<>> /\ Head(stream.load) = c /\ stream.step # "get"
    THEN [stream EXCEPT !.arc = "changed"]
    ELSE stream

Post(e, what) ==
    /\ edits < MaxEdits /\ edits' = edits + 1
    /\ posts[e] = NoPost
    /\ posts' = [posts EXCEPT ![e] = what]
    /\ terrain' = [terrain EXCEPT ![what.coord] = what.block]
    /\ stream' = Republished(what.coord)
    /\ UNCHANGED <<world, playerVars, viewVars, again, subscribed, line, asks,
                   clientVars, historyVars>>

(* Cache.Apply, or a step of the water; the broadcast is not under its lock. *)
Edit(e) ==
    \E c \in Coords, b \in Blocks : terrain[c] # b /\ Post(e, BlockUpdate(c, b))

(* RegenerateChunk, which has ResendChunk called when it is done. *)
Regenerate(e) ==
    \E c \in Coords : Post(e, ChunkData(c, Pristine[world]))

PostedBy(e, kind) == posts[e] # NoPost /\ posts[e].kind = kind

(* A send that finds no room forgets the chunk, and wakes nobody. *)
BroadcastChunk(e) ==
    /\ PostedBy(e, "block")
    /\ LET c == posts[e].coord
           reached == subscribed /\ c \in held
       IN  /\ IF reached /\ ~HasRoom
              THEN held' = held \ {c} /\ stray' = stray \cup {c} /\ UNCHANGED line
              ELSE /\ line' = IF reached THEN Append(line, posts[e]) ELSE line
                   /\ UNCHANGED <<held, stray>>
           /\ silent' = IF c \in held /\ (subscribed => ~HasRoom)
                        THEN silent \cup {c} ELSE silent
    /\ posts' = [posts EXCEPT ![e] = NoPost]
    /\ UNCHANGED <<terrain, world, playerVars, centre, streamerVars, asks, clientVars,
                   edits, turnedAway>>

(* Forgotten, and the streamer left asleep. *)
MutantRepair(c) ==
    /\ held' = held \ {c}
    /\ stray' = stray \cup {c}
    /\ UNCHANGED wake

Repair(c) ==
    /\ held' = held \ {c}
    /\ stray' = stray \cup {c}
    /\ wake' = TRUE

ResendChunk(e) ==
    /\ PostedBy(e, "chunk")
    /\ IF subscribed /\ posts[e].coord \in held
       THEN Repair(posts[e].coord)
       ELSE UNCHANGED <<held, stray, wake>>
    /\ silent' = IF subscribed THEN silent ELSE silent \cup ({posts[e].coord} \cap held)
    /\ posts' = [posts EXCEPT ![e] = NoPost]
    /\ UNCHANGED <<terrain, world, latest, centre, streamerVars, line, asks, clientVars,
                   edits, moves, turnedAway>>

(* Cache.evictLocked, under the pressure of every other session. *)
Evict ==
    /\ stream.step \in {"send", "mark", "peek"} /\ stream.arc \in {"same", "changed"}
    /\ stream' = [stream EXCEPT !.arc = IF @ = "same" THEN "gone" ELSE "missed"]
    /\ UNCHANGED <<cacheVars, playerVars, viewVars, again, subscribed, line, asks,
                   clientVars, historyVars>>

(* The tick loop finds the player in another chunk. *)
Cross ==
    /\ subscribed /\ moves < MaxMoves /\ moves' = moves + 1
    /\ latest' \in Places \ {latest}
    /\ wake' = TRUE
    /\ UNCHANGED <<cacheVars, viewVars, streamerVars, line, asks, clientVars,
                   historyVars>>

-----------------------------------------------------------------------------
(* The session's own goroutine: resend requests and world changes. *)

Entitled(c) == centre # NoPlace /\ c \in Visible(centre) /\ c \in held

(* Streamer.Resend; a refusal is silence, and the bucket may be empty.     *)
(* MarkLoaded undoes a Forget that comes between the send and the mark.    *)
Resend ==
    /\ subscribed /\ asks # <<>> /\ asks' = Tail(asks)
    /\ LET c == Head(asks)
       IN  \/ /\ Entitled(c)
              /\ Repair(c)
              /\ UNCHANGED turnedAway
           \/ /\ turnedAway' = IF Entitled(c) THEN turnedAway \cup {c} ELSE turnedAway
              /\ UNCHANGED <<wake, held, stray>>
    /\ silent' = IF Sending("mark") /\ Head(asks) = Head(stream.load)
                 THEN silent \cup ({Head(asks)} \cap held) ELSE silent
    /\ UNCHANGED <<cacheVars, latest, centre, streamerVars, line, clientVars, moves>>

(* A request the session never acts on.  The frame whose read was issued   *)
(* before a change of world is dropped undecoded, and during a leave, which *)
(* may be taken back, a request is inert.                                  *)
IgnoreAsk ==
    /\ subscribed /\ asks # <<>> /\ asks' = Tail(asks)
    /\ turnedAway' = turnedAway \cup ({Head(asks)} \cap held)
    /\ UNCHANGED <<cacheVars, playerVars, viewVars, streamerVars, line, clientVars,
                   silent, stray>>

(* changeWorld up to Transfer: no broadcasts, no streaming.  What stops the *)
(* streamer is its next Get or send.                                       *)
StopWorld ==
    /\ subscribed /\ world < Len(Pristine)
    /\ moves < MaxMoves /\ moves' = moves + 1
    /\ stream.step \in {"get", "send", "ended"}
    /\ subscribed' = FALSE
    /\ stream' = Resting
    /\ silent' = silent \cup Abandoned
    /\ stray' = stray \cup stream.unload
    /\ UNCHANGED <<cacheVars, latest, wake, viewVars, again, line, asks, clientVars,
                   turnedAway>>

(* What has not been written is discarded, the arrival frame is written,   *)
(* and what the view held is unloaded behind it.                           *)
ChangeWorld ==
    /\ ~subscribed /\ stream.step = "get"
    /\ \E written \in 0..Len(line) :
           line' = Append(SubSeq(line, 1, written), WorldEntered)
    /\ world' = world + 1
    /\ terrain' = Generated(world')
    /\ latest' = Start /\ wake' = TRUE
    /\ stream' = [Resting EXCEPT !.unload = held, !.step = "unload"]
    /\ held' = {} /\ centre' = NoPlace /\ again' = FALSE
    /\ posts' = [e \in Editors |-> NoPost]
    /\ turnedAway' = {} /\ silent' = {} /\ stray' = {}
    /\ UNCHANGED <<subscribed, asks, clientVars, edits, moves>>

UnloadOldWorld ==
    /\ ~subscribed /\ stream.step = "unload" /\ HasRoom
    /\ \E c \in stream.unload :
           /\ line' = Append(line, ChunkUnload(c))
           /\ stream' = [stream EXCEPT !.unload = @ \ {c}]
    /\ UNCHANGED <<cacheVars, playerVars, viewVars, again, subscribed, asks, clientVars,
                   historyVars>>

StartWorld ==
    /\ ~subscribed /\ stream.step = "unload" /\ stream.unload = {}
    /\ subscribed' = TRUE
    /\ stream' = Resting
    /\ UNCHANGED <<cacheVars, playerVars, viewVars, again, line, asks, clientVars,
                   historyVars>>

(* Transfer refuses: the old world goes on where it was stopped. *)
TransferRefused ==
    /\ ~subscribed /\ stream.step = "get"
    /\ subscribed' = TRUE
    /\ wake' = TRUE
    /\ UNCHANGED <<cacheVars, latest, viewVars, stream, again, line, asks, clientVars,
                   moves, historyVars>>

-----------------------------------------------------------------------------
(* A frame of the client: drain_session_events and ingest_world_updates.   *)
(* n frames have arrived; the drain's time budget is spent after d.        *)

LastEntry(frames) ==
    LET entries == {i \in DOMAIN frames : frames[i] = WorldEntered}
    IN  IF entries = {} THEN 0 ELSE CHOOSE i \in entries : \A j \in entries : j <= i

(* WorldChange clears the inbox, and replace the queue and the store.      *)
(* request_resends sends some of what is asked for: a request that finds   *)
(* the outbound queue full is dropped, and none leaves while a leave has   *)
(* the writer set aside.                                                   *)
Ingest ==
    \E n \in 0..Len(line) :
        LET came == SubSeq(line, 1, n)
            reset == LastEntry(came) > 0
            arrived == SubSeq(came, LastEntry(came) + 1, n)
            before == IF reset THEN <<>> ELSE queue
            chunks == IF reset THEN Nothing ELSE store
            asked == Resendable(before, arrived)
        IN  /\ n > 0 \/ queue # <<>>
            /\ line' = SubSeq(line, n + 1, Len(line))
            /\ \E kept \in {Admitted(before, arrived)} :
               \E d \in (IF kept = <<>> THEN {0} ELSE 1..Len(kept)) :
                   /\ store' = Drained(Dropped(chunks, Evicted(before, arrived)),
                                       SubSeq(kept, 1, d))
                   /\ queue' = SubSeq(kept, d + 1, Len(kept))
            /\ \E sent \in SUBSET asked :
                   /\ asks' = asks \o SetToSeq(sent)
                   /\ turnedAway' =
                          ((IF reset THEN {} ELSE turnedAway) \ CoordsOf(arrived, "chunk"))
                          \cup Refused(before, arrived) \cup (asked \ sent)
            /\ UNCHANGED <<cacheVars, playerVars, viewVars, streamerVars, silent,
                           stray>>

-----------------------------------------------------------------------------
Streaming == NextChunk \/ SendUnload \/ GetChunk \/ GetFails \/ SendChunk \/ MarkLoaded
             \/ PeekChunk \/ GiveUp

Editing(e) == Edit(e) \/ Regenerate(e) \/ BroadcastChunk(e) \/ ResendChunk(e)

Session == Resend \/ IgnoreAsk \/ StopWorld \/ ChangeWorld \/ UnloadOldWorld \/ StartWorld
           \/ TransferRefused

Next == Streaming \/ (\E e \in Editors : Editing(e)) \/ Evict \/ Cross
        \/ Session \/ Ingest

Spec == Init /\ [][Next]_vars

(* Every goroutine that can go on does, the client draws frames, and a     *)
(* change of world that has been begun is finished.  Edits, crossings and  *)
(* evictions are nobody's duty; that a Get succeeds, or a request is heard, *)
(* is not assumed.                                                         *)
Fairness ==
    /\ WF_vars(Streaming)
    /\ WF_vars(\E e \in Editors : BroadcastChunk(e) \/ ResendChunk(e))
    /\ WF_vars(Resend \/ IgnoreAsk \/ ChangeWorld \/ TransferRefused \/ UnloadOldWorld \/ StartWorld)
    /\ WF_vars(Ingest)

FairSpec == Spec /\ Fairness

-----------------------------------------------------------------------------
(* Properties. *)

StreamEnded == stream.step = "ended"

Quiet ==
    /\ subscribed /\ stream.unload = {} /\ stream.load = <<>>
    /\ StreamEnded \/ (Idle /\ ~wake)
    /\ \A e \in Editors : posts[e] = NoPost
    /\ line = <<>> /\ queue = <<>> /\ asks = <<>>

(* Once everything has arrived, the client sees what the server composes   *)
(* in every chunk the view counts as delivered, unless its payload or the  *)
(* request for it was turned away, or an edit missed it and nobody was     *)
(* woken: no order of reading, sending, marking (sendChunk), editing,      *)
(* broadcasting, dropping, asking and failing loses an edit otherwise.     *)
HeldIsCurrent ==
    Quiet => \A c \in held \ (turnedAway \cup silent) : store[c] = terrain[c]

(* Nothing outlives the view on the client, in particular nothing of the   *)
(* world before, except what was forgotten without being unloaded (MoveTo, *)
(* changeWorld, DecodeQueue::admit).                                       *)
NothingOutOfView ==
    Quiet => \A c \in Coords : store[c] # Absent => c \in held \cup stray

(* While the view is streamed, what the player can see is put right in the *)
(* end, whoever dropped it, unless it was turned away or forgotten in      *)
(* silence: a chunk that Resend, ResendChunk or an exhausted sendChunk     *)
(* forgets is streamed again.                                              *)
EventuallyCurrent ==
    []<>(\/ StreamEnded
         \/ \A c \in Visible(latest) \ (silent \cup turnedAway) : store[c] = terrain[c])
=============================================================================
