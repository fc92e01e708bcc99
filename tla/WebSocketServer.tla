-------------------------- MODULE WebSocketServer --------------------------
(***************************************************************************)
(* The WebSocket endpoint of a node (gossip/websocket_server.cpp): clients *)
(* with a JWT subscribe to events, nodes prove who they are with ECIES.    *)
(* Handlers run on a pool of threads.  What the server knows of a client   *)
(* is spread over two maps with a mutex each, clientSessions_ and          *)
(* clientWsStreams_, and a connection, the two timers, a broadcast and     *)
(* stop() change them one after the other, so each of these accesses is a  *)
(* step here.  ws->close waits for the client to answer, so it may never  *)
(* return.  A connection is used once: its name is its session id.         *)
(***************************************************************************)
EXTENDS Naturals, FiniteSets

CONSTANTS Conns, Members, Pools, Events,
          Requests,          \* what connections ask for, with the JWT they bring
          None,
          GracePeriod, HeartbeatTimeout,
          MaxTime, MaxStarts, MaxBroadcasts, MaxDrops   \* bounds of a behaviour

Kinds == {"peer:connected", "pool:changed", "energy:updated", "unknown"}

\* intact: signed with the secret and by the issuer; type: the claim memberType,
\* which createJwt writes as a string and validateJwt reads as an integer.
TokenType == [intact : BOOLEAN, member : Members, type : {"none", "user", "admin", "text"},
              pools : SUBSET Pools, expires : Nat \cup {None}]

Request == [path : {"client", "node", "other"}, token : TokenType]

\* tier is for the caller of broadcastEvent to fill in, Admin unless it does: no
\* code ties it to the kind (only tests call getAccessTierForEvent).
EventType == [kind : Kinds, tier : {"Admin", "PoolScoped", "MemberScoped"},
              pool : Pools \cup {None}, member : Members \cup {None}]

ASSUME WebSocketAssumption ==
    /\ None \notin Conns \cup Members \cup Pools \cup Nat
    /\ Requests \subseteq Request
    /\ Events \subseteq EventType
    /\ {GracePeriod, HeartbeatTimeout, MaxTime, MaxStarts, MaxBroadcasts, MaxDrops} \subseteq Nat

Jobs == {"heartbeat", "jwt", "broadcast"}
Timers == {"heartbeat", "jwt"}

VARIABLES
    server,      \* running_ and the timers: "stopped", "running", or "deaf" (running_
                 \* is set but start() gave up before there was a timer)
    accepting,   \* an async_accept is pending
    stopping,    \* how far stop() has come
    phase,       \* how far the handlers of a connection have come
    request,     \* what it asks for
    link,        \* the socket: "up", "lost" (the client is gone, the server does not
                 \* know), "closing" (no longer open, ws->close waits for the client
                 \* to answer), "closed"
    sessions,    \* clientSessions_
    streams,     \* clientWsStreams_
    waiting,     \* the timers that are set
    job,         \* a timer's handler or broadcastEvent: where it is,
                 \* its lists of sessions and the one it is at
    now,
    heard, warnings,   \* what the clients got
    starts, broadcasts, drops

conns == <<phase, request, link>>
maps == <<sessions, streams>>
inbox == <<heard, warnings>>
limits == <<starts, broadcasts, drops>>
vars == <<server, accepting, stopping, conns, maps, waiting, job, now, inbox, limits>>

running == server # "stopped"

Topics == {e.kind : e \in Events}

Session == [subs : SUBSET Topics, warned : BOOLEAN, pong : 0..MaxTime]

\* pc is where it is, list and warn what it has collected, at the session it
\* is at, then where it goes on after cleaning up.
Idle == [pc |-> "idle", list |-> {}, warn |-> {}, at |-> None, then |-> "idle", event |-> None]

Init ==
    /\ server = "stopped" /\ accepting = FALSE /\ stopping = "no"
    /\ phase = [c \in Conns |-> "none"]
    /\ request = [c \in Conns |-> None]
    /\ link = [c \in Conns |-> "closed"]
    /\ sessions = [c \in Conns |-> None]
    /\ streams = {}
    /\ waiting = {}
    /\ job = [j \in Jobs |-> Idle]
    /\ now = 0
    /\ heard = [c \in Conns |-> {}]
    /\ warnings = [c \in Conns |-> 0]
    /\ starts = 0 /\ broadcasts = 0 /\ drops = 0

-----------------------------------------------------------------------------
(***************************************************************************)
(* Lifecycle.                                                              *)
(***************************************************************************)

\* ok: the address could be parsed, bound and listened on.  running_ is set
\* before any of it.
Start(ok) ==
    /\ ~running /\ stopping = "no" /\ starts < MaxStarts
    /\ server' = IF ok THEN "running" ELSE "deaf"
    /\ accepting' = ok
    /\ waiting' = IF ok THEN Timers ELSE {}
    /\ starts' = starts + 1
    /\ UNCHANGED <<stopping, conns, maps, job, now, inbox, broadcasts, drops>>

\* stop() up to the first mutex.
Stop ==
    /\ running /\ stopping = "no"
    /\ server' = "stopped" /\ accepting' = FALSE
    /\ waiting' = {}
    /\ stopping' = "streams"
    /\ UNCHANGED <<conns, maps, job, now, inbox, limits>>

\* ws->is_open()
IsOpen(c) == link[c] \in {"up", "lost"}

\* stop() holds wsStreamMutex_ while it closes one stream after the other.
LockStreams ==
    /\ stopping = "streams"
    /\ stopping' = "closing"
    /\ UNCHANGED <<server, accepting, conns, maps, waiting, job, now, inbox, limits>>

Unlocked == stopping # "closing"

\* The streams whose ws->close stop() waits for, not a timer's handler.
StopCloses == {c \in streams : link[c] = "closing" /\ \A j \in Jobs : ~(job[j].pc = "closing" /\ job[j].at = c)}

StopCloseStream(c) ==
    /\ stopping = "closing" /\ StopCloses = {}
    /\ c \in streams /\ IsOpen(c)
    /\ link' = [link EXCEPT ![c] = "closing"]
    /\ UNCHANGED <<server, accepting, stopping, request, phase, maps, waiting, job, now, inbox, limits>>

StopCloseReturns(c) ==
    /\ stopping = "closing" /\ c \in StopCloses
    /\ link' = [link EXCEPT ![c] = "closed"]
    /\ UNCHANGED <<server, accepting, stopping, request, phase, maps, waiting, job, now, inbox, limits>>

\* Mutant: the streams are neither closed nor forgotten.
StopStreamsForgets ==
    /\ stopping = "closing"
    /\ stopping' = "sessions"
    /\ UNCHANGED <<server, accepting, conns, maps, waiting, job, now, inbox, limits>>

StopStreams ==
    /\ stopping = "closing" /\ StopCloses = {}
    /\ \A c \in streams : ~IsOpen(c)
    /\ streams' = {}
    /\ stopping' = "sessions"
    /\ UNCHANGED <<server, accepting, conns, sessions, waiting, job, now, inbox, limits>>

StopSessions ==
    /\ stopping = "sessions"
    /\ sessions' = [c \in Conns |-> None]
    /\ stopping' = "no"
    /\ UNCHANGED <<server, accepting, conns, streams, waiting, job, now, inbox, limits>>

-----------------------------------------------------------------------------
(***************************************************************************)
(* Connections.                                                            *)
(***************************************************************************)

\* doAccept goes on with the next one by itself.
Accept(c, r) ==
    /\ accepting /\ phase[c] = "none"
    /\ request' = [request EXCEPT ![c] = r]
    /\ phase' = [phase EXCEPT ![c] = "accepted"]
    /\ link' = [link EXCEPT ![c] = "up"]
    /\ UNCHANGED <<server, accepting, stopping, maps, waiting, job, now, inbox, limits>>

\* An error ends the accept loop: nobody calls doAccept again.
AcceptFails ==
    /\ accepting /\ drops < MaxDrops
    /\ accepting' = FALSE
    /\ drops' = drops + 1
    /\ UNCHANGED <<server, stopping, conns, maps, waiting, job, now, inbox, starts, broadcasts>>

\* The connection is over: its handlers let go of the stream.
Leave(c) ==
    /\ phase' = [phase EXCEPT ![c] = "gone"]
    /\ link' = [link EXCEPT ![c] = "closed"]

\* The upgrade request was read, or could not be.
Route(c) ==
    /\ phase[c] = "accepted"
    /\ IF running /\ link[c] = "up" /\ request[c].path # "other"
       THEN /\ phase' = [phase EXCEPT ![c] = "upgraded"]
            /\ UNCHANGED link
       ELSE Leave(c)
    /\ UNCHANGED <<server, accepting, stopping, request, maps, waiting, job, now, inbox, limits>>

\* A memberType that is not an integer throws, which counts as invalid.
ValidateJwt(t) ==
    /\ t.intact /\ t.type # "text"
    /\ t.expires # None => now <= t.expires

Token(c) == request[c].token

\* claims.expiresAt, the epoch for a token without exp.
ExpiresAt(c) == IF Token(c).expires = None THEN 0 ELSE Token(c).expires

\* handleClientConnection up to the session it is about to add.
HandleClientConnection(c) ==
    /\ phase[c] = "upgraded" /\ request[c].path = "client"
    /\ IF ~running \/ link[c] # "up" THEN Leave(c)
       ELSE IF ValidateJwt(Token(c))
            THEN /\ phase' = [phase EXCEPT ![c] = "validated"]
                 /\ UNCHANGED link
            ELSE Leave(c)
    /\ UNCHANGED <<server, accepting, stopping, request, maps, waiting, job, now, inbox, limits>>

AddClientSession(c) ==
    /\ phase[c] = "validated"
    /\ sessions' = [sessions EXCEPT ![c] = [subs |-> {}, warned |-> FALSE, pong |-> now]]
    /\ phase' = [phase EXCEPT ![c] = "added"]
    /\ UNCHANGED <<server, accepting, stopping, request, link, streams, waiting, job, now, inbox, limits>>

RegisterStream(c) ==
    /\ phase[c] = "added" /\ Unlocked
    /\ streams' = streams \cup {c}
    /\ phase' = [phase EXCEPT ![c] = "looping"]
    /\ UNCHANGED <<server, accepting, stopping, request, link, sessions, waiting, job, now, inbox, limits>>

\* startClientReadLoop: after a stop nothing is read and nothing cleaned up.
StartClientReadLoop(c) ==
    /\ phase[c] = "looping"
    /\ phase' = [phase EXCEPT ![c] = IF running THEN "reading" ELSE "abandoned"]
    /\ UNCHANGED <<server, accepting, stopping, request, link, maps, waiting, job, now, inbox, limits>>

\* subscribeClient and unsubscribeClient do nothing without a session.
SubscribeClient(c, k) ==
    sessions' = IF sessions[c] = None THEN sessions ELSE [sessions EXCEPT ![c].subs = @ \cup {k}]
UnsubscribeClient(c, k) ==
    sessions' = IF sessions[c] = None THEN sessions ELSE [sessions EXCEPT ![c].subs = @ \ {k}]

\* A malformed message changes nothing: like taking back what was not subscribed.
ReadCommand(c, k) ==
    /\ phase[c] = "reading" /\ running /\ link[c] = "up"
    /\ SubscribeClient(c, k) \/ UnsubscribeClient(c, k)
    /\ phase' = [phase EXCEPT ![c] = "looping"]
    /\ UNCHANGED <<server, accepting, stopping, request, link, streams, waiting, job, now, inbox, limits>>

\* The connection broke or is closed, or something came after stop().
ReadEnds(c) == link[c] \in {"lost", "closed"} \/ (link[c] = "up" /\ ~running)

\* Mutant: the stream is forgotten first, and nobody removes the session.
ReadFailsHalf(c) ==
    /\ phase[c] = "reading" /\ ReadEnds(c)
    /\ streams' = streams \ {c}
    /\ link' = [link EXCEPT ![c] = "closed"]
    /\ phase' = [phase EXCEPT ![c] = "gone"]
    /\ UNCHANGED <<server, accepting, stopping, request, sessions, waiting, job, now, inbox, limits>>

\* Mutant: a failed read only ends the loop.
ReadGivesUp(c) ==
    /\ phase[c] = "reading" /\ ReadEnds(c)
    /\ Leave(c)
    /\ UNCHANGED <<server, accepting, stopping, request, maps, waiting, job, now, inbox, limits>>

\* The read ends with an error, or the server was stopped meanwhile.
ReadFails(c) ==
    /\ phase[c] = "reading" /\ ReadEnds(c)
    /\ sessions' = [sessions EXCEPT ![c] = None]
    /\ link' = [link EXCEPT ![c] = IF @ = "lost" THEN "closed" ELSE @]
    /\ phase' = [phase EXCEPT ![c] = "erasing"]
    /\ UNCHANGED <<server, accepting, stopping, request, streams, waiting, job, now, inbox, limits>>

\* The map held the last reference, unless somebody is closing the stream:
\* without it the socket closes.
ForgetStream(c) ==
    /\ phase[c] = "erasing" /\ Unlocked
    /\ streams' = streams \ {c}
    /\ phase' = [phase EXCEPT ![c] = "gone"]
    /\ link' = [link EXCEPT ![c] = IF @ = "closing" THEN @ ELSE "closed"]
    /\ UNCHANGED <<server, accepting, stopping, request, sessions, waiting, job, now, inbox, limits>>

\* A node that PeerManager does not know, or has no key of, is sent away.
HandleNodeConnection(c, known) ==
    /\ phase[c] = "upgraded" /\ request[c].path = "node"
    /\ IF running /\ link[c] = "up" /\ known
       THEN /\ phase' = [phase EXCEPT ![c] = "challenged"]
            /\ UNCHANGED link
       ELSE Leave(c)
    /\ UNCHANGED <<server, accepting, stopping, request, maps, waiting, job, now, inbox, limits>>

\* The challenge is sent and the answer read with blocking calls, whatever
\* stop() does meanwhile; ok: the node sent it back decrypted.
AuthenticateEcies(c, ok) ==
    /\ phase[c] = "challenged"
    /\ IF link[c] = "up" /\ ok
       THEN /\ phase' = [phase EXCEPT ![c] = "gossiping"]
            /\ UNCHANGED link
       ELSE Leave(c)
    /\ UNCHANGED <<server, accepting, stopping, request, maps, waiting, job, now, inbox, limits>>

\* startNodeReadLoop, whose announcements GossipEngine!Receive handles.
NodeReadEnds(c) ==
    /\ phase[c] = "gossiping" /\ (link[c] # "up" \/ ~running)
    /\ Leave(c)
    /\ UNCHANGED <<server, accepting, stopping, request, maps, waiting, job, now, inbox, limits>>

ClientDrops(c) ==
    /\ link[c] = "up" /\ drops < MaxDrops
    /\ link' = [link EXCEPT ![c] = "lost"]
    /\ drops' = drops + 1
    /\ UNCHANGED <<server, accepting, stopping, request, phase, maps, waiting, job, now, inbox, starts, broadcasts>>

-----------------------------------------------------------------------------
(***************************************************************************)
(* The timers and broadcastEvent: each collects sessions under a lock and  *)
(* deals with them one by one afterwards.                                  *)
(***************************************************************************)

HeartbeatRound ==
    /\ "heartbeat" \in waiting /\ job["heartbeat"].pc = "idle" /\ running
    /\ waiting' = waiting \ {"heartbeat"}
    /\ job' = [job EXCEPT !["heartbeat"] =
                 [Idle EXCEPT !.pc = "close",
                              !.list = {c \in streams : /\ IsOpen(c) /\ sessions[c] # None
                                                        /\ now - sessions[c].pong > HeartbeatTimeout}]]
    /\ UNCHANGED <<server, accepting, stopping, conns, maps, now, inbox, limits>>

Expired == {c \in Conns : sessions[c] # None /\ ExpiresAt(c) <= now}
Expiring == {c \in Conns : /\ sessions[c] # None /\ ~sessions[c].warned
                           /\ now < ExpiresAt(c) /\ ExpiresAt(c) - now <= GracePeriod}

JwtExpiryRound ==
    /\ "jwt" \in waiting /\ job["jwt"].pc = "idle" /\ running
    /\ waiting' = waiting \ {"jwt"}
    /\ job' = [job EXCEPT !["jwt"] = [Idle EXCEPT !.pc = "warn", !.warn = Expiring, !.list = Expired]]
    /\ UNCHANGED <<server, accepting, stopping, conns, maps, now, inbox, limits>>

IsClientAuthorizedForEvent(t, e) ==
    CASE e.tier = "Admin" -> t.type = "admin"
      [] e.tier = "PoolScoped" -> t.type = "admin" \/ e.pool \in t.pools
      [] OTHER -> e.member = t.member

BroadcastEvent(e) ==
    /\ job["broadcast"].pc = "idle" /\ broadcasts < MaxBroadcasts
    /\ broadcasts' = broadcasts + 1
    /\ job' = [job EXCEPT !["broadcast"] =
                 [Idle EXCEPT !.pc = "send", !.event = e,
                              !.list = {c \in Conns : /\ sessions[c] # None /\ e.kind \in sessions[c].subs
                                                      /\ IsClientAuthorizedForEvent(Token(c), e)}]]
    /\ UNCHANGED <<server, accepting, stopping, conns, maps, waiting, now, inbox, starts, drops>>

\* sendToClient up to the cleaning up after a failed write; J is the job once
\* c is dealt with.  A write to a client that is gone may succeed or fail.
SendToClient(j, c, J) ==
    \/ /\ Unlocked /\ ~(c \in streams /\ IsOpen(c))
       /\ job' = [job EXCEPT ![j] = J]
       /\ UNCHANGED <<link, inbox>>
    \/ /\ Unlocked /\ c \in streams /\ IsOpen(c)
       /\ job' = [job EXCEPT ![j] = J]
       /\ heard' = IF j = "jwt" THEN heard ELSE [heard EXCEPT ![c] = @ \cup {J.event}]
       /\ warnings' = IF j = "jwt" THEN [warnings EXCEPT ![c] = @ + 1] ELSE warnings
       /\ UNCHANGED link
    \/ /\ Unlocked /\ c \in streams /\ link[c] = "lost"
       /\ link' = [link EXCEPT ![c] = "closed"]
       /\ job' = [job EXCEPT ![j] = [J EXCEPT !.pc = "remove", !.at = c, !.then = J.pc]]
       /\ UNCHANGED inbox

SendEvent(c) ==
    /\ job["broadcast"].pc = "send" /\ c \in job["broadcast"].list
    /\ SendToClient("broadcast", c, [job["broadcast"] EXCEPT !.list = @ \ {c}])
    /\ UNCHANGED <<server, accepting, stopping, request, phase, maps, waiting, now, limits>>

SendTokenExpiring(c) ==
    /\ job["jwt"].pc = "warn" /\ c \in job["jwt"].warn
    /\ SendToClient("jwt", c, [job["jwt"] EXCEPT !.warn = @ \ {c}, !.at = c, !.pc = "mark"])
    /\ UNCHANGED <<server, accepting, stopping, request, phase, maps, waiting, now, limits>>

\* Mutant: the session is not marked.
ForgetTokenExpiringSent(c) ==
    /\ job["jwt"].pc = "mark" /\ job["jwt"].at = c
    /\ job' = [job EXCEPT !["jwt"].pc = "warn", !["jwt"].at = None]
    /\ UNCHANGED <<server, accepting, stopping, conns, maps, waiting, now, inbox, limits>>

MarkTokenExpiringSent(c) ==
    /\ job["jwt"].pc = "mark" /\ job["jwt"].at = c
    /\ sessions' = IF sessions[c] = None THEN sessions ELSE [sessions EXCEPT ![c].warned = TRUE]
    /\ job' = [job EXCEPT !["jwt"].pc = "warn", !["jwt"].at = None]
    /\ UNCHANGED <<server, accepting, stopping, conns, streams, waiting, now, inbox, limits>>

AllWarned ==
    /\ job["jwt"].pc = "warn" /\ job["jwt"].warn = {}
    /\ job' = [job EXCEPT !["jwt"].pc = "close"]
    /\ UNCHANGED <<server, accepting, stopping, conns, maps, waiting, now, inbox, limits>>

\* A session whose token has expired, or whose last pong is too long ago.  The
\* round waits in ws->close for a stream that is open.
CloseSession(j, c) ==
    LET closes == c \in streams /\ IsOpen(c)
    IN  /\ job[j].pc = "close" /\ c \in job[j].list /\ Unlocked
        /\ job' = [job EXCEPT ![j] = [job[j] EXCEPT !.list = @ \ {c}, !.at = c, !.then = "close",
                                                    !.pc = IF closes THEN "closing" ELSE "remove"]]
        /\ link' = IF closes THEN [link EXCEPT ![c] = "closing"] ELSE link
        /\ UNCHANGED <<server, accepting, stopping, request, phase, maps, waiting, now, inbox, limits>>

\* The client has answered, or the connection broke: nothing makes it do either.
CloseReturns(j, c) ==
    /\ job[j].pc = "closing" /\ job[j].at = c
    /\ job' = [job EXCEPT ![j].pc = "remove"]
    /\ link' = [link EXCEPT ![c] = "closed"]
    /\ UNCHANGED <<server, accepting, stopping, request, phase, maps, waiting, now, inbox, limits>>

RemoveSession(j, c) ==
    /\ job[j].pc = "remove" /\ job[j].at = c
    /\ sessions' = [sessions EXCEPT ![c] = None]
    /\ job' = [job EXCEPT ![j].pc = "erase"]
    /\ UNCHANGED <<server, accepting, stopping, conns, streams, waiting, now, inbox, limits>>

EraseStream(j, c) ==
    /\ job[j].pc = "erase" /\ job[j].at = c /\ Unlocked
    /\ streams' = streams \ {c}
    /\ job' = [job EXCEPT ![j].pc = job[j].then, ![j].then = "idle",
                          ![j].at = IF job[j].then = "mark" THEN @ ELSE None]
    /\ UNCHANGED <<server, accepting, stopping, conns, sessions, waiting, now, inbox, limits>>

\* Mutant: the round does not set its timer again.
FinishLastRound(j) ==
    /\ job[j].pc = (IF j = "broadcast" THEN "send" ELSE "close") /\ job[j].list = {}
    /\ job' = [job EXCEPT ![j] = Idle]
    /\ UNCHANGED <<server, accepting, stopping, conns, maps, waiting, now, inbox, limits>>

\* The round ends and the timer is set again, if there still is one.
FinishRound(j) ==
    /\ job[j].pc = (IF j = "broadcast" THEN "send" ELSE "close") /\ job[j].list = {}
    /\ job' = [job EXCEPT ![j] = Idle]
    /\ waiting' = IF j \in Timers /\ server = "running" THEN waiting \cup {j} ELSE waiting
    /\ UNCHANGED <<server, accepting, stopping, conns, maps, now, inbox, limits>>

Tick ==
    /\ now < MaxTime
    /\ now' = now + 1
    /\ UNCHANGED <<server, accepting, stopping, conns, maps, waiting, job, inbox, limits>>

-----------------------------------------------------------------------------
\* What the handlers of connection c do next by themselves.
Handle(c) ==
    \/ Route(c) \/ HandleClientConnection(c)
    \/ \E known \in BOOLEAN : HandleNodeConnection(c, known)
    \/ AddClientSession(c) \/ RegisterStream(c) \/ StartClientReadLoop(c)
    \/ ReadFails(c) \/ ForgetStream(c)

Work(j) ==
    \/ FinishRound(j)
    \/ \E c \in Conns : RemoveSession(j, c) \/ EraseStream(j, c)
    \/ j \in Timers /\ \E c \in Conns : CloseSession(j, c)
    \/ j = "jwt" /\ (AllWarned \/ \E c \in Conns : SendTokenExpiring(c) \/ MarkTokenExpiringSent(c))
    \/ j = "broadcast" /\ \E c \in Conns : SendEvent(c)

Next ==
    \/ \E ok \in BOOLEAN : Start(ok)
    \/ Stop \/ LockStreams \/ StopStreams \/ StopSessions
    \/ \E c \in Conns : StopCloseStream(c) \/ StopCloseReturns(c) \/ \E j \in Timers : CloseReturns(j, c)
    \/ AcceptFails \/ Tick
    \/ HeartbeatRound \/ JwtExpiryRound
    \/ \E e \in Events : BroadcastEvent(e)
    \/ \E j \in Jobs : Work(j)
    \/ \E c \in Conns : \/ Handle(c) \/ NodeReadEnds(c) \/ ClientDrops(c)
                        \/ \E ok \in BOOLEAN : AuthenticateEcies(c, ok)
                        \/ \E r \in Requests : Accept(c, r)
                        \/ \E k \in Topics : ReadCommand(c, k)

\* The io threads run the handlers that are ready, timers expire and time goes
\* on.  That ws->close returns is not assumed: see CallsReturn.
Fairness ==
    /\ WF_vars(LockStreams) /\ WF_vars(\E c \in Conns : StopCloseStream(c))
    /\ WF_vars(StopStreams) /\ WF_vars(StopSessions) /\ WF_vars(Tick)
    /\ WF_vars(HeartbeatRound) /\ WF_vars(JwtExpiryRound)
    /\ \A j \in Jobs : WF_vars(Work(j))
    /\ \A c \in Conns : WF_vars(Handle(c))

Spec == Init /\ [][Next]_vars /\ Fairness

-----------------------------------------------------------------------------
(***************************************************************************)
(* Properties.                                                             *)
(***************************************************************************)

TypeOK ==
    /\ server \in {"stopped", "running", "deaf"}
    /\ accepting \in BOOLEAN
    /\ stopping \in {"no", "streams", "closing", "sessions"}
    /\ phase \in [Conns -> {"none", "accepted", "upgraded", "validated", "added", "looping",
                            "reading", "erasing", "abandoned", "challenged", "gossiping", "gone"}]
    /\ request \in [Conns -> Requests \cup {None}]
    /\ link \in [Conns -> {"up", "lost", "closing", "closed"}]
    /\ sessions \in [Conns -> Session \cup {None}]
    /\ streams \subseteq Conns
    /\ waiting \subseteq Timers
    /\ job \in [Jobs -> [pc : {"idle", "warn", "mark", "send", "close", "closing", "remove", "erase"},
                         list : SUBSET Conns, warn : SUBSET Conns, at : Conns \cup {None},
                         then : {"idle", "mark", "send", "close"}, event : Events \cup {None}]]
    /\ now \in 0..MaxTime
    /\ heard \in [Conns -> SUBSET Events]
    /\ warnings \in [Conns -> Nat]
    /\ starts \in 0..MaxStarts /\ broadcasts \in 0..MaxBroadcasts /\ drops \in 0..MaxDrops

\* Whoever has a session can be written to: its stream is registered, or about
\* to be by its connection, or stop() is about to drop the sessions as well
\* (the order of the two maps in handleClientConnection, in the three places
\* that clean up, and in stop).
SessionHasStream ==
    \A c \in Conns : sessions[c] # None =>
        c \in streams \/ phase[c] = "added" \/ stopping = "sessions"

\* After stop() the server knows only the clients whose handlers were between
\* their last look at running_ and the read loop; they are not read from.
StoppedIsClean ==
    ~running /\ stopping = "no" =>
        \A c \in Conns : sessions[c] # None \/ c \in streams =>
            phase[c] \in {"added", "looping", "abandoned"}

\* Both maps agree as far as the code can keep them together.
ServerInv == TypeOK /\ SessionHasStream /\ StoppedIsClean

\* auth:token_expiring is sent once to a client, although sending it and
\* marking the session are two steps and the session may go in between.
WarnedOnce == \A c \in Conns : warnings[c] <= 1

\* Once stop() has returned no client hears of any event: broadcastEvent sends
\* outside the lock, looks at no running_ and works off a list that may date from
\* before stop(), and a connection that was being set up may still register its
\* stream after stop() has gone through the map.
StoppedIsQuiet == [][~running /\ stopping = "no" => heard' = heard]_vars

\* Every ws->close returns: the client answers, or the connection breaks.
CallsReturn == \A c \in Conns : []<>(link[c] # "closing")

\* As long as such calls return, a session with an expired token goes while the
\* server runs: the expiry check sets its timer again after every kind of round.
ExpiredIsClosed == CallsReturn =>
    \A c \in Conns : sessions[c] # None /\ ExpiresAt(c) <= now
        ~> sessions[c] = None \/ server # "running"

\* As long as such calls return, a client whose connection is over while it is
\* read from disappears from both maps, whoever notices first.
DeadIsForgotten == CallsReturn =>
    \A c \in Conns : phase[c] = "reading" /\ link[c] # "up"
        ~> sessions[c] = None /\ c \notin streams
=============================================================================
