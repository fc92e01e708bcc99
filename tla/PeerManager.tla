---------------------------- MODULE PeerManager ----------------------------
(***************************************************************************)
(* A node's connections to its peers: connect, heartbeat, pong timeout and *)
(* reconnection with backoff (gossip/peer_manager.cpp).  The heartbeat     *)
(* handler, the reconnect handlers and the callers of the public methods   *)
(* run in different threads and meet at peerMutex_: every critical section *)
(* is a step of its own.                                                   *)
(*                                                                         *)
(* ws->close waits for the peer to answer, with peerMutex_ held: closing    *)
(* says that somebody does, and until it returns no other section begins.  *)
(* Time is counted in heartbeats.  A chain is one succession of reconnect  *)
(* timers, begun by a pong timeout and continued while the dials fail.     *)
(* A session has a stream exactly while it is connected.                   *)
(***************************************************************************)
EXTENDS Naturals, Sequences

CONSTANTS Peers,        \* addresses, the keys of sessions_
          Chains,       \* slots for reconnect chains (bounds those alive at once)
          Beats,        \* heartbeatTimeoutMs_ / heartbeatIntervalMs_
          MaxAttempt,   \* attempts are counted up to here
          MaxCalls, MaxStarts, MaxOutages   \* bounds of a behaviour

ASSUME PeerAssumption ==
    /\ Peers # {}
    /\ Beats \in Nat \ {0}
    /\ MaxAttempt \in Nat
    /\ MaxCalls \in Nat /\ MaxStarts \in Nat /\ MaxOutages \in Nat

VARIABLES
    running,    \* running_
    stopping,   \* stop() is between its two halves
    known, up,  \* keys of sessions_, and those with info.connected
    age,        \* heartbeats since lastPongReceived
    attempts,   \* reconnectAttempts of each session
    beat,       \* the heartbeat timer is set
    scanning,   \* the heartbeat handler is running
    timedOut,   \* its local list
    chain,      \* the reconnect chains
    reach,      \* peers that accept connections and answer
    closing,    \* a ws->close has not returned, and keeps peerMutex_
    invited,    \* peers clients asked for, or being dialled when they were dropped
    calls, starts, outages

flags == <<running, stopping>>
sessions == <<known, up, age, attempts>>
clock == <<beat, scanning, timedOut>>
env == <<reach, outages, closing>>
limits == <<calls, starts>>
vars == <<flags, sessions, clock, chain, env, invited, limits>>

\* Where a chain is: about to read the attempts of the session ("backoff"),
\* timer set, address looked up ("dial"), dialled ("check"), and then with the
\* answer of the check, "again" or "ok".
Places == {"free", "backoff", "set", "dial", "check", "again", "ok"}

ChainAt(s, where) == chain[s].at = where
Free == [at |-> "free", peer |-> CHOOSE p \in Peers : TRUE, attempt |-> 0]
Move(s, where) == chain' = [chain EXCEPT ![s] = [chain[s] EXCEPT !.at = where]]
EndChain(s) == chain' = [chain EXCEPT ![s] = Free]

\* scheduleReconnect: nothing once the manager is stopped.  The delay of the
\* timer is left to chance.
ScheduleReconnect(s, n) ==
    IF running
    THEN chain' = [chain EXCEPT ![s] = [at |-> "set", peer |-> chain[s].peer, attempt |-> n]]
    ELSE EndChain(s)

Init ==
    /\ running = FALSE /\ stopping = FALSE
    /\ known = {} /\ up = {}
    /\ age = [p \in Peers |-> 0]
    /\ attempts = [p \in Peers |-> 0]
    /\ beat = FALSE /\ scanning = FALSE /\ timedOut = {}
    /\ chain = [s \in Chains |-> Free]
    /\ reach = Peers /\ outages = 0 /\ closing = FALSE
    /\ invited = {}
    /\ calls = 0 /\ starts = 0

-----------------------------------------------------------------------------
(***************************************************************************)
(* Connections, and what the callers do to them.                           *)
(***************************************************************************)

\* connectToPeer.  emplace keeps the session there is, connected or not; the
\* new connection is then closed again.
ConnectToPeer(p) ==
    IF p \in reach \ known
    THEN /\ known' = known \cup {p}
         /\ up' = up \cup {p}
         /\ age' = [age EXCEPT ![p] = 0]
         /\ attempts' = [attempts EXCEPT ![p] = 0]
    ELSE UNCHANGED sessions

Call == ~closing /\ calls < MaxCalls /\ calls' = calls + 1 /\ UNCHANGED starts

Dialling(p) == \E s \in Chains : ChainAt(s, "dial") /\ chain[s].peer = p

\* A caller connects: directly, or to the bootstrap nodes in startDiscovery.
Connect(p) ==
    /\ Call
    /\ ConnectToPeer(p)
    /\ invited' = invited \cup {p}
    /\ UNCHANGED <<flags, clock, chain, env>>

DisconnectPeer(p) ==
    /\ Call
    /\ p \in known
    /\ known' = known \ {p} /\ up' = up \ {p}
    /\ closing' = (p \in up)
    /\ invited' = IF Dialling(p) THEN invited ELSE invited \ {p}
    /\ UNCHANGED <<flags, age, attempts, clock, chain, reach, outages>>

Start ==
    /\ ~running /\ ~stopping
    /\ starts < MaxStarts /\ starts' = starts + 1
    /\ running' = TRUE
    /\ beat' = TRUE
    /\ UNCHANGED <<stopping, sessions, scanning, timedOut, chain, env, invited, calls>>

\* stop: first the flag and the heartbeat timer, then, under the mutex, the
\* sessions.  The reconnect timers are left alone.
StopBegin ==
    /\ ~stopping
    /\ running' = FALSE /\ stopping' = TRUE
    /\ beat' = FALSE
    /\ UNCHANGED <<sessions, scanning, timedOut, chain, env, invited, limits>>

StopClear ==
    /\ stopping /\ ~closing
    /\ stopping' = FALSE
    /\ known' = {} /\ up' = {}
    /\ closing' = (up # {})
    /\ invited' = {p \in invited : Dialling(p)}
    /\ UNCHANGED <<running, age, attempts, clock, chain, reach, outages, limits>>

\* The peer answers, or the connection breaks.
CloseReturns ==
    /\ closing
    /\ closing' = FALSE
    /\ UNCHANGED <<flags, sessions, clock, chain, reach, outages, invited, limits>>

-----------------------------------------------------------------------------
(***************************************************************************)
(* The heartbeat handler.                                                  *)
(***************************************************************************)

\* The timer fires and the sessions are scanned.  A session's lastPongReceived
\* lies somewhere between two heartbeats, so one heartbeat may find it too old
\* or not; the next one must.
HeartbeatScan ==
    /\ running /\ beat /\ ~scanning /\ ~closing
    /\ beat' = FALSE /\ scanning' = TRUE
    /\ timedOut' \in SUBSET {p \in up : age[p] + 1 >= Beats}
    /\ {p \in up : age[p] >= Beats} \subseteq timedOut'
    /\ age' = [p \in Peers |-> IF p \in up /\ age[p] < Beats THEN age[p] + 1 ELSE age[p]]
    /\ UNCHANGED <<flags, known, up, attempts, chain, env, invited, limits>>

\* handlePongTimeout, first half, for a peer on the list: whatever session the
\* peer has by now is marked disconnected.
PongTimeout(p) ==
    /\ p \in timedOut /\ ~closing
    /\ \A s \in Chains : ~ChainAt(s, "backoff")
    /\ timedOut' = timedOut \ {p}
    /\ IF p \in known
       THEN /\ up' = up \ {p}
            /\ closing' = (p \in up)
            /\ \E s \in Chains :
                  /\ ChainAt(s, "free")
                  /\ chain' = [chain EXCEPT ![s] =
                         [at |-> "backoff", peer |-> p, attempt |-> 0]]
       ELSE UNCHANGED <<up, closing, chain>>
    /\ UNCHANGED <<flags, known, age, attempts, beat, scanning, reach, outages, invited, limits>>

\* Second half, reconnectWithBackoff: the attempt to start from.
Backoff(s) ==
    /\ ChainAt(s, "backoff") /\ ~closing
    /\ ScheduleReconnect(s, IF chain[s].peer \in known THEN attempts[chain[s].peer] ELSE 0)
    /\ UNCHANGED <<flags, sessions, clock, env, invited, limits>>

\* Mutant: the timer is not set again.
HeartbeatEndOnce ==
    /\ scanning /\ timedOut = {} /\ ~closing
    /\ \A s \in Chains : ~ChainAt(s, "backoff")
    /\ scanning' = FALSE
    /\ UNCHANGED <<flags, sessions, beat, timedOut, chain, env, invited, limits>>

\* The pings go out, whose answers nobody reads, and the timer is set again,
\* unless the manager was stopped.
HeartbeatEnd ==
    /\ scanning /\ timedOut = {} /\ ~closing
    /\ \A s \in Chains : ~ChainAt(s, "backoff")
    /\ scanning' = FALSE
    /\ beat' = running
    /\ UNCHANGED <<flags, sessions, timedOut, chain, env, invited, limits>>

-----------------------------------------------------------------------------
(***************************************************************************)
(* The handler of a reconnect timer.                                       *)
(***************************************************************************)

\* Mutant: the session is not looked up before dialling.
FireAnyway(s) ==
    /\ ChainAt(s, "set")
    /\ IF running THEN Move(s, "dial") ELSE EndChain(s)
    /\ UNCHANGED <<flags, sessions, clock, env, invited, limits>>

\* The timer fires: the handler ends if the manager is stopped or the peer is
\* not registered any more.
Fire(s) ==
    /\ ChainAt(s, "set") /\ ~closing
    /\ IF running /\ chain[s].peer \in known THEN Move(s, "dial") ELSE EndChain(s)
    /\ UNCHANGED <<flags, sessions, clock, env, invited, limits>>

Dial(s) ==
    /\ ChainAt(s, "dial") /\ ~closing
    /\ ConnectToPeer(chain[s].peer)
    /\ Move(s, "check")
    /\ UNCHANGED <<flags, clock, env, invited, limits>>

\* "Check if reconnection succeeded."
Check(s) ==
    /\ ChainAt(s, "check") /\ ~closing
    /\ Move(s, IF chain[s].peer \in up THEN "ok" ELSE "again")
    /\ UNCHANGED <<flags, sessions, clock, env, invited, limits>>

SetAttempts(s, n) ==
    attempts' = IF chain[s].peer \in known
                THEN [attempts EXCEPT ![chain[s].peer] = n] ELSE attempts

\* Mutant: the chain ends after a failed attempt.
RetryOnce(s) ==
    /\ ChainAt(s, "again") /\ ~closing
    /\ EndChain(s)
    /\ UNCHANGED <<flags, sessions, clock, env, invited, limits>>

\* It failed: the attempt is counted and the next timer set.
Retry(s) ==
    LET n == IF chain[s].attempt < MaxAttempt THEN chain[s].attempt + 1 ELSE MaxAttempt IN
    /\ ChainAt(s, "again") /\ ~closing
    /\ SetAttempts(s, n)
    /\ ScheduleReconnect(s, n)
    /\ UNCHANGED <<flags, known, up, age, clock, env, invited, limits>>

\* It succeeded: the counter is reset and the chain ends.
Succeed(s) ==
    /\ ChainAt(s, "ok") /\ ~closing
    /\ SetAttempts(s, 0)
    /\ EndChain(s)
    /\ UNCHANGED <<flags, known, up, age, clock, env, invited, limits>>

-----------------------------------------------------------------------------
(***************************************************************************)
(* The network.                                                            *)
(***************************************************************************)

\* A peer goes down, or comes back.
Outage(p) ==
    /\ outages < MaxOutages /\ outages' = outages + 1
    /\ reach' = IF p \in reach THEN reach \ {p} ELSE reach \cup {p}
    /\ UNCHANGED <<flags, sessions, clock, chain, closing, invited, limits>>

\* While the manager is not running sessions grow old without heartbeats.
TimePasses ==
    /\ ~running
    /\ age' = [p \in Peers |-> IF p \in up /\ age[p] < Beats THEN age[p] + 1 ELSE age[p]]
    /\ UNCHANGED <<flags, known, up, attempts, clock, chain, env, invited, limits>>

Heartbeat == HeartbeatScan \/ HeartbeatEnd \/ \E p \in Peers : PongTimeout(p)
Reconnecting(s) == Backoff(s) \/ Fire(s) \/ Check(s) \/ Retry(s) \/ Succeed(s)

Next ==
    \/ \E p \in Peers : Connect(p) \/ DisconnectPeer(p) \/ Outage(p)
    \/ Start \/ StopBegin \/ StopClear \/ CloseReturns \/ TimePasses
    \/ Heartbeat
    \/ \E s \in Chains : Reconnecting(s) \/ Dial(s)

Spec == Init /\ [][Next]_vars

\* The io_context is served: the handlers of its timers run.  Nothing is said of
\* the calls that wait for a peer, ws->close and the dial.
FairSpec == Spec /\ WF_vars(Heartbeat) /\ \A s \in Chains : WF_vars(Reconnecting(s))

-----------------------------------------------------------------------------
TypeOK ==
    /\ running \in BOOLEAN /\ stopping \in BOOLEAN
    /\ known \subseteq Peers /\ up \subseteq known
    /\ age \in [Peers -> 0..Beats]
    /\ attempts \in [Peers -> 0..MaxAttempt]
    /\ beat \in BOOLEAN /\ scanning \in BOOLEAN
    /\ timedOut \subseteq Peers
    /\ chain \in [Chains -> [at : Places, peer : Peers, attempt : 0..MaxAttempt]]
    /\ reach \subseteq Peers /\ invited \subseteq Peers /\ closing \in BOOLEAN
    /\ calls \in 0..MaxCalls /\ starts \in 0..MaxStarts /\ outages \in 0..MaxOutages

\* No lost peer is forgotten: a registered peer that is marked disconnected has
\* a reconnect chain that has not concluded that it is connected, through
\* concurrent disconnects, reconnects and a stop (handlePongTimeout,
\* scheduleReconnect).
LostPeerIsRetried == running =>
    \A p \in known \ up : \E s \in Chains :
        chain[s].peer = p /\ chain[s].at \notin {"free", "ok"}

\* Nobody comes back uninvited: a peer that was disconnected, or dropped by
\* stop, is registered again only by a caller, or by a dial that was already
\* in flight then (the reconnect handler looks the session up first).
NobodyUninvited ==
    /\ known \subseteq invited
    /\ \A s \in Chains : ChainAt(s, "dial") => chain[s].peer \in invited

PeerInv == TypeOK /\ LostPeerIsRetried /\ NobodyUninvited

\* The calls that wait for a peer return: it answers, or the connection breaks.
CallsReturn == []<>~closing /\ \A s \in Chains : []<>~ChainAt(s, "dial")

\* As long as such calls return, a peer that falls silent does not stay up: it is
\* marked as disconnected, unless it answers again or the manager is stopped
\* (scheduleHeartbeat, handlePongTimeout).
SilentIsDetected == CallsReturn =>
    \A p \in Peers : (p \in up \ reach /\ running) ~> (p \notin up \ reach \/ ~running)

\* As long as such calls return, a lost peer is dialled again and again, however
\* often the dials fail.
DialsGoOn == CallsReturn => \A p \in Peers :
    (p \in known \ up /\ running) ~> (p \notin known \ up \/ ~running \/ Dialling(p))

=============================================================================
