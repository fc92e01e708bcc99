------------------------- MODULE PeerManagerProofs -------------------------
(***************************************************************************)
(* A manager that is started once never forgets a lost peer and never      *)
(* brings a peer back uninvited, for any number of peers, reconnect chains *)
(* and calls.  The inductive invariant adds what holds before the start:   *)
(* no session is down, no chain exists and no heartbeat has run.           *)
(***************************************************************************)
EXTENDS PeerManager, TLAPS

BeforeStart == starts = 0 =>
    /\ ~running /\ ~scanning /\ ~beat
    /\ known \subseteq up /\ timedOut = {}
    /\ \A s \in Chains : ChainAt(s, "free")

IInv == PeerInv /\ BeforeStart

USE PeerAssumption

ChainRecords == [at : Places, peer : Peers, attempt : 0..MaxAttempt]

\* The record of a free slot.
LEMMA FreeType == Free \in ChainRecords /\ Free.at = "free"
  BY DEF Free, ChainRecords, Places

\* What scheduleReconnect leaves: the chain with its timer set, or nothing.
LEMMA ScheduleOK ==
  ASSUME TypeOK, NEW s \in Chains, NEW n \in 0..MaxAttempt, ScheduleReconnect(s, n)
  PROVE  \E r \in ChainRecords :
            /\ chain' = [chain EXCEPT ![s] = r]
            /\ IF running THEN r.at = "set" /\ r.peer = chain[s].peer ELSE r.at = "free"
<1>1. CASE running
  <2> DEFINE r == [at |-> "set", peer |-> chain[s].peer, attempt |-> n]
  <2>1. chain' = [chain EXCEPT ![s] = r]
    BY <1>1 DEF ScheduleReconnect
  <2>2. r \in ChainRecords
    BY DEF TypeOK, ChainRecords, Places
  <2> QED BY <1>1, <2>1, <2>2
<1>2. CASE ~running
  BY <1>2, FreeType DEF ScheduleReconnect, EndChain
<1> QED BY <1>1, <1>2

\* A step that replaces the record of one chain, for the same peer or by
\* nothing, and leaves the sessions alone preserves the invariant, unless it
\* lets go of a peer that is lost or begins a dial to a stranger.
LEMMA ChainStep ==
  ASSUME IInv, NEW s \in Chains, NEW r \in ChainRecords,
         chain' = [chain EXCEPT ![s] = r],
         ~ChainAt(s, "free"),
         r.at # "free" => r.peer = chain[s].peer,
         r.at = "dial" => chain[s].peer \in known,
         running /\ r.at \in {"free", "ok"} =>
            chain[s].at = "ok" \/ chain[s].peer \notin known \ up,
         attempts' \in [Peers -> 0..MaxAttempt],
         UNCHANGED <<flags, known, up, age, clock, env, invited, limits>>
  PROVE  IInv'
<1> USE DEF IInv, PeerInv, flags, clock, env, limits
<1>1. TypeOK'
  BY DEF TypeOK, ChainRecords
<1>2. \A t \in Chains : chain'[t] = IF t = s THEN r ELSE chain[t]
  BY DEF TypeOK
<1>3. LostPeerIsRetried'
  <2> SUFFICES ASSUME running, NEW p \in known \ up
               PROVE  \E t \in Chains : chain'[t].peer = p /\ chain'[t].at \notin {"free", "ok"}
    BY DEF LostPeerIsRetried
  <2>1. PICK t \in Chains : chain[t].peer = p /\ chain[t].at \notin {"free", "ok"}
    BY DEF LostPeerIsRetried
  <2>2. CASE t # s
    BY <1>2, <2>1, <2>2
  <2>3. CASE t = s
    BY <1>2, <2>1, <2>3
  <2> QED BY <2>2, <2>3
<1>4. NobodyUninvited'
  BY <1>2 DEF NobodyUninvited, ChainAt
<1>5. BeforeStart'
  BY DEF BeforeStart
<1> QED BY <1>1, <1>3, <1>4, <1>5

\* connectToPeer keeps types and never adds a lost peer.
LEMMA ConnectToPeerOK ==
  ASSUME TypeOK, NEW p \in Peers, ConnectToPeer(p)
  PROVE  /\ known' \subseteq Peers /\ up' \subseteq known'
         /\ known' \ up' \subseteq known \ up
         /\ known' \subseteq known \cup {p}
         /\ known \subseteq known'
         /\ age' \in [Peers -> 0..Beats] /\ attempts' \in [Peers -> 0..MaxAttempt]
<1>1. CASE p \in reach \ known
  BY <1>1 DEF TypeOK, ConnectToPeer
<1>2. CASE p \notin reach \ known
  BY <1>2 DEF TypeOK, ConnectToPeer, sessions
<1> QED BY <1>1, <1>2

\* A caller's connect.
LEMMA ConnectStep ==
  ASSUME IInv, NEW p \in Peers, Connect(p)
  PROVE  IInv'
<1> USE DEF IInv, PeerInv, Connect, Call, flags, clock, env
<1>1. TypeOK'
  BY ConnectToPeerOK DEF TypeOK
<1>2. LostPeerIsRetried'
  BY ConnectToPeerOK DEF LostPeerIsRetried
<1>3. NobodyUninvited'
  BY ConnectToPeerOK DEF NobodyUninvited, ChainAt
<1>4. BeforeStart'
  BY ConnectToPeerOK DEF BeforeStart, ChainAt
<1> QED BY <1>1, <1>2, <1>3, <1>4

\* The dial of a reconnect handler.
LEMMA DialStep ==
  ASSUME IInv, NEW s \in Chains, Dial(s)
  PROVE  IInv'
<1> USE DEF IInv, PeerInv, Dial, flags, clock, env, limits
<1>1. chain[s] \in ChainRecords /\ chain[s].peer \in Peers
  BY DEF TypeOK, ChainRecords
<1> DEFINE r == [chain[s] EXCEPT !.at = "check"]
<1>2. r \in ChainRecords /\ r.at = "check" /\ r.peer = chain[s].peer
  BY <1>1 DEF ChainRecords, Places
<1>3. \A t \in Chains : chain'[t] = IF t = s THEN r ELSE chain[t]
  BY DEF TypeOK, Move
<1>4. chain' \in [Chains -> ChainRecords]
  BY <1>2 DEF TypeOK, Move, ChainRecords
<1> HIDE DEF r
<1>5. TypeOK'
  BY <1>1, <1>4, ConnectToPeerOK DEF TypeOK, ChainRecords
<1>6. LostPeerIsRetried'
  <2> SUFFICES ASSUME running, NEW p \in known' \ up'
               PROVE  \E t \in Chains : chain'[t].peer = p /\ chain'[t].at \notin {"free", "ok"}
    BY DEF LostPeerIsRetried
  <2>1. PICK t \in Chains : chain[t].peer = p /\ chain[t].at \notin {"free", "ok"}
    BY <1>1, ConnectToPeerOK DEF LostPeerIsRetried
  <2> QED BY <1>2, <1>3, <2>1
<1>7. NobodyUninvited'
  BY <1>1, <1>2, <1>3, ConnectToPeerOK DEF NobodyUninvited, ChainAt
<1>8. BeforeStart'
  BY DEF BeforeStart, ChainAt
<1> QED BY <1>5, <1>6, <1>7, <1>8

\* disconnectPeer.
LEMMA DisconnectStep ==
  ASSUME IInv, NEW p \in Peers, DisconnectPeer(p)
  PROVE  IInv'
<1> USE DEF IInv, PeerInv, DisconnectPeer, Call, flags, clock, env
<1>1. TypeOK'
  BY DEF TypeOK
<1>2. LostPeerIsRetried'
  BY DEF LostPeerIsRetried
<1>3. NobodyUninvited'
  BY DEF NobodyUninvited, ChainAt, Dialling
<1>4. BeforeStart'
  BY DEF BeforeStart, ChainAt
<1> QED BY <1>1, <1>2, <1>3, <1>4

\* start: only the first one counts, and nothing is lost before it.
LEMMA StartStep ==
  ASSUME IInv, MaxStarts <= 1, Start
  PROVE  IInv'
<1> USE DEF IInv, PeerInv, Start, sessions, env
<1>1. starts = 0 /\ starts' = 1
  BY DEF TypeOK
<1>2. TypeOK'
  BY DEF TypeOK
<1>3. LostPeerIsRetried'
  BY <1>1 DEF LostPeerIsRetried, BeforeStart
<1>4. NobodyUninvited'
  BY DEF NobodyUninvited, ChainAt
<1>5. BeforeStart'
  BY <1>1 DEF BeforeStart
<1> QED BY <1>2, <1>3, <1>4, <1>5

\* The two halves of stop.
LEMMA StopStep ==
  ASSUME IInv, StopBegin \/ StopClear
  PROVE  IInv'
<1> USE DEF IInv, PeerInv, flags, sessions, clock, env, limits
<1>1. CASE StopBegin
  <2>1. TypeOK'
    BY <1>1 DEF TypeOK, StopBegin
  <2>2. LostPeerIsRetried' /\ NobodyUninvited' /\ BeforeStart'
    BY <1>1 DEF LostPeerIsRetried, NobodyUninvited, BeforeStart, ChainAt, StopBegin
  <2> QED BY <2>1, <2>2
<1>2. CASE StopClear
  <2>1. TypeOK'
    BY <1>2 DEF TypeOK, StopClear
  <2>2. LostPeerIsRetried'
    BY <1>2 DEF LostPeerIsRetried, StopClear
  <2>3. NobodyUninvited'
    BY <1>2 DEF NobodyUninvited, ChainAt, Dialling, StopClear
  <2>4. BeforeStart'
    BY <1>2 DEF BeforeStart, ChainAt, StopClear
  <2> QED BY <2>1, <2>2, <2>3, <2>4
<1> QED BY <1>1, <1>2

\* The scan and the end of the heartbeat handler, and the network: sessions
\* neither come nor go, and no chain moves.
LEMMA QuietStep ==
  ASSUME IInv,
         HeartbeatScan \/ HeartbeatEnd \/ TimePasses \/ CloseReturns
            \/ \E p \in Peers : Outage(p)
  PROVE  IInv'
<1> USE DEF IInv, PeerInv, flags, sessions, clock, env, limits
<1>1. UNCHANGED <<flags, known, up, attempts, chain, invited, limits>>
  BY DEF HeartbeatScan, HeartbeatEnd, TimePasses, CloseReturns, Outage
<1>2. /\ timedOut' \subseteq Peers /\ reach' \subseteq Peers
      /\ beat' \in BOOLEAN /\ scanning' \in BOOLEAN /\ closing' \in BOOLEAN
  BY DEF TypeOK, HeartbeatScan, HeartbeatEnd, TimePasses, CloseReturns, Outage
<1>3. age' \in [Peers -> 0..Beats]
  BY DEF TypeOK, HeartbeatScan, HeartbeatEnd, TimePasses, CloseReturns, Outage
<1>5. outages' \in 0..MaxOutages
  BY DEF TypeOK, HeartbeatScan, HeartbeatEnd, TimePasses, CloseReturns, Outage
<1>6. TypeOK'
  BY <1>1, <1>2, <1>3, <1>5 DEF TypeOK
<1>7. LostPeerIsRetried' /\ NobodyUninvited'
  BY <1>1 DEF LostPeerIsRetried, NobodyUninvited, ChainAt
<1>8. starts = 0 => UNCHANGED <<beat, scanning, timedOut>>
  BY DEF BeforeStart, HeartbeatScan, HeartbeatEnd, TimePasses, CloseReturns, Outage
<1>9. BeforeStart'
  BY <1>1, <1>8 DEF BeforeStart, ChainAt
<1> QED BY <1>6, <1>7, <1>9

\* handlePongTimeout marks a session and begins its chain in one section.
LEMMA PongTimeoutStep ==
  ASSUME IInv, NEW p \in Peers, PongTimeout(p)
  PROVE  IInv'
<1> USE DEF IInv, PeerInv, flags, env, limits
<1>1. starts # 0
  BY DEF BeforeStart, PongTimeout
<1>2. CASE p \notin known
  <2>1. TypeOK'
    BY <1>2 DEF TypeOK, PongTimeout
  <2>2. LostPeerIsRetried' /\ NobodyUninvited'
    BY <1>2 DEF LostPeerIsRetried, NobodyUninvited, ChainAt, PongTimeout
  <2>3. BeforeStart'
    BY <1>1 DEF BeforeStart, PongTimeout
  <2> QED BY <2>1, <2>2, <2>3
<1>3. CASE p \in known
  <2> DEFINE r == [at |-> "backoff", peer |-> p, attempt |-> 0]
  <2>1. PICK s \in Chains : ChainAt(s, "free") /\ chain' = [chain EXCEPT ![s] = r]
    BY <1>3 DEF PongTimeout
  <2>2. r \in ChainRecords
    BY DEF ChainRecords, Places
  <2>3. \A t \in Chains : chain'[t] = IF t = s THEN r ELSE chain[t]
    BY <2>1 DEF TypeOK
  <2>4. TypeOK'
    BY <1>3, <2>1, <2>2 DEF TypeOK, PongTimeout, ChainRecords
  <2>5. LostPeerIsRetried'
    <3> SUFFICES ASSUME running, NEW q \in known \ up'
                 PROVE  \E t \in Chains : chain'[t].peer = q /\ chain'[t].at \notin {"free", "ok"}
      BY DEF LostPeerIsRetried, PongTimeout
    <3>1. CASE q = p
      BY <2>3, <3>1
    <3>2. CASE q # p
      <4>1. q \in known \ up
        BY <1>3, <3>2 DEF PongTimeout
      <4>2. PICK t \in Chains : chain[t].peer = q /\ chain[t].at \notin {"free", "ok"}
        BY <4>1 DEF LostPeerIsRetried
      <4> QED BY <2>1, <2>3, <4>2 DEF ChainAt
    <3> QED BY <3>1, <3>2
  <2>6. NobodyUninvited'
    BY <2>3 DEF NobodyUninvited, ChainAt, PongTimeout
  <2>7. BeforeStart'
    BY <1>1 DEF BeforeStart, PongTimeout
  <2> QED BY <2>4, <2>5, <2>6, <2>7
<1> QED BY <1>2, <1>3

\* The other steps of a chain: reconnectWithBackoff and the reconnect handler.
LEMMA ReconnectStep ==
  ASSUME IInv, NEW s \in Chains, Backoff(s) \/ Fire(s) \/ Check(s) \/ Retry(s) \/ Succeed(s)
  PROVE  IInv'
<1> USE DEF sessions
<1>1. TypeOK /\ chain[s] \in ChainRecords /\ chain[s].peer \in Peers
  BY DEF IInv, PeerInv, TypeOK, ChainRecords
<1>2. \A l \in Places : LET r == [chain[s] EXCEPT !.at = l]
         IN r \in ChainRecords /\ r.at = l /\ r.peer = chain[s].peer
  BY <1>1 DEF ChainRecords
<1>3. CASE Backoff(s)
  <2> DEFINE n == IF chain[s].peer \in known THEN attempts[chain[s].peer] ELSE 0
  <2>1. n \in 0..MaxAttempt
    BY <1>1 DEF TypeOK
  <2>2. ScheduleReconnect(s, n)
    BY <1>3 DEF Backoff
  <2> HIDE DEF n
  <2>3. PICK r \in ChainRecords :
            /\ chain' = [chain EXCEPT ![s] = r]
            /\ IF running THEN r.at = "set" /\ r.peer = chain[s].peer ELSE r.at = "free"
    BY <1>1, <2>1, <2>2, ScheduleOK
  <2> QED BY <1>1, <1>3, <2>3, ChainStep DEF Backoff, ChainAt, TypeOK
<1>4. CASE Fire(s)
  <2>1. CASE running /\ chain[s].peer \in known
    BY <1>1, <1>2, <1>4, <2>1, ChainStep DEF Fire, ChainAt, Move, Places, TypeOK
  <2>2. CASE ~(running /\ chain[s].peer \in known)
    BY <1>1, <1>4, <2>2, FreeType, ChainStep DEF Fire, ChainAt, EndChain, TypeOK
  <2> QED BY <2>1, <2>2
<1>5. CASE Check(s)
  <2>1. CASE chain[s].peer \in up
    BY <1>1, <1>2, <1>5, <2>1, ChainStep DEF Check, ChainAt, Move, Places, TypeOK
  <2>2. CASE chain[s].peer \notin up
    BY <1>1, <1>2, <1>5, <2>2, ChainStep DEF Check, ChainAt, Move, Places, TypeOK
  <2> QED BY <2>1, <2>2
<1>6. CASE Retry(s)
  <2> DEFINE n == IF chain[s].attempt < MaxAttempt THEN chain[s].attempt + 1 ELSE MaxAttempt
  <2>1. n \in 0..MaxAttempt
    BY <1>1 DEF ChainRecords
  <2>2. ScheduleReconnect(s, n) /\ SetAttempts(s, n) /\ ChainAt(s, "again")
    BY <1>6 DEF Retry
  <2> HIDE DEF n
  <2>3. PICK r \in ChainRecords :
            /\ chain' = [chain EXCEPT ![s] = r]
            /\ IF running THEN r.at = "set" /\ r.peer = chain[s].peer ELSE r.at = "free"
    BY <1>1, <2>1, <2>2, ScheduleOK
  <2>4. attempts' \in [Peers -> 0..MaxAttempt]
    BY <1>1, <2>1, <2>2 DEF TypeOK, SetAttempts
  <2> QED BY <1>1, <1>6, <2>2, <2>3, <2>4, ChainStep DEF Retry, ChainAt
<1>7. CASE Succeed(s)
  <2>1. attempts' \in [Peers -> 0..MaxAttempt]
    BY <1>1, <1>7 DEF TypeOK, Succeed, SetAttempts
  <2> QED BY <1>1, <1>7, <2>1, FreeType, ChainStep DEF Succeed, ChainAt, EndChain
<1> QED BY <1>3, <1>4, <1>5, <1>6, <1>7

\* The initial state.
LEMMA PeerInit == Init => IInv
<1> SUFFICES ASSUME Init PROVE IInv
  OBVIOUS
<1>1. TypeOK
  <2>1. chain \in [Chains -> ChainRecords]
    BY FreeType DEF Init
  <2>2. age \in [Peers -> 0..Beats] /\ attempts \in [Peers -> 0..MaxAttempt]
    BY DEF Init
  <2>3. calls \in 0..MaxCalls /\ starts \in 0..MaxStarts /\ outages \in 0..MaxOutages
    BY DEF Init
  <2>4. running \in BOOLEAN /\ stopping \in BOOLEAN /\ beat \in BOOLEAN /\ scanning \in BOOLEAN
    BY Zenon DEF Init
  <2>6. known \subseteq Peers /\ up \subseteq known /\ timedOut \subseteq Peers
        /\ reach \subseteq Peers /\ invited \subseteq Peers
    BY DEF Init
  <2>7. closing \in BOOLEAN
    BY Zenon DEF Init
  <2> QED BY <2>1, <2>2, <2>3, <2>4, <2>6, <2>7 DEF TypeOK, ChainRecords
<1>2. LostPeerIsRetried /\ NobodyUninvited /\ BeforeStart
  BY FreeType DEF Init, LostPeerIsRetried, NobodyUninvited, BeforeStart, ChainAt
<1> QED BY <1>1, <1>2 DEF IInv, PeerInv

\* Every step preserves the invariant.
LEMMA PeerStep ==
  ASSUME MaxStarts <= 1, IInv, [Next]_vars
  PROVE  IInv'
<1>1. CASE UNCHANGED vars
  <2> USE <1>1 DEF vars, flags, sessions, clock, env, limits
  <2>1. TypeOK'
    BY DEF IInv, PeerInv, TypeOK
  <2>2. LostPeerIsRetried' /\ NobodyUninvited' /\ BeforeStart'
    BY DEF IInv, PeerInv, LostPeerIsRetried, NobodyUninvited, BeforeStart, ChainAt
  <2> QED BY <2>1, <2>2 DEF IInv, PeerInv
<1>2. CASE Next
  BY <1>2, ConnectStep, DialStep, DisconnectStep, StartStep, StopStep, QuietStep,
     PongTimeoutStep, ReconnectStep DEF Next, Heartbeat, Reconnecting
<1> QED BY <1>1, <1>2

\* As long as the manager is started once only, in every reachable state each
\* lost peer has a reconnect chain, and each registered peer was asked for
\* (handlePongTimeout, scheduleReconnect, connectToPeer, disconnectPeer).
THEOREM PeerSafe == ASSUME MaxStarts <= 1 PROVE Spec => []PeerInv
<1>1. IInv /\ [Next]_vars => IInv'
  BY PeerStep
<1>2. IInv => PeerInv
  BY DEF IInv
<1> QED BY <1>1, <1>2, PeerInit, PTL DEF Spec
=============================================================================
