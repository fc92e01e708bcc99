---------------------------- MODULE GossipEngine ----------------------------
(***************************************************************************)
(* A network of nodes that announce things to one another by gossip        *)
(* (gossip/gossip_engine.cpp).  Announcements are queued, sent to fanout   *)
(* random peers by the batch timer, and forwarded by whoever receives them *)
(* while their ttl lasts; nothing remembers what has been seen before.     *)
(*                                                                         *)
(* chan[m][n] is the WebSocket connection m opened to n: in order, and     *)
(* what was not read yet is lost with it.  peers[m] are the sessions of m  *)
(* that PeerManager calls connected.  An item is what is announced; an     *)
(* announcement is an item with the ttl it has left.                       *)
(***************************************************************************)
EXTENDS Naturals, Sequences, FiniteSets

CONSTANTS Nodes, Users,
          Names, Nothing, \* of blocks, messages, collections and pools; and none
          LocalUsers,     \* localUserIds_ of each node
          Topologies,     \* the peers the nodes may start with
          Items,          \* what may be announced, each once
          Ttl, Fanout,    \* GossipConfig, by class
          Unwraps,        \* nodes whose transport reads batches (see Receive)
          Overlaps,       \* batches may be sent at the same time (see TakeBatch)
          RegistryFails,  \* HeadRegistry::persist may throw
          MaxAnnounced, MaxStops, MaxDrops   \* bounds of a behaviour

Kinds == {"add", "remove", "message", "ack", "head_update", "pool_announce",
          "pool_deleted", "pool_remove", "cbl_index", "acl_update",
          "quorum_proposal", "quorum_vote"}

Classes == {"default", "normal", "high"}

\* What the writeProof of a head update is worth: "other" verifies, but names
\* another head than the update; "bad" does not verify, "malformed" is not hex.
Proofs == {"none", "good", "other", "bad", "malformed"}

\* key is the collection of a head update or the pool, name the block or the
\* message; complete: the metadata the type requires are there.
ItemType ==
    [kind : Kinds, name : Names, key : Names, origin : Nodes, recipients : Seq(Users),
     ackRequired : BOOLEAN, high : BOOLEAN, proof : Proofs, complete : BOOLEAN]

ASSUME GossipAssumption ==
    /\ IsFiniteSet(Nodes)
    /\ LocalUsers \in [Nodes -> SUBSET Users]
    /\ Topologies \subseteq [Nodes -> SUBSET Nodes]
    /\ Nothing \notin Names
    /\ Items \subseteq ItemType
    /\ \A i \in Items : i.kind # "ack"
    /\ Ttl \in [Classes -> Nat]
    /\ Fanout \in [Classes -> Nat]
    /\ Unwraps \subseteq Nodes
    /\ Overlaps \in BOOLEAN
    /\ RegistryFails \in BOOLEAN
    /\ {MaxAnnounced, MaxStops, MaxDrops} \subseteq Nat

VARIABLES
    peers, chan,
    pending,     \* pendingAnnouncements_
    sending,     \* what batchFlush has taken and not sent yet
    timer,       \* batchTimer_: "off" (not running), "set", or "fired"
    heads,       \* the HeadRegistry of each node
    pools,       \* the pool cache of each PeerManager: the hosting node
    announced,   \* items announced so far
    latest,      \* the last head announced for each key
    heard,       \* items the announcement handlers were called with
    delivered,   \* messages the delivery handlers were called with
    acked,       \* acks queued
    acks,        \* acks the ack handlers were called with
    stops, drops

queues == <<pending, sending, timer>>
caches == <<heads, pools>>
handled == <<heard, delivered, acked, acks>>
limits == <<stops, drops>>
history == <<announced, latest>>
vars == <<peers, chan, queues, caches, history, handled, limits>>

Keys == {i.key : i \in Items}

Init ==
    /\ peers \in Topologies
    /\ chan = [m \in Nodes |-> [n \in Nodes |-> <<>>]]
    /\ pending = [n \in Nodes |-> <<>>]
    /\ sending = [n \in Nodes |-> <<>>]
    /\ timer = [n \in Nodes |-> "off"]
    /\ heads = [n \in Nodes |-> [k \in Keys |-> Nothing]]
    /\ pools = [n \in Nodes |-> [k \in Keys |-> Nothing]]
    /\ announced = {}
    /\ latest = [k \in Keys |-> Nothing]
    /\ heard = [n \in Nodes |-> {}]
    /\ delivered = [n \in Nodes |-> {}]
    /\ acked = [n \in Nodes |-> {}]
    /\ acks = [n \in Nodes |-> {}]
    /\ stops = 0 /\ drops = 0

-----------------------------------------------------------------------------
(***************************************************************************)
(* Announcing: everything goes through queueAnnouncement.                  *)
(***************************************************************************)

\* The class of GossipConfig an item belongs to.
Class(i) ==
    CASE i.kind \in {"quorum_proposal", "quorum_vote"} -> "high"
      [] i.kind = "message" -> IF i.high THEN "high" ELSE "normal"
      [] OTHER -> "default"

TtlOf(i) == Ttl[Class(i)]
FanoutOf(i) == Fanout[Class(i)]

Announcement(i) == [item |-> i, ttl |-> TtlOf(i)]

\* Mutant: the newest goes first.
QueueInFront(n, i) == pending' = [pending EXCEPT ![n] = <<Announcement(i)>> \o @]

QueueAnnouncement(n, i) == pending' = [pending EXCEPT ![n] = Append(@, Announcement(i))]

Announce(i, kinds) ==
    /\ i.kind \in kinds
    /\ i \notin announced /\ Cardinality(announced) < MaxAnnounced
    /\ announced' = announced \cup {i}
    /\ QueueAnnouncement(i.origin, i)
    /\ UNCHANGED <<peers, chan, sending, timer, pools, handled, limits>>

AnnounceBlock(i) == Announce(i, {"add", "remove"}) /\ UNCHANGED <<heads, latest>>
AnnounceMessage(i) == Announce(i, {"message"}) /\ UNCHANGED <<heads, latest>>
AnnouncePool(i) == Announce(i, {"pool_announce", "pool_remove", "pool_deleted"}) /\ UNCHANGED <<heads, latest>>
AnnounceBrightTrust(i) == Announce(i, {"quorum_proposal", "quorum_vote"}) /\ UNCHANGED <<heads, latest>>
AnnounceIndex(i) == Announce(i, {"cbl_index", "acl_update"}) /\ UNCHANGED <<heads, latest>>

\* The caller has set the head in its own registry.
AnnounceHeadUpdate(i) ==
    /\ Announce(i, {"head_update"})
    /\ heads' = [heads EXCEPT ![i.origin][i.key] = i.name]
    /\ latest' = [latest EXCEPT ![i.key] = i.name]

\* The ack of user u at node n for a message: sendDeliveryAck.
DeliveryAck(n, u, i) ==
    [kind |-> "ack", name |-> i.name, key |-> i.key, origin |-> n, recipients |-> <<u>>,
     ackRequired |-> FALSE, high |-> FALSE, proof |-> "none", complete |-> TRUE]

-----------------------------------------------------------------------------
(***************************************************************************)
(* Sending.                                                                *)
(***************************************************************************)

\* selectRandomPeers: any fanout peers, or all of them if there are fewer.
Selections(n, fanout) ==
    {T \in SUBSET peers[n] :
        Cardinality(T) = IF fanout < Cardinality(peers[n]) THEN fanout
                                                           ELSE Cardinality(peers[n])}

\* The connections ch after n has written announcement a to the nodes T.
Sent(ch, n, T, a) ==
    [ch EXCEPT ![n] = [m \in Nodes |-> IF m \in T THEN Append(ch[n][m], a) ELSE ch[n][m]]]

\* The sequences made of the elements of s and t, each of the two in its order:
\* f says of which of them, and where in it, an element is.
Shuffles(s, t) ==
    LET all == 1..(Len(s) + Len(t)) IN
    {[k \in all |-> IF f[k][1] = 1 THEN s[f[k][2]] ELSE t[f[k][2]]] :
        f \in {f \in [all -> ({1} \X DOMAIN s) \cup ({2} \X DOMAIN t)] :
                  \A j, k \in all : f[j][1] = f[k][1] => (j < k <=> f[j][2] < f[k][2])}}

\* batchFlush, first part: the queue is taken, and dropped if there is nobody
\* to send it to.  It is called by the timer, flushAnnouncements and stop, and
\* holds no mutex: on two threads, the batches go out between one another.
TakeBatch(n) ==
    /\ pending' = [pending EXCEPT ![n] = <<>>]
    /\ IF peers[n] = {} THEN UNCHANGED sending
       ELSE \E s \in IF Overlaps THEN Shuffles(sending[n], pending[n])
                                 ELSE {sending[n] \o pending[n]} :
               sending' = [sending EXCEPT ![n] = s]

\* Second part, one announcement.
SendNext(n) ==
    /\ sending[n] # <<>>
    /\ \E T \in Selections(n, FanoutOf(Head(sending[n]).item)) :
          chan' = Sent(chan, n, T, Head(sending[n]))
    /\ sending' = [sending EXCEPT ![n] = Tail(@)]
    /\ UNCHANGED <<peers, pending, timer, caches, history, handled, limits>>

TimerFires(n) ==
    /\ timer[n] = "set"
    /\ pending[n] # <<>>
    /\ timer' = [timer EXCEPT ![n] = "fired"]
    /\ TakeBatch(n)
    /\ UNCHANGED <<peers, chan, caches, history, handled, limits>>

\* Mutant: the timer is not set again.
TimerEnds(n) ==
    /\ timer[n] = "fired" /\ sending[n] = <<>>
    /\ timer' = [timer EXCEPT ![n] = "ended"]
    /\ UNCHANGED <<peers, chan, pending, sending, caches, history, handled, limits>>

\* The handler has sent its batch and calls scheduleBatchTimer.
ScheduleBatchTimer(n) ==
    /\ timer[n] = "fired" /\ sending[n] = <<>>
    /\ timer' = [timer EXCEPT ![n] = "set"]
    /\ UNCHANGED <<peers, chan, pending, sending, caches, history, handled, limits>>

FlushAnnouncements(n) ==
    /\ pending[n] # <<>>
    /\ TakeBatch(n)
    /\ UNCHANGED <<peers, chan, timer, caches, history, handled, limits>>

Start(n) ==
    /\ timer[n] = "off"
    /\ timer' = [timer EXCEPT ![n] = "set"]
    /\ UNCHANGED <<peers, chan, pending, sending, caches, history, handled, limits>>

\* stop cancels the timer and flushes; announcements are still received.
Stop(n) ==
    /\ timer[n] # "off"
    /\ stops < MaxStops /\ stops' = stops + 1
    /\ timer' = [timer EXCEPT ![n] = "off"]
    /\ TakeBatch(n)
    /\ UNCHANGED <<peers, chan, caches, history, handled, drops>>

-----------------------------------------------------------------------------
(***************************************************************************)
(* Receiving: handleAnnouncement, called by the read loop of a connection. *)
(***************************************************************************)

Local(n, i) == {k \in DOMAIN i.recipients : i.recipients[k] \in LocalUsers[n]}

\* Mutant: the first recipient is acknowledged, local or not.
AckedRecipientFirst(n, i) == i.recipients[1]

\* "Find the first matching local user for the ack".
AckedRecipient(n, i) ==
    i.recipients[CHOOSE k \in Local(n, i) : \A j \in Local(n, i) : k <= j]

\* Mutant: the copy keeps its ttl.
DecrementedNot(a) == a

Decremented(a) == [a EXCEPT !.ttl = a.ttl - 1]

\* ch: the connections once a has been read.
ForwardAnnouncement(n, a, ch) ==
    IF a.ttl > 0
    THEN \E T \in Selections(n, FanoutOf(a.item)) : chan' = Sent(ch, n, T, Decremented(a))
    ELSE chan' = ch

\* A message with a local recipient stops here, and is acknowledged on request.
HandleMessage(n, a, ch) ==
    LET i == a.item
        ack == DeliveryAck(n, AckedRecipient(n, i), i) IN
    /\ i.kind = "message"
    /\ IF Local(n, i) = {}
       THEN ForwardAnnouncement(n, a, ch) /\ UNCHANGED <<pending, delivered, acked>>
       ELSE /\ chan' = ch
            /\ delivered' = [delivered EXCEPT ![n] = @ \cup {i}]
            /\ IF i.ackRequired
               THEN QueueAnnouncement(n, ack) /\ acked' = [acked EXCEPT ![n] = @ \cup {ack}]
               ELSE UNCHANGED <<pending, acked>>
    /\ UNCHANGED <<caches, acks>>

HandleAck(n, a, ch) ==
    /\ a.item.kind = "ack"
    /\ acks' = [acks EXCEPT ![n] = @ \cup {a.item}]
    /\ ForwardAnnouncement(n, a, ch)
    /\ UNCHANGED <<pending, caches, delivered, acked>>

\* An update without a proof needs none; of a proof, the signature is verified
\* over the head it names itself, which is not compared with the update's.
Verifies(i) == i.proof \in {"none", "good", "other"}

\* A head update is applied unless its proof fails.  If the proof cannot be
\* decoded, or the registry cannot be written, an exception ends the handler.
HandleHeadUpdate(n, a, ch) ==
    LET i == a.item
        apply == heads' = [heads EXCEPT ![n][i.key] = i.name] IN
    /\ i.kind = "head_update"
    /\ \/ Verifies(i) /\ apply /\ ForwardAnnouncement(n, a, ch)
       \/ Verifies(i) /\ RegistryFails /\ apply /\ chan' = ch
       \/ ~Verifies(i) /\ i.proof = "bad" /\ ForwardAnnouncement(n, a, ch) /\ UNCHANGED heads
       \/ ~Verifies(i) /\ i.proof = "malformed" /\ chan' = ch /\ UNCHANGED heads
    /\ UNCHANGED <<pending, pools, delivered, acked, acks>>

\* The pool cache of PeerManager; a pool_remove changes nothing.
HandlePool(n, a, ch) ==
    /\ a.item.kind \in {"pool_announce", "pool_deleted"}
    /\ pools' = [pools EXCEPT ![n][a.item.key] =
           IF a.item.kind = "pool_announce" THEN a.item.origin ELSE Nothing]
    /\ ForwardAnnouncement(n, a, ch)
    /\ UNCHANGED <<pending, heads, delivered, acked, acks>>

\* The other types only reach handlers.
HandleOther(n, a, ch) ==
    /\ a.item.kind \notin {"message", "ack", "head_update", "pool_announce", "pool_deleted"}
    /\ ForwardAnnouncement(n, a, ch)
    /\ UNCHANGED <<pending, caches, delivered, acked, acks>>

HandleAnnouncement(n, a, ch) ==
    /\ heard' = [heard EXCEPT ![n] = @ \cup {a.item}]
    /\ \/ HandleMessage(n, a, ch) \/ HandleAck(n, a, ch) \/ HandleHeadUpdate(n, a, ch)
       \/ HandlePool(n, a, ch) \/ HandleOther(n, a, ch)

\* BlockAnnouncement::validate.
Validate(i) == i.complete

\* The read loop of node n takes the next text of its connection from m.  Every
\* sender wraps its announcements in an array, or in an encryption envelope.
\* The read loop in websocket_server.cpp parses the text as one announcement
\* and ignores it when that throws, so that in the program Unwraps is empty;
\* with any other value this is the engine behind a transport that unwraps.
Receive(m, n) ==
    LET a == Head(chan[m][n])
        ch == [chan EXCEPT ![m][n] = Tail(@)] IN
    /\ chan[m][n] # <<>>
    /\ IF n \in Unwraps /\ Validate(a.item)
       THEN HandleAnnouncement(n, a, ch)
       ELSE chan' = ch /\ UNCHANGED <<pending, caches, handled>>
    /\ UNCHANGED <<peers, sending, timer, history, limits>>

-----------------------------------------------------------------------------
(***************************************************************************)
(* The connections, which PeerManager looks after.                         *)
(***************************************************************************)

Disconnect(m, n) ==
    /\ n \in peers[m]
    /\ drops < MaxDrops /\ drops' = drops + 1
    /\ peers' = [peers EXCEPT ![m] = @ \ {n}]
    /\ chan' = [chan EXCEPT ![m][n] = <<>>]
    /\ UNCHANGED <<queues, caches, history, handled, stops>>

Connect(m, n) ==
    /\ n \notin peers[m]
    /\ peers' = [peers EXCEPT ![m] = @ \cup {n}]
    /\ \E t \in Topologies : \A k \in Nodes : peers'[k] \subseteq t[k]
    /\ UNCHANGED <<chan, queues, caches, history, handled, limits>>

AnnounceAny(i) ==
    \/ AnnounceBlock(i) \/ AnnounceMessage(i) \/ AnnounceHeadUpdate(i)
    \/ AnnouncePool(i) \/ AnnounceBrightTrust(i) \/ AnnounceIndex(i)

Next ==
    \/ \E i \in Items : AnnounceAny(i)
    \/ \E n \in Nodes : Start(n) \/ Stop(n) \/ FlushAnnouncements(n)
                        \/ TimerFires(n) \/ ScheduleBatchTimer(n) \/ SendNext(n)
    \/ \E m, n \in Nodes : Receive(m, n) \/ Disconnect(m, n) \/ Connect(m, n)

Spec == Init /\ [][Next]_vars

\* The io_context is served: the batch timer's handler and the read loops run.
FairSpec ==
    /\ Spec
    /\ \A n \in Nodes : WF_vars(TimerFires(n) \/ ScheduleBatchTimer(n)) /\ WF_vars(SendNext(n))
    /\ \A m, n \in Nodes : WF_vars(Receive(m, n))

-----------------------------------------------------------------------------
(***************************************************************************)
(* Safety.                                                                 *)
(***************************************************************************)
AckType == {i \in ItemType : i.kind = "ack"}
AnnouncementType == [item : Items \cup AckType, ttl : Nat]

TypeOK ==
    /\ peers \in [Nodes -> SUBSET Nodes]
    /\ chan \in [Nodes -> [Nodes -> Seq(AnnouncementType)]]
    /\ pending \in [Nodes -> Seq(AnnouncementType)]
    /\ sending \in [Nodes -> Seq(AnnouncementType)]
    /\ timer \in [Nodes -> {"off", "set", "fired"}]
    /\ heads \in [Nodes -> [Keys -> Names \cup {Nothing}]]
    /\ pools \in [Nodes -> [Keys -> Nodes \cup {Nothing}]]
    /\ announced \subseteq Items
    /\ latest \in [Keys -> Names \cup {Nothing}]
    /\ heard \in [Nodes -> SUBSET (Items \cup AckType)]
    /\ delivered \in [Nodes -> SUBSET Items]
    /\ acked \in [Nodes -> SUBSET AckType]
    /\ acks \in [Nodes -> SUBSET AckType]
    /\ stops \in 0..MaxStops /\ drops \in 0..MaxDrops

\* Ack k is for message i, which node n got for the user that k names.
AckFor(n, k, i) ==
    /\ k.origin = n /\ k.name = i.name
    /\ \E j \in Local(n, i) : k.recipients = <<i.recipients[j]>>

\* Every ack queued was earned, and everything queued or under way is an item
\* somebody announced or an ack somebody queued, with no more ttl than it began
\* with (queueAnnouncement, forwardAnnouncement).
Accountable(a) ==
    /\ IF a.item.kind = "ack" THEN a.item \in acked[a.item.origin] ELSE a.item \in announced
    /\ a.ttl <= TtlOf(a.item)

Accounted ==
    /\ \A n \in Nodes : \A k \in acked[n] : \E i \in delivered[n] : AckFor(n, k, i)
    /\ \A n \in Nodes : \A j \in DOMAIN pending[n] : Accountable(pending[n][j])
    /\ \A n \in Nodes : \A j \in DOMAIN sending[n] : Accountable(sending[n][j])
    /\ \A m, n \in Nodes : \A j \in DOMAIN chan[m][n] : Accountable(chan[m][n][j])

\* A sender that is told of an ack can rely on it: the node the ack comes from
\* gave that message to its delivery handlers, for the very user the ack names
\* (handleAnnouncement), whatever was lost, repeated or reordered on the way.
AckMeansDelivered ==
    \A n \in Nodes : \A k \in acks[n] : \E i \in delivered[k.origin] : AckFor(k.origin, k, i)

\* A head in a registry was announced for that collection, and not in another
\* node's update whose proof fails, although such updates travel through the
\* network too (handleAnnouncement, head_update).  A node may have it from an
\* update without a proof, or with the proof of another head.
HeadsAnnounced ==
    \A n \in Nodes, k \in Keys : heads[n][k] = Nothing \/
        \E i \in announced : /\ i.kind = "head_update" /\ i.key = k /\ i.name = heads[n][k]
                             /\ i.proof \notin {"bad", "malformed"} \/ i.origin = n

GossipInv == TypeOK /\ Accounted /\ AckMeansDelivered /\ HeadsAnnounced

Quiet ==
    /\ \A n \in Nodes : pending[n] = <<>> /\ sending[n] = <<>>
    /\ \A m, n \in Nodes : chan[m][n] = <<>>

\* There is a walk of d hops from m to n along the connections top.
Reached(top, m, n, d) ==
    \E w \in [0..d -> Nodes] : w[0] = m /\ w[d] = n /\ \A i \in 0..(d - 1) : w[i + 1] \in top[w[i]]

HeadUpdates == {i \in Items : i.kind = "head_update"}
HeadTtl == Ttl["default"]

\* A network on which the order of the connections can be relied on: none is
\* lost, no node sends two batches at once, fanout reaches all peers and ttl all
\* nodes; and every collection has one writer, whose updates verify.
Reliable ==
    /\ MaxDrops = 0 /\ ~RegistryFails /\ ~Overlaps /\ Unwraps = Nodes
    /\ \A i \in HeadUpdates : /\ Verifies(i) /\ Validate(i)
                             /\ \A j \in HeadUpdates : i.key = j.key => i.origin = j.origin
    /\ \A top \in Topologies :
          /\ \A n \in Nodes : Cardinality(top[n]) <= Fanout["default"]
          /\ \A i \in HeadUpdates :
                /\ top[i.origin] # {}
                /\ \A n \in Nodes : \E d \in 0..(HeadTtl + 1) : Reached(top, i.origin, n, d)

\* On such a network, when all is said and received every registry has the last
\* update, the writer's own too, to which older ones come back.
LastUpdateWins == Reliable /\ Quiet => \A n \in Nodes : heads[n] = latest

\* Where announcement a is in the connections ch.
Copies(ch, a) ==
    UNION {{<<m, n>>} \X {k \in DOMAIN ch[m][n] : ch[m][n][k] = a} : m, n \in Nodes}

\* What one announcement may become in so many hops: fanout to the power of them.
Spread(fanout) == LET s[hops \in Nat] == IF hops = 0 THEN 1 ELSE fanout * s[hops - 1] IN s

\* Without a memory of what was seen, only ttl and fanout keep the network from
\* drowning: of the copies of an item with the same ttl never more are under
\* way than fanout to the power of the hops (batchFlush, forwardAnnouncement).
CopiesBounded == \A i \in announced : \A t \in 0..TtlOf(i) :
    Cardinality(Copies(chan, [item |-> i, ttl |-> t])) <= Spread(FanoutOf(i))[TtlOf(i) + 1 - t]

-----------------------------------------------------------------------------
(***************************************************************************)
(* Liveness, for engines that are kept running and connections that hold.  *)
(***************************************************************************)
KeptRunning == \A n \in Nodes : <>[](timer[n] # "off")

\* The traffic an announcement causes, acks included, comes to an end although
\* every node forwards what it has forwarded before.
GossipStops == KeptRunning => <>[]Quiet
=============================================================================
