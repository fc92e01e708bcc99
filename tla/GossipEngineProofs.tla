------------------------- MODULE GossipEngineProofs -------------------------
(***************************************************************************)
(* For any network, users, items, ttl and fanout, and whatever is lost,    *)
(* reordered or repeated: acks can be relied on and registries hold only   *)
(* announced heads, and none whose proof failed (GossipSafe).              *)
(*                                                                         *)
(* Accounted is about every position of every queue.  For the proof it is  *)
(* restated as the type of the queues: sequences of accountable            *)
(* announcements.  The set of these only grows, so queues keep their type, *)
(* and Append, Head, Tail and \o stay inside it.                           *)
(*                                                                         *)
(* Nor does one announcement flood the network (CopiesAreBounded).  The    *)
(* copies are counted by ttl, and the invariant keeps a budget for every   *)
(* ttl: it covers the copies there are and fanout times the budget above,  *)
(* that is all those that may still come down to it.  Passing a copy on    *)
(* moves it from one budget to the next.                                   *)
(*                                                                         *)
(* And on a network that loses nothing registries end with the last update *)
(* (LastUpdateHolds), although every node applies whatever it reads and    *)
(* older updates come round again.  Every copy of an older update has a    *)
(* copy of the last one with the same ttl behind it: in the same           *)
(* connection, or on a walk to the node that writes to it (Train); queues  *)
(* are in order (Lined); and a node without the last update has it coming  *)
(* (Awaited).  What is coming is found again after each step one hop       *)
(* further on its walk.                                                    *)
(***************************************************************************)
EXTENDS GossipEngine, SequenceTheorems, FiniteSetTheorems, WellFoundedInduction, TLAPS

USE GossipAssumption

Good == {x \in AnnouncementType : Accountable(x)}

QueuesGood ==
    /\ chan \in [Nodes -> [Nodes -> Seq(Good)]]
    /\ pending \in [Nodes -> Seq(Good)]
    /\ sending \in [Nodes -> Seq(Good)]

Earned == \A n \in Nodes : \A k \in acked[n] : \E i \in delivered[n] : AckFor(n, k, i)

\* TypeOK without the queues.
OtherTypes ==
    /\ peers \in [Nodes -> SUBSET Nodes]
    /\ timer \in [Nodes -> {"off", "set", "fired"}]
    /\ heads \in [Nodes -> [Keys -> Names \cup {Nothing}]]
    /\ pools \in [Nodes -> [Keys -> Nodes \cup {Nothing}]]
    /\ announced \subseteq Items
    /\ latest \in [Keys -> Names \cup {Nothing}]
    /\ heard \in [Nodes -> SUBSET (Items \cup AckType)]
    /\ delivered \in [Nodes -> SUBSET Items]
    /\ acked \in [Nodes -> SUBSET AckType]
    /\ acks \in [Nodes -> SUBSET AckType]
    /\ stops \in 0..MaxStops /\ drops \in 0..MaxDrops

IInv == OtherTypes /\ QueuesGood /\ Earned /\ AckMeansDelivered /\ HeadsAnnounced

-----------------------------------------------------------------------------
\* A sequence over S is one over a subset of S its elements are in.
LEMMA SeqNarrow ==
    ASSUME NEW S, NEW G, G \subseteq S, NEW s \in Seq(S), \A j \in DOMAIN s : s[j] \in G
    PROVE  s \in Seq(G)
<1>1. DOMAIN s = 1..Len(s) /\ Len(s) \in Nat
  BY LenProperties
<1>2. s = [j \in DOMAIN s |-> s[j]]
  BY SeqDef
<1>3. s \in [1..Len(s) -> G]
  <2>1. s \in [DOMAIN s -> G]
    BY <1>2
  <2> QED BY <1>1, <2>1
<1> QED BY <1>1, <1>3, SeqDef

\* A set of naturals with an element has a least one.
LEMMA LeastExists ==
    ASSUME NEW T, T \subseteq Nat, T # {}
    PROVE  \E x \in T : \A y \in T : x <= y
<1>1. PICK x \in T : \A y \in T : ~(<<y, x>> \in OpToRel(<, Nat))
  BY WFMin, NatLessThanWellFounded
<1>2. \A y \in T : ~(y < x)
  BY <1>1 DEF OpToRel
<1> QED BY <1>2

\* IInv is GossipInv with the queues written the other way.
LEMMA Restated == IInv => GossipInv
<1> SUFFICES ASSUME IInv PROVE GossipInv
  OBVIOUS
<1>1. Good \subseteq AnnouncementType
  BY DEF Good
<1>2. Seq(Good) \subseteq Seq(AnnouncementType)
  BY <1>1, SeqMonotonic
<1>3. TypeOK
  BY <1>2 DEF IInv, OtherTypes, QueuesGood, TypeOK
<1>4. Accounted
  <2>1. ASSUME NEW s \in Seq(Good), NEW j \in DOMAIN s PROVE Accountable(s[j])
    <3>1. s[j] \in Good
      BY <2>1, ElementOfSeq, LenProperties
    <3> QED BY <3>1 DEF Good
  <2> QED BY <2>1 DEF IInv, QueuesGood, Earned, Accounted
<1> QED BY <1>3, <1>4 DEF IInv, GossipInv

\* Every class of announcements has a ttl.
LEMMA TtlIsNat == \A i : TtlOf(i) \in Nat
BY DEF TtlOf, Class, Classes

\* A new announcement of an announced item, or of an ack just queued, is good.
LEMMA NewIsGood ==
    ASSUME NEW i \in Items \cup AckType,
           IF i.kind = "ack" THEN i \in acked[i.origin] ELSE i \in announced
    PROVE  Announcement(i) \in Good
<1>1. TtlOf(i) \in Nat
  BY TtlIsNat
<1> QED BY <1>1 DEF Announcement, AnnouncementType, Good, Accountable

\* Writing to connections keeps their contents in a set.
LEMMA SentIn ==
    ASSUME NEW G, NEW ch \in [Nodes -> [Nodes -> Seq(G)]], NEW n \in Nodes, NEW T,
           NEW x \in G
    PROVE  Sent(ch, n, T, x) \in [Nodes -> [Nodes -> Seq(G)]]
<1>1. \A m \in Nodes : Append(ch[n][m], x) \in Seq(G)
  BY AppendProperties
<1> QED BY <1>1 DEF Sent

\* Reading from a connection does, and what is read is in it.
LEMMA ReadIn ==
    ASSUME NEW G, chan \in [Nodes -> [Nodes -> Seq(G)]], NEW m \in Nodes, NEW n \in Nodes,
           chan[m][n] # <<>>
    PROVE  /\ Head(chan[m][n]) \in G
           /\ [chan EXCEPT ![m][n] = Tail(@)] \in [Nodes -> [Nodes -> Seq(G)]]
<1>1. Head(chan[m][n]) \in G /\ Tail(chan[m][n]) \in Seq(G)
  BY HeadTailProperties
<1> QED BY <1>1

\* A forwarded copy is as good as the announcement.
LEMMA DecrementedGood ==
    ASSUME NEW x \in Good, x.ttl > 0
    PROVE  Decremented(x) \in Good
<1>1. x.ttl \in Nat /\ x.item \in Items \cup AckType
  BY DEF Good, AnnouncementType
<1>2. Decremented(x) \in AnnouncementType /\ Decremented(x).item = x.item
      /\ Decremented(x).ttl = x.ttl - 1
  BY <1>1 DEF Good, AnnouncementType, Decremented
<1>3. TtlOf(x.item) \in Nat
  BY TtlIsNat
<1> QED BY <1>1, <1>2, <1>3 DEF Good, Accountable

\* forwardAnnouncement keeps the connections good.
LEMMA ForwardGood ==
    ASSUME NEW n \in Nodes, NEW x \in Good, NEW ch \in [Nodes -> [Nodes -> Seq(Good)]],
           ForwardAnnouncement(n, x, ch)
    PROVE  chan' \in [Nodes -> [Nodes -> Seq(Good)]]
<1>1. CASE x.ttl > 0
  <2>1. PICK T \in Selections(n, FanoutOf(x.item)) : chan' = Sent(ch, n, T, Decremented(x))
    BY <1>1 DEF ForwardAnnouncement
  <2> QED BY <1>1, <2>1, DecrementedGood, SentIn
<1>2. CASE ~(x.ttl > 0)
  BY <1>2 DEF ForwardAnnouncement
<1> QED BY <1>1, <1>2

-----------------------------------------------------------------------------
\* The history only grows.
Grows ==
    /\ announced \subseteq announced'
    /\ \A n \in Nodes : acked[n] \subseteq acked'[n] /\ delivered[n] \subseteq delivered'[n]

\* With the history the set of good announcements grows.
LEMMA GoodGrows ==
    ASSUME Grows
    PROVE  Good \subseteq Good'
<1> SUFFICES ASSUME NEW x \in Good PROVE x \in Good'
  OBVIOUS
<1>1. x.item \in Items \cup AckType
  BY DEF Good, AnnouncementType
<1>2. x.item.kind = "ack" => x.item.origin \in Nodes
  BY <1>1 DEF AckType, ItemType
<1> QED BY <1>1, <1>2 DEF Good, Accountable, Grows, AnnouncementType, AckType, ItemType

\* Queues of good announcements stay that when the history grows.
LEMMA WiderQueues ==
    ASSUME Grows,
           chan' \in [Nodes -> [Nodes -> Seq(Good)]], pending' \in [Nodes -> Seq(Good)],
           sending' \in [Nodes -> Seq(Good)]
    PROVE  QueuesGood'
<1>1. Seq(Good) \subseteq Seq(Good')
  BY GoodGrows, SeqMonotonic
<1> QED BY <1>1 DEF QueuesGood

\* A step that leaves history, handlers and registries alone has only its queues
\* and counters to answer for.
LEMMA QuietStep ==
    ASSUME IInv, UNCHANGED <<caches, history, handled>>,
           chan' \in [Nodes -> [Nodes -> Seq(Good)]], pending' \in [Nodes -> Seq(Good)],
           sending' \in [Nodes -> Seq(Good)],
           peers' \in [Nodes -> SUBSET Nodes], timer' \in [Nodes -> {"off", "set", "fired"}],
           stops' \in 0..MaxStops, drops' \in 0..MaxDrops
    PROVE  IInv'
<1> USE DEF caches, history, handled
<1>1. Grows
  BY DEF Grows
<1>2. QueuesGood'
  BY <1>1, WiderQueues
<1>3. OtherTypes'
  BY DEF IInv, OtherTypes
<1>4. Earned' /\ AckMeansDelivered'
  BY DEF IInv, Earned, AckMeansDelivered
<1>5. HeadsAnnounced'
  BY DEF IInv, HeadsAnnounced
<1> QED BY <1>2, <1>3, <1>4, <1>5 DEF IInv

\* What is shuffled: r has the elements of s and t, each from another place.
ShuffledBy(f, s, t, r) ==
    /\ f \in [1..(Len(s) + Len(t)) -> ({1} \X DOMAIN s) \cup ({2} \X DOMAIN t)]
    /\ DOMAIN r = 1..(Len(s) + Len(t))
    /\ \A k \in DOMAIN r : r[k] = IF f[k][1] = 1 THEN s[f[k][2]] ELSE t[f[k][2]]
    /\ \A j, k \in DOMAIN r : f[j] = f[k] => j = k

LEMMA ShuffleFrom ==
    ASSUME NEW S, NEW s \in Seq(S), NEW t \in Seq(S), NEW r \in Shuffles(s, t)
    PROVE  r \in Seq(S) /\ \E f : ShuffledBy(f, s, t, r)
<1> DEFINE all == 1..(Len(s) + Len(t))
<1>0. Len(s) \in Nat /\ Len(t) \in Nat /\ DOMAIN s = 1..Len(s) /\ DOMAIN t = 1..Len(t)
  OBVIOUS
<1>1. PICK f \in [all -> ({1} \X DOMAIN s) \cup ({2} \X DOMAIN t)] :
         /\ \A j, k \in all : f[j][1] = f[k][1] => (j < k <=> f[j][2] < f[k][2])
         /\ r = [k \in all |-> IF f[k][1] = 1 THEN s[f[k][2]] ELSE t[f[k][2]]]
  BY Zenon DEF Shuffles
<1>2. DOMAIN r = all /\ \A k \in all : r[k] = IF f[k][1] = 1 THEN s[f[k][2]] ELSE t[f[k][2]]
  BY <1>1
<1>3. ASSUME NEW k \in all PROVE r[k] \in S
  <2>1. f[k] \in ({1} \X DOMAIN s) \cup ({2} \X DOMAIN t)
    BY <1>1
  <2>2. CASE f[k] \in {1} \X DOMAIN s
    BY <1>0, <1>2, <2>2
  <2>3. CASE f[k] \in {2} \X DOMAIN t
    BY <1>0, <1>2, <2>3
  <2> QED BY <2>1, <2>2, <2>3
<1>4. r \in Seq(S)
  <2>1. r \in [1..(Len(s) + Len(t)) -> S]
    BY <1>1, <1>2, <1>3
  <2>2. Len(s) + Len(t) \in Nat
    BY <1>0
  <2> HIDE DEF all
  <2> QED BY <2>1, <2>2, SeqDef
<1>5. ASSUME NEW j \in all, NEW k \in all, f[j] = f[k] PROVE j = k
  <2>1. j \in Int /\ k \in Int /\ f[j][1] = f[k][1] /\ f[j][2] = f[k][2]
    BY <1>0, <1>5
  <2>2. f[j][2] \in Int
    BY <1>0, <1>1
  <2>3. (j < k <=> f[j][2] < f[k][2]) /\ (k < j <=> f[k][2] < f[j][2])
    BY <1>1, <2>1
  <2>4. ~(j < k) /\ ~(k < j)
    BY <2>1, <2>2, <2>3
  <2> QED BY <2>1, <2>4
<1> QED BY <1>1, <1>2, <1>4, <1>5 DEF ShuffledBy

\* One sequence after the other is one way to shuffle them.
LEMMA ConcatShuffles ==
    ASSUME NEW S, NEW s \in Seq(S), NEW t \in Seq(S)
    PROVE  s \o t \in Shuffles(s, t)
<1> DEFINE all == 1..(Len(s) + Len(t))
           f == [k \in all |-> IF k <= Len(s) THEN <<1, k>> ELSE <<2, k - Len(s)>>]
<1>0. Len(s) \in Nat /\ Len(t) \in Nat /\ DOMAIN s = 1..Len(s) /\ DOMAIN t = 1..Len(t)
  OBVIOUS
<1>1. /\ \A k \in all : f[k] = IF k <= Len(s) THEN <<1, k>> ELSE <<2, k - Len(s)>>
      /\ \A k \in all : k <= Len(s) => f[k][1] = 1 /\ f[k][2] = k
      /\ \A k \in all : ~(k <= Len(s)) => f[k][1] = 2 /\ f[k][2] = k - Len(s)
  OBVIOUS
<1>2. f \in [all -> ({1} \X DOMAIN s) \cup ({2} \X DOMAIN t)]
  <2>1. ASSUME NEW k \in all PROVE f[k] \in ({1} \X DOMAIN s) \cup ({2} \X DOMAIN t)
    BY <1>0, <1>1
  <2>2. f = [k \in all |-> f[k]]
    OBVIOUS
  <2> HIDE DEF f
  <2> QED BY <2>1, <2>2
<1> HIDE DEF f
<1>3. ASSUME NEW j \in all, NEW k \in all, f[j][1] = f[k][1]
      PROVE  j < k <=> f[j][2] < f[k][2]
  <2>1. j \in Nat /\ k \in Nat
    OBVIOUS
  <2>2. CASE j <= Len(s)
    <3>1. f[j][2] = j /\ f[k][1] = 1
      BY <1>1, <1>3, <2>2
    <3>2. k <= Len(s)
      BY <1>1, <3>1
    <3>3. f[k][2] = k
      BY <1>1, <3>2
    <3> QED BY <3>1, <3>3
  <2>3. CASE ~(j <= Len(s))
    <3>1. f[j][2] = j - Len(s) /\ f[k][1] = 2
      BY <1>1, <1>3, <2>3
    <3>2. ~(k <= Len(s))
      BY <1>1, <3>1
    <3>3. f[k][2] = k - Len(s)
      BY <1>1, <3>2
    <3>4. j < k <=> j - Len(s) < k - Len(s)
      BY <1>0, <2>1
    <3> QED BY <3>1, <3>3, <3>4
  <2> QED BY <2>2, <2>3
<1>4. /\ DOMAIN (s \o t) = all
      /\ s \o t = [k \in all |-> (s \o t)[k]]
      /\ \A k \in all : (s \o t)[k] = IF k <= Len(s) THEN s[k] ELSE t[k - Len(s)]
  <2>1. s \o t \in Seq(S) /\ Len(s \o t) = Len(s) + Len(t)
    BY ConcatProperties
  <2>2. DOMAIN (s \o t) = 1..Len(s \o t) /\ s \o t = [k \in DOMAIN (s \o t) |-> (s \o t)[k]]
    BY <2>1, LenProperties, SeqDef
  <2>3. \A k \in all : (s \o t)[k] = IF k <= Len(s) THEN s[k] ELSE t[k - Len(s)]
    BY ConcatProperties
  <2> QED BY <2>1, <2>2, <2>3
<1>5. ASSUME NEW k \in all
      PROVE  (s \o t)[k] = IF f[k][1] = 1 THEN s[f[k][2]] ELSE t[f[k][2]]
  <2>1. CASE k <= Len(s)
    <3>1. f[k][1] = 1 /\ f[k][2] = k
      BY <1>1, <2>1
    <3> QED BY <1>4, <2>1, <3>1
  <2>2. CASE ~(k <= Len(s))
    <3>1. f[k][1] = 2 /\ f[k][2] = k - Len(s)
      BY <1>1, <2>2
    <3> QED BY <1>4, <2>2, <3>1
  <2> QED BY <2>1, <2>2
<1>6. s \o t = [k \in all |-> IF f[k][1] = 1 THEN s[f[k][2]] ELSE t[f[k][2]]]
  BY <1>4, <1>5
<1> QED BY <1>2, <1>3, <1>6, Zenon DEF Shuffles

\* batchFlush drops the queue or shuffles it with what is being sent.
LEMMA BatchTaken ==
    ASSUME NEW S, pending \in [Nodes -> Seq(S)], sending \in [Nodes -> Seq(S)],
           NEW n \in Nodes, TakeBatch(n)
    PROVE  /\ pending' = [pending EXCEPT ![n] = <<>>]
           /\ \/ peers[n] = {} /\ sending' = sending
              \/ /\ peers[n] # {}
                 /\ \E s \in Shuffles(sending[n], pending[n]) : sending' = [sending EXCEPT ![n] = s]
<1>1. sending[n] \o pending[n] \in Shuffles(sending[n], pending[n])
  BY ConcatShuffles
<1> QED BY <1>1 DEF TakeBatch

\* batchFlush takes good announcements from one queue to the other.
LEMMA BatchGood ==
    ASSUME IInv, NEW n \in Nodes, TakeBatch(n)
    PROVE  pending' \in [Nodes -> Seq(Good)] /\ sending' \in [Nodes -> Seq(Good)]
<1>1. pending \in [Nodes -> Seq(Good)] /\ sending \in [Nodes -> Seq(Good)]
  BY DEF IInv, QueuesGood
<1>2. \A s \in Shuffles(sending[n], pending[n]) : s \in Seq(Good)
  BY <1>1, ShuffleFrom
<1>3. pending' \in [Nodes -> Seq(Good)]
  BY <1>1, EmptySeq DEF TakeBatch
<1>4. sending' \in [Nodes -> Seq(Good)]
  BY <1>1, <1>2, BatchTaken
<1> QED BY <1>3, <1>4

\* The steps of sending, of the timer and of the connections.
LEMMA SendingSteps ==
    ASSUME IInv, NEW n \in Nodes,
           Start(n) \/ Stop(n) \/ FlushAnnouncements(n) \/ TimerFires(n)
              \/ ScheduleBatchTimer(n) \/ SendNext(n)
    PROVE  IInv'
<1> USE DEF queues, limits
<1>1. /\ chan \in [Nodes -> [Nodes -> Seq(Good)]]
      /\ pending \in [Nodes -> Seq(Good)] /\ sending \in [Nodes -> Seq(Good)]
      /\ peers \in [Nodes -> SUBSET Nodes] /\ timer \in [Nodes -> {"off", "set", "fired"}]
      /\ stops \in 0..MaxStops /\ drops \in 0..MaxDrops
  BY DEF IInv, QueuesGood, OtherTypes
<1>2. CASE Start(n) \/ ScheduleBatchTimer(n)
  <2>1. timer' \in [Nodes -> {"off", "set", "fired"}]
    BY <1>1, <1>2 DEF Start, ScheduleBatchTimer
  <2> QED BY <1>1, <1>2, <2>1, QuietStep DEF Start, ScheduleBatchTimer
<1>3. CASE FlushAnnouncements(n)
  BY <1>1, <1>3, BatchGood, QuietStep DEF FlushAnnouncements
<1>4. CASE TimerFires(n)
  <2>1. timer' \in [Nodes -> {"off", "set", "fired"}]
    BY <1>1, <1>4 DEF TimerFires
  <2> QED BY <1>1, <1>4, <2>1, BatchGood, QuietStep DEF TimerFires
<1>5. CASE Stop(n)
  <2>1. timer' \in [Nodes -> {"off", "set", "fired"}] /\ stops' \in 0..MaxStops
    BY <1>1, <1>5 DEF Stop
  <2> QED BY <1>1, <1>5, <2>1, BatchGood, QuietStep DEF Stop
<1>6. CASE SendNext(n)
  <2>1. Head(sending[n]) \in Good /\ Tail(sending[n]) \in Seq(Good)
    BY <1>1, <1>6, HeadTailProperties DEF SendNext
  <2>2. PICK T : chan' = Sent(chan, n, T, Head(sending[n]))
    BY <1>6 DEF SendNext
  <2>3. chan' \in [Nodes -> [Nodes -> Seq(Good)]]
    BY <1>1, <2>1, <2>2, SentIn
  <2>4. sending' \in [Nodes -> Seq(Good)]
    BY <1>1, <1>6, <2>1 DEF SendNext
  <2> QED BY <1>1, <1>6, <2>3, <2>4, QuietStep DEF SendNext
<1> QED BY <1>2, <1>3, <1>4, <1>5, <1>6

\* Losing a connection, and making one.
LEMMA ConnectionSteps ==
    ASSUME IInv, NEW m \in Nodes, NEW n \in Nodes, Disconnect(m, n) \/ Connect(m, n)
    PROVE  IInv'
<1> USE DEF queues, limits
<1>1. /\ chan \in [Nodes -> [Nodes -> Seq(Good)]]
      /\ pending \in [Nodes -> Seq(Good)] /\ sending \in [Nodes -> Seq(Good)]
      /\ peers \in [Nodes -> SUBSET Nodes] /\ timer \in [Nodes -> {"off", "set", "fired"}]
      /\ stops \in 0..MaxStops /\ drops \in 0..MaxDrops
  BY DEF IInv, QueuesGood, OtherTypes
<1>2. CASE Disconnect(m, n)
  <2>1. <<>> \in Seq(Good)
    BY EmptySeq
  <2>2. chan' \in [Nodes -> [Nodes -> Seq(Good)]]
    BY <1>1, <1>2, <2>1 DEF Disconnect
  <2>3. peers' \in [Nodes -> SUBSET Nodes] /\ drops' \in 0..MaxDrops
    BY <1>1, <1>2 DEF Disconnect
  <2> QED BY <1>1, <1>2, <2>2, <2>3, QuietStep DEF Disconnect
<1>3. CASE Connect(m, n)
  <2>1. peers' \in [Nodes -> SUBSET Nodes]
    BY <1>1, <1>3 DEF Connect
  <2> QED BY <1>1, <1>3, <2>1, QuietStep DEF Connect
<1> QED BY <1>2, <1>3

\* Tables of nodes and keys keep their type when an entry is changed.
LEMMA TableType ==
    ASSUME NEW V, NEW n \in Nodes, NEW k \in Keys, NEW v \in V
    PROVE  /\ \A h \in [Nodes -> [Keys -> V]] :
                 [h EXCEPT ![n][k] = v] \in [Nodes -> [Keys -> V]]
           /\ \A h \in [Keys -> V] : [h EXCEPT ![k] = v] \in [Keys -> V]
OBVIOUS

\* Announcing an item.
LEMMA AnnounceSteps ==
    ASSUME IInv, NEW i \in Items, AnnounceAny(i)
    PROVE  IInv'
<1> USE DEF handled, limits
<1>1. i.kind # "ack" /\ i.origin \in Nodes /\ i.name \in Names \cup {Nothing} /\ i.key \in Keys
  BY DEF ItemType, Keys
<1>2. /\ announced' = announced \cup {i}
      /\ pending' = [pending EXCEPT ![i.origin] = Append(@, Announcement(i))]
      /\ UNCHANGED <<peers, chan, sending, timer, pools, heard, delivered, acked, acks, stops, drops>>
  BY DEF AnnounceAny, AnnounceBlock, AnnounceMessage, AnnounceHeadUpdate, AnnouncePool,
         AnnounceBrightTrust, AnnounceIndex, Announce, QueueAnnouncement
<1>3. \/ UNCHANGED <<heads, latest>>
      \/ /\ i.kind = "head_update"
         /\ heads' = [heads EXCEPT ![i.origin][i.key] = i.name]
         /\ latest' = [latest EXCEPT ![i.key] = i.name]
  BY DEF AnnounceAny, AnnounceBlock, AnnounceMessage, AnnounceHeadUpdate, AnnouncePool,
         AnnounceBrightTrust, AnnounceIndex, Announce
<1>4. Grows
  BY <1>2 DEF Grows
<1>5. Seq(Good) \subseteq Seq(Good')
  BY <1>4, GoodGrows, SeqMonotonic
<1>6. Announcement(i) \in Good'
  <2>1. TtlOf(i) \in Nat
    BY TtlIsNat
  <2> QED BY <1>1, <1>2, <2>1 DEF Announcement, AnnouncementType, Good, Accountable
<1>7. QueuesGood'
  <2>1. pending \in [Nodes -> Seq(Good')]
    BY <1>5 DEF IInv, QueuesGood
  <2>2. Append(pending[i.origin], Announcement(i)) \in Seq(Good')
    BY <1>1, <1>6, <2>1, AppendProperties
  <2> QED BY <1>1, <1>2, <1>5, <2>1, <2>2 DEF IInv, QueuesGood
<1>8. OtherTypes'
  <2>0. heads \in [Nodes -> [Keys -> Names \cup {Nothing}]] /\ latest \in [Keys -> Names \cup {Nothing}]
    BY DEF IInv, OtherTypes
  <2>1. heads' \in [Nodes -> [Keys -> Names \cup {Nothing}]] /\ latest' \in [Keys -> Names \cup {Nothing}]
    <3>1. [heads EXCEPT ![i.origin][i.key] = i.name] \in [Nodes -> [Keys -> Names \cup {Nothing}]]
      BY <1>1, <2>0, TableType
    <3>2. [latest EXCEPT ![i.key] = i.name] \in [Keys -> Names \cup {Nothing}]
      BY <1>1, <2>0, TableType
    <3> QED BY <1>3, <2>0, <3>1, <3>2
  <2>2. announced' \subseteq Items
    BY <1>2 DEF IInv, OtherTypes
  <2> QED BY <1>2, <2>1, <2>2 DEF IInv, OtherTypes
<1>9. Earned' /\ AckMeansDelivered'
  BY <1>2 DEF IInv, Earned, AckMeansDelivered
<1>10. HeadsAnnounced'
  <2> SUFFICES ASSUME NEW n \in Nodes, NEW k \in Keys, heads'[n][k] # Nothing
               PROVE  \E x \in announced' :
                          /\ x.kind = "head_update" /\ x.key = k /\ x.name = heads'[n][k]
                          /\ x.proof \notin {"bad", "malformed"} \/ x.origin = n
    BY DEF HeadsAnnounced
  <2>1. CASE heads'[n][k] = heads[n][k]
    BY <1>2, <2>1 DEF IInv, HeadsAnnounced
  <2>2. CASE heads'[n][k] # heads[n][k]
    <3>1. n = i.origin /\ k = i.key /\ heads'[n][k] = i.name /\ i.kind = "head_update"
      BY <1>1, <1>3, <2>2 DEF IInv, OtherTypes
    <3> QED BY <1>2, <3>1
  <2> QED BY <2>1, <2>2
<1> QED BY <1>7, <1>8, <1>9, <1>10 DEF IInv

-----------------------------------------------------------------------------
(***************************************************************************)
(* Receiving.                                                              *)
(***************************************************************************)

\* What a handler is given: a good announcement and the good connections it was
\* taken from.
Given(n, x, ch) ==
    IInv /\ n \in Nodes /\ x \in Good /\ ch \in [Nodes -> [Nodes -> Seq(Good)]]

Rest == <<peers, sending, timer, history, limits>>

\* Handlers that queue and acknowledge nothing have only the registries, the
\* caches and the acks they were told of to answer for.
LEMMA HandlerStep ==
    ASSUME NEW n, NEW x, NEW ch, Given(n, x, ch),
           UNCHANGED Rest, UNCHANGED <<pending, delivered, acked>>,
           heard' = [heard EXCEPT ![n] = @ \cup {x.item}],
           chan' \in [Nodes -> [Nodes -> Seq(Good)]],
           heads' \in [Nodes -> [Keys -> Names \cup {Nothing}]],
           pools' \in [Nodes -> [Keys -> Nodes \cup {Nothing}]],
           acks' \in [Nodes -> SUBSET AckType],
           HeadsAnnounced', AckMeansDelivered'
    PROVE  IInv'
<1> USE DEF Rest, history, limits
<1>1. Grows
  BY DEF Grows
<1>2. QueuesGood'
  <2>1. pending \in [Nodes -> Seq(Good)] /\ sending \in [Nodes -> Seq(Good)]
    BY DEF Given, IInv, QueuesGood
  <2> QED BY <1>1, <2>1, WiderQueues
<1>3. heard' \in [Nodes -> SUBSET (Items \cup AckType)]
  <2>1. x.item \in Items \cup AckType
    BY DEF Given, Good, AnnouncementType
  <2> QED BY <2>1 DEF Given, IInv, OtherTypes
<1>4. OtherTypes'
  BY <1>3 DEF Given, IInv, OtherTypes
<1>5. Earned'
  BY DEF Given, IInv, Earned
<1> QED BY <1>2, <1>4, <1>5 DEF IInv

\* Messages: what is acknowledged has just been delivered.
LEMMA MessageStep ==
    ASSUME NEW n, NEW x, NEW ch, Given(n, x, ch), UNCHANGED Rest,
           heard' = [heard EXCEPT ![n] = @ \cup {x.item}], HandleMessage(n, x, ch)
    PROVE  IInv'
<1> DEFINE i == x.item
           ack == DeliveryAck(n, AckedRecipient(n, i), i)
<1>0. /\ n \in Nodes /\ IInv /\ x \in Good
      /\ ch \in [Nodes -> [Nodes -> Seq(Good)]] /\ OtherTypes /\ HeadsAnnounced
      /\ AckMeansDelivered /\ heads \in [Nodes -> [Keys -> Names \cup {Nothing}]]
      /\ pools \in [Nodes -> [Keys -> Nodes \cup {Nothing}]]
      /\ acks \in [Nodes -> SUBSET AckType]
  BY DEF Given, IInv, OtherTypes
<1>1. CASE Local(n, i) = {}
  <2>1. /\ ForwardAnnouncement(n, x, ch)
        /\ UNCHANGED <<pending, delivered, acked, heads, pools, acks>>
    BY <1>1 DEF HandleMessage, caches
  <2>2. chan' \in [Nodes -> [Nodes -> Seq(Good)]]
    BY <1>0, <2>1, ForwardGood
  <2>3. HeadsAnnounced' /\ AckMeansDelivered'
    BY <1>0, <2>1 DEF HeadsAnnounced, AckMeansDelivered, Rest, history
  <2> QED BY <1>0, <2>1, <2>2, <2>3, HandlerStep
<1>2. CASE Local(n, i) # {}
  <2>1. /\ chan' = ch
        /\ i.kind = "message"
        /\ delivered' = [delivered EXCEPT ![n] = @ \cup {i}]
        /\ UNCHANGED <<heads, pools, acks>>
        /\ \/ UNCHANGED <<pending, acked>>
           \/ QueueAnnouncement(n, ack) /\ acked' = [acked EXCEPT ![n] = @ \cup {ack}]
    BY <1>2 DEF HandleMessage, caches
  <2>2. i \in Items /\ i \in ItemType /\ i \in Items \cup AckType
    BY <1>0, <2>1 DEF Good, AnnouncementType, AckType
  <2>3. PICK j \in Local(n, i) : AckedRecipient(n, i) = i.recipients[j]
    <3>0. Local(n, i) \subseteq Nat
      BY <2>2, LenProperties DEF Local, ItemType
    <3>1. \E k \in Local(n, i) : \A l \in Local(n, i) : k <= l
      BY <1>2, <3>0, LeastExists
    <3> QED BY <3>1 DEF AckedRecipient
  <2>4. ack \in AckType /\ ack.origin = n /\ ack.kind = "ack" /\ AckFor(n, ack, i)
    <3>1. i.recipients[j] \in Users
      BY <2>2, <2>3, ElementOfSeq, LenProperties DEF Local, ItemType
    <3>2. ack.recipients = <<i.recipients[j]>> /\ ack.recipients \in Seq(Users)
      BY <2>3, <3>1 DEF DeliveryAck
    <3>3. ack \in ItemType
      BY <1>0, <2>2, <3>2 DEF DeliveryAck, ItemType, Kinds, Proofs
    <3> QED BY <2>3, <3>2, <3>3 DEF DeliveryAck, AckType, AckFor
  <2>5. Grows
    BY <1>0, <2>1 DEF Grows, OtherTypes, Rest, history
  <2>6. Seq(Good) \subseteq Seq(Good')
    BY <2>5, GoodGrows, SeqMonotonic
  <2>7. pending' \in [Nodes -> Seq(Good')]
    <3>1. pending \in [Nodes -> Seq(Good')]
      BY <1>0, <2>6 DEF IInv, QueuesGood
    <3>2. CASE UNCHANGED pending
      BY <3>1, <3>2
    <3>3. CASE QueueAnnouncement(n, ack) /\ acked' = [acked EXCEPT ![n] = @ \cup {ack}]
      <4>1. ack \in acked'[n]
        BY <1>0, <3>3 DEF OtherTypes
      <4>2. Announcement(ack) \in Good'
        <5>1. TtlOf(ack) \in Nat
          BY TtlIsNat
        <5> QED BY <2>4, <4>1, <5>1 DEF Announcement, AnnouncementType, Good, Accountable
      <4>3. Append(pending[n], Announcement(ack)) \in Seq(Good')
        BY <1>0, <3>1, <4>2, AppendProperties
      <4> QED BY <3>1, <3>3, <4>3 DEF QueueAnnouncement
    <3> QED BY <2>1, <3>2, <3>3
  <2>8. QueuesGood'
    BY <1>0, <2>1, <2>6, <2>7 DEF IInv, QueuesGood, Rest
  <2>9. OtherTypes'
    <3>1. heard' \in [Nodes -> SUBSET (Items \cup AckType)]
      BY <1>0, <2>2 DEF OtherTypes
    <3>2. delivered' \in [Nodes -> SUBSET Items]
      BY <1>0, <2>1, <2>2 DEF OtherTypes
    <3>3. acked' \in [Nodes -> SUBSET AckType]
      <4>1. acked \in [Nodes -> SUBSET AckType]
        BY <1>0 DEF OtherTypes
      <4>2. acked[n] \cup {ack} \in SUBSET AckType
        BY <1>0, <2>4, <4>1
      <4> HIDE DEF ack
      <4>3. [acked EXCEPT ![n] = @ \cup {ack}] \in [Nodes -> SUBSET AckType]
        BY <1>0, <4>1, <4>2
      <4> QED BY <2>1, <4>1, <4>3
    <3>4. UNCHANGED <<peers, timer, announced, latest, stops, drops>>
      BY DEF Rest, history, limits
    <3> QED BY <1>0, <2>1, <3>1, <3>2, <3>3, <3>4 DEF OtherTypes
  <2>10. Earned'
    <3> SUFFICES ASSUME NEW p \in Nodes, NEW k \in acked'[p]
                 PROVE  \E y \in delivered'[p] : AckFor(p, k, y)
      BY DEF Earned
    <3>1. CASE k \in acked[p]
      <4>1. PICK y \in delivered[p] : AckFor(p, k, y)
        BY <1>0, <3>1 DEF IInv, Earned
      <4> QED BY <2>5, <4>1 DEF Grows
    <3>2. CASE k \notin acked[p]
      <4>1. p = n /\ k = ack
        BY <1>0, <2>1, <3>2 DEF OtherTypes
      <4>2. i \in delivered'[n]
        BY <1>0, <2>1 DEF OtherTypes
      <4> QED BY <2>4, <4>1, <4>2
    <3> QED BY <3>1, <3>2
  <2>11. AckMeansDelivered'
    <3> SUFFICES ASSUME NEW p \in Nodes, NEW k \in acks[p]
                 PROVE  \E y \in delivered'[k.origin] : AckFor(k.origin, k, y)
      BY <2>1 DEF AckMeansDelivered
    <3>1. k.origin \in Nodes
      BY <1>0 DEF AckType, ItemType
    <3>2. PICK y \in delivered[k.origin] : AckFor(k.origin, k, y)
      BY <1>0 DEF AckMeansDelivered
    <3> QED BY <2>5, <3>1, <3>2 DEF Grows
  <2>12. HeadsAnnounced'
    BY <1>0, <2>1 DEF HeadsAnnounced, Rest, history
  <2> QED BY <2>8, <2>9, <2>10, <2>11, <2>12 DEF IInv
<1> QED BY <1>1, <1>2

\* Acks: who is told of one is told of one that was queued.
LEMMA AckStep ==
    ASSUME NEW n, NEW x, NEW ch, Given(n, x, ch), UNCHANGED Rest,
           heard' = [heard EXCEPT ![n] = @ \cup {x.item}], HandleAck(n, x, ch)
    PROVE  IInv'
<1>0. /\ n \in Nodes /\ IInv /\ x \in Good
      /\ ch \in [Nodes -> [Nodes -> Seq(Good)]] /\ HeadsAnnounced /\ AckMeansDelivered
      /\ heads \in [Nodes -> [Keys -> Names \cup {Nothing}]]
      /\ pools \in [Nodes -> [Keys -> Nodes \cup {Nothing}]]
      /\ acks \in [Nodes -> SUBSET AckType]
  BY DEF Given, IInv, OtherTypes
<1>1. /\ x.item.kind = "ack" /\ ForwardAnnouncement(n, x, ch)
      /\ acks' = [acks EXCEPT ![n] = @ \cup {x.item}]
      /\ UNCHANGED <<pending, heads, pools, delivered, acked>>
  BY DEF HandleAck, caches
<1>2. chan' \in [Nodes -> [Nodes -> Seq(Good)]]
  BY <1>0, <1>1, ForwardGood
<1>3. x.item \in AckType /\ x.item.origin \in Nodes /\ x.item \in acked[x.item.origin]
  BY <1>0, <1>1 DEF Good, AnnouncementType, Accountable, AckType, ItemType
<1>4. acks' \in [Nodes -> SUBSET AckType]
  BY <1>0, <1>1, <1>3
<1>5. AckMeansDelivered'
  <2> SUFFICES ASSUME NEW p \in Nodes, NEW k \in acks'[p]
               PROVE  \E y \in delivered[k.origin] : AckFor(k.origin, k, y)
    BY <1>1 DEF AckMeansDelivered
  <2>1. CASE k \in acks[p]
    BY <1>0, <2>1 DEF AckMeansDelivered
  <2>2. CASE k \notin acks[p]
    <3>1. k = x.item
      BY <1>0, <1>1, <2>2
    <3> QED BY <1>0, <1>3, <3>1 DEF IInv, Earned
  <2> QED BY <2>1, <2>2
<1>6. HeadsAnnounced'
  BY <1>0, <1>1 DEF HeadsAnnounced, Rest, history
<1> QED BY <1>0, <1>1, <1>2, <1>4, <1>5, <1>6, HandlerStep

\* Head updates: what is applied was announced and verifies.
LEMMA HeadStep ==
    ASSUME NEW n, NEW x, NEW ch, Given(n, x, ch), UNCHANGED Rest,
           heard' = [heard EXCEPT ![n] = @ \cup {x.item}], HandleHeadUpdate(n, x, ch)
    PROVE  IInv'
<1> DEFINE i == x.item
<1>0. /\ n \in Nodes /\ IInv /\ x \in Good
      /\ ch \in [Nodes -> [Nodes -> Seq(Good)]] /\ HeadsAnnounced /\ AckMeansDelivered
      /\ heads \in [Nodes -> [Keys -> Names \cup {Nothing}]]
      /\ pools \in [Nodes -> [Keys -> Nodes \cup {Nothing}]]
      /\ acks \in [Nodes -> SUBSET AckType]
  BY DEF Given, IInv, OtherTypes
<1>1. /\ i.kind = "head_update"
      /\ ForwardAnnouncement(n, x, ch) \/ chan' = ch
      /\ UNCHANGED <<pending, pools, delivered, acked, acks>>
      /\ \/ UNCHANGED heads
         \/ Verifies(i) /\ heads' = [heads EXCEPT ![n][i.key] = i.name]
  BY DEF HandleHeadUpdate
<1>2. chan' \in [Nodes -> [Nodes -> Seq(Good)]]
  BY <1>0, <1>1, ForwardGood
<1>3. i \in announced /\ i \in Items
  BY <1>0, <1>1 DEF Good, AnnouncementType, Accountable, AckType
<1>4. i.key \in Keys /\ i.name \in Names \cup {Nothing}
  BY <1>3 DEF ItemType, Keys
<1>5. heads' \in [Nodes -> [Keys -> Names \cup {Nothing}]]
  <2>1. [heads EXCEPT ![n][i.key] = i.name] \in [Nodes -> [Keys -> Names \cup {Nothing}]]
    BY <1>0, <1>4, TableType
  <2> QED BY <1>0, <1>1, <2>1
<1>6. HeadsAnnounced'
  <2> SUFFICES ASSUME NEW p \in Nodes, NEW k \in Keys, heads'[p][k] # Nothing
               PROVE  \E y \in announced :
                          /\ y.kind = "head_update" /\ y.key = k /\ y.name = heads'[p][k]
                          /\ y.proof \notin {"bad", "malformed"} \/ y.origin = p
    BY DEF HeadsAnnounced, Rest, history
  <2>1. CASE heads'[p][k] = heads[p][k]
    BY <1>0, <2>1 DEF HeadsAnnounced
  <2>2. CASE heads'[p][k] # heads[p][k]
    <3>1. p = n /\ k = i.key /\ heads'[p][k] = i.name /\ Verifies(i)
      BY <1>0, <1>1, <1>4, <2>2
    <3> QED BY <1>1, <1>3, <3>1 DEF Verifies
  <2> QED BY <2>1, <2>2
<1>7. AckMeansDelivered'
  BY <1>0, <1>1 DEF AckMeansDelivered
<1> QED BY <1>0, <1>1, <1>2, <1>5, <1>6, <1>7, HandlerStep

\* Pools and the types that only reach handlers.
LEMMA OtherStep ==
    ASSUME NEW n, NEW x, NEW ch, Given(n, x, ch), UNCHANGED Rest,
           heard' = [heard EXCEPT ![n] = @ \cup {x.item}],
           HandlePool(n, x, ch) \/ HandleOther(n, x, ch)
    PROVE  IInv'
<1> DEFINE i == x.item
<1>0. /\ n \in Nodes /\ IInv /\ x \in Good
      /\ ch \in [Nodes -> [Nodes -> Seq(Good)]] /\ HeadsAnnounced /\ AckMeansDelivered
      /\ heads \in [Nodes -> [Keys -> Names \cup {Nothing}]]
      /\ pools \in [Nodes -> [Keys -> Nodes \cup {Nothing}]]
      /\ acks \in [Nodes -> SUBSET AckType]
  BY DEF Given, IInv, OtherTypes
<1>1. /\ ForwardAnnouncement(n, x, ch)
      /\ UNCHANGED <<pending, heads, delivered, acked, acks>>
  BY DEF HandlePool, HandleOther, caches
<1>2. chan' \in [Nodes -> [Nodes -> Seq(Good)]]
  BY <1>0, <1>1, ForwardGood
<1>3. pools' \in [Nodes -> [Keys -> Nodes \cup {Nothing}]]
  <2>1. CASE HandleOther(n, x, ch)
    BY <1>0, <2>1 DEF HandleOther, caches
  <2>2. CASE HandlePool(n, x, ch)
    <3>1. i \in Items
      BY <1>0, <2>2 DEF Good, AnnouncementType, AckType, HandlePool
    <3>2. i.key \in Keys /\ i.origin \in Nodes
      BY <3>1 DEF ItemType, Keys
    <3>3. \A v \in Nodes \cup {Nothing} :
             [pools EXCEPT ![n][i.key] = v] \in [Nodes -> [Keys -> Nodes \cup {Nothing}]]
      BY <1>0, <3>2, TableType
    <3>4. PICK v \in Nodes \cup {Nothing} : pools' = [pools EXCEPT ![n][i.key] = v]
      BY <2>2, <3>2 DEF HandlePool
    <3> QED BY <3>3, <3>4
  <2> QED BY <2>1, <2>2
<1>4. HeadsAnnounced' /\ AckMeansDelivered'
  BY <1>0, <1>1 DEF HeadsAnnounced, AckMeansDelivered, Rest, history
<1> QED BY <1>0, <1>1, <1>2, <1>3, <1>4, HandlerStep

\* The read loop.
LEMMA ReceiveStep ==
    ASSUME IInv, NEW m \in Nodes, NEW n \in Nodes, Receive(m, n)
    PROVE  IInv'
<1> DEFINE x == Head(chan[m][n])
           ch == [chan EXCEPT ![m][n] = Tail(@)]
<1>1. x \in Good /\ ch \in [Nodes -> [Nodes -> Seq(Good)]]
  BY ReadIn DEF IInv, QueuesGood, Receive
<1>2. Given(n, x, ch) /\ UNCHANGED Rest
  BY <1>1 DEF Given, Receive, Rest
<1>3. CASE HandleAnnouncement(n, x, ch)
  BY <1>2, <1>3, MessageStep, AckStep, HeadStep, OtherStep DEF HandleAnnouncement
<1>4. CASE chan' = ch /\ UNCHANGED <<pending, caches, handled>>
  <2>1. /\ pending' \in [Nodes -> Seq(Good)] /\ sending' \in [Nodes -> Seq(Good)]
        /\ peers' \in [Nodes -> SUBSET Nodes] /\ timer' \in [Nodes -> {"off", "set", "fired"}]
        /\ stops' \in 0..MaxStops /\ drops' \in 0..MaxDrops
    BY <1>2, <1>4 DEF IInv, QueuesGood, OtherTypes, Rest, limits
  <2> QED BY <1>1, <1>2, <1>4, <2>1, QuietStep DEF Rest
<1> QED BY <1>3, <1>4 DEF Receive

-----------------------------------------------------------------------------
\* At the start there is nothing to account for.
LEMMA GossipInit ==
    ASSUME Init
    PROVE  IInv
<1>1. <<>> \in Seq(Good)
  BY EmptySeq
<1>2. QueuesGood
  BY <1>1 DEF Init, QueuesGood
<1>3. OtherTypes
  <2>1. /\ peers \in [Nodes -> SUBSET Nodes] /\ timer \in [Nodes -> {"off", "set", "fired"}]
        /\ pools \in [Nodes -> [Keys -> Nodes \cup {Nothing}]]
        /\ announced \subseteq Items /\ stops \in 0..MaxStops /\ drops \in 0..MaxDrops
    BY DEF Init
  <2>2. heads \in [Nodes -> [Keys -> Names \cup {Nothing}]] /\ latest \in [Keys -> Names \cup {Nothing}]
    BY DEF Init
  <2>3. /\ heard \in [Nodes -> SUBSET (Items \cup AckType)]
        /\ delivered \in [Nodes -> SUBSET Items]
        /\ acked \in [Nodes -> SUBSET AckType] /\ acks \in [Nodes -> SUBSET AckType]
    BY DEF Init
  <2> QED BY <2>1, <2>2, <2>3 DEF OtherTypes
<1>4. Earned /\ AckMeansDelivered /\ HeadsAnnounced
  BY DEF Init, Earned, AckMeansDelivered, HeadsAnnounced
<1> QED BY <1>2, <1>3, <1>4 DEF IInv

\* Every step keeps the inductive invariant.
LEMMA GossipStep == IInv /\ [Next]_vars => IInv'
<1> SUFFICES ASSUME IInv, [Next]_vars PROVE IInv'
  OBVIOUS
<1>1. CASE UNCHANGED vars
  <2>1. /\ UNCHANGED <<caches, history, handled>>
        /\ chan' \in [Nodes -> [Nodes -> Seq(Good)]] /\ pending' \in [Nodes -> Seq(Good)]
        /\ sending' \in [Nodes -> Seq(Good)] /\ peers' \in [Nodes -> SUBSET Nodes]
        /\ timer' \in [Nodes -> {"off", "set", "fired"}]
        /\ stops' \in 0..MaxStops /\ drops' \in 0..MaxDrops
    BY <1>1 DEF vars, queues, limits, IInv, QueuesGood, OtherTypes
  <2> QED BY <2>1, QuietStep
<1>2. CASE Next
  BY <1>2, AnnounceSteps, SendingSteps, ReceiveStep, ConnectionSteps DEF Next
<1> QED BY <1>1, <1>2

\* GossipInv holds of every network: an ack means a delivery at the node it
\* comes from and to the user it names, and no registry holds a head that was
\* not announced for its collection or that failed its proof (handleAnnouncement).
THEOREM GossipSafe == Spec => []GossipInv
<1>1. Init => IInv
  BY GossipInit
<1>2. IInv /\ [Next]_vars => IInv'
  BY GossipStep
<1> QED BY <1>1, <1>2, Restated, PTL DEF Spec

-----------------------------------------------------------------------------
(***************************************************************************)
(* How much traffic one announcement can cause.                            *)
(***************************************************************************)
HIDE GossipAssumption

\* Induction, for a set of numbers.
LEMMA SetInduction ==
    ASSUME NEW S, 0 \in S, \A n \in Nat : n \in S => n + 1 \in S
    PROVE  Nat \subseteq S
<1> SUFFICES ASSUME Nat \ S # {} PROVE FALSE
  OBVIOUS
<1>1. PICK x \in Nat \ S : \A y \in Nat \ S : x <= y
  BY LeastExists
<1>2. x # 0 /\ x - 1 \in Nat
  BY <1>1
<1>3. x - 1 \in Nat \ S
  BY <1>1, <1>2
<1> QED BY <1>1, <1>2, <1>3

\* The first n values of the spread.
Begins(g, n, f) == g \in [0..n -> Nat] /\ g[0] = 1 /\ \A k \in 1..n : g[k] = f * g[k - 1]

\* A product of natural numbers.
LEMMA Product ==
    ASSUME NEW a \in Nat, NEW b \in Nat
    PROVE  a * b \in Nat
OBVIOUS

\* Spread is the function its definition describes.
LEMMA SpreadDef ==
    ASSUME NEW f \in Nat
    PROVE  /\ Spread(f)[0] = 1
           /\ \A n \in Nat : Spread(f)[n] \in Nat /\ Spread(f)[n + 1] = f * Spread(f)[n]
<1>1. \A n \in Nat : \E g : Begins(g, n, f)
  <2> DEFINE E == {n \in Nat : \E g : Begins(g, n, f)}
  <2>1. 0 \in E
    <3>1. Begins([k \in 0..0 |-> 1], 0, f)
      BY DEF Begins
    <3> QED BY <3>1
  <2>2. ASSUME NEW n \in Nat, n \in E PROVE n + 1 \in E
    <3>1. PICK g : Begins(g, n, f)
      BY <2>2
    <3> DEFINE x == f * g[n]
               h == [k \in 0..(n + 1) |-> IF k = n + 1 THEN x ELSE g[k]]
    <3>2. x \in Nat /\ \A k \in 0..n : g[k] \in Nat
      BY <3>1, Product DEF Begins
    <3>3. ASSUME NEW k \in 1..(n + 1) PROVE h[k] = f * h[k - 1]
      <4>1. CASE k = n + 1
        <5>1. h[k] = x /\ h[k - 1] = g[n]
          <6> HIDE DEF x
          <6> QED BY <4>1
        <5> QED BY <5>1
      <4>2. CASE k # n + 1
        <5>1. k \in 1..n /\ h[k] = g[k] /\ h[k - 1] = g[k - 1]
          <6> HIDE DEF x
          <6> QED BY <4>2
        <5> QED BY <3>1, <5>1 DEF Begins
      <4> QED BY <4>1, <4>2
    <3>4. h \in [0..(n + 1) -> Nat] /\ h[0] = 1
      <4> HIDE DEF x
      <4> QED BY <3>1, <3>2 DEF Begins
    <3> HIDE DEF h
    <3>5. Begins(h, n + 1, f)
      BY <3>3, <3>4 DEF Begins
    <3> QED BY <3>5
  <2> HIDE DEF E
  <2>3. Nat \subseteq E
    BY <2>1, <2>2, SetInduction
  <2> QED BY <2>3 DEF E
<1>2. \A k \in Nat : \A m, n \in Nat : \A g, h :
         k <= m /\ k <= n /\ Begins(g, m, f) /\ Begins(h, n, f) => g[k] = h[k]
  <2> DEFINE E == {k \in Nat : \A m, n \in Nat : \A g, h :
                      k <= m /\ k <= n /\ Begins(g, m, f) /\ Begins(h, n, f) => g[k] = h[k]}
  <2>1. 0 \in E
    BY DEF Begins
  <2>2. ASSUME NEW k \in Nat, k \in E PROVE k + 1 \in E
    <3> SUFFICES ASSUME NEW m \in Nat, NEW n \in Nat, NEW g, NEW h,
                        k + 1 <= m, k + 1 <= n, Begins(g, m, f), Begins(h, n, f)
                 PROVE  g[k + 1] = h[k + 1]
      OBVIOUS
    <3>1. g[k] = h[k]
      BY <2>2
    <3>2. g[k + 1] = f * g[k] /\ h[k + 1] = f * h[k]
      <4>1. k + 1 \in 1..m /\ k + 1 \in 1..n /\ (k + 1) - 1 = k
        OBVIOUS
      <4> QED BY <4>1 DEF Begins
    <3> QED BY <3>1, <3>2
  <2> HIDE DEF E
  <2>3. Nat \subseteq E
    BY <2>1, <2>2, SetInduction
  <2> QED BY <2>3 DEF E
<1> DEFINE G(n) == CHOOSE g : Begins(g, n, f)
           s == [n \in Nat |-> G(n)[n]]
<1>3. \A n \in Nat : Begins(G(n), n, f)
  BY <1>1
<1> HIDE DEF G
<1>4. \A n \in Nat : s[n] = G(n)[n] /\ s[n] \in Nat
  BY <1>3 DEF Begins
<1>5. s[0] = 1
  BY <1>3, <1>4 DEF Begins
<1>6. ASSUME NEW n \in Nat PROVE s[n + 1] = f * s[n]
  <2>1. Begins(G(n), n, f) /\ Begins(G(n + 1), n + 1, f) /\ n + 1 \in Nat
    BY <1>3
  <2>2. G(n + 1)[n] = G(n)[n]
    BY <2>1, <1>2
  <2>3. G(n + 1)[n + 1] = f * G(n + 1)[n]
    <3>1. n + 1 \in 1..(n + 1) /\ (n + 1) - 1 = n
      OBVIOUS
    <3> QED BY <2>1, <3>1 DEF Begins
  <2> QED BY <1>4, <2>1, <2>2, <2>3
<1>7. s = [hops \in Nat |-> IF hops = 0 THEN 1 ELSE f * s[hops - 1]]
  <2>1. ASSUME NEW n \in Nat PROVE s[n] = IF n = 0 THEN 1 ELSE f * s[n - 1]
    <3>1. CASE n = 0
      BY <1>5, <3>1
    <3>2. CASE n # 0
      <4>1. n - 1 \in Nat /\ (n - 1) + 1 = n
        BY <3>2
      <4> HIDE DEF s
      <4> QED BY <1>6, <3>2, <4>1
    <3> QED BY <3>1, <3>2
  <2>2. s = [n \in Nat |-> s[n]]
    OBVIOUS
  <2> HIDE DEF s
  <2> QED BY <2>1, <2>2
<1> DEFINE c == Spread(f)
<1>8. c = [hops \in Nat |-> IF hops = 0 THEN 1 ELSE f * c[hops - 1]]
  <2> HIDE DEF s
  <2> QED BY <1>7 DEF Spread
<1> HIDE DEF c, s
<1>9. c[0] = 1
  BY <1>8
<1>10. ASSUME NEW n \in Nat PROVE c[n + 1] = f * c[n]
  <2>1. n + 1 \in Nat /\ n + 1 # 0 /\ (n + 1) - 1 = n
    OBVIOUS
  <2> QED BY <1>8, <2>1
<1>11. \A n \in Nat : c[n] \in Nat
  <2> DEFINE E == {n \in Nat : c[n] \in Nat}
  <2>1. 0 \in E
    BY <1>9
  <2>2. ASSUME NEW n \in Nat, n \in E PROVE n + 1 \in E
    BY <1>10, <2>2, Product
  <2> HIDE DEF E
  <2>3. Nat \subseteq E
    BY <2>1, <2>2, SetInduction
  <2> QED BY <2>3 DEF E
<1> QED BY <1>9, <1>10, <1>11 DEF c

-----------------------------------------------------------------------------
(***************************************************************************)
(* The account of one item: n[t] announcements of it with ttl t, those not *)
(* sent yet at ttl + 1, and a budget p[t] from which everything there and  *)
(* everything that may still come down to there can be paid.               *)
(***************************************************************************)

\* What is there, and f for each that may still come down, is within the budget.
Paid(a, f, b, c) == a + f * b <= c

Balanced(n, p, f, ttl) ==
    /\ n \in [0..(ttl + 1) -> Nat] /\ p \in [0..(ttl + 1) -> Nat]
    /\ n[ttl + 1] <= p[ttl + 1]
    /\ \A t \in 0..ttl : Paid(n[t], f, p[t + 1], p[t])
    /\ \A t \in 0..(ttl + 1) : p[t] <= Spread(f)[ttl + 1 - t]

\* No more anywhere.
Fewer(n, k, ttl) == \A t \in 0..(ttl + 1) : k[t] <= n[t]

\* One announcement is taken from s, and becomes at most f at the next ttl.
Moved(n, k, s, f, ttl) ==
    /\ s \in 1..(ttl + 1)
    /\ k[s] + 1 <= n[s] /\ k[s - 1] <= n[s - 1] + f
    /\ \A t \in 0..(ttl + 1) : t # s /\ t # s - 1 => k[t] <= n[t]

\* An account stays balanced when nothing grows, on the same budget,
LEMMA FewerBalanced ==
    ASSUME NEW f \in Nat, NEW ttl \in Nat, NEW n, NEW p, Balanced(n, p, f, ttl),
           NEW k \in [0..(ttl + 1) -> Nat], Fewer(n, k, ttl)
    PROVE  Balanced(k, p, f, ttl)
<1>1. k[ttl + 1] <= p[ttl + 1]
  BY DEF Balanced, Fewer
<1>2. ASSUME NEW t \in 0..ttl PROVE Paid(k[t], f, p[t + 1], p[t])
  <2> DEFINE y == f * p[t + 1]
  <2>0. t \in 0..(ttl + 1) /\ t + 1 \in 0..(ttl + 1)
    OBVIOUS
  <2>2. k[t] <= n[t] /\ k[t] \in Nat /\ n[t] \in Nat /\ p[t] \in Nat /\ p[t + 1] \in Nat
        /\ Paid(n[t], f, p[t + 1], p[t])
    BY <2>0 DEF Fewer, Balanced
  <2>1. y \in Nat /\ n[t] + y <= p[t]
    BY <2>2, Product DEF Paid
  <2>3. k[t] + y <= p[t]
    <3> HIDE DEF y
    <3> QED BY <2>1, <2>2
  <2> QED BY <2>3 DEF Paid
<1> QED BY <1>1, <1>2 DEF Balanced

\* The f that come pay for the one that goes.
LEMMA Regroup ==
    ASSUME NEW a \in Nat, NEW b \in Nat, NEW c \in Nat, NEW f \in Nat, NEW y \in Nat,
           a <= b + f, b + y <= c
    PROVE  a + (y - f) <= c
OBVIOUS

\* and when one is moved: the budget where it was is smaller by one.
LEMMA MovedBalanced ==
    ASSUME NEW f \in Nat, NEW ttl \in Nat, NEW n, NEW p, Balanced(n, p, f, ttl),
           NEW k \in [0..(ttl + 1) -> Nat], NEW s, Moved(n, k, s, f, ttl)
    PROVE  Balanced(k, [p EXCEPT ![s] = @ - 1], f, ttl)
<1> DEFINE q == [p EXCEPT ![s] = @ - 1]
<1>0. /\ s \in 1..(ttl + 1) /\ n \in [0..(ttl + 1) -> Nat] /\ p \in [0..(ttl + 1) -> Nat]
      /\ ttl + 1 \in 0..(ttl + 1)
  <2>1. s \in 1..(ttl + 1)
    BY DEF Moved
  <2>2. n \in [0..(ttl + 1) -> Nat] /\ p \in [0..(ttl + 1) -> Nat]
    BY DEF Balanced
  <2> QED BY <2>1, <2>2
<1>a. \A t \in 0..(ttl + 1) : q[t] = IF t = s THEN p[s] - 1 ELSE p[t]
  BY <1>0
<1>1. p[s] >= 1
  <2>1. CASE s = ttl + 1
    <3>1. k[s] + 1 <= n[s] /\ n[s] <= p[s]
      BY <2>1 DEF Balanced, Moved
    <3>2. k[s] \in Nat /\ n[s] \in Nat /\ p[s] \in Nat
      BY <1>0, <2>1
    <3> QED BY <3>1, <3>2
  <2>2. CASE s # ttl + 1
    <3>1. s \in 0..ttl /\ s + 1 \in 0..(ttl + 1) /\ s \in 0..(ttl + 1)
      BY <1>0, <2>2
    <3> DEFINE y == f * p[s + 1]
    <3>3. k[s] + 1 <= n[s] /\ k[s] \in Nat /\ n[s] \in Nat /\ p[s] \in Nat /\ p[s + 1] \in Nat
      BY <1>0, <3>1 DEF Moved
    <3>4. Paid(n[s], f, p[s + 1], p[s])
      BY <3>1 DEF Balanced
    <3>2. y \in Nat /\ n[s] + y <= p[s]
      BY <3>3, <3>4, Product DEF Paid
    <3> HIDE DEF y
    <3> QED BY <3>2, <3>3
  <2> QED BY <2>1, <2>2
<1>2. q \in [0..(ttl + 1) -> Nat]
  <2>1. p[s] - 1 \in Nat
    <3> HIDE DEF q
    <3>1. p[s] \in Nat
      BY <1>0
    <3> QED BY <1>1, <3>1
  <2> QED BY <1>0, <2>1
<1> HIDE DEF q
<1>3. k[ttl + 1] <= q[ttl + 1]
  <2>1. CASE s = ttl + 1
    <3>1. k[s] + 1 <= n[s] /\ n[s] <= p[s]
      BY <2>1 DEF Balanced, Moved
    <3>2. q[s] = p[s] - 1 /\ k[s] \in Nat /\ n[s] \in Nat /\ p[s] \in Nat
      BY <1>0, <1>a, <2>1
    <3>3. k[s] <= q[s]
      BY <3>1, <3>2
    <3> QED BY <2>1, <3>3
  <2>2. CASE s # ttl + 1
    <3>1. ttl + 1 # s - 1
      BY <1>0
    <3>2. k[ttl + 1] <= n[ttl + 1]
      BY <1>0, <2>2, <3>1 DEF Moved
    <3>3. n[ttl + 1] <= p[ttl + 1] /\ q[ttl + 1] = p[ttl + 1]
      BY <1>0, <1>a, <2>2 DEF Balanced
    <3>4. k[ttl + 1] \in Nat /\ n[ttl + 1] \in Nat /\ p[ttl + 1] \in Nat
      BY <1>0
    <3> QED BY <3>2, <3>3, <3>4
  <2> QED BY <2>1, <2>2
<1>4. ASSUME NEW t \in 0..ttl PROVE Paid(k[t], f, q[t + 1], q[t])
  <2> DEFINE y == f * p[t + 1]
  <2>1. t \in 0..(ttl + 1) /\ t + 1 \in 0..(ttl + 1) /\ t \in Nat
    OBVIOUS
  <2>3. k[t] \in Nat /\ n[t] \in Nat /\ p[t] \in Nat /\ p[t + 1] \in Nat
    BY <1>0, <2>1
  <2>0. Paid(n[t], f, p[t + 1], p[t])
    BY DEF Balanced
  <2>2. y \in Nat /\ n[t] + y <= p[t]
    BY <2>0, <2>3, Product DEF Paid
  <2>4. CASE t = s
    <3>1. k[t] + 1 <= n[t]
      BY <2>4 DEF Moved
    <3>2. f * q[t + 1] = y
      BY <1>a, <2>1, <2>4
    <3>3. q[t] = p[t] - 1
      BY <1>a, <2>1, <2>4
    <3>4. k[t] + y <= q[t]
      <4> HIDE DEF y
      <4> QED BY <2>2, <2>3, <3>1, <3>3
    <3> QED BY <3>2, <3>4 DEF Paid
  <2>5. CASE t = s - 1
    <3>1. t + 1 = s /\ t # s
      BY <1>0, <2>5
    <3>2. k[t] <= n[t] + f
      BY <2>5 DEF Moved
    <3>3. q[t + 1] = p[t + 1] - 1 /\ q[t] = p[t]
      BY <1>a, <2>1, <3>1
    <3>4. f * (p[t + 1] - 1) = y - f
      BY <2>3
    <3>5. f * q[t + 1] = y - f
      BY <3>3, <3>4
    <3>6. k[t] + (y - f) <= q[t]
      <4> HIDE DEF y
      <4>1. q[t] = p[t]
        BY <3>3
      <4>2. k[t] + (y - f) <= p[t]
        BY <2>2, <2>3, <3>2, Regroup
      <4> QED BY <4>1, <4>2
    <3> QED BY <3>5, <3>6 DEF Paid
  <2>6. CASE t # s /\ t # s - 1
    <3>1. k[t] <= n[t]
      BY <2>1, <2>6 DEF Moved
    <3>2. t + 1 # s
      BY <1>0, <2>1, <2>6
    <3>3. f * q[t + 1] = y /\ q[t] = p[t]
      BY <1>a, <2>1, <2>6, <3>2
    <3>4. k[t] + y <= q[t]
      <4> HIDE DEF y
      <4> QED BY <2>2, <2>3, <3>1, <3>3
    <3> QED BY <3>3, <3>4 DEF Paid
  <2> QED BY <2>4, <2>5, <2>6
<1>5. ASSUME NEW t \in 0..(ttl + 1) PROVE q[t] <= Spread(f)[ttl + 1 - t]
  <2>1. ttl + 1 - t \in Nat /\ p[t] \in Nat
    BY <1>0
  <2>2. Spread(f)[ttl + 1 - t] \in Nat
    BY <2>1, SpreadDef
  <2>3. q[t] <= p[t]
    <3>1. q[t] = p[t] \/ q[t] = p[t] - 1
      BY <1>a
    <3> QED BY <2>1, <3>1
  <2>4. q[t] \in Nat /\ p[t] <= Spread(f)[ttl + 1 - t]
    BY <1>2 DEF Balanced
  <2> QED BY <2>1, <2>2, <2>3, <2>4
<1>6. Balanced(k, q, f, ttl)
  BY <1>2, <1>3, <1>4, <1>5 DEF Balanced
<1> QED BY <1>6 DEF q

\* An item just announced: one announcement, which is not sent yet.
LEMMA NewBalanced ==
    ASSUME NEW f \in Nat, NEW ttl \in Nat, NEW n \in [0..(ttl + 1) -> Nat],
           n[ttl + 1] <= 1, \A t \in 0..ttl : n[t] = 0
    PROVE  \E p : Balanced(n, p, f, ttl)
<1> DEFINE s == Spread(f)
           p == [t \in 0..(ttl + 1) |-> s[ttl + 1 - t]]
<1>1. s[0] = 1 /\ \A h \in Nat : s[h] \in Nat /\ s[h + 1] = f * s[h]
  BY SpreadDef
<1> HIDE DEF s
<1>2. \A t \in 0..(ttl + 1) : p[t] = s[ttl + 1 - t] /\ p[t] \in Nat
  BY <1>1
<1>3. p \in [0..(ttl + 1) -> Nat]
  BY <1>1
<1> HIDE DEF p
<1>4. n[ttl + 1] <= p[ttl + 1]
  <2>1. ttl + 1 \in 0..(ttl + 1) /\ ttl + 1 - (ttl + 1) = 0
    OBVIOUS
  <2> QED BY <1>1, <1>2, <2>1
<1>5. ASSUME NEW t \in 0..ttl PROVE Paid(n[t], f, p[t + 1], p[t])
  <2>1. ttl - t \in Nat /\ ttl + 1 - (t + 1) = ttl - t /\ ttl + 1 - t = (ttl - t) + 1
    OBVIOUS
  <2>2. p[t + 1] = s[ttl - t] /\ p[t] = s[(ttl - t) + 1]
    <3>1. t + 1 \in 0..(ttl + 1) /\ t \in 0..(ttl + 1)
      OBVIOUS
    <3> QED BY <1>2, <2>1, <3>1
  <2>3. f * p[t + 1] = p[t] /\ p[t] \in Nat
    BY <1>1, <2>1, <2>2
  <2>4. n[t] = 0
    OBVIOUS
  <2>5. 0 + p[t] <= p[t]
    BY <2>3
  <2> QED BY <2>3, <2>4, <2>5 DEF Paid
<1>6. \A t \in 0..(ttl + 1) : p[t] <= s[ttl + 1 - t]
  BY <1>2
<1> QED BY <1>3, <1>4, <1>5, <1>6 DEF Balanced, s

\* A balanced account keeps to the spread.
LEMMA BalancedBound ==
    ASSUME NEW f \in Nat, NEW ttl \in Nat, NEW n, NEW p, Balanced(n, p, f, ttl),
           NEW t \in 0..ttl
    PROVE  n[t] <= Spread(f)[ttl + 1 - t]
<1> DEFINE y == f * p[t + 1]
<1>1. t \in 0..(ttl + 1) /\ t + 1 \in 0..(ttl + 1) /\ ttl + 1 - t \in Nat
  OBVIOUS
<1>a. n[t] \in Nat /\ p[t] \in Nat /\ p[t + 1] \in Nat /\ Paid(n[t], f, p[t + 1], p[t])
  BY <1>1 DEF Balanced
<1>2. y \in Nat /\ n[t] + y <= p[t]
  BY <1>a, Product DEF Paid
<1>3. p[t] <= Spread(f)[ttl + 1 - t] /\ Spread(f)[ttl + 1 - t] \in Nat
  BY <1>1, SpreadDef DEF Balanced
<1> HIDE DEF y
<1> QED BY <1>a, <1>2, <1>3

-----------------------------------------------------------------------------
(***************************************************************************)
(* Counting an announcement in boxes: the connections, or the queues.      *)
(***************************************************************************)

\* Where a is in the boxes.
Hits(box, places, a) ==
    {x \in places \X Nat : x[2] \in DOMAIN box[x[1]] /\ box[x[1]][x[2]] = a}

Boxes(box, places) == \A p \in places : box[p] \in Seq(AnnouncementType)

\* A subset of a finite set.
LEMMA Smaller ==
    ASSUME NEW S, NEW U, IsFiniteSet(S), U \subseteq S
    PROVE  IsFiniteSet(U) /\ Cardinality(U) <= Cardinality(S)
           /\ Cardinality(U) \in Nat /\ Cardinality(S) \in Nat
BY FS_Subset, FS_CardinalityType

\* Appending b to some of the boxes.
Appended(box, new, places, S, b) ==
    \A p \in places : new[p] = IF p \in S THEN Append(box[p], b) ELSE box[p]

\* It adds nothing but b,
LEMMA AppendedOther ==
    ASSUME NEW places, NEW box, NEW new, NEW S, NEW b \in AnnouncementType, NEW a, a # b,
           Boxes(box, places), Appended(box, new, places, S, b)
    PROVE  Hits(new, places, a) \subseteq Hits(box, places, a)
<1> SUFFICES ASSUME NEW x \in Hits(new, places, a) PROVE x \in Hits(box, places, a)
  OBVIOUS
<1> DEFINE p == x[1]
           k == x[2]
<1>1. x \in places \X Nat /\ p \in places /\ k \in DOMAIN new[p] /\ new[p][k] = a
  BY DEF Hits
<1>2. CASE p \in S
  <2>1. new[p] = Append(box[p], b) /\ box[p] \in Seq(AnnouncementType)
    BY <1>1, <1>2 DEF Appended, Boxes
  <2>2. /\ DOMAIN new[p] = 1..(Len(box[p]) + 1) /\ DOMAIN box[p] = 1..Len(box[p])
        /\ Len(box[p]) \in Nat
        /\ \A j \in 1..Len(box[p]) : new[p][j] = box[p][j]
        /\ new[p][Len(box[p]) + 1] = b
    BY <2>1, AppendProperties, LenProperties
  <2>3. k \in 1..Len(box[p]) /\ box[p][k] = a
    BY <1>1, <2>2
  <2> QED BY <1>1, <2>2, <2>3 DEF Hits
<1>3. CASE p \notin S
  <2>1. new[p] = box[p]
    BY <1>1, <1>3 DEF Appended
  <2> QED BY <1>1, <2>1 DEF Hits
<1> QED BY <1>2, <1>3

\* and of that one for each box.
LEMMA AppendedSame ==
    ASSUME NEW places, NEW box, NEW new, NEW S, NEW b \in AnnouncementType,
           Boxes(box, places), Appended(box, new, places, S, b),
           IsFiniteSet(S), IsFiniteSet(Hits(box, places, b))
    PROVE  /\ IsFiniteSet(Hits(new, places, b))
           /\ Cardinality(Hits(new, places, b)) <= Cardinality(Hits(box, places, b)) + Cardinality(S)
<1> DEFINE e == [p \in S |-> <<p, Len(box[p]) + 1>>]
           E == {e[p] : p \in S}
           H == Hits(box, places, b)
<1>1. Hits(new, places, b) \subseteq H \cup E
  <2> SUFFICES ASSUME NEW x \in Hits(new, places, b), x \notin E PROVE x \in H
    OBVIOUS
  <2> DEFINE p == x[1]
             k == x[2]
  <2>1. x \in places \X Nat /\ p \in places /\ k \in DOMAIN new[p] /\ new[p][k] = b /\ x = <<p, k>>
    BY DEF Hits
  <2>2. CASE p \in S
    <3>1. new[p] = Append(box[p], b) /\ box[p] \in Seq(AnnouncementType)
      BY <2>1, <2>2 DEF Appended, Boxes
    <3>2. /\ DOMAIN new[p] = 1..(Len(box[p]) + 1) /\ DOMAIN box[p] = 1..Len(box[p])
          /\ Len(box[p]) \in Nat
          /\ \A j \in 1..Len(box[p]) : new[p][j] = box[p][j]
      BY <3>1, AppendProperties, LenProperties
    <3>3. k # Len(box[p]) + 1
      <4>1. e[p] = <<p, Len(box[p]) + 1>> /\ e[p] \in E
        BY <2>2
      <4> QED BY <2>1, <4>1
    <3>4. k \in 1..Len(box[p]) /\ box[p][k] = b
      BY <2>1, <3>2, <3>3
    <3> QED BY <2>1, <3>2, <3>4 DEF Hits
  <2>3. CASE p \notin S
    <3>1. new[p] = box[p]
      BY <2>1, <2>3 DEF Appended
    <3> QED BY <2>1, <3>1 DEF Hits
  <2> QED BY <2>2, <2>3
<1>2. IsFiniteSet(E) /\ Cardinality(E) <= Cardinality(S)
  <2>1. e \in Surjection(S, E)
    BY DEF Surjection
  <2> HIDE DEF e, E
  <2> QED BY <2>1, FS_Surjection
<1> HIDE DEF E, H
<1>3. IsFiniteSet(H \cup E) /\ Cardinality(H \cup E) <= Cardinality(H) + Cardinality(E)
  <2>1. IsFiniteSet(H) /\ IsFiniteSet(H \cap E)
    BY <1>2, FS_Intersection DEF H
  <2>2. /\ IsFiniteSet(H \cup E)
        /\ Cardinality(H \cup E) = Cardinality(H) + Cardinality(E) - Cardinality(H \cap E)
    BY <1>2, <2>1, FS_Union
  <2>3. Cardinality(H \cap E) \in Nat /\ Cardinality(H) \in Nat /\ Cardinality(E) \in Nat
    BY <1>2, <2>1, FS_CardinalityType
  <2> QED BY <2>2, <2>3
<1>4. IsFiniteSet(Hits(new, places, b)) /\ Cardinality(Hits(new, places, b)) <= Cardinality(H \cup E)
      /\ Cardinality(Hits(new, places, b)) \in Nat /\ Cardinality(H \cup E) \in Nat
  BY <1>1, <1>3, Smaller
<1>5. Cardinality(H) \in Nat /\ Cardinality(E) \in Nat /\ Cardinality(S) \in Nat
  BY <1>2, FS_CardinalityType DEF H
<1>6. Cardinality(Hits(new, places, b)) <= Cardinality(H) + Cardinality(S)
  BY <1>2, <1>3, <1>4, <1>5
<1> QED BY <1>4, <1>6 DEF H

\* Taking the first of box q.
Taken(box, new, places, q) ==
    q \in places /\ box[q] # <<>> /\ \A p \in places : new[p] = IF p = q THEN Tail(box[q]) ELSE box[p]

\* It leaves no more of a, and one less if that was a.
LEMMA TakenFewer ==
    ASSUME NEW places, NEW box, NEW new, NEW q, NEW a,
           Boxes(box, places), Taken(box, new, places, q), IsFiniteSet(Hits(box, places, a))
    PROVE  /\ IsFiniteSet(Hits(new, places, a))
           /\ Cardinality(Hits(new, places, a)) <= Cardinality(Hits(box, places, a))
           /\ Head(box[q]) = a =>
                 Cardinality(Hits(new, places, a)) + 1 <= Cardinality(Hits(box, places, a))
<1> DEFINE H == Hits(box, places, a)
           K == Hits(new, places, a)
           g == [x \in K |-> IF x[1] = q THEN <<q, x[2] + 1>> ELSE x]
           first == <<q, 1>>
<1>1. /\ q \in places /\ box[q] \in Seq(AnnouncementType) /\ new[q] = Tail(box[q])
      /\ DOMAIN box[q] = 1..Len(box[q]) /\ Len(box[q]) \in Nat \ {0}
      /\ DOMAIN new[q] = 1..(Len(box[q]) - 1) 
      /\ \A j \in 1..(Len(box[q]) - 1) : new[q][j] = box[q][j + 1]
  <2>1. q \in places /\ box[q] \in Seq(AnnouncementType) /\ new[q] = Tail(box[q]) /\ box[q] # <<>>
    BY DEF Taken, Boxes
  <2>2. Len(box[q]) \in Nat \ {0} /\ DOMAIN box[q] = 1..Len(box[q])
    BY <2>1, LenProperties, EmptySeq
  <2>3. Tail(box[q]) \in Seq(AnnouncementType) /\ Len(Tail(box[q])) = Len(box[q]) - 1
        /\ \A j \in 1..Len(Tail(box[q])) : Tail(box[q])[j] = box[q][j + 1]
    BY <2>1, HeadTailProperties
  <2>4. DOMAIN Tail(box[q]) = 1..Len(Tail(box[q]))
    BY <2>3, LenProperties
  <2> QED BY <2>1, <2>2, <2>3, <2>4
<1>2. ASSUME NEW x \in K
      PROVE  g[x] \in H \ {first}
  <2>1. x \in places \X Nat /\ x[1] \in places /\ x[2] \in DOMAIN new[x[1]] /\ new[x[1]][x[2]] = a
    BY DEF Hits
  <2>2. CASE x[1] = q
    <3>1. g[x] = <<q, x[2] + 1>> /\ x[2] \in 1..(Len(box[q]) - 1)
      BY <1>1, <2>1, <2>2
    <3>2. x[2] + 1 \in DOMAIN box[q] /\ box[q][x[2] + 1] = a /\ x[2] + 1 # 1 /\ x[2] + 1 \in Nat
      <4> DEFINE k == x[2]
      <4>1. k \in 1..(Len(box[q]) - 1) /\ new[q][k] = a
        BY <2>1, <2>2, <3>1
      <4> HIDE DEF k, g, H, K
      <4>2. k + 1 \in 1..Len(box[q]) /\ k + 1 # 1 /\ k + 1 \in Nat
        BY <1>1, <4>1
      <4>3. box[q][k + 1] = a
        BY <1>1, <4>1
      <4> QED BY <1>1, <4>2, <4>3 DEF k
    <3> HIDE DEF g
    <3> QED BY <1>1, <3>1, <3>2 DEF Hits
  <2>3. CASE x[1] # q
    <3>1. g[x] = x /\ new[x[1]] = box[x[1]]
      BY <2>1, <2>3 DEF Taken
    <3>2. x # first
      BY <2>3
    <3> HIDE DEF g
    <3> QED BY <2>1, <3>1, <3>2 DEF Hits
  <2> QED BY <2>2, <2>3
<1>3. ASSUME NEW x \in K, NEW y \in K, g[x] = g[y] PROVE x = y
  <2>1. x \in places \X Nat /\ y \in places \X Nat
    BY DEF Hits
  <2>2. /\ g[x] = IF x[1] = q THEN <<q, x[2] + 1>> ELSE x
        /\ g[y] = IF y[1] = q THEN <<q, y[2] + 1>> ELSE y
    OBVIOUS
  <2> HIDE DEF g
  <2>3. g[x][1] = x[1] /\ g[y][1] = y[1]
    BY <2>2
  <2>4. CASE x[1] = q
    <3>1. y[1] = q
      BY <1>3, <2>3, <2>4
    <3>2. x[2] + 1 = y[2] + 1
      <4>1. <<q, x[2] + 1>> = <<q, y[2] + 1>>
        BY <1>3, <2>2, <2>4, <3>1
      <4> QED BY <4>1
    <3>3. x[2] = y[2]
      BY <2>1, <3>2
    <3> QED BY <2>1, <2>4, <3>1, <3>3
  <2>5. CASE x[1] # q
    BY <1>3, <2>2, <2>3, <2>5
  <2> QED BY <2>4, <2>5
<1>4. g \in Injection(K, H \ {first})
  <2>1. g = [x \in K |-> g[x]]
    OBVIOUS
  <2> HIDE DEF g, K, H
  <2>2. g \in [K -> H \ {first}]
    BY <1>2, <2>1
  <2> QED BY <1>3, <2>2 DEF Injection, IsInjective
<1>5. /\ IsFiniteSet(H \ {first})
      /\ Cardinality(H \ {first}) = IF first \in H THEN Cardinality(H) - 1 ELSE Cardinality(H)
  <2> HIDE DEF first
  <2> QED BY FS_RemoveElement
<1>6. IsFiniteSet(K) /\ Cardinality(K) <= Cardinality(H \ {first})
  <2> HIDE DEF g, K, H, first
  <2> QED BY <1>4, <1>5, FS_Injection
<1>7. Cardinality(K) \in Nat /\ Cardinality(H) \in Nat
  BY <1>6, FS_CardinalityType
<1>8. Head(box[q]) = a => first \in H
  BY <1>1 DEF Hits
<1> HIDE DEF first, K, H
<1> QED BY <1>5, <1>6, <1>7, <1>8 DEF K, H

\* Emptying boxes.
LEMMA EmptiedFewer ==
    ASSUME NEW places, NEW box, NEW new, NEW a,
           \A p \in places : new[p] = box[p] \/ new[p] = <<>>
    PROVE  Hits(new, places, a) \subseteq Hits(box, places, a)
<1> SUFFICES ASSUME NEW x \in Hits(new, places, a) PROVE x \in Hits(box, places, a)
  OBVIOUS
<1>1. x \in places \X Nat /\ x[1] \in places /\ x[2] \in DOMAIN new[x[1]] /\ new[x[1]][x[2]] = a
  BY DEF Hits
<1>2. new[x[1]] # <<>>
  BY <1>1
<1> QED BY <1>1, <1>2 DEF Hits

\* Pouring box q into box r.
Poured(box, new, places, q, r) ==
    /\ q \in places /\ r \in places /\ q # r
    /\ \A p \in places : p \notin {q, r} => new[p] = box[p]
    /\ new[q] = <<>> /\ new[r] \in Shuffles(box[r], box[q])

\* It leaves no more of a.
LEMMA PouredFewer ==
    ASSUME NEW places, NEW box, NEW new, NEW q, NEW r, NEW a,
           Boxes(box, places), Poured(box, new, places, q, r), IsFiniteSet(Hits(box, places, a))
    PROVE  /\ IsFiniteSet(Hits(new, places, a))
           /\ Cardinality(Hits(new, places, a)) <= Cardinality(Hits(box, places, a))
<1> DEFINE H == Hits(box, places, a)
           K == Hits(new, places, a)
<1>1. /\ q \in places /\ r \in places /\ q # r
      /\ new[q] = <<>> /\ new[r] \in Shuffles(box[r], box[q])
      /\ box[r] \in Seq(AnnouncementType) /\ box[q] \in Seq(AnnouncementType)
  BY DEF Poured, Boxes
<1>2. PICK f : ShuffledBy(f, box[r], box[q], new[r])
  BY <1>1, ShuffleFrom
<1> DEFINE from(k) == IF f[k][1] = 1 THEN r ELSE q
           g == [x \in K |-> IF x[1] = r THEN <<from(x[2]), f[x[2]][2]>> ELSE x]
<1>3. ASSUME NEW k \in DOMAIN new[r]
      PROVE  /\ from(k) \in {q, r} /\ f[k][2] \in DOMAIN box[from(k)] /\ f[k][2] \in Nat
             /\ new[r][k] = box[from(k)][f[k][2]]
             /\ f[k] = <<IF from(k) = r THEN 1 ELSE 2, f[k][2]>>
  <2>1. f[k] \in ({1} \X DOMAIN box[r]) \cup ({2} \X DOMAIN box[q])
    BY <1>2 DEF ShuffledBy
  <2>2. DOMAIN box[r] = 1..Len(box[r]) /\ DOMAIN box[q] = 1..Len(box[q])
    BY <1>1
  <2>3. new[r][k] = IF f[k][1] = 1 THEN box[r][f[k][2]] ELSE box[q][f[k][2]]
    BY <1>2 DEF ShuffledBy
  <2>4. CASE f[k] \in {1} \X DOMAIN box[r]
    BY <1>1, <2>2, <2>3, <2>4
  <2>5. CASE f[k] \in {2} \X DOMAIN box[q]
    BY <1>1, <2>2, <2>3, <2>5
  <2> QED BY <2>1, <2>4, <2>5
<1> HIDE DEF from
<1>4. ASSUME NEW x \in K PROVE g[x] \in H
  <2>1. x \in places \X Nat /\ x[1] \in places /\ x[2] \in DOMAIN new[x[1]] /\ new[x[1]][x[2]] = a
    BY DEF Hits
  <2>2. CASE x[1] = r
    <3>1. g[x] = <<from(x[2]), f[x[2]][2]>>
      BY <2>2
    <3>2. /\ from(x[2]) \in places /\ f[x[2]][2] \in DOMAIN box[from(x[2])]
          /\ f[x[2]][2] \in Nat /\ box[from(x[2])][f[x[2]][2]] = a
      BY <1>1, <1>3, <2>1, <2>2
    <3> HIDE DEF g
    <3> QED BY <3>1, <3>2 DEF Hits
  <2>3. CASE x[1] # r
    <3>1. x[1] # q
      BY <1>1, <2>1
    <3>2. g[x] = x /\ new[x[1]] = box[x[1]]
      BY <2>1, <2>3, <3>1 DEF Poured
    <3> HIDE DEF g
    <3> QED BY <2>1, <3>2 DEF Hits
  <2> QED BY <2>2, <2>3
<1>5. ASSUME NEW x \in K, NEW y \in K, g[x] = g[y] PROVE x = y
  <2>1. /\ x \in places \X Nat /\ y \in places \X Nat
        /\ x[2] \in DOMAIN new[x[1]] /\ y[2] \in DOMAIN new[y[1]]
    BY DEF Hits
  <2>2. x[1] # q /\ y[1] # q
    BY <1>1, <2>1
  <2>3. /\ g[x] = IF x[1] = r THEN <<from(x[2]), f[x[2]][2]>> ELSE x
        /\ g[y] = IF y[1] = r THEN <<from(y[2]), f[y[2]][2]>> ELSE y
    OBVIOUS
  <2> HIDE DEF g
  <2>4. (g[x][1] \in {q, r} <=> x[1] = r) /\ (g[y][1] \in {q, r} <=> y[1] = r)
    BY <1>3, <2>1, <2>2, <2>3
  <2>5. CASE x[1] = r
    <3>1. y[1] = r
      BY <1>5, <2>4, <2>5
    <3>2. from(x[2]) = from(y[2]) /\ f[x[2]][2] = f[y[2]][2]
      <4>1. <<from(x[2]), f[x[2]][2]>> = <<from(y[2]), f[y[2]][2]>>
        BY <1>5, <2>3, <2>5, <3>1
      <4> QED BY <4>1
    <3>3. f[x[2]] = f[y[2]]
      BY <1>3, <2>1, <2>5, <3>1, <3>2
    <3>4. x[2] = y[2]
      BY <1>2, <2>1, <2>5, <3>1, <3>3 DEF ShuffledBy
    <3> QED BY <2>1, <2>5, <3>1, <3>4
  <2>6. CASE x[1] # r
    BY <1>5, <2>3, <2>4, <2>6
  <2> QED BY <2>5, <2>6
<1>6. g \in Injection(K, H)
  <2>1. g = [x \in K |-> g[x]]
    OBVIOUS
  <2> HIDE DEF g, K, H
  <2>2. g \in [K -> H]
    BY <1>4, <2>1
  <2> QED BY <1>5, <2>2 DEF Injection, IsInjective
<1> HIDE DEF g, K, H
<1>7. IsFiniteSet(H)
  BY DEF H
<1>8. IsFiniteSet(K) /\ Cardinality(K) <= Cardinality(H)
  BY <1>6, <1>7, FS_Injection
<1> QED BY <1>8 DEF K, H

-----------------------------------------------------------------------------
USE GossipAssumption

\* The connections and the queues as boxes.
Links == Nodes \X Nodes
Conns(ch) == [p \in Links |-> ch[p[1]][p[2]]]
Spots == {"pending", "sending"} \X Nodes
Lines == [p \in Spots |-> IF p[1] = "pending" THEN pending[p[2]] ELSE sending[p[2]]]

\* The announcements of i that are queued, and those under way with ttl t.
Queued(i) == Hits(Lines, Spots, Announcement(i))
Underway(ch, i, t) == Hits(Conns(ch), Links, [item |-> i, ttl |-> t])

Level(i, t) == IF t = TtlOf(i) + 1 THEN Queued(i) ELSE Underway(chan, i, t)
Count(i) == [t \in 0..(TtlOf(i) + 1) |-> Cardinality(Level(i, t))]

Account(i) ==
    /\ \A t \in 0..(TtlOf(i) + 1) : IsFiniteSet(Level(i, t))
    /\ \E p : Balanced(Count(i), p, FanoutOf(i), TtlOf(i))

\* What is queued has all its ttl.
Fresh == {x \in AnnouncementType : x = Announcement(x.item)}

Traffic ==
    /\ pending \in [Nodes -> Seq(Fresh)] /\ sending \in [Nodes -> Seq(Fresh)]
    /\ \A i \in announced : Account(i)

\* Every class of announcements has a fanout.
LEMMA FanoutIsNat == \A i : FanoutOf(i) \in Nat
BY DEF FanoutOf, Class, Classes

\* No more of it than before.
AtMost(new, old) == IsFiniteSet(new) /\ Cardinality(new) <= Cardinality(old)

\* A subset is no more,
LEMMA AtMostSubset ==
    ASSUME NEW S, NEW U, IsFiniteSet(S), U \subseteq S
    PROVE  AtMost(U, S)
BY Smaller DEF AtMost

\* and no more than no more is no more.
LEMMA AtMostTrans ==
    ASSUME NEW A, NEW B, NEW C, IsFiniteSet(C), AtMost(B, C), AtMost(A, B)
    PROVE  AtMost(A, C)
<1>1. Cardinality(A) \in Nat /\ Cardinality(B) \in Nat /\ Cardinality(C) \in Nat
  BY FS_CardinalityType DEF AtMost
<1> QED BY <1>1 DEF AtMost

\* The counts of an account are numbers.
LEMMA CountType ==
    ASSUME NEW i, \A t \in 0..(TtlOf(i) + 1) : IsFiniteSet(Level(i, t))
    PROVE  Count(i) \in [0..(TtlOf(i) + 1) -> Nat]
<1>1. \A t \in 0..(TtlOf(i) + 1) : Cardinality(Level(i, t)) \in Nat
  BY FS_CardinalityType
<1> QED BY <1>1 DEF Count

\* The same after a step.
LEMMA CountTypeNext ==
    ASSUME NEW i, \A t \in 0..(TtlOf(i) + 1) : IsFiniteSet(Level(i, t)')
    PROVE  Count(i)' \in [0..(TtlOf(i) + 1) -> Nat]
<1>1. \A t \in 0..(TtlOf(i) + 1) : Cardinality(Level(i, t)') \in Nat
  BY FS_CardinalityType
<1> QED BY <1>1 DEF Count

\* An account where nothing grows stays in order.
LEMMA Settled ==
    ASSUME NEW i, Account(i),
           \A t \in 0..(TtlOf(i) + 1) : AtMost(Level(i, t)', Level(i, t))
    PROVE  Account(i)'
<1> DEFINE ttl == TtlOf(i)
<1>1. ttl \in Nat /\ FanoutOf(i) \in Nat
  BY TtlIsNat, FanoutIsNat
<1>2. PICK p : Balanced(Count(i), p, FanoutOf(i), ttl)
  BY DEF Account
<1>3. \A t \in 0..(ttl + 1) : IsFiniteSet(Level(i, t)')
  BY DEF AtMost
<1>4. Count(i)' \in [0..(ttl + 1) -> Nat]
  BY <1>3, CountTypeNext
<1>5. Fewer(Count(i), Count(i)', ttl)
  BY DEF Count, Fewer, AtMost
<1>6. Balanced(Count(i)', p, FanoutOf(i), ttl)
  BY <1>1, <1>2, <1>4, <1>5, FewerBalanced
<1> QED BY <1>3, <1>6 DEF Account

\* So does one where a copy is taken and passed on.
LEMMA PassedOn ==
    ASSUME NEW i, Account(i), NEW s \in 1..(TtlOf(i) + 1),
           \A t \in 0..(TtlOf(i) + 1) : IsFiniteSet(Level(i, t)'),
           Cardinality(Level(i, s)') + 1 <= Cardinality(Level(i, s)),
           Cardinality(Level(i, s - 1)') <= Cardinality(Level(i, s - 1)) + FanoutOf(i),
           \A t \in 0..(TtlOf(i) + 1) :
              t # s /\ t # s - 1 => AtMost(Level(i, t)', Level(i, t))
    PROVE  Account(i)'
<1> DEFINE ttl == TtlOf(i)
<1>1. ttl \in Nat /\ FanoutOf(i) \in Nat
  BY TtlIsNat, FanoutIsNat
<1>2. PICK p : Balanced(Count(i), p, FanoutOf(i), ttl)
  BY DEF Account
<1>4. Count(i)' \in [0..(ttl + 1) -> Nat]
  BY CountTypeNext
<1>5. Moved(Count(i), Count(i)', s, FanoutOf(i), ttl)
  <2>1. s \in 0..(ttl + 1) /\ s - 1 \in 0..(ttl + 1)
    BY <1>1
  <2> QED BY <2>1 DEF Count, Moved, AtMost
<1>6. Balanced(Count(i)', [p EXCEPT ![s] = @ - 1], FanoutOf(i), ttl)
  BY <1>1, <1>2, <1>4, <1>5, MovedBalanced
<1> QED BY <1>6 DEF Account

-----------------------------------------------------------------------------
\* The boxes hold announcements.
LEMMA LinesAreBoxes ==
    ASSUME Traffic
    PROVE  Boxes(Lines, Spots)
<1>1. Seq(Fresh) \subseteq Seq(AnnouncementType)
  <2>1. Fresh \subseteq AnnouncementType
    BY DEF Fresh
  <2> QED BY <2>1, SeqMonotonic
<1> QED BY <1>1 DEF Boxes, Lines, Spots, Traffic

Wires == [Nodes -> [Nodes -> Seq(AnnouncementType)]]

\* The same of connections,
LEMMA ConnsAreBoxes ==
    ASSUME NEW ch \in Wires
    PROVE  Boxes(Conns(ch), Links)
BY DEF Boxes, Conns, Links, Wires

\* in particular of those there are.
LEMMA ChanIsWires == IInv => chan \in Wires
BY Restated DEF GossipInv, TypeOK, Wires

\* Copies is counted in boxes too.
LEMMA CopiesAreHits ==
    ASSUME NEW ch \in Wires, NEW a
    PROVE  Copies(ch, a) = Hits(Conns(ch), Links, a)
<1>1. ASSUME NEW x \in Copies(ch, a) PROVE x \in Hits(Conns(ch), Links, a)
  <2>1. PICK m \in Nodes, n \in Nodes : x \in {<<m, n>>} \X {k \in DOMAIN ch[m][n] : ch[m][n][k] = a}
    BY DEF Copies
  <2>2. x = <<<<m, n>>, x[2]>> /\ x[1] = <<m, n>> /\ x[2] \in DOMAIN ch[m][n] /\ ch[m][n][x[2]] = a
    BY <2>1
  <2>3. DOMAIN ch[m][n] \subseteq Nat
    <3>1. ch[m][n] \in Seq(AnnouncementType)
      BY DEF Wires
    <3> QED BY <3>1, LenProperties
  <2>4. <<m, n>> \in Links /\ Conns(ch)[<<m, n>>] = ch[m][n]
    BY DEF Links, Conns
  <2> QED BY <2>2, <2>3, <2>4 DEF Hits
<1>2. ASSUME NEW x \in Hits(Conns(ch), Links, a) PROVE x \in Copies(ch, a)
  <2> DEFINE m == x[1][1]
             n == x[1][2]
  <2>1. /\ m \in Nodes /\ n \in Nodes /\ x = <<<<m, n>>, x[2]>>
        /\ Conns(ch)[x[1]] = ch[m][n]
    BY DEF Hits, Links, Conns
  <2>2. x[2] \in DOMAIN ch[m][n] /\ ch[m][n][x[2]] = a
    BY <2>1 DEF Hits
  <2>3. x \in {<<m, n>>} \X {k \in DOMAIN ch[m][n] : ch[m][n][k] = a}
    BY <2>1, <2>2
  <2>4. m \in Nodes /\ n \in Nodes
    BY <2>1
  <2> HIDE DEF m, n
  <2> DEFINE B(u, v) == {<<u, v>>} \X {k \in DOMAIN ch[u][v] : ch[u][v][k] = a}
             all == {B(u, v) : u, v \in Nodes}
  <2>5. x \in B(m, n) /\ Copies(ch, a) = UNION all
    BY <2>3 DEF Copies
  <2>6. B(m, n) \in all
    <3> HIDE DEF B
    <3> QED BY <2>4
  <2> HIDE DEF B, all
  <2> QED BY <2>5, <2>6
<1> QED BY <1>1, <1>2

\* Reading from a connection.
LEMMA ReadFewer ==
    ASSUME NEW ch \in Wires, NEW m \in Nodes, NEW n \in Nodes, ch[m][n] # <<>>, NEW a,
           IsFiniteSet(Hits(Conns(ch), Links, a))
    PROVE  LET new == [ch EXCEPT ![m][n] = Tail(@)] IN
           /\ new \in Wires
           /\ AtMost(Hits(Conns(new), Links, a), Hits(Conns(ch), Links, a))
           /\ Head(ch[m][n]) = a =>
                 Cardinality(Hits(Conns(new), Links, a)) + 1 <= Cardinality(Hits(Conns(ch), Links, a))
<1> DEFINE new == [ch EXCEPT ![m][n] = Tail(@)]
           q == <<m, n>>
<1>1. ch[m][n] \in Seq(AnnouncementType) /\ Tail(ch[m][n]) \in Seq(AnnouncementType)
  <2>1. ch[m][n] \in Seq(AnnouncementType)
    BY DEF Wires
  <2> QED BY <2>1, HeadTailProperties
<1>2. new \in Wires
  BY <1>1 DEF Wires
<1>3. ASSUME NEW p \in Links
      PROVE  Conns(new)[p] = IF p = q THEN Tail(Conns(ch)[q]) ELSE Conns(ch)[p]
  <2>1. p[1] \in Nodes /\ p[2] \in Nodes /\ p = <<p[1], p[2]>>
    BY DEF Links
  <2>2. Conns(new)[p] = new[p[1]][p[2]] /\ Conns(ch)[p] = ch[p[1]][p[2]] /\ Conns(ch)[q] = ch[m][n]
    BY DEF Conns, Links
  <2>3. CASE p = q
    <3>1. p[1] = m /\ p[2] = n
      BY <2>3
    <3>2. new[m][n] = Tail(ch[m][n])
      BY DEF Wires
    <3> QED BY <2>2, <2>3, <3>1, <3>2
  <2>4. CASE p # q
    <3>1. p[1] # m \/ p[2] # n
      BY <2>1, <2>4
    <3>2. new[p[1]][p[2]] = ch[p[1]][p[2]]
      BY <2>1, <3>1 DEF Wires
    <3> QED BY <2>2, <2>4, <3>2
  <2> QED BY <2>3, <2>4
<1>4. q \in Links /\ Conns(ch)[q] = ch[m][n]
  BY DEF Conns, Links
<1> HIDE DEF new, q
<1>5. Taken(Conns(ch), Conns(new), Links, q)
  BY <1>3, <1>4 DEF Taken
<1>6. /\ IsFiniteSet(Hits(Conns(new), Links, a))
      /\ Cardinality(Hits(Conns(new), Links, a)) <= Cardinality(Hits(Conns(ch), Links, a))
      /\ Head(Conns(ch)[q]) = a =>
            Cardinality(Hits(Conns(new), Links, a)) + 1 <= Cardinality(Hits(Conns(ch), Links, a))
  BY <1>5, ConnsAreBoxes, TakenFewer
<1>7. AtMost(Hits(Conns(new), Links, a), Hits(Conns(ch), Links, a))
  BY <1>6 DEF AtMost
<1>8. Head(ch[m][n]) = a =>
            Cardinality(Hits(Conns(new), Links, a)) + 1 <= Cardinality(Hits(Conns(ch), Links, a))
  BY <1>4, <1>6
<1> QED BY <1>2, <1>7, <1>8 DEF new

\* Writing b to the nodes U.
LEMMA WrittenBoxes ==
    ASSUME NEW ch \in Wires, NEW n \in Nodes, NEW U, U \subseteq Nodes, NEW b
    PROVE  Appended(Conns(ch), Conns(Sent(ch, n, U, b)), Links, {n} \X U, b)
<1> DEFINE new == Sent(ch, n, U, b)
<1> SUFFICES ASSUME NEW p \in Links
             PROVE  Conns(new)[p] = IF p \in {n} \X U THEN Append(Conns(ch)[p], b) ELSE Conns(ch)[p]
  BY DEF Appended
<1>1. p[1] \in Nodes /\ p[2] \in Nodes /\ p = <<p[1], p[2]>>
  BY DEF Links
<1>2. Conns(new)[p] = new[p[1]][p[2]] /\ Conns(ch)[p] = ch[p[1]][p[2]]
  BY DEF Conns
<1>3. p \in {n} \X U <=> p[1] = n /\ p[2] \in U
  BY <1>1
<1>4. new[p[1]][p[2]] = IF p[1] = n /\ p[2] \in U THEN Append(ch[p[1]][p[2]], b) ELSE ch[p[1]][p[2]]
  BY <1>1 DEF Sent, Wires
<1> HIDE DEF new
<1> QED BY <1>2, <1>3, <1>4

\* selectRandomPeers never selects more than fanout.
LEMMA SelectedFew ==
    ASSUME IInv, NEW n \in Nodes, NEW f \in Nat, NEW U \in Selections(n, f)
    PROVE  U \subseteq Nodes /\ IsFiniteSet({n} \X U) /\ Cardinality({n} \X U) <= f
<1>1. U \subseteq peers[n] /\ peers[n] \subseteq Nodes
  BY DEF Selections, IInv, OtherTypes
<1>2. IsFiniteSet(peers[n]) /\ IsFiniteSet(U)
  BY <1>1, FS_Subset
<1>3. Cardinality(U) = (IF f < Cardinality(peers[n]) THEN f ELSE Cardinality(peers[n]))
  BY DEF Selections
<1>4. Cardinality(U) <= f /\ Cardinality(U) \in Nat
  <2>1. Cardinality(peers[n]) \in Nat
    BY <1>2, FS_CardinalityType
  <2> QED BY <1>3, <2>1
<1> DEFINE e == [m \in U |-> <<n, m>>]
           S == {n} \X U
<1>5. e \in Surjection(U, S)
  <2>1. \A m \in U : <<n, m>> \in S
    OBVIOUS
  <2>2. \A x \in S : x[2] \in U /\ x = <<n, x[2]>>
    OBVIOUS
  <2> HIDE DEF S
  <2>3. e \in [U -> S]
    BY <2>1
  <2>4. \A x \in S : \E m \in U : e[m] = x
    BY <2>2
  <2> HIDE DEF e
  <2> QED BY <2>3, <2>4 DEF Surjection
<1> HIDE DEF e, S
<1>6. IsFiniteSet(S) /\ Cardinality(S) <= Cardinality(U)
  BY <1>2, <1>5, FS_Surjection
<1>7. Cardinality(S) \in Nat
  BY <1>6, FS_CardinalityType
<1>8. Cardinality(S) <= f
  BY <1>4, <1>6, <1>7
<1> QED BY <1>1, <1>6, <1>8 DEF S

-----------------------------------------------------------------------------
\* Writing one announcement adds no other.
LEMMA WrittenOther ==
    ASSUME NEW ch \in Wires, NEW n \in Nodes, NEW U, U \subseteq Nodes,
           NEW b \in AnnouncementType, NEW a, a # b, IsFiniteSet(Hits(Conns(ch), Links, a))
    PROVE  AtMost(Hits(Conns(Sent(ch, n, U, b)), Links, a), Hits(Conns(ch), Links, a))
<1> DEFINE new == Conns(Sent(ch, n, U, b))
           S == {n} \X U
<1>1. Appended(Conns(ch), new, Links, S, b) /\ Boxes(Conns(ch), Links)
  BY WrittenBoxes, ConnsAreBoxes
<1> HIDE DEF new, S
<1>2. Hits(new, Links, a) \subseteq Hits(Conns(ch), Links, a)
  BY <1>1, AppendedOther
<1>3. AtMost(Hits(new, Links, a), Hits(Conns(ch), Links, a))
  BY <1>2, AtMostSubset
<1> QED BY <1>3 DEF new

\* And it adds at most fanout of its own.
LEMMA WrittenSame ==
    ASSUME IInv, NEW ch \in Wires, NEW n \in Nodes, NEW f \in Nat, NEW U \in Selections(n, f),
           NEW b \in AnnouncementType, IsFiniteSet(Hits(Conns(ch), Links, b))
    PROVE  /\ IsFiniteSet(Hits(Conns(Sent(ch, n, U, b)), Links, b))
           /\ Cardinality(Hits(Conns(Sent(ch, n, U, b)), Links, b))
                <= Cardinality(Hits(Conns(ch), Links, b)) + f
<1> DEFINE new == Conns(Sent(ch, n, U, b))
           S == {n} \X U
           H == Hits(Conns(ch), Links, b)
           K == Hits(new, Links, b)
<1>1. U \subseteq Nodes /\ IsFiniteSet(S) /\ Cardinality(S) <= f
  BY SelectedFew
<1>2. Appended(Conns(ch), new, Links, S, b) /\ Boxes(Conns(ch), Links)
  BY <1>1, WrittenBoxes, ConnsAreBoxes
<1> HIDE DEF new, S
<1>3. IsFiniteSet(K) /\ Cardinality(K) <= Cardinality(H) + Cardinality(S)
  BY <1>1, <1>2, AppendedSame
<1>4. Cardinality(K) \in Nat /\ Cardinality(H) \in Nat /\ Cardinality(S) \in Nat
  BY <1>1, <1>3, FS_CardinalityType
<1> HIDE DEF H, K
<1>5. Cardinality(K) <= Cardinality(H) + f
  BY <1>1, <1>3, <1>4
<1> QED BY <1>3, <1>5 DEF H, K, new

-----------------------------------------------------------------------------
\* Announcements of different items or ttl differ.
LEMMA Distinct ==
    ASSUME NEW i, NEW t, NEW b \in AnnouncementType, b.item # i \/ b.ttl # t
    PROVE  [item |-> i, ttl |-> t] # b
BY DEF AnnouncementType

\* Queues that do not change.
LEMMA LinesKept ==
    ASSUME UNCHANGED <<pending, sending>>, NEW i
    PROVE  Queued(i)' = Queued(i)
BY DEF Queued, Lines

\* Queueing another item.
LEMMA LinesAppended ==
    ASSUME Traffic, NEW i, IsFiniteSet(Queued(i)), NEW n \in Nodes, NEW j, j # i,
           Announcement(j) \in AnnouncementType,
           pending' = [pending EXCEPT ![n] = Append(@, Announcement(j))], UNCHANGED sending
    PROVE  AtMost(Queued(i)', Queued(i))
<1> DEFINE S == {<<"pending", n>>}
           b == Announcement(j)
           new == Lines'
<1>0. pending \in [Nodes -> Seq(Fresh)]
  BY DEF Traffic
<1>1. ASSUME NEW p \in Spots
      PROVE  new[p] = IF p \in S THEN Append(Lines[p], b) ELSE Lines[p]
  <2>1. p[1] \in {"pending", "sending"} /\ p[2] \in Nodes /\ p = <<p[1], p[2]>>
    BY DEF Spots
  <2>2. /\ new[p] = IF p[1] = "pending" THEN pending'[p[2]] ELSE sending[p[2]]
        /\ Lines[p] = IF p[1] = "pending" THEN pending[p[2]] ELSE sending[p[2]]
    BY DEF Lines
  <2>3. p \in S <=> p[1] = "pending" /\ p[2] = n
    BY <2>1
  <2>4. pending'[p[2]] = IF p[2] = n THEN Append(pending[n], b) ELSE pending[p[2]]
    BY <1>0, <2>1
  <2> HIDE DEF new, S, b
  <2> QED BY <2>2, <2>3, <2>4
<1> HIDE DEF new, S
<1>2. Appended(Lines, new, Spots, S, b) /\ Boxes(Lines, Spots)
  BY <1>1, LinesAreBoxes DEF Appended
<1>3. Announcement(i) # b
  BY DEF Announcement
<1> HIDE DEF b
<1>4. Hits(new, Spots, Announcement(i)) \subseteq Hits(Lines, Spots, Announcement(i))
  BY <1>2, <1>3, AppendedOther DEF b
<1>5. AtMost(Hits(new, Spots, Announcement(i)), Hits(Lines, Spots, Announcement(i)))
  BY <1>4, AtMostSubset DEF Queued
<1> QED BY <1>5 DEF Queued, new

\* Taking the batch.
LEMMA LinesTaken ==
    ASSUME Traffic, NEW i, IsFiniteSet(Queued(i)), NEW n \in Nodes, TakeBatch(n)
    PROVE  AtMost(Queued(i)', Queued(i))
<1> DEFINE new == Lines'
           q == <<"pending", n>>
           r == <<"sending", n>>
           a == Announcement(i)
<1>0. pending \in [Nodes -> Seq(Fresh)] /\ sending \in [Nodes -> Seq(Fresh)]
  BY DEF Traffic
<1>1. q \in Spots /\ r \in Spots /\ q # r /\ Lines[q] = pending[n] /\ Lines[r] = sending[n]
  BY DEF Spots, Lines
<1>2. \A p \in Spots : /\ p[1] \in {"pending", "sending"} /\ p[2] \in Nodes
                       /\ p = <<p[1], p[2]>>
                       /\ (p = q <=> p[1] = "pending" /\ p[2] = n)
                       /\ (p = r <=> p[1] = "sending" /\ p[2] = n)
  BY DEF Spots
<1>3. \A p \in Spots :
        /\ new[p] = IF p[1] = "pending" THEN pending'[p[2]] ELSE sending'[p[2]]
        /\ Lines[p] = IF p[1] = "pending" THEN pending[p[2]] ELSE sending[p[2]]
  BY DEF Lines
<1>4. \A m \in Nodes : pending'[m] = IF m = n THEN <<>> ELSE pending[m]
  BY <1>0 DEF TakeBatch
<1> HIDE DEF new, q, r, a
<1>5. CASE peers[n] = {}
  <2>1. sending' = sending
    BY <1>5 DEF TakeBatch
  <2>2. \A p \in Spots : new[p] = Lines[p] \/ new[p] = <<>>
    BY <1>2, <1>3, <1>4, <2>1
  <2>3. Hits(new, Spots, a) \subseteq Hits(Lines, Spots, a)
    BY <2>2, EmptiedFewer
  <2>4. AtMost(Hits(new, Spots, a), Hits(Lines, Spots, a))
    BY <2>3, AtMostSubset DEF Queued, a
  <2> QED BY <2>4 DEF Queued, new, a
<1>6. CASE peers[n] # {}
  <2>0. PICK c \in Shuffles(sending[n], pending[n]) : sending' = [sending EXCEPT ![n] = c]
    BY <1>0, <1>6, BatchTaken
  <2>1. \A m \in Nodes : sending'[m] = IF m = n THEN c ELSE sending[m]
    BY <1>0, <2>0
  <2>2. c \in Shuffles(Lines[r], Lines[q])
    BY <1>1
  <2>3. \A p \in Spots : new[p] = IF p = q THEN <<>> ELSE IF p = r THEN c ELSE Lines[p]
    BY <1>2, <1>3, <1>4, <2>1
  <2>4. Poured(Lines, new, Spots, q, r)
    <3>1. new[q] = <<>> /\ new[r] = c /\ \A p \in Spots : p \notin {q, r} => new[p] = Lines[p]
      BY <1>1, <2>3
    <3> QED BY <1>1, <2>2, <3>1, Zenon DEF Poured
  <2>5. AtMost(Hits(new, Spots, a), Hits(Lines, Spots, a))
    BY <2>4, LinesAreBoxes, PouredFewer DEF AtMost, Queued, a
  <2> QED BY <2>5 DEF Queued, new, a
<1> QED BY <1>5, <1>6

\* Sending the first of the batch.
LEMMA LinesSent ==
    ASSUME Traffic, NEW i, IsFiniteSet(Queued(i)), NEW n \in Nodes, sending[n] # <<>>,
           sending' = [sending EXCEPT ![n] = Tail(@)], UNCHANGED pending
    PROVE  /\ AtMost(Queued(i)', Queued(i))
           /\ Head(sending[n]) = Announcement(i) => Cardinality(Queued(i)') + 1 <= Cardinality(Queued(i))
<1> DEFINE new == Lines'
           q == <<"sending", n>>
           a == Announcement(i)
<1>0. sending \in [Nodes -> Seq(Fresh)]
  BY DEF Traffic
<1>1. q \in Spots /\ Lines[q] = sending[n]
  BY DEF Spots, Lines
<1>2. \A p \in Spots : /\ p[1] \in {"pending", "sending"} /\ p[2] \in Nodes
                       /\ (p = q <=> p[1] = "sending" /\ p[2] = n)
  BY DEF Spots
<1>3. \A p \in Spots :
        /\ new[p] = IF p[1] = "pending" THEN pending[p[2]] ELSE sending'[p[2]]
        /\ Lines[p] = IF p[1] = "pending" THEN pending[p[2]] ELSE sending[p[2]]
  BY DEF Lines
<1>4. \A m \in Nodes : sending'[m] = IF m = n THEN Tail(sending[n]) ELSE sending[m]
  BY <1>0
<1> HIDE DEF new, q, a
<1>5. Taken(Lines, new, Spots, q)
  BY <1>1, <1>2, <1>3, <1>4 DEF Taken
<1>6. /\ AtMost(Hits(new, Spots, a), Hits(Lines, Spots, a))
      /\ Head(Lines[q]) = a =>
           Cardinality(Hits(new, Spots, a)) + 1 <= Cardinality(Hits(Lines, Spots, a))
  BY <1>5, LinesAreBoxes, TakenFewer DEF AtMost, Queued, a
<1> QED BY <1>1, <1>6 DEF Queued, new, a

-----------------------------------------------------------------------------
\* The levels of an account.
LEMMA Levels ==
    ASSUME NEW i
    PROVE  /\ TtlOf(i) + 1 \in 0..(TtlOf(i) + 1)
           /\ Level(i, TtlOf(i) + 1) = Queued(i) /\ Level(i, TtlOf(i) + 1)' = Queued(i)'
           /\ \A t \in 0..TtlOf(i) :
                 t \in 0..(TtlOf(i) + 1)
                 /\ Level(i, t) = Underway(chan, i, t) /\ Level(i, t)' = Underway(chan', i, t)
           /\ \A t \in 0..(TtlOf(i) + 1) : t = TtlOf(i) + 1 \/ t \in 0..TtlOf(i)
<1>1. TtlOf(i) \in Nat
  BY TtlIsNat
<1>2. \A t \in 0..TtlOf(i) : t \in 0..(TtlOf(i) + 1) /\ t # TtlOf(i) + 1
  BY <1>1
<1>3. \A t \in 0..(TtlOf(i) + 1) : t = TtlOf(i) + 1 \/ t \in 0..TtlOf(i)
  BY <1>1
<1>4. TtlOf(i) + 1 \in 0..(TtlOf(i) + 1)
  BY <1>1
<1> QED BY <1>2, <1>3, <1>4 DEF Level, Underway

\* What an account counts is finite.
LEMMA AccountFinite ==
    ASSUME NEW i, Account(i)
    PROVE  IsFiniteSet(Queued(i)) /\ \A t \in 0..TtlOf(i) : IsFiniteSet(Underway(chan, i, t))
BY Levels DEF Account

\* The account of an item that a step does not add to.
LEMMA AccountKept ==
    ASSUME NEW i, Account(i), AtMost(Queued(i)', Queued(i)),
           \A t \in 0..TtlOf(i) : AtMost(Underway(chan', i, t), Underway(chan, i, t))
    PROVE  Account(i)'
<1>1. \A t \in 0..(TtlOf(i) + 1) : AtMost(Level(i, t)', Level(i, t))
  BY Levels
<1> QED BY <1>1, Settled

\* Connections that do not change add nothing,
LEMMA ConnsKept ==
    ASSUME NEW i, Account(i), UNCHANGED chan
    PROVE  \A t \in 0..TtlOf(i) : AtMost(Underway(chan', i, t), Underway(chan, i, t))
<1>1. \A t \in 0..TtlOf(i) : IsFiniteSet(Underway(chan, i, t))
  BY AccountFinite
<1> QED BY <1>1, AtMostSubset DEF Underway

\* neither do queues.
LEMMA QueuedKept ==
    ASSUME NEW i, Account(i), UNCHANGED <<pending, sending>>
    PROVE  AtMost(Queued(i)', Queued(i))
<1>1. IsFiniteSet(Queued(i)) /\ Queued(i)' = Queued(i)
  BY AccountFinite, LinesKept
<1> QED BY <1>1, AtMostSubset

\* A step that sends and receives nothing, and queues at most another item.
LEMMA AccountIdle ==
    ASSUME NEW i, Account(i), UNCHANGED chan, AtMost(Queued(i)', Queued(i))
    PROVE  Account(i)'
BY ConnsKept, AccountKept

-----------------------------------------------------------------------------
\* Announcing: nothing of the new item is anywhere, so its account is in order.
LEMMA AnnounceTraffic ==
    ASSUME IInv, Traffic, NEW j \in Items, AnnounceAny(j)
    PROVE  Traffic'
<1>0. j.kind # "ack" /\ j.origin \in Nodes
  BY DEF ItemType
<1>1. /\ announced' = announced \cup {j} /\ j \notin announced
      /\ pending' = [pending EXCEPT ![j.origin] = Append(@, Announcement(j))]
      /\ UNCHANGED <<chan, sending>>
  BY DEF AnnounceAny, AnnounceBlock, AnnounceMessage, AnnounceHeadUpdate, AnnouncePool,
         AnnounceBrightTrust, AnnounceIndex, Announce, QueueAnnouncement
<1>2. Announcement(j) \in AnnouncementType /\ Announcement(j) \in Fresh
  <2>1. TtlOf(j) \in Nat
    BY TtlIsNat
  <2>2. Announcement(j) \in AnnouncementType /\ Announcement(j).item = j
    BY <2>1 DEF Announcement, AnnouncementType
  <2> QED BY <2>2 DEF Fresh
<1>3. pending' \in [Nodes -> Seq(Fresh)] /\ sending' \in [Nodes -> Seq(Fresh)]
  <2>1. Append(pending[j.origin], Announcement(j)) \in Seq(Fresh)
    BY <1>0, <1>2, AppendProperties DEF Traffic
  <2> QED BY <1>0, <1>1, <2>1 DEF Traffic
<1>4. ASSUME NEW i \in announced PROVE Account(i)'
  <2>1. Account(i) /\ i # j
    BY <1>1 DEF Traffic
  <2>2. AtMost(Queued(i)', Queued(i))
    BY <1>0, <1>1, <1>2, <2>1, AccountFinite, LinesAppended
  <2> QED BY <1>1, <2>1, <2>2, AccountIdle
<1>5. Account(j)'
  <2> DEFINE ttl == TtlOf(j)
             a == Announcement(j)
  <2>1. ttl \in Nat /\ FanoutOf(j) \in Nat
    BY TtlIsNat, FanoutIsNat
  <2>2. \A x \in Good : x.item # j
    BY <1>0, <1>1 DEF Good, Accountable
  <2>3. \A s \in Seq(Good) : \A k \in DOMAIN s : s[k].item # j
    BY <2>2, ElementOfSeq, LenProperties
  <2>4. Queued(j) = {}
    <3> SUFFICES ASSUME NEW x \in Queued(j) PROVE FALSE
      OBVIOUS
    <3>1. x[1] \in Spots /\ x[2] \in DOMAIN Lines[x[1]] /\ Lines[x[1]][x[2]] = a
      BY DEF Queued, Hits
    <3>2. Lines[x[1]] \in Seq(Good)
      BY <3>1 DEF Lines, Spots, IInv, QueuesGood
    <3>3. a.item = j
      BY DEF Announcement
    <3> QED BY <2>3, <3>1, <3>2, <3>3
  <2>5. ASSUME NEW t PROVE Underway(chan, j, t) = {}
    <3> SUFFICES ASSUME NEW x \in Underway(chan, j, t) PROVE FALSE
      OBVIOUS
    <3>1. x[1] \in Links /\ x[2] \in DOMAIN Conns(chan)[x[1]]
          /\ Conns(chan)[x[1]][x[2]] = [item |-> j, ttl |-> t]
      BY DEF Underway, Hits
    <3>2. Conns(chan)[x[1]] \in Seq(Good)
      BY <3>1 DEF Conns, Links, IInv, QueuesGood
    <3>3. [item |-> j, ttl |-> t].item = j
      OBVIOUS
    <3> QED BY <2>3, <3>1, <3>2, <3>3
  <2>6. IsFiniteSet(Queued(j)') /\ Cardinality(Queued(j)') <= 1 /\ Cardinality(Queued(j)') \in Nat
    <3> DEFINE S == {<<"pending", j.origin>>}
               new == Lines'
    <3>0. pending \in [Nodes -> Seq(Fresh)]
      BY DEF Traffic
    <3>1. ASSUME NEW p \in Spots
          PROVE  new[p] = IF p \in S THEN Append(Lines[p], a) ELSE Lines[p]
      <4>1. p[1] \in {"pending", "sending"} /\ p[2] \in Nodes /\ p = <<p[1], p[2]>>
        BY DEF Spots
      <4>2. /\ new[p] = IF p[1] = "pending" THEN pending'[p[2]] ELSE sending[p[2]]
            /\ Lines[p] = IF p[1] = "pending" THEN pending[p[2]] ELSE sending[p[2]]
        BY <1>1 DEF Lines
      <4>3. p \in S <=> p[1] = "pending" /\ p[2] = j.origin
        BY <4>1
      <4>4. pending'[p[2]] = IF p[2] = j.origin THEN Append(pending[j.origin], a) ELSE pending[p[2]]
        BY <1>0, <1>1, <3>0, <4>1
      <4> HIDE DEF new, S, a
      <4> QED BY <4>2, <4>3, <4>4
    <3>2. IsFiniteSet(S) /\ Cardinality(S) = 1
      BY FS_Singleton
    <3>3. IsFiniteSet(Hits(Lines, Spots, a)) /\ Cardinality(Hits(Lines, Spots, a)) = 0
      BY <2>4, FS_EmptySet DEF Queued
    <3> HIDE DEF S, new
    <3>4. Appended(Lines, new, Spots, S, a) /\ Boxes(Lines, Spots)
      BY <3>1, LinesAreBoxes DEF Appended
    <3>5. a \in AnnouncementType
      BY <1>2
    <3> HIDE DEF a
    <3>6. /\ IsFiniteSet(Hits(new, Spots, a))
          /\ Cardinality(Hits(new, Spots, a)) <= Cardinality(Hits(Lines, Spots, a)) + Cardinality(S)
      BY <3>2, <3>3, <3>4, <3>5, AppendedSame
    <3>7. Cardinality(Hits(new, Spots, a)) <= 1 /\ Cardinality(Hits(new, Spots, a)) \in Nat
      BY <3>2, <3>3, <3>6, FS_CardinalityType
    <3> QED BY <3>6, <3>7 DEF Queued, new, a
  <2>7. \A t \in 0..(ttl + 1) : IsFiniteSet(Level(j, t)')
    BY <1>1, <2>5, <2>6, Levels, FS_EmptySet
  <2>8. Count(j)' \in [0..(ttl + 1) -> Nat]
    BY <2>7, CountTypeNext
  <2>9. Count(j)'[ttl + 1] <= 1
    BY <2>6, Levels DEF Count
  <2>10. \A t \in 0..ttl : Count(j)'[t] = 0
    BY <1>1, <2>5, Levels, FS_EmptySet DEF Count
  <2>11. \E p : Balanced(Count(j)', p, FanoutOf(j), ttl)
    BY <2>1, <2>8, <2>9, <2>10, NewBalanced
  <2> QED BY <2>7, <2>11 DEF Account
<1> QED BY <1>1, <1>3, <1>4, <1>5 DEF Traffic

\* The timer, and taking the batch.
LEMMA BatchTraffic ==
    ASSUME IInv, Traffic, NEW n \in Nodes, TakeBatch(n), UNCHANGED <<chan, announced>>
    PROVE  Traffic'
<1>1. pending \in [Nodes -> Seq(Fresh)] /\ sending \in [Nodes -> Seq(Fresh)]
  BY DEF Traffic
<1>2. \A s \in Shuffles(sending[n], pending[n]) : s \in Seq(Fresh)
  BY <1>1, ShuffleFrom
<1>3. pending' \in [Nodes -> Seq(Fresh)]
  BY <1>1, EmptySeq DEF TakeBatch
<1>4. sending' \in [Nodes -> Seq(Fresh)]
  BY <1>1, <1>2, BatchTaken
<1>5. ASSUME NEW i \in announced PROVE Account(i)'
  <2>1. Account(i)
    BY DEF Traffic
  <2>2. AtMost(Queued(i)', Queued(i))
    BY <2>1, AccountFinite, LinesTaken
  <2> QED BY <2>1, <2>2, AccountIdle
<1> QED BY <1>3, <1>4, <1>5 DEF Traffic

\* Steps that touch neither queues nor connections.
LEMMA IdleTraffic ==
    ASSUME Traffic, UNCHANGED <<chan, announced, pending, sending>>
    PROVE  Traffic'
<1>1. ASSUME NEW i \in announced PROVE Account(i)'
  BY QueuedKept, AccountIdle DEF Traffic
<1> QED BY <1>1 DEF Traffic

\* batchFlush sends one announcement: it leaves the queue, and at most fanout
\* copies with all the ttl are on their way.
LEMMA SendTraffic ==
    ASSUME IInv, Traffic, NEW n \in Nodes, SendNext(n)
    PROVE  Traffic'
<1> DEFINE b == Head(sending[n])
<1>1. sending[n] \in Seq(Fresh) /\ sending[n] # <<>>
  BY DEF Traffic, SendNext
<1>2. b \in Fresh /\ Tail(sending[n]) \in Seq(Fresh)
  BY <1>1, HeadTailProperties
<1>3. b \in AnnouncementType /\ b = Announcement(b.item)
  BY <1>2 DEF Fresh
<1>4. PICK U \in Selections(n, FanoutOf(b.item)) : chan' = Sent(chan, n, U, b)
  BY DEF SendNext
<1>5. /\ sending' = [sending EXCEPT ![n] = Tail(@)] /\ UNCHANGED <<pending, announced>>
      /\ pending' \in [Nodes -> Seq(Fresh)] /\ sending' \in [Nodes -> Seq(Fresh)]
  BY <1>2 DEF SendNext, Traffic, history
<1>6. U \subseteq Nodes /\ chan \in Wires /\ FanoutOf(b.item) \in Nat
  BY <1>4, SelectedFew, FanoutIsNat, ChanIsWires
<1> HIDE DEF b
<1>7. ASSUME NEW i \in announced PROVE Account(i)'
  <2>1. Account(i) /\ TtlOf(i) \in Nat
    BY TtlIsNat DEF Traffic
  <2>2. IsFiniteSet(Queued(i)) /\ \A t \in 0..TtlOf(i) : IsFiniteSet(Underway(chan, i, t))
    BY <2>1, AccountFinite
  <2>3. /\ AtMost(Queued(i)', Queued(i))
        /\ b = Announcement(i) => Cardinality(Queued(i)') + 1 <= Cardinality(Queued(i))
    BY <1>1, <1>5, <2>2, LinesSent DEF b
  <2>4. ASSUME NEW t \in 0..TtlOf(i), b.item # i \/ b.ttl # t
        PROVE  AtMost(Underway(chan', i, t), Underway(chan, i, t))
    <3>1. [item |-> i, ttl |-> t] # b
      BY <1>3, <2>4, Distinct
    <3> QED BY <1>3, <1>4, <1>6, <2>2, <3>1, WrittenOther DEF Underway
  <2>5. CASE b.item # i
    BY <2>1, <2>3, <2>4, <2>5, AccountKept
  <2>6. CASE b.item = i
    <3> DEFINE s == TtlOf(i) + 1
    <3>1. b = [item |-> i, ttl |-> TtlOf(i)] /\ b = Announcement(i) /\ b.ttl = TtlOf(i)
      BY <1>3, <2>6 DEF Announcement
    <3>2. /\ IsFiniteSet(Underway(chan', i, TtlOf(i)))
          /\ Cardinality(Underway(chan', i, TtlOf(i))) <= Cardinality(Underway(chan, i, TtlOf(i))) + FanoutOf(i)
      <4>1. TtlOf(i) \in 0..TtlOf(i)
        BY <2>1
      <4>2. IsFiniteSet(Hits(Conns(chan), Links, b))
        BY <2>2, <3>1, <4>1 DEF Underway
      <4>3. /\ IsFiniteSet(Hits(Conns(Sent(chan, n, U, b)), Links, b))
            /\ Cardinality(Hits(Conns(Sent(chan, n, U, b)), Links, b))
                 <= Cardinality(Hits(Conns(chan), Links, b)) + FanoutOf(b.item)
        BY <1>3, <1>4, <1>6, <4>2, WrittenSame
      <4> QED BY <1>4, <2>6, <3>1, <4>3 DEF Underway
    <3>3. \A t \in 0..TtlOf(i) : t # TtlOf(i) => AtMost(Underway(chan', i, t), Underway(chan, i, t))
      BY <2>4, <3>1
    <3>4. s \in 1..(TtlOf(i) + 1) /\ s - 1 = TtlOf(i) /\ TtlOf(i) \in 0..TtlOf(i)
      BY <2>1
    <3>5. Level(i, s)' = Queued(i)' /\ Level(i, s) = Queued(i)
      BY Levels
    <3>6. Level(i, s - 1)' = Underway(chan', i, TtlOf(i)) /\ Level(i, s - 1) = Underway(chan, i, TtlOf(i))
      <4>1. Level(i, TtlOf(i))' = Underway(chan', i, TtlOf(i)) /\ Level(i, TtlOf(i)) = Underway(chan, i, TtlOf(i))
        BY <3>4, Levels
      <4> QED BY <3>4, <4>1 DEF Level
    <3>7. \A t \in 0..(TtlOf(i) + 1) : t # s /\ t # s - 1 => AtMost(Level(i, t)', Level(i, t))
      BY <3>3, <3>4, Levels
    <3>8. \A t \in 0..(TtlOf(i) + 1) : IsFiniteSet(Level(i, t)')
      <4> SUFFICES ASSUME NEW t \in 0..(TtlOf(i) + 1) PROVE IsFiniteSet(Level(i, t)')
        OBVIOUS
      <4>1. CASE t = s
        BY <2>3, <3>5, <4>1 DEF AtMost
      <4>2. CASE t = s - 1
        BY <3>2, <3>4, <4>2, Levels
      <4>3. CASE t # s /\ t # s - 1
        BY <3>7, <4>3 DEF AtMost
      <4> QED BY <4>1, <4>2, <4>3
    <3>9. /\ Cardinality(Level(i, s)') + 1 <= Cardinality(Level(i, s))
          /\ Cardinality(Level(i, s - 1)') <= Cardinality(Level(i, s - 1)) + FanoutOf(i)
      BY <2>3, <3>1, <3>2, <3>5, <3>6
    <3> HIDE DEF s
    <3> QED BY <2>1, <3>4, <3>7, <3>8, <3>9, PassedOn
  <2> QED BY <2>5, <2>6
<1> QED BY <1>5, <1>7 DEF Traffic

-----------------------------------------------------------------------------
\* Losing a connection, and making one.
LEMMA ConnectionTraffic ==
    ASSUME IInv, Traffic, NEW m \in Nodes, NEW n \in Nodes, Disconnect(m, n) \/ Connect(m, n)
    PROVE  Traffic'
<1>1. CASE Connect(m, n)
  BY <1>1, IdleTraffic DEF Connect, queues, history
<1>2. CASE Disconnect(m, n)
  <2>1. chan' = [chan EXCEPT ![m][n] = <<>>] /\ UNCHANGED <<pending, sending, announced>>
    BY <1>2 DEF Disconnect, queues, history
  <2>2. chan \in Wires
    BY ChanIsWires
  <2>3. \A p \in Links : Conns(chan')[p] = Conns(chan)[p] \/ Conns(chan')[p] = <<>>
    BY <2>1, <2>2 DEF Links, Conns, Wires
  <2>4. ASSUME NEW i \in announced PROVE Account(i)'
    <3>1. Account(i)
      BY DEF Traffic
    <3>2. ASSUME NEW t \in 0..TtlOf(i) PROVE AtMost(Underway(chan', i, t), Underway(chan, i, t))
      <4>1. Underway(chan', i, t) \subseteq Underway(chan, i, t)
        BY <2>3, EmptiedFewer DEF Underway
      <4> QED BY <3>1, <4>1, AccountFinite, AtMostSubset
    <3> QED BY <2>1, <3>1, <3>2, QueuedKept, AccountKept
  <2> QED BY <2>1, <2>4 DEF Traffic
<1> QED BY <1>1, <1>2

\* What handlers do to the queues and the connections.
LEMMA HandlersDo ==
    ASSUME NEW m, NEW n, Receive(m, n)
    PROVE  LET x == Head(chan[m][n])
               ch == [chan EXCEPT ![m][n] = Tail(@)] IN
           /\ chan[m][n] # <<>> /\ UNCHANGED <<sending, announced>>
           /\ chan' = ch \/ ForwardAnnouncement(n, x, ch)
           /\ \/ UNCHANGED pending
              \/ \E k : k.kind = "ack" /\ pending' = [pending EXCEPT ![n] = Append(@, Announcement(k))]
<1> DEFINE x == Head(chan[m][n])
           ch == [chan EXCEPT ![m][n] = Tail(@)]
<1>1. chan[m][n] # <<>> /\ UNCHANGED <<sending, announced>>
  BY DEF Receive, history
<1>2. \/ HandleAnnouncement(n, x, ch)
      \/ chan' = ch /\ UNCHANGED pending
  BY DEF Receive
<1> HIDE DEF x, ch
<1>3. CASE HandleMessage(n, x, ch)
  <2>1. CASE Local(n, x.item) = {}
    BY <1>1, <1>3, <2>1 DEF HandleMessage, x, ch
  <2>2. CASE Local(n, x.item) # {}
    <3> DEFINE ack == DeliveryAck(n, AckedRecipient(n, x.item), x.item)
    <3>1. ack.kind = "ack"
      BY DEF DeliveryAck
    <3>2. chan' = ch /\ (UNCHANGED pending \/ QueueAnnouncement(n, ack))
      BY <1>3, <2>2 DEF HandleMessage
    <3> HIDE DEF ack
    <3> QED BY <1>1, <3>1, <3>2 DEF QueueAnnouncement, x, ch
  <2> QED BY <2>1, <2>2
<1>4. CASE HandleAck(n, x, ch) \/ HandleHeadUpdate(n, x, ch) \/ HandlePool(n, x, ch) \/ HandleOther(n, x, ch)
  <2>1. UNCHANGED pending /\ (chan' = ch \/ ForwardAnnouncement(n, x, ch))
    BY <1>4 DEF HandleAck, HandleHeadUpdate, HandlePool, HandleOther
  <2> QED BY <1>1, <2>1 DEF x, ch
<1>5. CASE chan' = ch /\ UNCHANGED pending
  BY <1>1, <1>5 DEF x, ch
<1> QED BY <1>2, <1>3, <1>4, <1>5 DEF HandleAnnouncement

\* The ack that is queued is an announcement.
LEMMA QueuedType ==
    ASSUME IInv, IInv', NEW n \in Nodes, NEW b, pending' = [pending EXCEPT ![n] = Append(@, b)]
    PROVE  b \in AnnouncementType
<1> DEFINE G == Good \cup {b}
           s == pending[n]
<1>1. s \in Seq(Good) /\ pending'[n] \in Seq(Good') /\ pending'[n] = Append(s, b)
  BY DEF IInv, QueuesGood
<1>2. s \in Seq(G) /\ b \in G
  BY <1>1, SeqMonotonic
<1>3. Len(s) \in Nat /\ Len(Append(s, b)) = Len(s) + 1 /\ Append(s, b)[Len(s) + 1] = b
  BY <1>2, AppendProperties, LenProperties
<1>4. b \in Good'
  <2>1. Len(s) + 1 \in 1..Len(Append(s, b)) /\ Append(s, b) \in Seq(Good')
    BY <1>1, <1>3
  <2> QED BY <1>3, <2>1, ElementOfSeq
<1> QED BY <1>4 DEF Good

\* Receiving: the copy that is read is gone before at most fanout copies with
\* less ttl are written.
LEMMA ReceiveTraffic ==
    ASSUME IInv, IInv', Traffic, NEW m \in Nodes, NEW n \in Nodes, Receive(m, n)
    PROVE  Traffic'
<1> DEFINE x == Head(chan[m][n])
           ch == [chan EXCEPT ![m][n] = Tail(@)]
<1>1. /\ chan[m][n] # <<>> /\ UNCHANGED <<sending, announced>>
      /\ chan' = ch \/ ForwardAnnouncement(n, x, ch)
      /\ \/ UNCHANGED pending
         \/ \E k : k.kind = "ack" /\ pending' = [pending EXCEPT ![n] = Append(@, Announcement(k))]
  BY HandlersDo
<1>2. chan \in Wires /\ x \in Good /\ x \in AnnouncementType /\ x.ttl \in Nat
  <2>1. x \in Good
    BY <1>1, ReadIn DEF IInv, QueuesGood
  <2> QED BY <2>1, ChanIsWires DEF Good, AnnouncementType
<1>3. ASSUME NEW i \in announced
      PROVE  AtMost(Queued(i)', Queued(i))
  <2>1. Account(i) /\ i.kind # "ack"
    BY DEF Traffic, IInv, OtherTypes
  <2>2. CASE UNCHANGED pending
    BY <1>1, <2>1, <2>2, QueuedKept
  <2>3. CASE ~UNCHANGED pending
    <3>1. PICK k : k.kind = "ack" /\ pending' = [pending EXCEPT ![n] = Append(@, Announcement(k))]
      BY <1>1, <2>3
    <3>2. Announcement(k) \in AnnouncementType
      BY <3>1, QueuedType
    <3> QED BY <1>1, <2>1, <3>1, <3>2, AccountFinite, LinesAppended
  <2> QED BY <2>2, <2>3
<1>4. pending' \in [Nodes -> Seq(Fresh)] /\ sending' \in [Nodes -> Seq(Fresh)]
  <2>1. pending \in [Nodes -> Seq(Fresh)] /\ sending \in [Nodes -> Seq(Fresh)]
    BY DEF Traffic
  <2>2. CASE UNCHANGED pending
    BY <1>1, <2>1, <2>2
  <2>3. CASE ~UNCHANGED pending
    <3>1. PICK k : k.kind = "ack" /\ pending' = [pending EXCEPT ![n] = Append(@, Announcement(k))]
      BY <1>1, <2>3
    <3>2. Announcement(k) \in Fresh
      <4>1. Announcement(k) \in AnnouncementType
        BY <3>1, QueuedType
      <4>2. Announcement(k).item = k
        BY DEF Announcement
      <4> QED BY <4>1, <4>2 DEF Fresh
    <3>3. Append(pending[n], Announcement(k)) \in Seq(Fresh)
      BY <2>1, <3>2, AppendProperties
    <3> QED BY <1>1, <2>1, <3>1, <3>3
  <2> QED BY <2>2, <2>3
<1>5. \A i \in announced : \A t \in 0..TtlOf(i) : IsFiniteSet(Underway(chan, i, t))
  BY AccountFinite DEF Traffic
<1>6. ASSUME NEW i \in announced, NEW t \in 0..TtlOf(i)
      PROVE  /\ ch \in Wires /\ AtMost(Underway(ch, i, t), Underway(chan, i, t))
             /\ x = [item |-> i, ttl |-> t] =>
                   Cardinality(Underway(ch, i, t)) + 1 <= Cardinality(Underway(chan, i, t))
  BY <1>1, <1>2, <1>5, ReadFewer DEF Underway
<1> HIDE DEF x, ch
<1>7. ASSUME NEW i \in announced PROVE Account(i)'
  <2>0. Account(i) /\ AtMost(Queued(i)', Queued(i)) /\ TtlOf(i) \in Nat
    BY <1>3, TtlIsNat DEF Traffic
  <2>1. CASE chan' = ch
    BY <1>6, <2>0, <2>1, AccountKept
  <2>2. CASE chan' # ch
    <3>1. x.ttl > 0 /\ \E U \in Selections(n, FanoutOf(x.item)) : chan' = Sent(ch, n, U, Decremented(x))
      BY <1>1, <2>2 DEF ForwardAnnouncement
    <3>2. PICK U \in Selections(n, FanoutOf(x.item)) : chan' = Sent(ch, n, U, Decremented(x))
      BY <3>1
    <3> DEFINE b == Decremented(x)
    <3>3. b \in AnnouncementType /\ b.item = x.item /\ b.ttl = x.ttl - 1
      BY <1>2, <3>1 DEF Decremented, AnnouncementType
    <3>4. U \subseteq Nodes /\ FanoutOf(x.item) \in Nat
      BY <3>2, SelectedFew, FanoutIsNat
    <3> HIDE DEF b
    <3>5. ASSUME NEW t \in 0..TtlOf(i), b.item # i \/ b.ttl # t
          PROVE  AtMost(Underway(chan', i, t), Underway(ch, i, t))
      <4>1. [item |-> i, ttl |-> t] # b
        BY <3>3, <3>5, Distinct
      <4>2. ch \in Wires /\ IsFiniteSet(Underway(ch, i, t))
        BY <1>6 DEF AtMost
      <4> QED BY <3>2, <3>3, <3>4, <4>1, <4>2, WrittenOther DEF Underway, b
    <3>6. ASSUME NEW t \in 0..TtlOf(i), b.item # i \/ b.ttl # t
          PROVE  AtMost(Underway(chan', i, t), Underway(chan, i, t))
      BY <1>5, <1>6, <3>5, <3>6, AtMostTrans
    <3>7. CASE x.item # i
      BY <2>0, <3>3, <3>6, <3>7, AccountKept
    <3>8. CASE x.item = i
      <4>0. PICK s \in Nat : s = x.ttl
        BY <1>2
      <4>1. s \in 1..TtlOf(i) /\ s \in 0..TtlOf(i) /\ s - 1 \in 0..TtlOf(i)
            /\ s \in 1..(TtlOf(i) + 1) /\ s # s - 1
        <5>1. s <= TtlOf(i)
          BY <1>2, <3>8, <4>0 DEF Good, Accountable
        <5> QED BY <2>0, <3>1, <4>0, <5>1
      <4>2. x = [item |-> i, ttl |-> s] /\ b = [item |-> i, ttl |-> s - 1] /\ b.ttl = s - 1 /\ b.item = i
        BY <1>2, <3>3, <3>8, <4>0 DEF AnnouncementType
      <4>3. /\ AtMost(Underway(chan', i, s), Underway(ch, i, s))
            /\ Cardinality(Underway(ch, i, s)) + 1 <= Cardinality(Underway(chan, i, s))
            /\ IsFiniteSet(Underway(ch, i, s)) /\ IsFiniteSet(Underway(chan, i, s))
        BY <1>5, <1>6, <3>5, <4>1, <4>2 DEF AtMost
      <4>4. Cardinality(Underway(chan', i, s)) + 1 <= Cardinality(Underway(chan, i, s))
        <5>1. Cardinality(Underway(chan', i, s)) \in Nat /\ Cardinality(Underway(ch, i, s)) \in Nat
              /\ Cardinality(Underway(chan, i, s)) \in Nat
          BY <4>3, FS_CardinalityType DEF AtMost
        <5> QED BY <4>3, <5>1 DEF AtMost
      <4>5. /\ IsFiniteSet(Underway(chan', i, s - 1))
            /\ Cardinality(Underway(chan', i, s - 1)) <= Cardinality(Underway(ch, i, s - 1)) + FanoutOf(i)
        <5>1. ch \in Wires /\ IsFiniteSet(Hits(Conns(ch), Links, b))
          BY <1>6, <4>1, <4>2 DEF AtMost, Underway
        <5>2. /\ IsFiniteSet(Hits(Conns(Sent(ch, n, U, b)), Links, b))
              /\ Cardinality(Hits(Conns(Sent(ch, n, U, b)), Links, b))
                   <= Cardinality(Hits(Conns(ch), Links, b)) + FanoutOf(x.item)
          BY <3>2, <3>3, <3>4, <5>1, WrittenSame
        <5> QED BY <3>2, <3>8, <4>2, <5>2 DEF Underway, b
      <4>6. Cardinality(Underway(chan', i, s - 1)) <= Cardinality(Underway(chan, i, s - 1)) + FanoutOf(i)
        <5>1. IsFiniteSet(Underway(ch, i, s - 1)) /\ IsFiniteSet(Underway(chan, i, s - 1))
              /\ Cardinality(Underway(ch, i, s - 1)) <= Cardinality(Underway(chan, i, s - 1))
          BY <1>5, <1>6, <4>1 DEF AtMost
        <5>2. Cardinality(Underway(chan', i, s - 1)) \in Nat /\ Cardinality(Underway(ch, i, s - 1)) \in Nat
              /\ Cardinality(Underway(chan, i, s - 1)) \in Nat /\ FanoutOf(i) \in Nat
          BY <4>5, <5>1, FS_CardinalityType, FanoutIsNat
        <5> QED BY <4>5, <5>1, <5>2
      <4>7. \A t \in 0..TtlOf(i) : t # s - 1 => AtMost(Underway(chan', i, t), Underway(chan, i, t))
        BY <3>6, <4>2
      <4>8. \A t \in 0..(TtlOf(i) + 1) : t # s /\ t # s - 1 => AtMost(Level(i, t)', Level(i, t))
        BY <2>0, <4>7, Levels
      <4>9. /\ Level(i, s) = Underway(chan, i, s) /\ Level(i, s)' = Underway(chan', i, s)
            /\ Level(i, s - 1) = Underway(chan, i, s - 1) /\ Level(i, s - 1)' = Underway(chan', i, s - 1)
        BY <4>1, Levels
      <4>10. \A t \in 0..(TtlOf(i) + 1) : IsFiniteSet(Level(i, t)')
        <5> SUFFICES ASSUME NEW t \in 0..(TtlOf(i) + 1) PROVE IsFiniteSet(Level(i, t)')
          OBVIOUS
        <5>1. CASE t = s
          BY <4>1, <4>3, <5>1, Levels DEF AtMost
        <5>2. CASE t = s - 1
          BY <4>1, <4>5, <5>2, Levels
        <5>3. CASE t # s /\ t # s - 1
          BY <4>8, <5>3 DEF AtMost
        <5> QED BY <5>1, <5>2, <5>3
      <4>11. /\ Cardinality(Level(i, s)') + 1 <= Cardinality(Level(i, s))
             /\ Cardinality(Level(i, s - 1)') <= Cardinality(Level(i, s - 1)) + FanoutOf(i)
        BY <4>4, <4>6, <4>9
      <4> QED BY <2>0, <4>1, <4>8, <4>10, <4>11, PassedOn
    <3> QED BY <3>7, <3>8
  <2> QED BY <2>1, <2>2
<1> QED BY <1>1, <1>4, <1>7 DEF Traffic

-----------------------------------------------------------------------------
\* At the start nothing is announced.
LEMMA TrafficInit ==
    ASSUME Init
    PROVE  Traffic
<1>1. <<>> \in Seq(Fresh)
  BY EmptySeq
<1> QED BY <1>1 DEF Init, Traffic

\* Every step keeps the accounts in order.
LEMMA TrafficStep ==
    ASSUME IInv, IInv', Traffic, [Next]_vars
    PROVE  Traffic'
<1>1. CASE UNCHANGED vars
  BY <1>1, IdleTraffic DEF vars, queues, history
<1>2. ASSUME NEW i \in Items, AnnounceAny(i) PROVE Traffic'
  BY <1>2, AnnounceTraffic
<1>3. ASSUME NEW n \in Nodes,
             Start(n) \/ Stop(n) \/ FlushAnnouncements(n) \/ TimerFires(n)
                \/ ScheduleBatchTimer(n) \/ SendNext(n)
      PROVE  Traffic'
  <2>1. CASE Start(n) \/ ScheduleBatchTimer(n)
    BY <2>1, IdleTraffic DEF Start, ScheduleBatchTimer, history
  <2>2. CASE Stop(n) \/ FlushAnnouncements(n) \/ TimerFires(n)
    BY <2>2, BatchTraffic DEF Stop, FlushAnnouncements, TimerFires, history
  <2>3. CASE SendNext(n)
    BY <2>3, SendTraffic
  <2> QED BY <1>3, <2>1, <2>2, <2>3
<1>4. ASSUME NEW m \in Nodes, NEW n \in Nodes, Receive(m, n) \/ Disconnect(m, n) \/ Connect(m, n)
      PROVE  Traffic'
  BY <1>4, ReceiveTraffic, ConnectionTraffic
<1> QED BY <1>1, <1>2, <1>3, <1>4 DEF Next

\* The accounts bound the copies.
LEMMA TrafficBounded ==
    ASSUME IInv, Traffic
    PROVE  CopiesBounded
<1> SUFFICES ASSUME NEW i \in announced, NEW t \in 0..TtlOf(i)
             PROVE  Cardinality(Copies(chan, [item |-> i, ttl |-> t]))
                      <= Spread(FanoutOf(i))[TtlOf(i) + 1 - t]
  BY DEF CopiesBounded
<1>1. TtlOf(i) \in Nat /\ FanoutOf(i) \in Nat /\ chan \in Wires
  BY TtlIsNat, FanoutIsNat, ChanIsWires
<1>2. Copies(chan, [item |-> i, ttl |-> t]) = Level(i, t)
  BY <1>1, CopiesAreHits, Levels DEF Underway
<1>3. Count(i)[t] = Cardinality(Level(i, t))
  BY Levels DEF Count
<1>4. PICK p : Balanced(Count(i), p, FanoutOf(i), TtlOf(i))
  BY DEF Traffic, Account
<1>5. Count(i)[t] <= Spread(FanoutOf(i))[TtlOf(i) + 1 - t]
  BY <1>1, <1>4, BalancedBound
<1> QED BY <1>2, <1>3, <1>5

\* CopiesBounded holds of every network, whatever its topology and however
\* connections come and go: although nothing remembers what was seen, of the
\* copies of an item with the same ttl never more are under way than fanout to
\* the power of the hops made (batchFlush, forwardAnnouncement, selectRandomPeers).
THEOREM CopiesAreBounded == Spec => []CopiesBounded
<1>1. Init => IInv /\ Traffic
  BY GossipInit, TrafficInit
<1>2. IInv /\ Traffic /\ [Next]_vars => (IInv /\ Traffic)'
  BY GossipStep, TrafficStep
<1>3. IInv /\ Traffic => CopiesBounded
  BY TrafficBounded
<1> QED BY <1>1, <1>2, <1>3, PTL DEF Spec

-----------------------------------------------------------------------------
(***************************************************************************)
(* The last update wins, on a reliable network.                            *)
(***************************************************************************)
USE GossipAssumption

(* Walks.                                                                  *)

\* Nodes are reached from themselves, and their peers in one hop more.
LEMMA WalkOn ==
    ASSUME NEW top \in [Nodes -> SUBSET Nodes], NEW m \in Nodes
    PROVE  /\ Reached(top, m, m, 0)
           /\ \A n \in Nodes, d \in Nat : \A q \in top[n] : Reached(top, m, n, d) => Reached(top, m, q, d + 1)
<1>1. Reached(top, m, m, 0)
  <2> DEFINE w == [i \in 0..0 |-> m]
  <2>1. w \in [0..0 -> Nodes] /\ w[0] = m /\ \A i \in 0..(0 - 1) : w[i + 1] \in top[w[i]]
    OBVIOUS
  <2> HIDE DEF w
  <2> QED BY <2>1 DEF Reached
<1>2. ASSUME NEW n \in Nodes, NEW d \in Nat, NEW q \in top[n], Reached(top, m, n, d)
      PROVE  Reached(top, m, q, d + 1)
  <2>1. PICK w \in [0..d -> Nodes] : w[0] = m /\ w[d] = n /\ \A i \in 0..(d - 1) : w[i + 1] \in top[w[i]]
    BY <1>2 DEF Reached
  <2> DEFINE v == [i \in 0..(d + 1) |-> IF i = d + 1 THEN q ELSE w[i]]
  <2>2. q \in Nodes
    OBVIOUS
  <2>3. v \in [0..(d + 1) -> Nodes] /\ v[0] = m /\ v[d + 1] = q /\ \A i \in 0..d : v[i] = w[i]
    BY <2>1, <2>2
  <2> HIDE DEF v
  <2>4. \A i \in 0..((d + 1) - 1) : v[i + 1] \in top[v[i]]
    <3> SUFFICES ASSUME NEW i \in 0..d PROVE v[i + 1] \in top[v[i]]
      OBVIOUS
    <3>1. CASE i = d
      BY <2>1, <2>3, <3>1
    <3>2. CASE i # d
      <4>1. i \in 0..(d - 1) /\ i + 1 \in 0..d
        BY <3>2
      <4> QED BY <2>1, <2>3, <4>1
    <3> QED BY <3>1, <3>2
  <2> QED BY <2>3, <2>4 DEF Reached
<1> QED BY <1>1, <1>2

\* A walk of no hops goes nowhere, any other begins with a peer.
LEMMA WalkBack ==
    ASSUME NEW top \in [Nodes -> SUBSET Nodes], NEW m \in Nodes, NEW n \in Nodes
    PROVE  /\ Reached(top, m, n, 0) => m = n
           /\ \A d \in Nat : Reached(top, m, n, d + 1) => \E q \in top[m] : Reached(top, q, n, d)
<1>1. Reached(top, m, n, 0) => m = n
  BY DEF Reached
<1>2. ASSUME NEW d \in Nat, Reached(top, m, n, d + 1)
      PROVE  \E q \in top[m] : Reached(top, q, n, d)
  <2>1. PICK w \in [0..(d + 1) -> Nodes] :
            w[0] = m /\ w[d + 1] = n /\ \A i \in 0..((d + 1) - 1) : w[i + 1] \in top[w[i]]
    BY <1>2 DEF Reached
  <2> DEFINE v == [i \in 0..d |-> w[i + 1]]
  <2>2. v \in [0..d -> Nodes] /\ v[0] = w[1] /\ v[d] = n /\ \A i \in 0..d : v[i] = w[i + 1]
    BY <2>1
  <2> HIDE DEF v
  <2>3. \A i \in 0..(d - 1) : v[i + 1] \in top[v[i]]
    <3> SUFFICES ASSUME NEW i \in 0..(d - 1) PROVE v[i + 1] \in top[v[i]]
      OBVIOUS
    <3>1. i + 1 \in 0..((d + 1) - 1) /\ i \in 0..d /\ i + 1 \in 0..d
      OBVIOUS
    <3> QED BY <2>1, <2>2, <3>1
  <2>4. w[1] \in top[m]
    <3>1. 0 \in 0..((d + 1) - 1) /\ 0 + 1 = 1
      OBVIOUS
    <3> QED BY <2>1, <3>1
  <2> QED BY <2>2, <2>3, <2>4 DEF Reached
<1> QED BY <1>1, <1>2

\* More connections do not end a walk.
LEMMA WalkStays ==
    ASSUME NEW top \in [Nodes -> SUBSET Nodes], NEW new \in [Nodes -> SUBSET Nodes],
           \A n \in Nodes : top[n] \subseteq new[n], NEW m, NEW n, NEW d \in Nat, Reached(top, m, n, d)
    PROVE  Reached(new, m, n, d)
<1>1. PICK w \in [0..d -> Nodes] : w[0] = m /\ w[d] = n /\ \A i \in 0..(d - 1) : w[i + 1] \in top[w[i]]
  BY DEF Reached
<1>2. \A i \in 0..(d - 1) : w[i + 1] \in new[w[i]]
  <2> SUFFICES ASSUME NEW i \in 0..(d - 1) PROVE w[i + 1] \in new[w[i]]
    OBVIOUS
  <2>1. w[i] \in Nodes /\ w[i + 1] \in top[w[i]]
    BY <1>1
  <2> QED BY <2>1
<1> QED BY <1>1, <1>2 DEF Reached

-----------------------------------------------------------------------------
(* Updates under way.  net has the peers, connections and queues; l is the  *)
(* last head of collection k.                                              *)

IsNet(net) ==
    /\ net.peers \in [Nodes -> SUBSET Nodes]
    /\ net.chan \in [Nodes -> [Nodes -> Seq(AnnouncementType)]]
    /\ net.pending \in [Nodes -> Seq(AnnouncementType)]
    /\ net.sending \in [Nodes -> Seq(AnnouncementType)]

\* Connections are sequences.
LEMMA LinesTyped ==
    ASSUME NEW net, IsNet(net), NEW i \in Nodes, NEW j \in Nodes
    PROVE  net.chan[i][j] \in Seq(AnnouncementType) /\ Len(net.chan[i][j]) \in Nat
<1>1. net.chan[i][j] \in Seq(AnnouncementType)
  BY DEF IsNet
<1> QED BY <1>1, LenProperties

IsUpdate(x, k) == x.item.kind = "head_update" /\ x.item.key = k
IsLast(x, k, l) == IsUpdate(x, k) /\ x.item.name = l
IsOld(x, k, l) == IsUpdate(x, k) /\ x.item.name # l

\* A queue has the last update with ttl t, and has it behind its x-th element.
Has(s, k, l, t) == \E y \in 1..Len(s) : IsLast(s[y], k, l) /\ s[y].ttl = t
Behind(s, x, k, l) == \E y \in 1..Len(s) : y > x /\ IsLast(s[y], k, l) /\ s[y].ttl = s[x].ttl

\* The last update is about to be read at m with ttl r, or is queued there.
Source(net, m, r, k, l) ==
    \/ \E p \in Nodes : Has(net.chan[p][m], k, l, r)
    \/ r = HeadTtl + 1 /\ (Has(net.sending[m], k, l, HeadTtl) \/ Has(net.pending[m], k, l, HeadTtl))

\* The last update will come to m with ttl r.
OnWay(net, m, r, k, l) ==
    \E d \in Nat, q \in Nodes : Reached(net.peers, q, m, d) /\ Source(net, q, r + d, k, l)

\* m has read it with ttl r and written it to all its peers.
Handed(net, new, m, r, k, l) ==
    r > 0 => \A q \in net.peers[m] :
        LET s == new.chan[m][q]
        IN Len(s) > 0 /\ IsLast(s[Len(s)], k, l) /\ s[Len(s)].ttl = r - 1

\* The last update stays where it is, but for those with ttl t at node c, which
\* are passed on to everybody.
Goes(net, new, k, l, c, t) ==
    /\ \A n \in Nodes : net.peers[n] \subseteq new.peers[n]
    /\ \A m \in Nodes, r \in Nat : Source(net, m, r, k, l) =>
          Source(new, m, r, k, l) \/ (m = c /\ r = t /\ Handed(net, new, m, r, k, l))

\* What comes to m comes to its peers, with a hop less.
LEMMA WayExtends ==
    ASSUME NEW net, IsNet(net), NEW m \in Nodes, NEW n \in net.peers[m], NEW r \in Nat, NEW k, NEW l,
           OnWay(net, m, r + 1, k, l)
    PROVE  OnWay(net, n, r, k, l)
<1>1. PICK d \in Nat, q \in Nodes : Reached(net.peers, q, m, d) /\ Source(net, q, (r + 1) + d, k, l)
  BY DEF OnWay
<1>2. net.peers \in [Nodes -> SUBSET Nodes]
  BY DEF IsNet
<1>3. Reached(net.peers, q, n, d + 1)
  BY <1>1, <1>2, WalkOn
<1>4. (r + 1) + d = r + (d + 1) /\ d + 1 \in Nat
  OBVIOUS
<1> QED BY <1>1, <1>3, <1>4 DEF OnWay

\* What is here comes here.
LEMMA WayStarts ==
    ASSUME NEW net, IsNet(net), NEW m \in Nodes, NEW r \in Nat, NEW k, NEW l, Source(net, m, r, k, l)
    PROVE  OnWay(net, m, r, k, l)
<1>1. Reached(net.peers, m, m, 0)
  BY WalkOn DEF IsNet
<1>2. r + 0 = r /\ 0 \in Nat
  OBVIOUS
<1> QED BY <1>1, <1>2 DEF OnWay

\* What was on its way still is, unless it has just been handed on here.
LEMMA WayGoesOn ==
    ASSUME NEW net, NEW new, IsNet(net), IsNet(new), NEW k, NEW l, NEW c, NEW t, Goes(net, new, k, l, c, t),
           NEW m \in Nodes, NEW r \in Nat, OnWay(net, m, r, k, l)
    PROVE  \/ OnWay(new, m, r, k, l)
           \/ /\ Source(net, m, r, k, l) /\ ~Source(new, m, r, k, l)
              /\ m = c /\ r = t /\ Handed(net, new, m, r, k, l)
<1>1. PICK d \in Nat, q \in Nodes : Reached(net.peers, q, m, d) /\ Source(net, q, r + d, k, l)
  BY DEF OnWay
<1>2. net.peers \in [Nodes -> SUBSET Nodes] /\ new.peers \in [Nodes -> SUBSET Nodes]
  BY DEF IsNet
<1>3. \A n \in Nodes : net.peers[n] \subseteq new.peers[n]
  BY DEF Goes
<1>4. r + d \in Nat
  OBVIOUS
<1>5. Source(new, q, r + d, k, l) \/ (q = c /\ r + d = t /\ Handed(net, new, q, r + d, k, l))
  <2>1. \A p \in Nodes, z \in Nat : Source(net, p, z, k, l) =>
            Source(new, p, z, k, l) \/ (p = c /\ z = t /\ Handed(net, new, p, z, k, l))
    BY DEF Goes
  <2> QED BY <1>1, <1>4, <2>1, Zenon
<1>6. CASE Source(new, q, r + d, k, l)
  <2>1. Reached(new.peers, q, m, d)
    BY <1>1, <1>2, <1>3, WalkStays
  <2> QED BY <1>6, <2>1 DEF OnWay
<1>7. CASE ~Source(new, q, r + d, k, l) /\ d = 0
  <2>0. Reached(net.peers, q, m, 0) => q = m
    BY <1>2, WalkBack
  <2>1. q = m /\ r + d = r
    BY <1>1, <1>7, <2>0
  <2> QED BY <1>1, <1>5, <1>7, <2>1, Zenon
<1>8. CASE ~Source(new, q, r + d, k, l) /\ d # 0
  <2>1. d - 1 \in Nat /\ (d - 1) + 1 = d /\ r + d > 0 /\ (r + d) - 1 = r + (d - 1)
    BY <1>8
  <2>0. \A h \in Nat : Reached(net.peers, q, m, h + 1) => \E z \in net.peers[q] : Reached(net.peers, z, m, h)
    BY <1>2, WalkBack
  <2>2. PICK z \in net.peers[q] : Reached(net.peers, z, m, d - 1)
    BY <1>1, <2>0, <2>1
  <2>3. z \in Nodes
    BY <1>2
  <2>4. Handed(net, new, q, r + d, k, l)
    BY <1>5, <1>8
  <2> DEFINE s == new.chan[q][z]
  <2>5. Len(s) > 0 /\ IsLast(s[Len(s)], k, l) /\ s[Len(s)].ttl = r + (d - 1)
    BY <2>1, <2>4 DEF Handed
  <2>6. s \in Seq(AnnouncementType)
    BY <2>3 DEF IsNet
  <2>7. Len(s) \in 1..Len(s)
    BY <2>5, <2>6, LenProperties
  <2>8. Has(s, k, l, r + (d - 1))
    BY <2>5, <2>7 DEF Has
  <2>9. Source(new, z, r + (d - 1), k, l)
    BY <2>3, <2>8 DEF Source
  <2>10. Reached(new.peers, z, m, d - 1)
    BY <1>2, <1>3, <2>1, <2>2, WalkStays
  <2> QED BY <2>1, <2>3, <2>9, <2>10 DEF OnWay
<1> QED BY <1>6, <1>7, <1>8

\* When the last update stays wherever it is, what was on its way still is.
LEMMA WayStays ==
    ASSUME NEW net, NEW new, IsNet(net), IsNet(new), NEW k, NEW l,
           \A n \in Nodes : net.peers[n] \subseteq new.peers[n],
           \A m \in Nodes, r \in Nat : Source(net, m, r, k, l) => Source(new, m, r, k, l)
    PROVE  \A m \in Nodes, r \in Nat : OnWay(net, m, r, k, l) => OnWay(new, m, r, k, l)
<1>1. Goes(net, new, k, l, 0, 0)
  BY DEF Goes
<1> QED BY <1>1, WayGoesOn

-----------------------------------------------------------------------------
(* The order of the connections.                                           *)

\* From each connection rd were read, and then node c wrote x to the nodes T.
Shifts(net, new, rd, c, T, x) ==
    \A i, j \in Nodes :
        LET s == net.chan[i][j]
            z == new.chan[i][j]
            e == rd[i][j] IN
        /\ e \in {0, 1} /\ e <= Len(s)
        /\ \A y \in 1..(Len(s) - e) : z[y] = s[y + e]
        /\ IF i = c /\ j \in T THEN Len(z) = Len(s) - e + 1 /\ z[Len(z)] = x ELSE Len(z) = Len(s) - e

\* z is s without its first e elements, and perhaps with one more.
Shifted(s, z, e) ==
    /\ e \in {0, 1} /\ e <= Len(s)
    /\ \A y \in 1..(Len(s) - e) : z[y] = s[y + e]
    /\ Len(z) = Len(s) - e \/ Len(z) = Len(s) - e + 1

\* What was in a connection is there still or was read.
LEMMA HasStays ==
    ASSUME NEW s \in Seq(AnnouncementType), NEW z \in Seq(AnnouncementType), NEW e, Shifted(s, z, e),
           NEW k, NEW l, NEW t, Has(s, k, l, t)
    PROVE  \/ Has(z, k, l, t)
           \/ e = 1 /\ IsLast(s[1], k, l) /\ s[1].ttl = t
<1>1. Len(s) \in Nat /\ Len(z) \in Nat
  BY LenProperties
<1>2. e \in {0, 1} /\ e <= Len(s) /\ (\A y \in 1..(Len(s) - e) : z[y] = s[y + e])
      /\ (Len(z) = Len(s) - e \/ Len(z) = Len(s) - e + 1)
  BY DEF Shifted
<1>3. PICK y \in 1..Len(s) : IsLast(s[y], k, l) /\ s[y].ttl = t
  BY DEF Has
<1>4. CASE y > e
  <2>1. y - e \in 1..(Len(s) - e) /\ y - e \in 1..Len(z) /\ (y - e) + e = y
    BY <1>1, <1>2, <1>4
  <2>2. z[y - e] = s[y]
    BY <1>2, <2>1
  <2> QED BY <1>3, <2>1, <2>2 DEF Has
<1>5. CASE ~(y > e)
  <2>1. e = 1 /\ y = 1
    BY <1>1, <1>2, <1>5
  <2> QED BY <1>3, <2>1
<1> QED BY <1>4, <1>5

-----------------------------------------------------------------------------
(* What holds of a reliable network.                                       *)

\* Announcements are under way between peers.
Wired(net) == \A m, n \in Nodes : Len(net.chan[m][n]) > 0 => n \in net.peers[m]

\* Updates are queued where they were made, with all their ttl, ...
IsFull(s, n) ==
    \A x \in 1..Len(s) : s[x].item.kind = "head_update" => s[x].ttl = HeadTtl /\ s[x].item.origin = n

Full(net) == \A n \in Nodes : IsFull(net.pending[n], n) /\ IsFull(net.sending[n], n)

\* ... of which they have lost one for every hop.
Comes(net, m, a) == \E d \in Nat : HeadTtl = a.ttl + d /\ Reached(net.peers, a.item.origin, m, d)

Sprung(net) == \A m, n \in Nodes : \A x \in 1..Len(net.chan[m][n]) :
    net.chan[m][n][x].item.kind = "head_update" => Comes(net, m, net.chan[m][n][x])

\* Behind every older update comes the last one with the same ttl: in the same
\* connection already, or to the node that writes to it.
Train(net, k, l) == \A m, n \in Nodes : \A x \in 1..Len(net.chan[m][n]) :
    LET s == net.chan[m][n]
    IN IsOld(s[x], k, l) => Behind(s, x, k, l) \/ OnWay(net, m, s[x].ttl + 1, k, l)

Lined(net, k, l) == \A n \in Nodes :
    /\ \A x \in 1..Len(net.pending[n]) : IsOld(net.pending[n][x], k, l) => Behind(net.pending[n], x, k, l)
    /\ \A x \in 1..Len(net.sending[n]) : IsOld(net.sending[n][x], k, l) =>
          Behind(net.sending[n], x, k, l) \/ Has(net.pending[n], k, l, HeadTtl)

\* The last update comes to every node without it, from a connection.
Awaited(net, hd, k, l) ==
    \A n \in Nodes : hd[n][k] # l => \E r \in 0..HeadTtl : OnWay(net, n, r, k, l)

\* The x-th of z is what was e places further in s, and so are those behind it.
Same(s, z, x, e) ==
    /\ x + e \in 1..Len(s) /\ z[x] = s[x + e]
    /\ \A k, l : Behind(s, x + e, k, l) => Behind(z, x, k, l)

\* What is in a connection was there or was just written.
LEMMA ShiftsOne ==
    ASSUME NEW net, NEW new, IsNet(net), IsNet(new), NEW rd, NEW c, NEW T, NEW a,
           Shifts(net, new, rd, c, T, a)
    PROVE  \A i, j \in Nodes : \A x \in 1..Len(new.chan[i][j]) :
               \/ Same(net.chan[i][j], new.chan[i][j], x, rd[i][j])
               \/ i = c /\ j \in T /\ x = Len(new.chan[i][j]) /\ new.chan[i][j][x] = a
<1> SUFFICES ASSUME NEW i \in Nodes, NEW j \in Nodes, NEW x \in 1..Len(new.chan[i][j])
             PROVE  \/ Same(net.chan[i][j], new.chan[i][j], x, rd[i][j])
                    \/ i = c /\ j \in T /\ x = Len(new.chan[i][j]) /\ new.chan[i][j][x] = a
  OBVIOUS
<1> DEFINE s == net.chan[i][j]
           z == new.chan[i][j]
           e == rd[i][j]
<1>1. Len(s) \in Nat /\ Len(z) \in Nat
  BY LinesTyped
<1>2. e \in {0, 1} /\ e <= Len(s) /\ (\A y \in 1..(Len(s) - e) : z[y] = s[y + e])
      /\ IF i = c /\ j \in T THEN Len(z) = Len(s) - e + 1 /\ z[Len(z)] = a ELSE Len(z) = Len(s) - e
  BY DEF Shifts
<1> HIDE DEF s, z, e
<1>3. x \in 1..Len(z)
  BY DEF z
<1>4. CASE x <= Len(s) - e
  <2>0. e \in Nat /\ x \in Nat /\ x >= 1 /\ x \in 1..(Len(s) - e)
    BY <1>1, <1>2, <1>3, <1>4
  <2>1. x + e \in 1..Len(s) /\ z[x] = s[x + e]
    BY <1>1, <1>2, <2>0
  <2>2. ASSUME NEW k, NEW l, Behind(s, x + e, k, l) PROVE Behind(z, x, k, l)
    <3>1. PICK y \in 1..Len(s) : y > x + e /\ IsLast(s[y], k, l) /\ s[y].ttl = s[x + e].ttl
      BY <2>2 DEF Behind
    <3>0. Len(s) - e <= Len(z)
      BY <1>1, <1>2, <2>0
    <3>2. y - e \in 1..(Len(s) - e) /\ (y - e) + e = y /\ y - e > x /\ y - e \in 1..Len(z)
      BY <1>1, <2>0, <3>0, <3>1
    <3>3. z[y - e] = s[y]
      BY <1>2, <3>2
    <3> QED BY <2>1, <3>1, <3>2, <3>3 DEF Behind
  <2>3. \A k, l : Behind(s, x + e, k, l) => Behind(z, x, k, l)
    BY <2>2
  <2> QED BY <2>1, <2>3 DEF Same, s, z, e
<1>5. CASE ~(x <= Len(s) - e)
  <2>1. i = c /\ j \in T /\ x = Len(z) /\ z[x] = a
    BY <1>1, <1>2, <1>3, <1>5
  <2> QED BY <2>1 DEF z
<1> QED BY <1>4, <1>5

\* What c writes to T has the last update coming behind it.
Follows(net, c, T, a, k, l) == T # {} /\ IsOld(a, k, l) => OnWay(net, c, a.ttl + 1, k, l)

\* Then the train goes on.
LEMMA TrainGoesOn ==
    ASSUME NEW net, NEW new, IsNet(net), IsNet(new), NEW k, NEW l, NEW p, NEW t, Goes(net, new, k, l, p, t),
           Wired(net), Train(net, k, l), NEW rd, NEW c, NEW T, NEW a,
           Shifts(net, new, rd, c, T, a),
           Follows(new, c, T, a, k, l)
    PROVE  Train(new, k, l)
<1> SUFFICES ASSUME NEW m \in Nodes, NEW n \in Nodes, NEW x \in 1..Len(new.chan[m][n]),
                    IsOld(new.chan[m][n][x], k, l)
             PROVE  \/ Behind(new.chan[m][n], x, k, l)
                    \/ OnWay(new, m, new.chan[m][n][x].ttl + 1, k, l)
  BY DEF Train
<1>1. /\ net.chan \in [Nodes -> [Nodes -> Seq(AnnouncementType)]]
      /\ new.chan \in [Nodes -> [Nodes -> Seq(AnnouncementType)]]
  BY DEF IsNet
<1> DEFINE s == net.chan[m][n]
           z == new.chan[m][n]
           e == rd[m][n]
<1>2. \/ Same(s, z, x, e)
      \/ m = c /\ n \in T /\ x = Len(z) /\ z[x] = a
  <2>1. \A i, j \in Nodes : \A y \in 1..Len(new.chan[i][j]) :
               \/ Same(net.chan[i][j], new.chan[i][j], y, rd[i][j])
               \/ i = c /\ j \in T /\ y = Len(new.chan[i][j]) /\ new.chan[i][j][y] = a
    BY <1>1, ShiftsOne
  <2> QED BY <2>1
<1>3. Len(s) \in Nat /\ Len(z) \in Nat /\ x \in 1..Len(z) /\ z \in Seq(AnnouncementType)
  BY <1>1, LenProperties
<1>4. z[x] \in AnnouncementType /\ z[x].ttl \in Nat
  <2>1. z[x] \in AnnouncementType
    BY <1>3, ElementOfSeq
  <2> QED BY <2>1 DEF AnnouncementType
<1>5. CASE m = c /\ n \in T /\ x = Len(z) /\ z[x] = a
  BY <1>5 DEF Follows
<1>6. CASE Same(s, z, x, e)
  <2>0. x + e \in 1..Len(s) /\ z[x] = s[x + e] /\ (Behind(s, x + e, k, l) => Behind(z, x, k, l))
    BY <1>6 DEF Same
  <2>1. Behind(s, x + e, k, l) \/ OnWay(net, m, z[x].ttl + 1, k, l)
    BY <2>0 DEF Train
  <2>2. CASE Behind(s, x + e, k, l)
    BY <2>0, <2>2
  <2>3. CASE OnWay(net, m, z[x].ttl + 1, k, l)
    <3>1. z[x].ttl + 1 \in Nat
      BY <1>4
    <3>2. OnWay(new, m, z[x].ttl + 1, k, l) \/ Handed(net, new, m, z[x].ttl + 1, k, l)
      BY <2>3, <3>1, WayGoesOn
    <3>3. CASE Handed(net, new, m, z[x].ttl + 1, k, l)
      <4>1. n \in net.peers[m]
        BY <1>3, <2>0 DEF Wired
      <4>2. Len(z) > 0 /\ IsLast(z[Len(z)], k, l) /\ z[Len(z)].ttl = (z[x].ttl + 1) - 1
        <5>0. z[x].ttl + 1 > 0
          BY <1>4
        <5>1. PICK r : r = z[x].ttl + 1
          OBVIOUS
        <5>2. Len(z) > 0 /\ IsLast(z[Len(z)], k, l) /\ z[Len(z)].ttl = r - 1
          BY <3>3, <4>1, <5>0, <5>1 DEF Handed
        <5> QED BY <5>1, <5>2
      <4>3. x # Len(z)
        <5>1. z[x].item.name # l /\ z[Len(z)].item.name = l
          BY <1>4, <4>2 DEF IsLast, IsOld
        <5> QED BY <5>1
      <4>4. Len(z) \in 1..Len(z) /\ Len(z) > x /\ z[Len(z)].ttl = z[x].ttl
        BY <1>3, <1>4, <4>2, <4>3
      <4>5. Behind(z, x, k, l)
        BY <4>2, <4>4 DEF Behind
      <4> QED BY <4>5
    <3> QED BY <3>2, <3>3
  <2> QED BY <2>1, <2>2, <2>3
<1> QED BY <1>2, <1>5, <1>6

\* Whoever has not got the last update yet waits for it or did so before,
\* and not for the one that node p has just passed on with ttl t.
Served(net, hd, hd2, k, l, p, t) ==
    \A n \in Nodes : \/ hd2[n][k] = l
                     \/ \E r \in 0..HeadTtl : OnWay(net, n, r, k, l)
                     \/ hd2[n][k] = hd[n][k] /\ (n # p \/ t > HeadTtl)

\* A step after which the train goes on and nobody waits in vain.
LEMMA WayStep ==
    ASSUME NEW net, NEW new, IsNet(net), IsNet(new), NEW k, NEW l, NEW p, NEW t \in Nat,
           Goes(net, new, k, l, p, t), Wired(net), Train(net, k, l), NEW rd, NEW c, NEW T, NEW a,
           Shifts(net, new, rd, c, T, a), Follows(new, c, T, a, k, l),
           NEW hd, NEW hd2, Awaited(net, hd, k, l), Served(new, hd, hd2, k, l, p, t)
    PROVE  Train(new, k, l) /\ Awaited(new, hd2, k, l)
<1>1. Train(new, k, l)
  BY TrainGoesOn
<1>2. Awaited(new, hd2, k, l)
  <2> SUFFICES ASSUME NEW n \in Nodes, hd2[n][k] # l, hd2[n][k] = hd[n][k], n # p \/ t > HeadTtl
               PROVE  \E r \in 0..HeadTtl : OnWay(new, n, r, k, l)
    BY DEF Awaited, Served
  <2>1. PICK r \in 0..HeadTtl : OnWay(net, n, r, k, l)
    BY DEF Awaited
  <2>2. HeadTtl \in Nat /\ r \in Nat /\ ~(n = p /\ r = t)
    BY DEF HeadTtl, Classes
  <2>3. OnWay(new, n, r, k, l)
    BY <2>1, <2>2, WayGoesOn
  <2> QED BY <2>3
<1> QED BY <1>1, <1>2

\* What a connection has is not lost while it is not read.
LEMMA ReadSource ==
    ASSUME NEW net, NEW new, IsNet(net), IsNet(new), NEW k, NEW l, NEW rd, NEW c, NEW T, NEW a,
           Shifts(net, new, rd, c, T, a), NEW m \in Nodes, NEW r \in Nat,
           \E p \in Nodes : Has(net.chan[p][m], k, l, r),
           \A p \in Nodes : rd[p][m] = 1 => ~(IsLast(net.chan[p][m][1], k, l) /\ net.chan[p][m][1].ttl = r)
    PROVE  Source(new, m, r, k, l)
<1>1. PICK p \in Nodes : Has(net.chan[p][m], k, l, r)
  OBVIOUS
<1>2. \/ Has(new.chan[p][m], k, l, r)
      \/ rd[p][m] = 1 /\ IsLast(net.chan[p][m][1], k, l) /\ net.chan[p][m][1].ttl = r
  <2>1. net.chan[p][m] \in Seq(AnnouncementType) /\ new.chan[p][m] \in Seq(AnnouncementType)
    BY LinesTyped
  <2>2. Shifted(net.chan[p][m], new.chan[p][m], rd[p][m])
    BY DEF Shifts, Shifted
  <2> QED BY <1>1, <2>1, <2>2, HasStays
<1>3. Has(new.chan[p][m], k, l, r)
  BY <1>2
<1> QED BY <1>3 DEF Source

\* The queues keep the last update.
Keeps(net, new, k, l) ==
    \A n \in Nodes : \/ Has(net.sending[n], k, l, HeadTtl)
                     \/ Has(net.pending[n], k, l, HeadTtl)
                     => \/ Has(new.sending[n], k, l, HeadTtl)
                        \/ Has(new.pending[n], k, l, HeadTtl)

\* Of the last update nothing is lost while none is read and the queues keep it.
LEMMA SourceStays ==
    ASSUME NEW net, NEW new, IsNet(net), IsNet(new), NEW k, NEW l, NEW rd, NEW c, NEW T, NEW a,
           Shifts(net, new, rd, c, T, a),
           \A i, j \in Nodes : rd[i][j] = 1 => ~IsLast(net.chan[i][j][1], k, l),
           Keeps(net, new, k, l)
    PROVE  \A m \in Nodes, r \in Nat : Source(net, m, r, k, l) => Source(new, m, r, k, l)
<1> SUFFICES ASSUME NEW m \in Nodes, NEW r \in Nat, Source(net, m, r, k, l)
             PROVE  Source(new, m, r, k, l)
  OBVIOUS
<1>1. (\E p \in Nodes : Has(net.chan[p][m], k, l, r)) => Source(new, m, r, k, l)
  BY ReadSource
<1> QED BY <1>1 DEF Source, Keeps

\* The connections stay between peers, ...
LEMMA WiredStays ==
    ASSUME NEW net, NEW new, IsNet(net), IsNet(new), NEW rd, NEW c, NEW T, NEW a,
           Shifts(net, new, rd, c, T, a), \A n \in Nodes : net.peers[n] \subseteq new.peers[n],
           Wired(net), T # {} => T \subseteq new.peers[c]
    PROVE  Wired(new)
<1> SUFFICES ASSUME NEW m \in Nodes, NEW n \in Nodes, Len(new.chan[m][n]) > 0
             PROVE  n \in new.peers[m]
  BY DEF Wired
<1>1. CASE m = c /\ n \in T
  BY <1>1
<1>2. CASE ~(m = c /\ n \in T)
  <2>1. rd[m][n] \in {0, 1} /\ Len(new.chan[m][n]) = Len(net.chan[m][n]) - rd[m][n]
    BY <1>2 DEF Shifts
  <2>2. Len(net.chan[m][n]) \in Nat
    BY LinesTyped
  <2>3. Len(net.chan[m][n]) > 0
    BY <2>1, <2>2
  <2> QED BY <2>3 DEF Wired
<1> QED BY <1>1, <1>2

\* ... and updates come along walks from their origin.
LEMMA ComesStays ==
    ASSUME NEW net, NEW new, IsNet(net), IsNet(new), \A n \in Nodes : net.peers[n] \subseteq new.peers[n],
           NEW m, NEW a, Comes(net, m, a)
    PROVE  Comes(new, m, a)
<1>1. net.peers \in [Nodes -> SUBSET Nodes] /\ new.peers \in [Nodes -> SUBSET Nodes]
  BY DEF IsNet
<1>2. PICK d \in Nat : HeadTtl = a.ttl + d /\ Reached(net.peers, a.item.origin, m, d)
  BY DEF Comes
<1>3. Reached(new.peers, a.item.origin, m, d)
  BY <1>1, <1>2, WalkStays
<1> QED BY <1>2, <1>3 DEF Comes

\* Updates keep coming along walks when the one written does.
LEMMA SprungStays ==
    ASSUME NEW net, NEW new, IsNet(net), IsNet(new), NEW rd, NEW c, NEW T, NEW a,
           Shifts(net, new, rd, c, T, a), \A n \in Nodes : net.peers[n] \subseteq new.peers[n],
           Sprung(net), T # {} /\ a.item.kind = "head_update" => Comes(new, c, a)
    PROVE  Sprung(new)
<1> SUFFICES ASSUME NEW m \in Nodes, NEW n \in Nodes, NEW x \in 1..Len(new.chan[m][n]),
                    new.chan[m][n][x].item.kind = "head_update"
             PROVE  Comes(new, m, new.chan[m][n][x])
  BY DEF Sprung
<1>1. \/ Same(net.chan[m][n], new.chan[m][n], x, rd[m][n])
      \/ m = c /\ n \in T /\ new.chan[m][n][x] = a
  <2>1. \A i, j \in Nodes : \A y \in 1..Len(new.chan[i][j]) :
               \/ Same(net.chan[i][j], new.chan[i][j], y, rd[i][j])
               \/ i = c /\ j \in T /\ y = Len(new.chan[i][j]) /\ new.chan[i][j][y] = a
    BY ShiftsOne
  <2> QED BY <2>1
<1>2. CASE Same(net.chan[m][n], new.chan[m][n], x, rd[m][n])
  <2>1. PICK y \in 1..Len(net.chan[m][n]) : net.chan[m][n][y] = new.chan[m][n][x]
    BY <1>2 DEF Same
  <2>2. Comes(net, m, new.chan[m][n][x])
    BY <2>1 DEF Sprung
  <2> QED BY <2>2, ComesStays
<1>3. CASE m = c /\ n \in T /\ new.chan[m][n][x] = a
  BY <1>3
<1> QED BY <1>1, <1>2, <1>3

-----------------------------------------------------------------------------
(* The network of a state.                                                 *)

Net == [peers |-> peers, chan |-> chan, pending |-> pending, sending |-> sending]

\* Connections have been added to a topology, within a topology.
Planned ==
    /\ \E top \in Topologies : \A n \in Nodes : top[n] \subseteq peers[n]
    /\ \E top \in Topologies : \A n \in Nodes : peers[n] \subseteq top[n]

Paths == Planned /\ Wired(Net) /\ Full(Net) /\ Sprung(Net)

Way(k) ==
    Train(Net, k, latest[k]) /\ Lined(Net, k, latest[k]) /\ Awaited(Net, heads, k, latest[k])

LInv == Reliable => Paths /\ \A k \in Keys : Way(k)

\* The network has its types before and after a step.
LEMMA NetTypes == (IInv => IsNet(Net)) /\ (IInv' => IsNet(Net)')
<1>1. Seq(Good) \subseteq Seq(AnnouncementType) /\ Seq(Good') \subseteq Seq(AnnouncementType)
  <2>1. Good \subseteq AnnouncementType /\ Good' \subseteq AnnouncementType
    BY DEF Good
  <2> QED BY <2>1, SeqMonotonic
<1>2. IInv => IsNet(Net)
  BY <1>1 DEF IInv, OtherTypes, QueuesGood, Net, IsNet
<1>3. IInv' => IsNet(Net)'
  BY <1>1 DEF IInv, OtherTypes, QueuesGood, Net, IsNet
<1> QED BY <1>2, <1>3

\* What is known of an update.
LEMMA UpdateFacts ==
    ASSUME NEW x \in AnnouncementType, x.item.kind = "head_update"
    PROVE  /\ x.item \in HeadUpdates /\ x.item.key \in Keys /\ x.item.origin \in Nodes /\ x.ttl \in Nat
           /\ TtlOf(x.item) = HeadTtl /\ FanoutOf(x.item) = Fanout["default"]
<1>1. x.item \in Items /\ x.ttl \in Nat
  BY DEF AnnouncementType, AckType
<1>2. Class(x.item) = "default"
  BY DEF Class
<1> QED BY <1>1, <1>2 DEF HeadUpdates, Keys, ItemType, TtlOf, FanoutOf, HeadTtl

\* On a reliable network fanout reaches all peers, and the writers all nodes.
LEMMA ReliableFacts ==
    ASSUME Reliable, IInv, Planned
    PROVE  /\ \A n \in Nodes : \A T \in Selections(n, Fanout["default"]) : T = peers[n]
           /\ \A i \in HeadUpdates :
                 /\ peers[i.origin] # {}
                 /\ \A n \in Nodes : \E d \in 0..(HeadTtl + 1) : Reached(peers, i.origin, n, d)
<1>0. peers \in [Nodes -> SUBSET Nodes] /\ HeadTtl \in Nat /\ Fanout["default"] \in Nat
  BY DEF IInv, OtherTypes, HeadTtl, Classes
<1>1. ASSUME NEW n \in Nodes, NEW T \in Selections(n, Fanout["default"])
      PROVE  T = peers[n]
  <2>1. PICK top \in Topologies : \A m \in Nodes : peers[m] \subseteq top[m]
    BY DEF Planned
  <2>2. Cardinality(top[n]) <= Fanout["default"]
    BY DEF Reliable
  <2>3. IsFiniteSet(top[n]) /\ IsFiniteSet(peers[n]) /\ Cardinality(peers[n]) <= Cardinality(top[n])
        /\ Cardinality(top[n]) \in Nat /\ Cardinality(peers[n]) \in Nat
    <3>1. top[n] \subseteq Nodes
      OBVIOUS
    <3>2. IsFiniteSet(top[n])
      BY <3>1, FS_Subset
    <3> QED BY <2>1, <3>2, FS_Subset, FS_CardinalityType
  <2>4. T \subseteq peers[n] /\ Cardinality(T) = Cardinality(peers[n])
    BY <1>0, <2>2, <2>3 DEF Selections
  <2> QED BY <2>3, <2>4, FS_Subset
<1>2. ASSUME NEW i \in HeadUpdates
      PROVE  /\ peers[i.origin] # {}
             /\ \A n \in Nodes : \E d \in 0..(HeadTtl + 1) : Reached(peers, i.origin, n, d)
  <2>1. PICK top \in Topologies : \A m \in Nodes : top[m] \subseteq peers[m]
    BY DEF Planned
  <2>2. /\ top[i.origin] # {}
        /\ \A n \in Nodes : \E d \in 0..(HeadTtl + 1) : Reached(top, i.origin, n, d)
    BY DEF Reliable
  <2>3. i.origin \in Nodes
    BY DEF HeadUpdates, ItemType
  <2>4. ASSUME NEW n \in Nodes PROVE \E d \in 0..(HeadTtl + 1) : Reached(peers, i.origin, n, d)
    <3>1. PICK d \in 0..(HeadTtl + 1) : Reached(top, i.origin, n, d)
      BY <2>2
    <3>2. top \in [Nodes -> SUBSET Nodes] /\ d \in Nat
      BY <1>0
    <3>3. Reached(peers, i.origin, n, d)
      BY <1>0, <2>1, <3>1, <3>2, WalkStays
    <3> QED BY <3>3
  <2> QED BY <2>1, <2>2, <2>3, <2>4
<1> QED BY <1>1, <1>2

\* Nothing is read.
Still == [i \in Nodes |-> [j \in Nodes |-> 0]]

\* Connections that are the same have moved nowhere.
LEMMA StillShifts ==
    ASSUME NEW net, NEW new, IsNet(net), IsNet(new), new.chan = net.chan
    PROVE  Shifts(net, new, Still, 0, {}, 0)
<1> SUFFICES ASSUME NEW i \in Nodes, NEW j \in Nodes
             PROVE  LET s == net.chan[i][j]
                        z == new.chan[i][j]
                        e == Still[i][j] IN
                    /\ e \in {0, 1} /\ e <= Len(s)
                    /\ \A y \in 1..(Len(s) - e) : z[y] = s[y + e]
                    /\ IF i = 0 /\ j \in {} THEN Len(z) = Len(s) - e + 1 /\ z[Len(z)] = 0 ELSE Len(z) = Len(s) - e
  BY DEF Shifts
<1>1. Still[i][j] = 0
  BY DEF Still
<1>2. Len(net.chan[i][j]) \in Nat
  BY LinesTyped
<1> QED BY <1>1, <1>2

\* A step that reads nothing: the paths and the way of collection k stay, when
\* the queues keep what they had.
LEMMA StillWay ==
    ASSUME NEW net, NEW new, IsNet(net), IsNet(new), NEW k, NEW l, NEW hd,
           new.chan = net.chan, \A n \in Nodes : net.peers[n] \subseteq new.peers[n],
           Wired(net), Sprung(net), Train(net, k, l), Awaited(net, hd, k, l),
           Keeps(net, new, k, l)
    PROVE  Train(new, k, l) /\ Awaited(new, hd, k, l)
<1>1. Shifts(net, new, Still, 0, {}, 0)
  BY StillShifts
<1>2. \A i, j \in Nodes : Still[i][j] = 1 => ~IsLast(net.chan[i][j][1], k, l)
  BY DEF Still
<1>3. \A m \in Nodes, r \in Nat : Source(net, m, r, k, l) => Source(new, m, r, k, l)
  BY <1>1, <1>2, SourceStays
<1>4. HeadTtl + 1 \in Nat /\ HeadTtl + 1 > HeadTtl
  BY DEF HeadTtl, Classes
<1>5. Goes(net, new, k, l, 0, HeadTtl + 1)
  BY <1>3 DEF Goes
<1>6. Served(new, hd, hd, k, l, 0, HeadTtl + 1) /\ Follows(new, 0, {}, 0, k, l)
  BY <1>4 DEF Served, Follows
<1> QED BY <1>1, <1>4, <1>5, <1>6, WayStep

\* Such a step keeps announcements between peers and on their walks.
LEMMA StillPaths ==
    ASSUME NEW net, NEW new, IsNet(net), IsNet(new), new.chan = net.chan,
           \A n \in Nodes : net.peers[n] \subseteq new.peers[n], Wired(net), Sprung(net)
    PROVE  Wired(new) /\ Sprung(new)
<1>1. Shifts(net, new, Still, 0, {}, 0)
  BY StillShifts
<1>2. Wired(new)
  BY <1>1, WiredStays
<1>3. Sprung(new)
  BY <1>1, SprungStays
<1> QED BY <1>2, <1>3

-----------------------------------------------------------------------------
(* The queues.                                                             *)

\* Two queues joined have what either has; what was behind stays behind.
LEMMA HasConcat ==
    ASSUME NEW s \in Seq(AnnouncementType), NEW z \in Seq(AnnouncementType), NEW k, NEW l, NEW t
    PROVE  /\ Has(s, k, l, t) \/ Has(z, k, l, t) => Has(s \o z, k, l, t)
           /\ \A x \in 1..Len(s) : Behind(s, x, k, l) => Behind(s \o z, x, k, l)
           /\ \A x \in 1..Len(s) : Has(z, k, l, t) /\ s[x].ttl = t => Behind(s \o z, x, k, l)
           /\ \A x \in 1..Len(z) : Behind(z, x, k, l) => Behind(s \o z, Len(s) + x, k, l)
<1> DEFINE w == s \o z
<1>1. /\ Len(s) \in Nat /\ Len(z) \in Nat /\ Len(w) = Len(s) + Len(z)
      /\ \A x \in 1..Len(s) : x \in 1..Len(w) /\ w[x] = s[x]
      /\ \A x \in 1..Len(z) : Len(s) + x \in 1..Len(w) /\ w[Len(s) + x] = z[x]
  <2>1. /\ Len(s) \in Nat /\ Len(z) \in Nat /\ Len(w) = Len(s) + Len(z)
        /\ \A x \in 1..(Len(s) + Len(z)) : w[x] = IF x <= Len(s) THEN s[x] ELSE z[x - Len(s)]
    BY ConcatProperties, LenProperties
  <2> HIDE DEF w
  <2>2. ASSUME NEW x \in 1..Len(s) PROVE x \in 1..Len(w) /\ w[x] = s[x]
    BY <2>1
  <2>3. ASSUME NEW x \in 1..Len(z) PROVE Len(s) + x \in 1..Len(w) /\ w[Len(s) + x] = z[x]
    <3>1. Len(s) + x \in 1..(Len(s) + Len(z)) /\ ~(Len(s) + x <= Len(s)) /\ (Len(s) + x) - Len(s) = x
      BY <2>1
    <3> QED BY <2>1, <3>1
  <2> QED BY <2>1, <2>2, <2>3
<1> HIDE DEF w
<1>2. ASSUME Has(s, k, l, t) \/ Has(z, k, l, t) PROVE Has(w, k, l, t)
  <2>1. CASE Has(s, k, l, t)
    <3>1. PICK y \in 1..Len(s) : IsLast(s[y], k, l) /\ s[y].ttl = t
      BY <2>1 DEF Has
    <3> QED BY <1>1, <3>1 DEF Has
  <2>2. CASE Has(z, k, l, t)
    <3>1. PICK y \in 1..Len(z) : IsLast(z[y], k, l) /\ z[y].ttl = t
      BY <2>2 DEF Has
    <3> QED BY <1>1, <3>1 DEF Has
  <2> QED BY <1>2, <2>1, <2>2
<1>3. ASSUME NEW x \in 1..Len(s), Behind(s, x, k, l) PROVE Behind(w, x, k, l)
  <2>1. PICK y \in 1..Len(s) : y > x /\ IsLast(s[y], k, l) /\ s[y].ttl = s[x].ttl
    BY <1>3 DEF Behind
  <2> QED BY <1>1, <2>1 DEF Behind
<1>4. ASSUME NEW x \in 1..Len(s), Has(z, k, l, t), s[x].ttl = t PROVE Behind(w, x, k, l)
  <2>1. PICK y \in 1..Len(z) : IsLast(z[y], k, l) /\ z[y].ttl = t
    BY <1>4 DEF Has
  <2>2. Len(s) + y > x
    BY <1>1
  <2> QED BY <1>1, <1>4, <2>1, <2>2 DEF Behind
<1>5. ASSUME NEW x \in 1..Len(z), Behind(z, x, k, l) PROVE Behind(w, Len(s) + x, k, l)
  <2>1. PICK y \in 1..Len(z) : y > x /\ IsLast(z[y], k, l) /\ z[y].ttl = z[x].ttl
    BY <1>5 DEF Behind
  <2>2. Len(s) + y > Len(s) + x
    BY <1>1, <2>1
  <2> QED BY <1>1, <2>1, <2>2 DEF Behind
<1> QED BY <1>2, <1>3, <1>4, <1>5 DEF w

\* A queue without its head has what it had but for the head.
LEMMA HasTail ==
    ASSUME NEW s \in Seq(AnnouncementType), s # <<>>, NEW k, NEW l, NEW t
    PROVE  /\ Has(s, k, l, t) => Has(Tail(s), k, l, t) \/ (IsLast(Head(s), k, l) /\ Head(s).ttl = t)
           /\ Behind(s, 1, k, l) => Has(Tail(s), k, l, Head(s).ttl)
           /\ \A x \in 1..Len(Tail(s)) :
                 /\ x + 1 \in 1..Len(s) /\ Tail(s)[x] = s[x + 1]
                 /\ Behind(s, x + 1, k, l) => Behind(Tail(s), x, k, l)
<1> DEFINE w == Tail(s)
<1>1. /\ Len(s) \in Nat /\ Len(s) >= 1 /\ Len(w) = Len(s) - 1 /\ Head(s) = s[1]
      /\ \A x \in 1..Len(w) : w[x] = s[x + 1]
  <2>1. Len(s) \in Nat /\ Len(s) # 0
    BY LenProperties, EmptySeq
  <2> QED BY <2>1, HeadTailProperties
<1> HIDE DEF w
<1>2. \A y \in 1..Len(s) : y > 1 => y - 1 \in 1..Len(w) /\ w[y - 1] = s[y]
  <2> SUFFICES ASSUME NEW y \in 1..Len(s), y > 1 PROVE y - 1 \in 1..Len(w) /\ w[y - 1] = s[y]
    OBVIOUS
  <2>1. y - 1 \in 1..Len(w) /\ (y - 1) + 1 = y
    BY <1>1
  <2> QED BY <1>1, <2>1
<1>3. ASSUME Has(s, k, l, t) PROVE Has(w, k, l, t) \/ (IsLast(Head(s), k, l) /\ Head(s).ttl = t)
  <2>1. PICK y \in 1..Len(s) : IsLast(s[y], k, l) /\ s[y].ttl = t
    BY <1>3 DEF Has
  <2>2. CASE y > 1
    BY <1>2, <2>1, <2>2 DEF Has
  <2>3. CASE ~(y > 1)
    <3>1. y = 1
      BY <1>1, <2>3
    <3> QED BY <1>1, <2>1, <3>1
  <2> QED BY <2>2, <2>3
<1>4. ASSUME Behind(s, 1, k, l) PROVE Has(w, k, l, Head(s).ttl)
  <2>1. PICK y \in 1..Len(s) : y > 1 /\ IsLast(s[y], k, l) /\ s[y].ttl = s[1].ttl
    BY <1>4 DEF Behind
  <2> QED BY <1>1, <1>2, <2>1 DEF Has
<1>5. ASSUME NEW x \in 1..Len(w)
      PROVE  /\ x + 1 \in 1..Len(s) /\ w[x] = s[x + 1]
             /\ Behind(s, x + 1, k, l) => Behind(w, x, k, l)
  <2>1. x + 1 \in 1..Len(s) /\ w[x] = s[x + 1]
    BY <1>1
  <2>2. ASSUME Behind(s, x + 1, k, l) PROVE Behind(w, x, k, l)
    <3>1. PICK y \in 1..Len(s) : y > x + 1 /\ IsLast(s[y], k, l) /\ s[y].ttl = s[x + 1].ttl
      BY <2>2 DEF Behind
    <3>2. y > 1 /\ y - 1 > x
      BY <1>1, <3>1
    <3> QED BY <1>2, <2>1, <3>1, <3>2 DEF Behind
  <2> QED BY <2>1, <2>2
<1> QED BY <1>3, <1>4, <1>5 DEF w

\* A longer queue has what it had, and the new element behind everything.
LEMMA HasAppend ==
    ASSUME NEW s \in Seq(AnnouncementType), NEW a \in AnnouncementType, NEW k, NEW l
    PROVE  /\ Len(Append(s, a)) \in Nat /\ Len(Append(s, a)) = Len(s) + 1 /\ Append(s, a)[Len(s) + 1] = a
           /\ \A x \in 1..Len(s) : Append(s, a)[x] = s[x]
           /\ \A t : Has(s, k, l, t) => Has(Append(s, a), k, l, t)
           /\ \A x \in 1..Len(s) : \/ Behind(s, x, k, l)
                                   \/ IsLast(a, k, l) /\ a.ttl = s[x].ttl
                                   => Behind(Append(s, a), x, k, l)
           /\ IsLast(a, k, l) => Has(Append(s, a), k, l, a.ttl)
<1> DEFINE w == Append(s, a)
<1>1. /\ Len(s) \in Nat /\ Len(w) \in Nat /\ Len(w) = Len(s) + 1 /\ w[Len(s) + 1] = a
      /\ \A x \in 1..Len(s) : w[x] = s[x]
  BY AppendProperties, LenProperties
<1> HIDE DEF w
<1>2. (\A x \in 1..Len(s) : x \in 1..Len(w)) /\ Len(s) + 1 \in 1..Len(w)
  BY <1>1
<1>3. ASSUME NEW t, Has(s, k, l, t) PROVE Has(w, k, l, t)
  <2>1. PICK y \in 1..Len(s) : IsLast(s[y], k, l) /\ s[y].ttl = t
    BY <1>3 DEF Has
  <2> QED BY <1>1, <1>2, <2>1 DEF Has
<1>4. ASSUME NEW x \in 1..Len(s), Behind(s, x, k, l) PROVE Behind(w, x, k, l)
  <2>1. PICK y \in 1..Len(s) : y > x /\ IsLast(s[y], k, l) /\ s[y].ttl = s[x].ttl
    BY <1>4 DEF Behind
  <2> QED BY <1>1, <1>2, <2>1 DEF Behind
<1>5. ASSUME NEW x \in 1..Len(s), IsLast(a, k, l), a.ttl = s[x].ttl PROVE Behind(w, x, k, l)
  <2>1. Len(s) + 1 > x
    BY <1>1
  <2> QED BY <1>1, <1>2, <1>5, <2>1 DEF Behind
<1>6. ASSUME IsLast(a, k, l) PROVE Has(w, k, l, a.ttl)
  BY <1>1, <1>2, <1>6 DEF Has
<1> QED BY <1>1, <1>3, <1>4, <1>5, <1>6 DEF w

\* Queues stay full when they are joined, taken from, or added to.
LEMMA FullConcat ==
    ASSUME NEW n, NEW s \in Seq(AnnouncementType), NEW z \in Seq(AnnouncementType), IsFull(s, n), IsFull(z, n)
    PROVE  IsFull(s \o z, n)
<1>1. /\ Len(s) \in Nat /\ Len(z) \in Nat /\ Len(s \o z) = Len(s) + Len(z)
      /\ \A x \in 1..(Len(s) + Len(z)) : (s \o z)[x] = IF x <= Len(s) THEN s[x] ELSE z[x - Len(s)]
  BY ConcatProperties, LenProperties
<1> SUFFICES ASSUME NEW x \in 1..(Len(s) + Len(z)), (s \o z)[x].item.kind = "head_update"
             PROVE  (s \o z)[x].ttl = HeadTtl /\ (s \o z)[x].item.origin = n
  BY <1>1 DEF IsFull
<1>2. CASE x <= Len(s)
  <2>1. (s \o z)[x] = s[x] /\ x \in 1..Len(s)
    BY <1>1, <1>2
  <2> QED BY <2>1 DEF IsFull
<1>3. CASE ~(x <= Len(s))
  <2>1. (s \o z)[x] = z[x - Len(s)] /\ x - Len(s) \in 1..Len(z)
    BY <1>1, <1>3
  <2> QED BY <2>1 DEF IsFull
<1> QED BY <1>2, <1>3

\* ... when one is taken, which is such an update itself, ...
LEMMA FullTail ==
    ASSUME NEW n, NEW s \in Seq(AnnouncementType), s # <<>>, IsFull(s, n)
    PROVE  /\ IsFull(Tail(s), n)
           /\ Head(s).item.kind = "head_update" => Head(s).ttl = HeadTtl /\ Head(s).item.origin = n
<1>1. Len(s) \in Nat /\ Len(s) >= 1 /\ Len(Tail(s)) = Len(s) - 1 /\ \A x \in 1..Len(Tail(s)) : Tail(s)[x] = s[x + 1]
  <2>1. Len(s) \in Nat /\ Len(s) # 0
    BY LenProperties, EmptySeq
  <2> QED BY <2>1, HeadTailProperties
<1>2. IsFull(Tail(s), n)
  <2> SUFFICES ASSUME NEW x \in 1..Len(Tail(s)), Tail(s)[x].item.kind = "head_update"
               PROVE  Tail(s)[x].ttl = HeadTtl /\ Tail(s)[x].item.origin = n
    BY DEF IsFull
  <2>1. Tail(s)[x] = s[x + 1] /\ x + 1 \in 1..Len(s)
    BY <1>1
  <2> QED BY <2>1 DEF IsFull
<1>3. Head(s) = s[1] /\ 1 \in 1..Len(s)
  BY <1>1
<1> QED BY <1>2, <1>3 DEF IsFull

\* ... and when one is added.
LEMMA FullAppend ==
    ASSUME NEW n, NEW s \in Seq(AnnouncementType), NEW a \in AnnouncementType, IsFull(s, n),
           a.item.kind = "head_update" => a.ttl = HeadTtl /\ a.item.origin = n
    PROVE  IsFull(Append(s, a), n)
<1>1. /\ Len(s) \in Nat /\ Len(Append(s, a)) = Len(s) + 1 /\ Append(s, a)[Len(s) + 1] = a
      /\ \A x \in 1..Len(s) : Append(s, a)[x] = s[x]
  BY AppendProperties, LenProperties
<1> SUFFICES ASSUME NEW x \in 1..(Len(s) + 1), Append(s, a)[x].item.kind = "head_update"
             PROVE  Append(s, a)[x].ttl = HeadTtl /\ Append(s, a)[x].item.origin = n
  BY <1>1 DEF IsFull
<1>2. CASE x = Len(s) + 1
  BY <1>1, <1>2
<1>3. CASE x # Len(s) + 1
  <2>1. x \in 1..Len(s) /\ Append(s, a)[x] = s[x]
    BY <1>1, <1>3
  <2> QED BY <2>1 DEF IsFull
<1> QED BY <1>2, <1>3

-----------------------------------------------------------------------------
(* The steps.                                                              *)

\* What a step of a reliable network starts from.
Steady == Reliable /\ IInv /\ IInv' /\ Paths /\ \A k \in Keys : Way(k)

\* The parts of the network.
LEMMA NetParts ==
    /\ Net.peers = peers /\ Net.chan = chan /\ Net.pending = pending /\ Net.sending = sending
    /\ Net'.peers = peers' /\ Net'.chan = chan' /\ Net'.pending = pending' /\ Net'.sending = sending'
BY DEF Net

\* Connections are made.
LEMMA IdleWay ==
    ASSUME Steady, UNCHANGED <<chan, pending, sending, heads, latest>>,
           \A n \in Nodes : peers[n] \subseteq peers'[n], Planned'
    PROVE  Paths' /\ \A k \in Keys : Way(k)'
<1> DEFINE net == Net
           new == Net'
<1>1. IsNet(net) /\ IsNet(new)
  BY NetTypes DEF Steady
<1>2. /\ new.chan = net.chan /\ new.pending = net.pending /\ new.sending = net.sending
      /\ \A n \in Nodes : net.peers[n] \subseteq new.peers[n]
  BY NetParts
<1>3. Wired(net) /\ Full(net) /\ Sprung(net)
      /\ \A k \in Keys : Train(net, k, latest[k]) /\ Lined(net, k, latest[k]) /\ Awaited(net, heads, k, latest[k])
  BY DEF Steady, Paths, Way
<1> HIDE DEF net, new
<1>4. Wired(new) /\ Sprung(new)
  BY <1>1, <1>2, <1>3, StillPaths
<1>5. Full(new)
  BY <1>2, <1>3 DEF Full
<1>6. ASSUME NEW k \in Keys
      PROVE  Train(new, k, latest[k]) /\ Lined(new, k, latest[k]) /\ Awaited(new, heads, k, latest[k])
  <2>1. Lined(new, k, latest[k])
    BY <1>2, <1>3 DEF Lined
  <2>2. Train(net, k, latest[k]) /\ Awaited(net, heads, k, latest[k])
    BY <1>3
  <2>3. Keeps(net, new, k, latest[k])
    BY <1>2 DEF Keeps
  <2>4. Train(new, k, latest[k]) /\ Awaited(new, heads, k, latest[k])
    BY <1>1, <1>2, <1>3, <2>2, <2>3, StillWay
  <2> QED BY <2>1, <2>4
<1>7. Paths'
  BY <1>4, <1>5 DEF Paths, new
<1>8. \A k \in Keys : Way(k)'
  BY <1>6 DEF Way, new
<1> QED BY <1>7, <1>8

\* A queue with an update belongs to a node with peers.
LEMMA WriterHasPeers ==
    ASSUME Reliable, IInv, Planned, NEW n \in Nodes, NEW s \in Seq(AnnouncementType), IsFull(s, n), peers[n] = {}
    PROVE  \A x \in 1..Len(s) : s[x].item.kind # "head_update"
<1> SUFFICES ASSUME NEW x \in 1..Len(s), s[x].item.kind = "head_update" PROVE FALSE
  OBVIOUS
<1>1. s[x] \in AnnouncementType
  BY ElementOfSeq
<1>2. s[x].item \in HeadUpdates /\ s[x].item.origin = n
  BY <1>1, UpdateFacts DEF IsFull
<1>3. \A i \in HeadUpdates : peers[i.origin] # {}
  BY ReliableFacts
<1> QED BY <1>2, <1>3

\* What batchFlush makes of the queues of a node.
Batched(net, new, n) ==
    IF net.peers[n] = {}
    THEN /\ new.sending[n] = net.sending[n] /\ new.pending[n] = <<>>
         /\ \A x \in 1..Len(net.pending[n]) : net.pending[n][x].item.kind # "head_update"
    ELSE new.sending[n] = net.sending[n] \o net.pending[n] /\ new.pending[n] = <<>>

\* Taking a batch, updates stay where they were made.
LEMMA BatchedFull ==
    ASSUME NEW net, NEW new, IsNet(net), IsNet(new), NEW n \in Nodes, Batched(net, new, n), Full(net)
    PROVE  IsFull(new.pending[n], n) /\ IsFull(new.sending[n], n)
<1>1. /\ net.sending[n] \in Seq(AnnouncementType) /\ net.pending[n] \in Seq(AnnouncementType)
      /\ IsFull(net.sending[n], n) /\ IsFull(net.pending[n], n)
  BY DEF IsNet, Full
<1>2. new.pending[n] = <<>> /\ Len(new.pending[n]) = 0
  <2>1. new.pending[n] = <<>> /\ new.pending[n] \in Seq(AnnouncementType)
    BY DEF Batched, IsNet
  <2> QED BY <2>1, EmptySeq
<1>3. IsFull(new.pending[n], n)
  BY <1>2 DEF IsFull
<1>4. IsFull(net.sending[n] \o net.pending[n], n)
  BY <1>1, FullConcat
<1> QED BY <1>1, <1>3, <1>4 DEF Batched

\* Taking a batch, the last update is kept and stays behind the older ones.
LEMMA BatchedWay ==
    ASSUME NEW net, NEW new, IsNet(net), IsNet(new), NEW n \in Nodes, Batched(net, new, n), NEW k, NEW l,
           Lined(net, k, l), Full(net)
    PROVE  /\ \/ Has(net.sending[n], k, l, HeadTtl)
              \/ Has(net.pending[n], k, l, HeadTtl)
              => Has(new.sending[n], k, l, HeadTtl)
           /\ \A x \in 1..Len(new.pending[n]) : IsOld(new.pending[n][x], k, l) => Behind(new.pending[n], x, k, l)
           /\ \A x \in 1..Len(new.sending[n]) : IsOld(new.sending[n][x], k, l) =>
                 Behind(new.sending[n], x, k, l) \/ Has(new.pending[n], k, l, HeadTtl)
<1> DEFINE s == net.sending[n]
           z == net.pending[n]
<1>1. s \in Seq(AnnouncementType) /\ z \in Seq(AnnouncementType)
  BY DEF IsNet
<1>2. /\ \A x \in 1..Len(z) : IsOld(z[x], k, l) => Behind(z, x, k, l)
      /\ \A x \in 1..Len(s) : IsOld(s[x], k, l) => Behind(s, x, k, l) \/ Has(z, k, l, HeadTtl)
      /\ IsFull(z, n) /\ IsFull(s, n)
  BY DEF Lined, Full
<1>3. new.pending[n] = <<>> /\ Len(new.pending[n]) = 0
  <2>1. new.pending[n] = <<>> /\ new.pending[n] \in Seq(AnnouncementType)
    BY DEF Batched, IsNet
  <2> QED BY <2>1, EmptySeq
<1>5. CASE net.peers[n] = {}
  <2>1. new.sending[n] = s /\ \A x \in 1..Len(z) : z[x].item.kind # "head_update"
    BY <1>5 DEF Batched
  <2>2. ~Has(z, k, l, HeadTtl)
    BY <2>1 DEF Has, IsLast, IsUpdate
  <2> HIDE DEF s, z
  <2>3. Has(s, k, l, HeadTtl) \/ Has(z, k, l, HeadTtl) => Has(new.sending[n], k, l, HeadTtl)
    BY <2>1, <2>2
  <2>4. \A x \in 1..Len(new.sending[n]) : IsOld(new.sending[n][x], k, l) => Behind(new.sending[n], x, k, l)
    BY <1>2, <2>1, <2>2
  <2> QED BY <1>3, <2>3, <2>4 DEF s, z
<1>6. CASE net.peers[n] # {}
  <2>1. new.sending[n] = s \o z
    BY <1>6 DEF Batched
  <2> HIDE DEF s, z
  <2>2. Has(s, k, l, HeadTtl) \/ Has(z, k, l, HeadTtl) => Has(s \o z, k, l, HeadTtl)
    BY <1>1, HasConcat
  <2>3. ASSUME NEW x \in 1..Len(s \o z), IsOld((s \o z)[x], k, l)
        PROVE  Behind(s \o z, x, k, l)
    <3>1. /\ Len(s) \in Nat /\ Len(z) \in Nat /\ Len(s \o z) = Len(s) + Len(z)
          /\ (s \o z)[x] = IF x <= Len(s) THEN s[x] ELSE z[x - Len(s)]
      BY <1>1, ConcatProperties, LenProperties
    <3>2. CASE x <= Len(s)
      <4>1. x \in 1..Len(s) /\ IsOld(s[x], k, l)
        BY <2>3, <3>1, <3>2
      <4>2. s[x].ttl = HeadTtl
        BY <1>2, <4>1 DEF IsFull, IsOld, IsUpdate
      <4>3. /\ Behind(s, x, k, l) => Behind(s \o z, x, k, l)
            /\ Has(z, k, l, HeadTtl) /\ s[x].ttl = HeadTtl => Behind(s \o z, x, k, l)
        BY <1>1, <4>1, HasConcat
      <4> QED BY <1>2, <4>1, <4>2, <4>3
    <3>3. CASE ~(x <= Len(s))
      <4> DEFINE y == x - Len(s)
      <4>1. y \in 1..Len(z) /\ IsOld(z[y], k, l) /\ Len(s) + y = x
        BY <2>3, <3>1, <3>3
      <4> HIDE DEF y
      <4>2. Behind(z, y, k, l) => Behind(s \o z, Len(s) + y, k, l)
        BY <1>1, <4>1, HasConcat
      <4> QED BY <1>2, <4>1, <4>2
    <3> QED BY <3>2, <3>3
  <2>4. \A x \in 1..Len(new.sending[n]) : IsOld(new.sending[n][x], k, l) => Behind(new.sending[n], x, k, l)
    BY <2>1, <2>3
  <2>5. \/ Has(net.sending[n], k, l, HeadTtl)
        \/ Has(net.pending[n], k, l, HeadTtl)
        => Has(new.sending[n], k, l, HeadTtl)
    BY <2>1, <2>2 DEF s, z
  <2> QED BY <1>3, <2>4, <2>5
<1> QED BY <1>5, <1>6

\* batchFlush takes the queue.
LEMMA BatchWay ==
    ASSUME Steady, NEW n \in Nodes, TakeBatch(n), UNCHANGED <<peers, chan, heads, latest>>
    PROVE  Paths' /\ \A k \in Keys : Way(k)'
<1> DEFINE net == Net
           new == Net'
<1>1. IsNet(net) /\ IsNet(new)
  BY NetTypes DEF Steady
<1>2. Wired(net) /\ Full(net) /\ Sprung(net) /\ Planned
      /\ \A k \in Keys : Train(net, k, latest[k]) /\ Lined(net, k, latest[k]) /\ Awaited(net, heads, k, latest[k])
  BY DEF Steady, Paths, Way
<1>3. pending \in [Nodes -> Seq(AnnouncementType)] /\ sending \in [Nodes -> Seq(AnnouncementType)]
  BY <1>1, NetParts DEF IsNet
<1>4. /\ new.chan = net.chan /\ new.peers = net.peers
      /\ \A m \in Nodes \ {n} : new.pending[m] = net.pending[m] /\ new.sending[m] = net.sending[m]
  <2>1. /\ pending' = [pending EXCEPT ![n] = <<>>]
        /\ sending' = sending \/ \E s : sending' = [sending EXCEPT ![n] = s]
    BY <1>3, BatchTaken
  <2>2. \A m \in Nodes \ {n} : pending'[m] = pending[m] /\ sending'[m] = sending[m]
    BY <1>3, <2>1
  <2> QED BY <2>2, NetParts
<1>5. Batched(net, new, n)
  <2>1. CASE peers[n] = {}
    <3>1. IsFull(pending[n], n)
      BY <1>2, NetParts DEF Full
    <3>2. \A x \in 1..Len(pending[n]) : pending[n][x].item.kind # "head_update"
      BY <1>2, <1>3, <2>1, <3>1, WriterHasPeers DEF Steady
    <3> QED BY <1>3, <2>1, <3>2, NetParts DEF TakeBatch, Batched
  <2>2. CASE peers[n] # {}
    <3>1. ~Overlaps
      BY DEF Steady, Reliable
    <3>2. sending' = [sending EXCEPT ![n] = sending[n] \o pending[n]]
      BY <2>2, <3>1 DEF TakeBatch
    <3> QED BY <1>3, <2>2, <3>2, NetParts DEF TakeBatch, Batched
  <2> QED BY <2>1, <2>2
<1> HIDE DEF net, new
<1>6. Wired(new) /\ Sprung(new)
  BY <1>1, <1>2, <1>4, StillPaths
<1>7. Full(new)
  <2>1. IsFull(new.pending[n], n) /\ IsFull(new.sending[n], n)
    BY <1>1, <1>2, <1>5, BatchedFull
  <2> QED BY <1>2, <1>4, <2>1 DEF Full
<1>8. ASSUME NEW k \in Keys
      PROVE  Train(new, k, latest[k]) /\ Lined(new, k, latest[k]) /\ Awaited(new, heads, k, latest[k])
  <2> DEFINE l == latest[k]
  <2>0. Train(net, k, l) /\ Lined(net, k, l) /\ Awaited(net, heads, k, l)
    BY <1>2
  <2> HIDE DEF l
  <2>1. /\ \/ Has(net.sending[n], k, l, HeadTtl)
           \/ Has(net.pending[n], k, l, HeadTtl)
           => Has(new.sending[n], k, l, HeadTtl)
        /\ \A x \in 1..Len(new.pending[n]) : IsOld(new.pending[n][x], k, l) => Behind(new.pending[n], x, k, l)
        /\ \A x \in 1..Len(new.sending[n]) : IsOld(new.sending[n][x], k, l) =>
              Behind(new.sending[n], x, k, l) \/ Has(new.pending[n], k, l, HeadTtl)
    BY <1>1, <1>2, <1>5, <2>0, BatchedWay
  <2>2. Lined(new, k, l)
    <3> SUFFICES ASSUME NEW m \in Nodes
                 PROVE  /\ \A x \in 1..Len(new.pending[m]) : IsOld(new.pending[m][x], k, l) => Behind(new.pending[m], x, k, l)
                        /\ \A x \in 1..Len(new.sending[m]) : IsOld(new.sending[m][x], k, l) =>
                              Behind(new.sending[m], x, k, l) \/ Has(new.pending[m], k, l, HeadTtl)
      BY DEF Lined
    <3>1. CASE m = n
      BY <2>1, <3>1
    <3>2. CASE m # n
      <4>1. new.pending[m] = net.pending[m] /\ new.sending[m] = net.sending[m]
        BY <1>4, <3>2
      <4> QED BY <2>0, <4>1 DEF Lined
    <3> QED BY <3>1, <3>2
  <2>3. Keeps(net, new, k, l)
    BY <1>4, <2>1 DEF Keeps
  <2>4. Train(new, k, l) /\ Awaited(new, heads, k, l)
    <3>1. new.chan = net.chan /\ \A m \in Nodes : net.peers[m] \subseteq new.peers[m]
      BY <1>4
    <3> QED BY <1>1, <1>2, <2>0, <2>3, <3>1, StillWay
  <2> QED BY <2>2, <2>4 DEF l
<1>9. Planned'
  BY <1>2 DEF Planned
<1>10. Paths'
  BY <1>6, <1>7, <1>9 DEF Paths, new
<1>11. \A k \in Keys : Way(k)'
  BY <1>8 DEF Way, new
<1> QED BY <1>10, <1>11

\* a has been queued at node n.
Queues(net, new, n, a) ==
    /\ new.sending = net.sending /\ new.pending[n] = Append(net.pending[n], a)
    /\ \A m \in Nodes \ {n} : new.pending[m] = net.pending[m]

\* Queueing where an update was made.
LEMMA QueuedFull ==
    ASSUME NEW net, NEW new, IsNet(net), IsNet(new), NEW n \in Nodes, NEW a \in AnnouncementType,
           Queues(net, new, n, a), Full(net),
           a.item.kind = "head_update" => a.ttl = HeadTtl /\ a.item.origin = n
    PROVE  Full(new)
<1>1. net.pending[n] \in Seq(AnnouncementType) /\ IsFull(net.pending[n], n)
  BY DEF IsNet, Full
<1>2. IsFull(new.pending[n], n)
  BY <1>1, FullAppend DEF Queues
<1> QED BY <1>2 DEF Full, Queues

\* Queueing something else leaves the updates of k in line.
LEMMA QueuedWay ==
    ASSUME NEW net, NEW new, IsNet(net), IsNet(new), NEW n \in Nodes, NEW a \in AnnouncementType,
           Queues(net, new, n, a), NEW k, NEW l, Lined(net, k, l), ~IsUpdate(a, k)
    PROVE  Lined(new, k, l) /\ Keeps(net, new, k, l)
<1> DEFINE s == net.pending[n]
<1>1. s \in Seq(AnnouncementType) /\ new.pending[n] = Append(s, a) /\ Len(s) \in Nat
  BY LenProperties DEF IsNet, Queues
<1>2. /\ Len(Append(s, a)) = Len(s) + 1 /\ Append(s, a)[Len(s) + 1] = a
      /\ \A x \in 1..Len(s) : Append(s, a)[x] = s[x]
      /\ Has(s, k, l, HeadTtl) => Has(Append(s, a), k, l, HeadTtl)
      /\ \A x \in 1..Len(s) : Behind(s, x, k, l) => Behind(Append(s, a), x, k, l)
  BY <1>1, HasAppend
<1>3. /\ \A x \in 1..Len(s) : IsOld(s[x], k, l) => Behind(s, x, k, l)
      /\ \A x \in 1..Len(net.sending[n]) : IsOld(net.sending[n][x], k, l) =>
            Behind(net.sending[n], x, k, l) \/ Has(s, k, l, HeadTtl)
  BY DEF Lined
<1>4. ASSUME NEW x \in 1..Len(Append(s, a)), IsOld(Append(s, a)[x], k, l)
      PROVE  Behind(Append(s, a), x, k, l)
  <2>1. x # Len(s) + 1
    BY <1>2, <1>4 DEF IsOld
  <2>2. x \in 1..Len(s)
    BY <1>1, <1>2, <2>1
  <2> QED BY <1>2, <1>3, <1>4, <2>2
<1> HIDE DEF s
<1>5. Lined(new, k, l)
  <2> SUFFICES ASSUME NEW m \in Nodes
               PROVE  /\ \A x \in 1..Len(new.pending[m]) : IsOld(new.pending[m][x], k, l) => Behind(new.pending[m], x, k, l)
                      /\ \A x \in 1..Len(new.sending[m]) : IsOld(new.sending[m][x], k, l) =>
                            Behind(new.sending[m], x, k, l) \/ Has(new.pending[m], k, l, HeadTtl)
    BY DEF Lined
  <2>1. CASE m = n
    <3>1. \A x \in 1..Len(new.pending[n]) : IsOld(new.pending[n][x], k, l) => Behind(new.pending[n], x, k, l)
      BY <1>1, <1>4
    <3>2. \A x \in 1..Len(new.sending[n]) : IsOld(new.sending[n][x], k, l) =>
              Behind(new.sending[n], x, k, l) \/ Has(new.pending[n], k, l, HeadTtl)
      BY <1>1, <1>2, <1>3 DEF Queues
    <3> QED BY <2>1, <3>1, <3>2
  <2>2. CASE m # n
    <3>1. new.pending[m] = net.pending[m] /\ new.sending[m] = net.sending[m]
      BY <2>2 DEF Queues
    <3> QED BY <3>1 DEF Lined
  <2> QED BY <2>1, <2>2
<1>6. ASSUME NEW m \in Nodes, Has(net.sending[m], k, l, HeadTtl) \/ Has(net.pending[m], k, l, HeadTtl)
      PROVE  Has(new.sending[m], k, l, HeadTtl) \/ Has(new.pending[m], k, l, HeadTtl)
  <2>1. CASE m = n
    BY <1>1, <1>2, <1>6, <2>1 DEF Queues, s
  <2>2. CASE m # n
    BY <1>6, <2>2 DEF Queues
  <2> QED BY <2>1, <2>2
<1> QED BY <1>5, <1>6 DEF Keeps

\* A new update of k comes behind all there is of k, and to every node.
LEMMA NewUpdateWay ==
    ASSUME NEW net, NEW new, IsNet(net), IsNet(new), NEW n \in Nodes, NEW a \in AnnouncementType,
           Queues(net, new, n, a), new.chan = net.chan, new.peers = net.peers, NEW k, NEW l,
           IsLast(a, k, l), a.ttl = HeadTtl, Full(net), Sprung(net),
           \A x \in AnnouncementType : IsUpdate(x, k) => x.item.origin = n,
           \A m \in Nodes : \E d \in 0..(HeadTtl + 1) : Reached(net.peers, n, m, d),
           NEW hd, hd[n][k] = l
    PROVE  Train(new, k, l) /\ Lined(new, k, l) /\ Awaited(new, hd, k, l)
<1> DEFINE s == net.pending[n]
<1>1. s \in Seq(AnnouncementType) /\ new.pending[n] = Append(s, a) /\ Len(s) \in Nat /\ HeadTtl \in Nat
  BY LenProperties DEF IsNet, Queues, HeadTtl, Classes
<1>2. /\ Len(Append(s, a)) = Len(s) + 1 /\ Append(s, a)[Len(s) + 1] = a
      /\ \A x \in 1..Len(s) : Append(s, a)[x] = s[x]
      /\ Has(Append(s, a), k, l, HeadTtl)
      /\ \A x \in 1..Len(s) : a.ttl = s[x].ttl => Behind(Append(s, a), x, k, l)
  BY <1>1, HasAppend
<1>3. Has(new.pending[n], k, l, HeadTtl) /\ Source(new, n, HeadTtl + 1, k, l)
  BY <1>1, <1>2 DEF Source
<1>4. ASSUME NEW m \in Nodes, NEW d \in Nat, NEW r \in Nat, r + d = HeadTtl + 1, Reached(net.peers, n, m, d)
      PROVE  OnWay(new, m, r, k, l)
  BY <1>3, <1>4 DEF OnWay
<1>5. Train(new, k, l)
  <2> SUFFICES ASSUME NEW m \in Nodes, NEW q \in Nodes, NEW x \in 1..Len(net.chan[m][q]),
                      IsOld(net.chan[m][q][x], k, l)
               PROVE  OnWay(new, m, net.chan[m][q][x].ttl + 1, k, l)
    BY DEF Train
  <2> DEFINE b == net.chan[m][q][x]
  <2>1. b \in AnnouncementType /\ b.ttl \in Nat
    <3>1. net.chan[m][q] \in Seq(AnnouncementType)
      BY LinesTyped
    <3>2. b \in AnnouncementType
      BY <3>1, ElementOfSeq
    <3> QED BY <3>2 DEF AnnouncementType
  <2>2. Comes(net, m, b) /\ b.item.origin = n
    BY <2>1 DEF Sprung, IsOld, IsUpdate
  <2> HIDE DEF b
  <2>3. PICK d \in Nat : HeadTtl = b.ttl + d /\ Reached(net.peers, n, m, d)
    BY <2>2 DEF Comes
  <2>4. b.ttl + 1 \in Nat /\ (b.ttl + 1) + d = HeadTtl + 1
    BY <2>1, <2>3
  <2>5. OnWay(new, m, b.ttl + 1, k, l)
    BY <1>4, <2>3, <2>4
  <2> QED BY <2>5 DEF b
<1>6. Lined(new, k, l)
  <2> SUFFICES ASSUME NEW m \in Nodes
               PROVE  /\ \A x \in 1..Len(new.pending[m]) : IsOld(new.pending[m][x], k, l) => Behind(new.pending[m], x, k, l)
                      /\ \A x \in 1..Len(new.sending[m]) : IsOld(new.sending[m][x], k, l) =>
                            Behind(new.sending[m], x, k, l) \/ Has(new.pending[m], k, l, HeadTtl)
    BY DEF Lined
  <2>1. CASE m = n
    <3>1. ASSUME NEW x \in 1..Len(Append(s, a)), IsOld(Append(s, a)[x], k, l)
          PROVE  Behind(Append(s, a), x, k, l)
      <4>1. x # Len(s) + 1
        BY <1>2, <3>1 DEF IsOld, IsLast
      <4>2. x \in 1..Len(s)
        BY <1>1, <1>2, <4>1
      <4>3. IsOld(s[x], k, l)
        BY <1>2, <3>1, <4>2
      <4>4. s[x].ttl = HeadTtl
        BY <4>2, <4>3 DEF Full, IsFull, IsOld, IsUpdate
      <4> QED BY <1>2, <4>2, <4>4
    <3> HIDE DEF s
    <3>2. \A x \in 1..Len(new.pending[n]) : IsOld(new.pending[n][x], k, l) => Behind(new.pending[n], x, k, l)
      BY <1>1, <3>1
    <3> QED BY <1>3, <2>1, <3>2
  <2>2. CASE m # n
    <3>1. ASSUME NEW z \in Seq(AnnouncementType), IsFull(z, m), NEW x \in 1..Len(z), IsOld(z[x], k, l) PROVE FALSE
      <4>1. z[x] \in AnnouncementType
        BY <3>1, ElementOfSeq
      <4> QED BY <2>2, <3>1, <4>1 DEF IsFull, IsOld, IsUpdate
    <3>2. /\ new.pending[m] \in Seq(AnnouncementType) /\ new.sending[m] \in Seq(AnnouncementType)
          /\ IsFull(new.pending[m], m) /\ IsFull(new.sending[m], m)
      BY <2>2 DEF IsNet, Full, Queues
    <3> QED BY <3>1, <3>2
  <2> QED BY <2>1, <2>2
<1>7. Awaited(new, hd, k, l)
  <2> SUFFICES ASSUME NEW m \in Nodes, m # n PROVE \E r \in 0..HeadTtl : OnWay(new, m, r, k, l)
    BY DEF Awaited
  <2>1. PICK d \in 0..(HeadTtl + 1) : Reached(net.peers, n, m, d)
    OBVIOUS
  <2>2. d # 0
    <3>1. net.peers \in [Nodes -> SUBSET Nodes]
      BY DEF IsNet
    <3>2. Reached(net.peers, n, m, 0) => n = m
      BY <3>1, WalkBack
    <3> QED BY <2>1, <3>2
  <2> DEFINE r == (HeadTtl + 1) - d
  <2>3. r \in 0..HeadTtl /\ r \in Nat /\ r + d = HeadTtl + 1 /\ d \in Nat
    BY <1>1, <2>2
  <2> HIDE DEF r
  <2>4. OnWay(new, m, r, k, l)
    BY <1>4, <2>1, <2>3
  <2> QED BY <2>3, <2>4
<1> QED BY <1>5, <1>6, <1>7

\* Announcing: other collections do not notice, and the last update of this one
\* is the one just queued.
LEMMA AnnounceWay ==
    ASSUME Steady, NEW i \in Items, AnnounceAny(i)
    PROVE  Paths' /\ \A k \in Keys : Way(k)'
<1> DEFINE net == Net
           new == Net'
           n == i.origin
           a == Announcement(i)
<1>1. IsNet(net) /\ IsNet(new)
  BY NetTypes DEF Steady
<1>2. Wired(net) /\ Full(net) /\ Sprung(net) /\ Planned
      /\ \A k \in Keys : Train(net, k, latest[k]) /\ Lined(net, k, latest[k]) /\ Awaited(net, heads, k, latest[k])
  BY DEF Steady, Paths, Way
<1>3. /\ pending' = [pending EXCEPT ![n] = Append(@, a)]
      /\ UNCHANGED <<peers, chan, sending>>
  BY DEF AnnounceAny, AnnounceBlock, AnnounceMessage, AnnounceHeadUpdate, AnnouncePool,
         AnnounceBrightTrust, AnnounceIndex, Announce, QueueAnnouncement
<1>4. \/ UNCHANGED <<heads, latest>> /\ i.kind # "head_update"
      \/ /\ i.kind = "head_update"
         /\ heads' = [heads EXCEPT ![i.origin][i.key] = i.name]
         /\ latest' = [latest EXCEPT ![i.key] = i.name]
  BY DEF AnnounceAny, AnnounceBlock, AnnounceMessage, AnnounceHeadUpdate, AnnouncePool,
         AnnounceBrightTrust, AnnounceIndex, Announce
<1>5. /\ n \in Nodes /\ i.key \in Keys /\ a \in AnnouncementType /\ a.item = i /\ a.ttl = TtlOf(i)
      /\ i.kind = "head_update" => TtlOf(i) = HeadTtl
  <2>1. TtlOf(i) \in Nat
    BY TtlIsNat
  <2>2. i.kind = "head_update" => TtlOf(i) = HeadTtl
    BY DEF TtlOf, Class, HeadTtl
  <2> QED BY <2>1, <2>2 DEF ItemType, Keys, Announcement, AnnouncementType
<1>6. /\ new.chan = net.chan /\ new.peers = net.peers /\ Queues(net, new, n, a)
      /\ \A m \in Nodes : net.peers[m] \subseteq new.peers[m]
  <2>1. pending \in [Nodes -> Seq(AnnouncementType)]
    BY <1>1, NetParts DEF IsNet
  <2> QED BY <1>3, <1>5, <2>1, NetParts DEF Queues
<1>7. /\ heads \in [Nodes -> [Keys -> Names \cup {Nothing}]] /\ latest \in [Keys -> Names \cup {Nothing}]
  BY DEF Steady, IInv, OtherTypes
<1>8. net.peers = peers
  BY NetParts
<1> HIDE DEF net, new, n, a
<1>9. Wired(new) /\ Sprung(new)
  BY <1>1, <1>2, <1>6, StillPaths
<1>10. Full(new)
  BY <1>1, <1>2, <1>5, <1>6, QueuedFull DEF n
<1>11. ASSUME NEW k \in Keys, i.kind = "head_update" => i.key # k
       PROVE  /\ Train(new, k, latest'[k]) /\ Lined(new, k, latest'[k]) /\ Awaited(new, heads', k, latest'[k])
  <2> DEFINE l == latest[k]
  <2>0. Train(net, k, l) /\ Lined(net, k, l) /\ Awaited(net, heads, k, l)
    BY <1>2
  <2>1. latest'[k] = l /\ \A m \in Nodes : heads'[m][k] = heads[m][k]
    BY <1>4, <1>7, <1>11
  <2> HIDE DEF l
  <2>2. ~IsUpdate(a, k)
    BY <1>5, <1>11 DEF IsUpdate
  <2>3. Lined(new, k, l) /\ Keeps(net, new, k, l)
    BY <1>1, <1>5, <1>6, <2>0, <2>2, QueuedWay
  <2>4. Train(new, k, l) /\ Awaited(new, heads, k, l)
    BY <1>1, <1>2, <1>6, <2>0, <2>3, StillWay
  <2>5. Awaited(new, heads', k, l)
    BY <2>1, <2>4 DEF Awaited
  <2> QED BY <2>1, <2>3, <2>4, <2>5
<1>12. ASSUME NEW k \in Keys, i.kind = "head_update", i.key = k
       PROVE  /\ Train(new, k, latest'[k]) /\ Lined(new, k, latest'[k]) /\ Awaited(new, heads', k, latest'[k])
  <2> DEFINE l == latest'[k]
  <2>1. l = i.name /\ heads'[n][k] = l
    BY <1>4, <1>5, <1>7, <1>12 DEF n
  <2> HIDE DEF l
  <2>2. IsLast(a, k, l) /\ a.ttl = HeadTtl /\ i \in HeadUpdates
    BY <1>5, <1>12, <2>1 DEF IsLast, IsUpdate, HeadUpdates
  <2>3. \A x \in AnnouncementType : IsUpdate(x, k) => x.item.origin = n
    <3> SUFFICES ASSUME NEW x \in AnnouncementType, IsUpdate(x, k) PROVE x.item.origin = n
      OBVIOUS
    <3>1. x.item \in HeadUpdates /\ x.item.key = i.key
      BY <1>12, UpdateFacts DEF IsUpdate
    <3> QED BY <2>2, <3>1 DEF Steady, Reliable, n
  <2>4. \A m \in Nodes : \E d \in 0..(HeadTtl + 1) : Reached(net.peers, n, m, d)
    BY <1>2, <1>8, <2>2, ReliableFacts DEF Steady, n
  <2>5. Train(new, k, l) /\ Lined(new, k, l) /\ Awaited(new, heads', k, l)
    BY <1>1, <1>2, <1>5, <1>6, <2>1, <2>2, <2>3, <2>4, NewUpdateWay
  <2> QED BY <2>5 DEF l
<1>13. Planned'
  BY <1>2, <1>3 DEF Planned
<1>14. Paths'
  BY <1>9, <1>10, <1>13 DEF Paths, new
<1>15. \A k \in Keys : Way(k)'
  BY <1>11, <1>12 DEF Way, new
<1> QED BY <1>14, <1>15

\* Reading from connections, and then writing a to T, shifts them.
LEMMA WriteShifts ==
    ASSUME NEW net, NEW new, IsNet(net), IsNet(new), NEW ch \in [Nodes -> [Nodes -> Seq(AnnouncementType)]],
           NEW rd, NEW n, NEW T, NEW a \in AnnouncementType,
           \A i, j \in Nodes : /\ rd[i][j] \in {0, 1} /\ rd[i][j] <= Len(net.chan[i][j])
                               /\ Len(ch[i][j]) = Len(net.chan[i][j]) - rd[i][j]
                               /\ \A y \in 1..Len(ch[i][j]) : ch[i][j][y] = net.chan[i][j][y + rd[i][j]]
                               /\ new.chan[i][j] = IF i = n /\ j \in T THEN Append(ch[i][j], a) ELSE ch[i][j]
    PROVE  Shifts(net, new, rd, n, T, a)
<1> SUFFICES ASSUME NEW i \in Nodes, NEW j \in Nodes
             PROVE  LET s == net.chan[i][j]
                        z == new.chan[i][j]
                        e == rd[i][j] IN
                    /\ e \in {0, 1} /\ e <= Len(s)
                    /\ \A y \in 1..(Len(s) - e) : z[y] = s[y + e]
                    /\ IF i = n /\ j \in T THEN Len(z) = Len(s) - e + 1 /\ z[Len(z)] = a ELSE Len(z) = Len(s) - e
  BY DEF Shifts
<1> DEFINE s == net.chan[i][j]
           z == new.chan[i][j]
           w == ch[i][j]
           e == rd[i][j]
<1>1. /\ e \in {0, 1} /\ e <= Len(s) /\ Len(w) = Len(s) - e /\ \A y \in 1..Len(w) : w[y] = s[y + e]
      /\ z = IF i = n /\ j \in T THEN Append(w, a) ELSE w
  OBVIOUS
<1>2. w \in Seq(AnnouncementType) /\ Len(w) \in Nat
  BY LenProperties
<1> HIDE DEF s, z, w, e
<1>3. Len(Append(w, a)) = Len(w) + 1 /\ (\A y \in 1..Len(w) : Append(w, a)[y] = w[y]) /\ Append(w, a)[Len(w) + 1] = a
  BY <1>2, AppendProperties
<1>4. /\ \A y \in 1..Len(w) : z[y] = s[y + e]
      /\ IF i = n /\ j \in T THEN Len(z) = Len(w) + 1 /\ z[Len(z)] = a ELSE Len(z) = Len(w)
  BY <1>1, <1>3
<1> QED BY <1>1, <1>4 DEF s, z, w, e

\* Node n has written a, the next of its batch, to T: to all peers if it is an
\* update of k.
Sends(net, new, n, T, a, k) ==
    /\ net.sending[n] # <<>> /\ a = Head(net.sending[n]) /\ new.sending[n] = Tail(net.sending[n])
    /\ \A m \in Nodes \ {n} : new.sending[m] = net.sending[m]
    /\ new.pending = net.pending /\ new.peers = net.peers /\ Shifts(net, new, Still, n, T, a)
    /\ IsUpdate(a, k) => T = net.peers[n]

\* Sending: the last update leaves the queue for all connections of its node, and
\* comes last in each; an older one has the last still behind it in the queue.
LEMMA SentWay ==
    ASSUME NEW net, NEW new, IsNet(net), IsNet(new), NEW n \in Nodes, NEW T, NEW a \in AnnouncementType,
           NEW k, NEW l, Sends(net, new, n, T, a, k),
           Wired(net), Full(net), Train(net, k, l), Lined(net, k, l), NEW hd, Awaited(net, hd, k, l)
    PROVE  Train(new, k, l) /\ Lined(new, k, l) /\ Awaited(new, hd, k, l)
<1>0. /\ net.sending[n] # <<>> /\ a = Head(net.sending[n]) /\ new.sending[n] = Tail(net.sending[n])
      /\ \A m \in Nodes \ {n} : new.sending[m] = net.sending[m]
      /\ new.pending = net.pending /\ new.peers = net.peers /\ Shifts(net, new, Still, n, T, a)
      /\ IsUpdate(a, k) => T = net.peers[n]
  BY DEF Sends
<1>10. Shifts(net, new, Still, n, T, a) /\ \A m \in Nodes : net.peers[m] \subseteq new.peers[m]
  BY <1>0
<1> DEFINE s == net.sending[n]
<1>1. s \in Seq(AnnouncementType) /\ s # <<>> /\ IsFull(s, n) /\ a = Head(s) /\ new.sending[n] = Tail(s)
  BY <1>0 DEF IsNet, Full
<1>2. \A x \in 1..Len(s) : IsOld(s[x], k, l) => Behind(s, x, k, l) \/ Has(net.pending[n], k, l, HeadTtl)
  BY DEF Lined
<1>3. HeadTtl \in Nat /\ HeadTtl + 1 \in Nat /\ HeadTtl + 1 > HeadTtl
  BY DEF HeadTtl, Classes
<1> HIDE DEF s
<1>4. /\ Has(s, k, l, HeadTtl) => Has(Tail(s), k, l, HeadTtl) \/ IsLast(a, k, l)
      /\ Behind(s, 1, k, l) => Has(Tail(s), k, l, a.ttl)
      /\ \A x \in 1..Len(Tail(s)) :
            /\ x + 1 \in 1..Len(s) /\ Tail(s)[x] = s[x + 1]
            /\ Behind(s, x + 1, k, l) => Behind(Tail(s), x, k, l)
  BY <1>1, HasTail
<1>5. IsUpdate(a, k) => a.ttl = HeadTtl
  BY <1>1, FullTail DEF IsUpdate
<1>6. Lined(new, k, l)
  <2>1. \A x \in 1..Len(new.sending[n]) : IsOld(new.sending[n][x], k, l) =>
            Behind(new.sending[n], x, k, l) \/ Has(new.pending[n], k, l, HeadTtl)
    BY <1>0, <1>1, <1>2, <1>4
  <2> SUFFICES ASSUME NEW m \in Nodes
               PROVE  /\ \A x \in 1..Len(new.pending[m]) : IsOld(new.pending[m][x], k, l) => Behind(new.pending[m], x, k, l)
                      /\ \A x \in 1..Len(new.sending[m]) : IsOld(new.sending[m][x], k, l) =>
                            Behind(new.sending[m], x, k, l) \/ Has(new.pending[m], k, l, HeadTtl)
    BY DEF Lined
  <2>2. \A x \in 1..Len(new.pending[m]) : IsOld(new.pending[m][x], k, l) => Behind(new.pending[m], x, k, l)
    BY <1>0 DEF Lined
  <2>3. CASE m = n
    BY <2>1, <2>2, <2>3
  <2>4. CASE m # n
    <3>1. new.sending[m] = net.sending[m]
      BY <1>0, <2>4
    <3> QED BY <1>0, <2>2, <3>1 DEF Lined
  <2> QED BY <2>3, <2>4
<1>7. \A m \in Nodes : Has(net.sending[m], k, l, HeadTtl) => Has(new.sending[m], k, l, HeadTtl) \/ (m = n /\ IsLast(a, k, l))
  <2> SUFFICES ASSUME NEW m \in Nodes, Has(net.sending[m], k, l, HeadTtl)
               PROVE  Has(new.sending[m], k, l, HeadTtl) \/ (m = n /\ IsLast(a, k, l))
    OBVIOUS
  <2>1. CASE m = n
    BY <1>1, <1>4, <2>1 DEF s
  <2>2. CASE m # n
    BY <1>0, <2>2
  <2> QED BY <2>1, <2>2
<1>8. CASE ~IsLast(a, k, l)
  <2>1. \A m \in Nodes, r \in Nat : Source(net, m, r, k, l) => Source(new, m, r, k, l)
    <3>1. \A i, j \in Nodes : Still[i][j] = 1 => ~IsLast(net.chan[i][j][1], k, l)
      BY DEF Still
    <3>2. Keeps(net, new, k, l)
      BY <1>0, <1>7, <1>8 DEF Keeps
    <3> QED BY <1>10, <3>1, <3>2, SourceStays
  <2>2. Goes(net, new, k, l, 0, HeadTtl + 1)
    BY <1>0, <2>1 DEF Goes
  <2>3. IsOld(a, k, l) => OnWay(new, n, a.ttl + 1, k, l)
    <3> SUFFICES ASSUME IsOld(a, k, l) PROVE OnWay(new, n, a.ttl + 1, k, l)
      OBVIOUS
    <3>1. a.ttl = HeadTtl
      BY <1>5 DEF IsOld
    <3>2. a = s[1] /\ 1 \in 1..Len(s)
      <4>1. Len(s) \in Nat /\ Len(s) # 0
        BY <1>1, LenProperties, EmptySeq
      <4> QED BY <1>1, <4>1
    <3>3. Has(new.sending[n], k, l, HeadTtl) \/ Has(new.pending[n], k, l, HeadTtl)
      BY <1>0, <1>1, <1>2, <1>4, <3>1, <3>2
    <3>4. Source(new, n, HeadTtl + 1, k, l)
      BY <3>3 DEF Source
    <3> QED BY <1>3, <3>1, <3>4, WayStarts
  <2>4. Served(new, hd, hd, k, l, 0, HeadTtl + 1) /\ Follows(new, n, T, a, k, l)
    BY <1>3, <2>3 DEF Served, Follows
  <2>5. Train(new, k, l) /\ Awaited(new, hd, k, l)
    BY <1>10, <1>3, <2>2, <2>4, WayStep
  <2> QED BY <1>6, <2>5
<1>9. CASE IsLast(a, k, l)
  <2>1. a.ttl = HeadTtl /\ T = net.peers[n] /\ ~IsOld(a, k, l)
    BY <1>0, <1>5, <1>9 DEF IsLast, IsOld
  <2>2. Handed(net, new, n, HeadTtl + 1, k, l)
    <3> SUFFICES ASSUME NEW q \in net.peers[n]
                 PROVE  LET z == new.chan[n][q]
                        IN Len(z) > 0 /\ IsLast(z[Len(z)], k, l) /\ z[Len(z)].ttl = (HeadTtl + 1) - 1
      BY DEF Handed
    <3>1. q \in Nodes /\ Len(net.chan[n][q]) \in Nat
      <4>1. q \in Nodes
        BY DEF IsNet
      <4> QED BY <4>1, LinesTyped
    <3>2. Still[n][q] = 0
      BY <3>1 DEF Still
    <3>3. Len(new.chan[n][q]) = Len(net.chan[n][q]) - Still[n][q] + 1 /\ new.chan[n][q][Len(new.chan[n][q])] = a
      BY <1>0, <2>1, <3>1 DEF Shifts
    <3>4. Len(new.chan[n][q]) > 0 /\ (HeadTtl + 1) - 1 = HeadTtl
      <4>1. Len(new.chan[n][q]) = Len(net.chan[n][q]) + 1
        BY <3>1, <3>2, <3>3
      <4>2. (HeadTtl + 1) - 1 = HeadTtl
        BY <1>3
      <4> QED BY <3>1, <4>1, <4>2
    <3> QED BY <1>9, <2>1, <3>3, <3>4
  <2>3. Goes(net, new, k, l, n, HeadTtl + 1)
    <3> SUFFICES ASSUME NEW m \in Nodes, NEW r \in Nat, Source(net, m, r, k, l)
                 PROVE  Source(new, m, r, k, l) \/ (m = n /\ r = HeadTtl + 1 /\ Handed(net, new, m, r, k, l))
      BY <1>10 DEF Goes
    <3>1. CASE \E p \in Nodes : Has(net.chan[p][m], k, l, r)
      <4>1. \A p \in Nodes : Still[p][m] = 1 => ~(IsLast(net.chan[p][m][1], k, l) /\ net.chan[p][m][1].ttl = r)
        BY DEF Still
      <4> QED BY <1>10, <3>1, <4>1, ReadSource
    <3>2. CASE r = HeadTtl + 1 /\ (Has(net.sending[m], k, l, HeadTtl) \/ Has(net.pending[m], k, l, HeadTtl))
      <4>1. Has(new.sending[m], k, l, HeadTtl) \/ Has(new.pending[m], k, l, HeadTtl) \/ m = n
        BY <1>0, <1>7, <3>2
      <4>2. CASE m = n
        BY <2>2, <3>2, <4>2
      <4>3. CASE Has(new.sending[m], k, l, HeadTtl) \/ Has(new.pending[m], k, l, HeadTtl)
        BY <3>2, <4>3 DEF Source
      <4> QED BY <4>1, <4>2, <4>3
    <3> QED BY <3>1, <3>2 DEF Source
  <2>4. Served(new, hd, hd, k, l, n, HeadTtl + 1) /\ Follows(new, n, T, a, k, l)
    BY <1>3, <2>1 DEF Served, Follows
  <2>5. Train(new, k, l) /\ Awaited(new, hd, k, l)
    BY <1>10, <1>3, <2>3, <2>4, WayStep
  <2> QED BY <1>6, <2>5
<1> QED BY <1>8, <1>9

\* One is read from the connection of p to m.
ReadFrom(p, m) == [i \in Nodes |-> [j \in Nodes |-> IF i = p /\ j = m THEN 1 ELSE 0]]

\* Node m has read x from p, and passed on b to T: to all peers if it is an
\* update of k, which has then been applied.
Reads(net, new, p, m, T, x, b, k) ==
    /\ Len(net.chan[p][m]) > 0 /\ x = net.chan[p][m][1] /\ new.peers = net.peers
    /\ Shifts(net, new, ReadFrom(p, m), m, T, b)
    /\ T # {} => b.item = x.item /\ b.ttl = x.ttl - 1 /\ x.ttl > 0
    /\ IsUpdate(x, k) /\ x.ttl > 0 => T = net.peers[m]

Applied(hd, hd2, m, x, k) ==
    \A n \in Nodes : hd2[n][k] = IF n = m /\ IsUpdate(x, k) THEN x.item.name ELSE hd[n][k]

\* Reading: the last update is in the registry now and on its way to the peers; an
\* older one in the registry has the last behind it.
LEMMA ReadWay ==
    ASSUME NEW net, NEW new, IsNet(net), IsNet(new), NEW p \in Nodes, NEW m \in Nodes, NEW T,
           NEW x \in AnnouncementType, NEW b \in AnnouncementType, NEW k, NEW l,
           Reads(net, new, p, m, T, x, b, k), Keeps(net, new, k, l), NEW hd, NEW hd2, Applied(hd, hd2, m, x, k),
           Wired(net), Sprung(net), Train(net, k, l), Awaited(net, hd, k, l)
    PROVE  Train(new, k, l) /\ Awaited(new, hd2, k, l)
<1> DEFINE s == net.chan[p][m]
           rd == ReadFrom(p, m)
<1>0. Len(s) > 0 /\ x = s[1] /\ new.peers = net.peers /\ Shifts(net, new, rd, m, T, b)
  BY DEF Reads
<1>1. s \in Seq(AnnouncementType) /\ new.chan[p][m] \in Seq(AnnouncementType) /\ Len(s) \in Nat /\ 1 \in 1..Len(s)
  <2>1. s \in Seq(AnnouncementType) /\ new.chan[p][m] \in Seq(AnnouncementType)
    BY LinesTyped
  <2>2. Len(s) \in Nat
    BY <2>1, LenProperties
  <2> QED BY <1>0, <2>1, <2>2
<1>2. HeadTtl \in Nat /\ HeadTtl + 1 \in Nat /\ HeadTtl + 1 > HeadTtl /\ x.ttl \in Nat
  <2>1. HeadTtl \in Nat
    BY DEF HeadTtl, Classes
  <2>2. x.ttl \in Nat
    BY DEF AnnouncementType
  <2> QED BY <2>1, <2>2
<1>3. \A i, j \in Nodes : rd[i][j] = IF i = p /\ j = m THEN 1 ELSE 0
  BY DEF ReadFrom
<1>4. IsUpdate(x, k) => x.ttl \in 0..HeadTtl
  <2> SUFFICES ASSUME IsUpdate(x, k) PROVE x.ttl \in 0..HeadTtl
    OBVIOUS
  <2>1. Comes(net, p, x)
    BY <1>0, <1>1 DEF Sprung, IsUpdate
  <2>2. PICK d \in Nat : HeadTtl = x.ttl + d
    BY <2>1 DEF Comes
  <2> QED BY <1>2, <2>2
<1>5. m \in net.peers[p]
  BY <1>0 DEF Wired
<1> HIDE DEF rd
<1>6. CASE ~IsLast(x, k, l)
  <2>1. \A n \in Nodes, r \in Nat : Source(net, n, r, k, l) => Source(new, n, r, k, l)
    <3>1. \A i, j \in Nodes : rd[i][j] = 1 => ~IsLast(net.chan[i][j][1], k, l)
      BY <1>0, <1>3, <1>6
    <3> QED BY <1>0, <3>1, SourceStays
  <2>2. Goes(net, new, k, l, 0, HeadTtl + 1)
    BY <1>0, <2>1 DEF Goes
  <2>3. IsOld(x, k, l) => OnWay(new, m, x.ttl, k, l)
    <3> SUFFICES ASSUME IsOld(x, k, l) PROVE OnWay(new, m, x.ttl, k, l)
      OBVIOUS
    <3>1. Behind(s, 1, k, l) \/ OnWay(net, p, x.ttl + 1, k, l)
      BY <1>0, <1>1 DEF Train
    <3>2. CASE Behind(s, 1, k, l)
      <4>1. PICK y \in 1..Len(s) : y > 1 /\ IsLast(s[y], k, l) /\ s[y].ttl = x.ttl
        BY <1>0, <3>2 DEF Behind
      <4>2. Has(s, k, l, x.ttl)
        BY <4>1 DEF Has
      <4>4. Source(net, m, x.ttl, k, l)
        BY <4>2 DEF Source
      <4>5. Source(new, m, x.ttl, k, l)
        BY <1>2, <2>1, <4>4
      <4> QED BY <1>2, <4>5, WayStarts
    <3>3. CASE OnWay(net, p, x.ttl + 1, k, l)
      <4>1. OnWay(net, m, x.ttl, k, l)
        BY <1>2, <1>5, <3>3, WayExtends
      <4>2. \A n \in Nodes : net.peers[n] \subseteq new.peers[n]
        BY <1>0
      <4>3. \A n \in Nodes, r \in Nat : OnWay(net, n, r, k, l) => OnWay(new, n, r, k, l)
        BY <2>1, <4>2, WayStays
      <4> QED BY <1>2, <4>1, <4>3
    <3> QED BY <3>1, <3>2, <3>3
  <2>4. T # {} /\ IsOld(b, k, l) => OnWay(new, m, b.ttl + 1, k, l)
    <3> SUFFICES ASSUME T # {}, IsOld(b, k, l) PROVE OnWay(new, m, b.ttl + 1, k, l)
      OBVIOUS
    <3>0. b.item = x.item /\ b.ttl = x.ttl - 1
      BY DEF Reads
    <3>1. IsOld(x, k, l) /\ b.ttl + 1 = x.ttl
      BY <1>2, <3>0 DEF IsOld, IsUpdate
    <3> QED BY <2>3, <3>1
  <2>5. Served(new, hd, hd2, k, l, 0, HeadTtl + 1)
    <3> SUFFICES ASSUME NEW n \in Nodes, hd2[n][k] # hd[n][k], hd2[n][k] # l
                 PROVE  \E r \in 0..HeadTtl : OnWay(new, n, r, k, l)
      BY <1>2 DEF Served
    <3>1. n = m /\ IsUpdate(x, k) /\ hd2[n][k] = x.item.name
      BY DEF Applied
    <3>2. IsOld(x, k, l)
      BY <1>6, <3>1 DEF IsOld, IsLast
    <3> QED BY <1>4, <2>3, <3>1, <3>2
  <2>6. Follows(new, m, T, b, k, l)
    BY <2>4 DEF Follows
  <2> QED BY <1>0, <1>2, <2>2, <2>5, <2>6, WayStep
<1>7. CASE IsLast(x, k, l)
  <2>1. IsUpdate(x, k) /\ x.item.name = l
    BY <1>7 DEF IsLast
  <2>2. Handed(net, new, m, x.ttl, k, l)
    <3> SUFFICES ASSUME x.ttl > 0, NEW q \in net.peers[m]
                 PROVE  LET z == new.chan[m][q]
                        IN Len(z) > 0 /\ IsLast(z[Len(z)], k, l) /\ z[Len(z)].ttl = x.ttl - 1
      BY DEF Handed
    <3>1. q \in Nodes /\ q \in T
      BY <2>1 DEF Reads, IsNet
    <3>2. rd[m][q] \in {0, 1} /\ rd[m][q] <= Len(net.chan[m][q]) /\ Len(net.chan[m][q]) \in Nat
          /\ Len(new.chan[m][q]) = Len(net.chan[m][q]) - rd[m][q] + 1 /\ new.chan[m][q][Len(new.chan[m][q])] = b
      <4>1. Len(net.chan[m][q]) \in Nat
        BY <3>1, LinesTyped
      <4> QED BY <1>0, <3>1, <4>1 DEF Shifts
    <3>3. Len(new.chan[m][q]) > 0
      BY <3>2
    <3>4. IsLast(b, k, l) /\ b.ttl = x.ttl - 1
      BY <1>7, <3>1 DEF Reads, IsLast, IsUpdate
    <3> QED BY <3>2, <3>3, <3>4
  <2>3. Goes(net, new, k, l, m, x.ttl)
    <3> SUFFICES ASSUME NEW n \in Nodes, NEW r \in Nat, Source(net, n, r, k, l), ~(n = m /\ r = x.ttl)
                 PROVE  Source(new, n, r, k, l)
      BY <1>0, <2>2 DEF Goes
    <3>1. CASE \E q \in Nodes : Has(net.chan[q][n], k, l, r)
      <4>1. \A q \in Nodes : rd[q][n] = 1 => ~(IsLast(net.chan[q][n][1], k, l) /\ net.chan[q][n][1].ttl = r)
        BY <1>0, <1>3
      <4> QED BY <1>0, <3>1, <4>1, ReadSource
    <3>2. CASE r = HeadTtl + 1 /\ (Has(net.sending[n], k, l, HeadTtl) \/ Has(net.pending[n], k, l, HeadTtl))
      BY <3>2 DEF Source, Keeps
    <3> QED BY <3>1, <3>2 DEF Source
  <2>4. Follows(new, m, T, b, k, l)
    BY <1>7 DEF Follows, Reads, IsOld, IsLast, IsUpdate
  <2>5. Served(new, hd, hd2, k, l, m, x.ttl)
    BY <2>1 DEF Served, Applied
  <2> QED BY <1>0, <1>2, <2>3, <2>4, <2>5, WayStep
<1> QED BY <1>6, <1>7

\* SendNext: an update goes to all peers.
LEMMA SendWay ==
    ASSUME Steady, NEW n \in Nodes, SendNext(n)
    PROVE  Paths' /\ \A k \in Keys : Way(k)'
<1> DEFINE net == Net
           new == Net'
           a == Head(sending[n])
<1>1. IsNet(net) /\ IsNet(new)
  BY NetTypes DEF Steady
<1>2. Wired(net) /\ Full(net) /\ Sprung(net) /\ Planned
      /\ \A k \in Keys : Train(net, k, latest[k]) /\ Lined(net, k, latest[k]) /\ Awaited(net, heads, k, latest[k])
  BY DEF Steady, Paths, Way
<1>3. PICK T \in Selections(n, FanoutOf(a.item)) : chan' = Sent(chan, n, T, a)
  BY DEF SendNext
<1>4. /\ chan \in [Nodes -> [Nodes -> Seq(AnnouncementType)]]
      /\ sending \in [Nodes -> Seq(AnnouncementType)] /\ peers \in [Nodes -> SUBSET Nodes]
  BY <1>1, NetParts DEF IsNet
<1>5. sending[n] # <<>> /\ sending[n] \in Seq(AnnouncementType) /\ a \in AnnouncementType /\ T \subseteq peers[n]
  BY <1>3, <1>4, HeadTailProperties DEF SendNext, Selections
<1>6. /\ net.sending[n] # <<>> /\ a = Head(net.sending[n]) /\ new.sending[n] = Tail(net.sending[n])
      /\ \A m \in Nodes \ {n} : new.sending[m] = net.sending[m]
      /\ new.pending = net.pending /\ new.peers = net.peers
  BY <1>4, NetParts DEF SendNext
<1>7. UNCHANGED <<heads, latest, peers>>
  BY DEF SendNext, caches, history
<1>8. Shifts(net, new, Still, n, T, a)
  <2>1. ASSUME NEW i \in Nodes, NEW j \in Nodes
        PROVE  /\ Still[i][j] \in {0, 1} /\ Still[i][j] <= Len(net.chan[i][j])
               /\ Len(chan[i][j]) = Len(net.chan[i][j]) - Still[i][j]
               /\ \A y \in 1..Len(chan[i][j]) : chan[i][j][y] = net.chan[i][j][y + Still[i][j]]
               /\ new.chan[i][j] = IF i = n /\ j \in T THEN Append(chan[i][j], a) ELSE chan[i][j]
    <3>1. Still[i][j] = 0 /\ Len(chan[i][j]) \in Nat /\ net.chan = chan
      BY <1>4, LenProperties, NetParts DEF Still
    <3>2. new.chan[i][j] = IF i = n /\ j \in T THEN Append(chan[i][j], a) ELSE chan[i][j]
      BY <1>3, <1>4, NetParts DEF Sent
    <3> QED BY <3>1, <3>2
  <2> HIDE DEF net, new, a
  <2> QED BY <1>1, <1>4, <1>5, <2>1, WriteShifts
<1>9. a.item.kind = "head_update" => T = peers[n] /\ a.ttl = HeadTtl /\ a.item.origin = n
  <2> SUFFICES ASSUME a.item.kind = "head_update" PROVE T = peers[n] /\ a.ttl = HeadTtl /\ a.item.origin = n
    OBVIOUS
  <2>1. FanoutOf(a.item) = Fanout["default"]
    BY <1>5, UpdateFacts
  <2>2. T = peers[n]
    BY <1>2, <1>3, <2>1, ReliableFacts DEF Steady
  <2>3. IsFull(sending[n], n)
    BY <1>2, NetParts DEF Full
  <2> QED BY <1>5, <2>2, <2>3, FullTail
<1>10. net.peers = peers /\ \A m \in Nodes : net.peers[m] \subseteq new.peers[m]
  BY <1>6, NetParts
<1>11. HeadTtl \in Nat /\ HeadTtl = HeadTtl + 0
  BY DEF HeadTtl, Classes
<1> HIDE DEF net, new, a
<1>12. Wired(new)
  BY <1>1, <1>2, <1>5, <1>6, <1>8, <1>10, WiredStays
<1>13. Sprung(new)
  <2>1. a.item.kind = "head_update" => Comes(new, n, a)
    <3> SUFFICES ASSUME a.item.kind = "head_update" PROVE Comes(new, n, a)
      OBVIOUS
    <3>1. Reached(new.peers, n, n, 0)
      BY <1>4, <1>6, <1>10, WalkOn
    <3> QED BY <1>9, <1>11, <3>1 DEF Comes
  <2> QED BY <1>1, <1>2, <1>8, <1>10, <2>1, SprungStays
<1>14. Full(new)
  <2>1. net.sending[n] \in Seq(AnnouncementType) /\ IsFull(net.sending[n], n)
    BY <1>1, <1>2 DEF IsNet, Full
  <2>2. IsFull(new.sending[n], n)
    BY <1>6, <2>1, FullTail
  <2> QED BY <1>2, <1>6, <2>2 DEF Full
<1>15. ASSUME NEW k \in Keys
       PROVE  Train(new, k, latest[k]) /\ Lined(new, k, latest[k]) /\ Awaited(new, heads, k, latest[k])
  <2> DEFINE l == latest[k]
  <2>1. Train(net, k, l) /\ Lined(net, k, l) /\ Awaited(net, heads, k, l)
    BY <1>2
  <2>2. IsUpdate(a, k) => T = net.peers[n]
    BY <1>9, <1>10 DEF IsUpdate
  <2> HIDE DEF l
  <2>3. Sends(net, new, n, T, a, k)
    BY <1>6, <1>8, <2>2 DEF Sends
  <2>4. Train(new, k, l) /\ Lined(new, k, l) /\ Awaited(new, heads, k, l)
    BY <1>1, <1>2, <1>5, <2>1, <2>3, SentWay
  <2> QED BY <2>4 DEF l
<1>16. Paths'
  BY <1>2, <1>7, <1>12, <1>13, <1>14 DEF Paths, Planned, new
<1>17. \A k \in Keys : Way(k)'
  BY <1>7, <1>15 DEF Way, new
<1> QED BY <1>16, <1>17

\* On a reliable network an update that is read is applied and forwarded;
\* nothing else changes a registry.
LEMMA ReceiveFacts ==
    ASSUME Reliable, NEW p \in Nodes, NEW m \in Nodes, Receive(p, m), Head(chan[p][m]) \in AnnouncementType
    PROVE  LET x == Head(chan[p][m])
               ch == [chan EXCEPT ![p][m] = Tail(@)] IN
           IF x.item.kind = "head_update"
           THEN /\ heads' = [heads EXCEPT ![m][x.item.key] = x.item.name]
                /\ ForwardAnnouncement(m, x, ch) /\ UNCHANGED pending
           ELSE UNCHANGED heads
<1> DEFINE x == Head(chan[p][m])
           ch == [chan EXCEPT ![p][m] = Tail(@)]
<1>1. IF m \in Unwraps /\ Validate(x.item) THEN HandleAnnouncement(m, x, ch) ELSE UNCHANGED <<pending, caches>>
  BY DEF Receive
<1>2. x \in AnnouncementType /\ m \in Unwraps /\ ~RegistryFails
  BY DEF Reliable
<1> HIDE DEF x, ch
<1>3. CASE x.item.kind = "head_update"
  <2>1. Verifies(x.item) /\ Validate(x.item)
    BY <1>2, <1>3, UpdateFacts DEF Reliable
  <2>2. HandleAnnouncement(m, x, ch)
    BY <1>1, <1>2, <2>1
  <2>3. HandleHeadUpdate(m, x, ch)
    BY <1>3, <2>2 DEF HandleAnnouncement, HandleMessage, HandleAck, HandlePool, HandleOther
  <2>4. /\ heads' = [heads EXCEPT ![m][x.item.key] = x.item.name]
        /\ ForwardAnnouncement(m, x, ch) /\ UNCHANGED pending
    BY <1>2, <2>1, <2>3 DEF HandleHeadUpdate
  <2> QED BY <1>3, <2>4 DEF x, ch
<1>4. CASE x.item.kind # "head_update"
  <2>1. UNCHANGED heads
    <3>1. CASE m \in Unwraps /\ Validate(x.item)
      <4>1. HandleAnnouncement(m, x, ch)
        BY <1>1, <3>1
      <4> QED BY <1>4, <4>1 DEF HandleAnnouncement, HandleMessage, HandleAck, HandlePool, HandleOther, HandleHeadUpdate, caches
    <3>2. CASE ~(m \in Unwraps /\ Validate(x.item))
      BY <1>1, <3>2 DEF caches
    <3> QED BY <3>1, <3>2
  <2> QED BY <1>4, <2>1 DEF x
<1> QED BY <1>3, <1>4

\* A copy has one ttl less.
LEMMA DecrementedType ==
    ASSUME NEW x \in AnnouncementType, x.ttl > 0
    PROVE  Decremented(x) \in AnnouncementType /\ Decremented(x).item = x.item /\ Decremented(x).ttl = x.ttl - 1
BY DEF Decremented, AnnouncementType

\* What forwardAnnouncement writes, and to whom: an update to all peers.
Forwards(top, ch, new, m, T, b, x) ==
    /\ \A i, j \in Nodes : new[i][j] = IF i = m /\ j \in T THEN Append(ch[i][j], b) ELSE ch[i][j]
    /\ T # {} => b.item = x.item /\ b.ttl = x.ttl - 1 /\ x.ttl > 0
    /\ x.item.kind = "head_update" /\ x.ttl > 0 => T = top[m]

\* forwardAnnouncement does so on a reliable network.
LEMMA ForwardFacts ==
    ASSUME Reliable, IInv, Planned, NEW m \in Nodes, NEW x \in AnnouncementType,
           NEW ch \in [Nodes -> [Nodes -> Seq(AnnouncementType)]],
           chan' = ch \/ ForwardAnnouncement(m, x, ch),
           x.item.kind = "head_update" => ForwardAnnouncement(m, x, ch)
    PROVE  \E T \in SUBSET peers[m], b \in AnnouncementType : Forwards(peers, ch, chan', m, T, b, x)
<1>1. x.ttl \in Nat
  BY DEF AnnouncementType
<1>2. CASE chan' = ch /\ ~(x.item.kind = "head_update" /\ x.ttl > 0)
  <2>1. Forwards(peers, ch, chan', m, {}, x, x)
    BY <1>2 DEF Forwards
  <2>2. {} \in SUBSET peers[m]
    OBVIOUS
  <2> QED BY <2>1, <2>2
<1>3. CASE x.ttl > 0 /\ ForwardAnnouncement(m, x, ch)
  <2>1. PICK T \in Selections(m, FanoutOf(x.item)) : chan' = Sent(ch, m, T, Decremented(x))
    BY <1>3 DEF ForwardAnnouncement
  <2> DEFINE b == Decremented(x)
  <2>2. b \in AnnouncementType /\ b.item = x.item /\ b.ttl = x.ttl - 1
    BY <1>3, DecrementedType
  <2>3. T \in SUBSET peers[m]
    BY <2>1 DEF Selections
  <2>4. x.item.kind = "head_update" => T = peers[m]
    <3> SUFFICES ASSUME x.item.kind = "head_update" PROVE T = peers[m]
      OBVIOUS
    <3>1. FanoutOf(x.item) = Fanout["default"]
      BY UpdateFacts
    <3> QED BY <2>1, <3>1, ReliableFacts
  <2>5. \A i, j \in Nodes : chan'[i][j] = IF i = m /\ j \in T THEN Append(ch[i][j], b) ELSE ch[i][j]
    BY <2>1 DEF Sent
  <2> HIDE DEF b
  <2>6. Forwards(peers, ch, chan', m, T, b, x)
    BY <1>3, <2>2, <2>4, <2>5 DEF Forwards
  <2> QED BY <2>2, <2>3, <2>6
<1>4. CASE ~(x.ttl > 0)
  <2>1. chan' = ch
    BY <1>4 DEF ForwardAnnouncement
  <2> QED BY <1>2, <1>4, <2>1
<1> QED BY <1>2, <1>3, <1>4

\* Receive: an update is applied and passed on to all peers.
LEMMA ReceiveWay ==
    ASSUME Steady, NEW p \in Nodes, NEW m \in Nodes, Receive(p, m)
    PROVE  Paths' /\ \A k \in Keys : Way(k)'
<1> DEFINE net == Net
           new == Net'
           x == Head(chan[p][m])
           ch == [chan EXCEPT ![p][m] = Tail(@)]
<1>1. IsNet(net) /\ IsNet(new)
  BY NetTypes DEF Steady
<1>2. Wired(net) /\ Full(net) /\ Sprung(net) /\ Planned
      /\ \A k \in Keys : Train(net, k, latest[k]) /\ Lined(net, k, latest[k]) /\ Awaited(net, heads, k, latest[k])
  BY DEF Steady, Paths, Way
<1>3. /\ chan \in [Nodes -> [Nodes -> Seq(AnnouncementType)]] /\ pending \in [Nodes -> Seq(AnnouncementType)]
      /\ peers \in [Nodes -> SUBSET Nodes] /\ net.chan = chan /\ net.peers = peers
  BY <1>1, NetParts DEF IsNet
<1>4. /\ chan[p][m] # <<>> /\ UNCHANGED <<sending, peers, latest>>
      /\ chan' = ch \/ ForwardAnnouncement(m, x, ch)
      /\ \/ UNCHANGED pending
         \/ \E k : k.kind = "ack" /\ pending' = [pending EXCEPT ![m] = Append(@, Announcement(k))]
  <2>1. UNCHANGED <<peers, latest>>
    BY DEF Receive, history
  <2> QED BY <2>1, HandlersDo
<1>5. x \in AnnouncementType /\ ch \in [Nodes -> [Nodes -> Seq(AnnouncementType)]]
  BY <1>3, <1>4, ReadIn
<1>6. IF x.item.kind = "head_update"
      THEN /\ heads' = [heads EXCEPT ![m][x.item.key] = x.item.name]
           /\ ForwardAnnouncement(m, x, ch) /\ UNCHANGED pending
      ELSE UNCHANGED heads
  BY <1>5, ReceiveFacts DEF Steady
<1>20. PICK T \in SUBSET peers[m], b \in AnnouncementType : Forwards(peers, ch, chan', m, T, b, x)
  <2> HIDE DEF x, ch
  <2>1. x.item.kind = "head_update" => ForwardAnnouncement(m, x, ch)
    BY <1>6
  <2> QED BY <1>2, <1>4, <1>5, <2>1, ForwardFacts DEF Steady
<1>7. /\ \A i, j \in Nodes : chan'[i][j] = IF i = m /\ j \in T THEN Append(ch[i][j], b) ELSE ch[i][j]
      /\ T # {} => b.item = x.item /\ b.ttl = x.ttl - 1 /\ x.ttl > 0
      /\ x.item.kind = "head_update" /\ x.ttl > 0 => T = peers[m]
  BY <1>20 DEF Forwards
<1>8. Len(net.chan[p][m]) \in Nat /\ Len(net.chan[p][m]) > 0 /\ x = net.chan[p][m][1]
  <2>1. chan[p][m] \in Seq(AnnouncementType)
    BY <1>3
  <2>2. Len(chan[p][m]) \in Nat /\ Len(chan[p][m]) # 0
    BY <1>4, <2>1, LenProperties, EmptySeq
  <2> QED BY <1>3, <2>2
<1>9. Shifts(net, new, ReadFrom(p, m), m, T, b)
  <2> DEFINE rd == ReadFrom(p, m)
  <2>1. ASSUME NEW i \in Nodes, NEW j \in Nodes
        PROVE  /\ rd[i][j] \in {0, 1} /\ rd[i][j] <= Len(net.chan[i][j])
               /\ Len(ch[i][j]) = Len(net.chan[i][j]) - rd[i][j]
               /\ \A y \in 1..Len(ch[i][j]) : ch[i][j][y] = net.chan[i][j][y + rd[i][j]]
               /\ new.chan[i][j] = IF i = m /\ j \in T THEN Append(ch[i][j], b) ELSE ch[i][j]
    <3>1. new.chan[i][j] = IF i = m /\ j \in T THEN Append(ch[i][j], b) ELSE ch[i][j]
      BY <1>7, NetParts
    <3>2. CASE i = p /\ j = m
      <4>1. rd[i][j] = 1 /\ ch[i][j] = Tail(chan[i][j])
        BY <1>3, <3>2 DEF ReadFrom
      <4>2. chan[i][j] \in Seq(AnnouncementType) /\ chan[i][j] # <<>>
        BY <1>3, <1>4, <3>2
      <4>3. Len(Tail(chan[i][j])) = Len(chan[i][j]) - 1
            /\ \A y \in 1..Len(Tail(chan[i][j])) : Tail(chan[i][j])[y] = chan[i][j][y + 1]
        BY <4>2, HeadTailProperties
      <4> HIDE DEF ch, rd
      <4>4. Len(ch[i][j]) = Len(chan[i][j]) - 1 /\ \A y \in 1..Len(ch[i][j]) : ch[i][j][y] = chan[i][j][y + 1]
        BY <4>1, <4>3
      <4> QED BY <1>3, <1>8, <3>1, <3>2, <4>1, <4>4
    <3>3. CASE ~(i = p /\ j = m)
      <4>1. rd[i][j] = 0 /\ ch[i][j] = chan[i][j]
        BY <1>3, <3>3 DEF ReadFrom
      <4>2. Len(chan[i][j]) \in Nat
        BY <1>3, LenProperties
      <4> HIDE DEF ch, rd
      <4> QED BY <1>3, <3>1, <4>1, <4>2
    <3> QED BY <3>2, <3>3
  <2> HIDE DEF net, new, rd, ch
  <2>2. Shifts(net, new, rd, m, T, b)
    BY <1>1, <1>5, <2>1, WriteShifts
  <2> QED BY <2>2 DEF rd
<1>10. new.peers = net.peers /\ \A n \in Nodes : net.peers[n] \subseteq new.peers[n]
  BY <1>4, NetParts
<1>11. \/ new.pending = net.pending /\ new.sending = net.sending
       \/ \E c \in AnnouncementType : c.item.kind = "ack" /\ Queues(net, new, m, c)
  <2>1. CASE UNCHANGED pending
    BY <1>4, <2>1, NetParts
  <2>2. CASE ~UNCHANGED pending
    <3>1. PICK k : k.kind = "ack" /\ pending' = [pending EXCEPT ![m] = Append(@, Announcement(k))]
      BY <1>4, <2>2
    <3>2. Announcement(k) \in AnnouncementType
      BY <3>1, QueuedType DEF Steady
    <3>3. Announcement(k).item.kind = "ack"
      BY <3>1 DEF Announcement
    <3>4. Queues(net, new, m, Announcement(k))
      BY <1>3, <1>4, <3>1, NetParts DEF Queues
    <3> QED BY <3>2, <3>3, <3>4
  <2> QED BY <2>1, <2>2
<1>12. heads \in [Nodes -> [Keys -> Names \cup {Nothing}]] /\ x.item.kind = "head_update" => x.item.key \in Keys
  BY <1>5, UpdateFacts DEF Steady, IInv, OtherTypes
<1>13. \A k \in Keys : Applied(heads, heads', m, x, k)
  <2> SUFFICES ASSUME NEW k \in Keys, NEW n \in Nodes
               PROVE  heads'[n][k] = IF n = m /\ IsUpdate(x, k) THEN x.item.name ELSE heads[n][k]
    BY DEF Applied
  <2>0. heads \in [Nodes -> [Keys -> Names \cup {Nothing}]]
    BY DEF Steady, IInv, OtherTypes
  <2> HIDE DEF x, ch
  <2>1. CASE x.item.kind = "head_update"
    BY <1>6, <1>12, <2>0, <2>1 DEF IsUpdate
  <2>2. CASE x.item.kind # "head_update"
    BY <1>6, <2>2 DEF IsUpdate
  <2> QED BY <2>1, <2>2
<1> HIDE DEF net, new, x, ch
<1>14. Wired(new)
  <2>1. T # {} => T \subseteq new.peers[m]
    BY <1>3, <1>10
  <2> QED BY <1>1, <1>2, <1>9, <1>10, <2>1, WiredStays
<1>15. Sprung(new)
  <2>1. T # {} /\ b.item.kind = "head_update" => Comes(new, m, b)
    <3> SUFFICES ASSUME T # {}, b.item.kind = "head_update" PROVE Comes(new, m, b)
      OBVIOUS
    <3>1. b.item = x.item /\ b.ttl = x.ttl - 1 /\ x.ttl > 0 /\ x.ttl \in Nat
      BY <1>5, <1>7 DEF AnnouncementType
    <3>2. Comes(net, p, x)
      <4>1. 1 \in 1..Len(net.chan[p][m])
        BY <1>8
      <4> QED BY <1>2, <1>8, <3>1, <4>1 DEF Sprung
    <3>3. PICK d \in Nat : HeadTtl = x.ttl + d /\ Reached(net.peers, x.item.origin, p, d)
      BY <3>2 DEF Comes
    <3>4. m \in net.peers[p]
      BY <1>2, <1>8 DEF Wired
    <3>5. x.item.origin \in Nodes
      BY <1>5, <3>1, UpdateFacts
    <3>6. Reached(net.peers, x.item.origin, m, d + 1)
      BY <1>3, <3>3, <3>4, <3>5, WalkOn
    <3>7. HeadTtl = b.ttl + (d + 1) /\ d + 1 \in Nat
      BY <3>1, <3>3
    <3> QED BY <1>10, <3>1, <3>6, <3>7 DEF Comes
  <2> QED BY <1>1, <1>2, <1>9, <1>10, <2>1, SprungStays
<1>16. Full(new)
  <2>1. CASE new.pending = net.pending /\ new.sending = net.sending
    BY <1>2, <2>1 DEF Full
  <2>2. CASE \E c \in AnnouncementType : c.item.kind = "ack" /\ Queues(net, new, m, c)
    BY <1>1, <1>2, <2>2, QueuedFull
  <2> QED BY <1>11, <2>1, <2>2
<1>17. ASSUME NEW k \in Keys
       PROVE  Train(new, k, latest[k]) /\ Lined(new, k, latest[k]) /\ Awaited(new, heads', k, latest[k])
  <2> DEFINE l == latest[k]
  <2>1. Train(net, k, l) /\ Lined(net, k, l) /\ Awaited(net, heads, k, l) /\ Applied(heads, heads', m, x, k)
    BY <1>2, <1>13
  <2> HIDE DEF l
  <2>2. Lined(new, k, l) /\ Keeps(net, new, k, l)
    <3>1. CASE new.pending = net.pending /\ new.sending = net.sending
      BY <2>1, <3>1 DEF Lined, Keeps
    <3>2. CASE \E c \in AnnouncementType : c.item.kind = "ack" /\ Queues(net, new, m, c)
      <4>1. PICK c \in AnnouncementType : c.item.kind = "ack" /\ Queues(net, new, m, c)
        BY <3>2
      <4>2. ~IsUpdate(c, k)
        BY <4>1 DEF IsUpdate
      <4> QED BY <1>1, <2>1, <4>1, <4>2, QueuedWay
    <3> QED BY <1>11, <3>1, <3>2
  <2>3. Reads(net, new, p, m, T, x, b, k)
    BY <1>3, <1>7, <1>8, <1>9, <1>10 DEF Reads, IsUpdate
  <2>4. Train(new, k, l) /\ Awaited(new, heads', k, l)
    BY <1>1, <1>2, <1>5, <1>7, <2>1, <2>2, <2>3, ReadWay
  <2> QED BY <2>2, <2>4 DEF l
<1>18. Paths'
  BY <1>2, <1>4, <1>14, <1>15, <1>16 DEF Paths, Planned, new
<1>19. \A k \in Keys : Way(k)'
  BY <1>4, <1>17 DEF Way, new
<1> QED BY <1>18, <1>19

-----------------------------------------------------------------------------
(* The last update wins.                                                   *)

\* At the start nothing is under way and every registry is as it should be.
LEMMA WayInit ==
    ASSUME Init
    PROVE  LInv
<1>1. /\ \A m, n \in Nodes : Len(Net.chan[m][n]) = 0
      /\ \A n \in Nodes : Len(Net.pending[n]) = 0 /\ Len(Net.sending[n]) = 0
  BY EmptySeq DEF Init, Net
<1>2. \A n \in Nodes, k \in Keys : heads[n][k] = latest[k]
  BY DEF Init
<1>3. Planned
  BY DEF Init, Planned
<1>4. Wired(Net) /\ Full(Net) /\ Sprung(Net)
  BY <1>1 DEF Wired, Full, IsFull, Sprung
<1>5. \A k \in Keys : Way(k)
  BY <1>1, <1>2 DEF Way, Train, Lined, Awaited
<1> QED BY <1>3, <1>4, <1>5 DEF LInv, Paths

\* Connections are added within a topology.
LEMMA ConnectWay ==
    ASSUME Steady, NEW m \in Nodes, NEW n \in Nodes, Connect(m, n)
    PROVE  Paths' /\ \A k \in Keys : Way(k)'
<1>1. UNCHANGED <<chan, pending, sending, heads, latest>>
  BY DEF Connect, queues, caches, history
<1>2. \A i \in Nodes : peers[i] \subseteq peers'[i]
  BY DEF Connect, Steady, IInv, OtherTypes
<1>3. PICK top \in Topologies : \A i \in Nodes : top[i] \subseteq peers[i]
  BY DEF Steady, Paths, Planned
<1>4. \A i \in Nodes : top[i] \subseteq peers'[i]
  BY <1>2, <1>3
<1>5. \E t \in Topologies : \A i \in Nodes : peers'[i] \subseteq t[i]
  BY DEF Connect
<1>6. Planned'
  BY <1>3, <1>4, <1>5 DEF Planned
<1> QED BY <1>1, <1>2, <1>6, IdleWay

\* A reliable network loses no connection.
LEMMA NoLoss ==
    ASSUME Steady, NEW m \in Nodes, NEW n \in Nodes
    PROVE  ~Disconnect(m, n)
<1>1. drops \in 0..MaxDrops /\ MaxDrops = 0
  BY DEF Steady, Reliable, IInv, OtherTypes
<1> QED BY <1>1 DEF Disconnect

\* Every step keeps the last update on its way.
LEMMA WayKept ==
    ASSUME IInv, IInv', LInv, [Next]_vars
    PROVE  LInv'
<1> SUFFICES ASSUME Reliable PROVE Paths' /\ \A k \in Keys : Way(k)'
  BY DEF LInv
<1>0. Steady
  BY DEF Steady, LInv
<1>i. ASSUME UNCHANGED <<peers, chan, pending, sending, heads, latest>>
      PROVE  Paths' /\ \A k \in Keys : Way(k)'
  <2>1. Planned'
    BY <1>0, <1>i DEF Steady, Paths, Planned
  <2>2. \A n \in Nodes : peers[n] \subseteq peers'[n]
    BY <1>i
  <2> QED BY <1>0, <1>i, <2>1, <2>2, IdleWay
<1>1. CASE UNCHANGED vars
  BY <1>1, <1>i DEF vars, queues, caches, history
<1>2. ASSUME NEW i \in Items, AnnounceAny(i) PROVE Paths' /\ \A k \in Keys : Way(k)'
  BY <1>0, <1>2, AnnounceWay
<1>3. ASSUME NEW n \in Nodes,
             Start(n) \/ Stop(n) \/ FlushAnnouncements(n) \/ TimerFires(n)
                \/ ScheduleBatchTimer(n) \/ SendNext(n)
      PROVE  Paths' /\ \A k \in Keys : Way(k)'
  <2>1. CASE Start(n) \/ ScheduleBatchTimer(n)
    BY <1>i, <2>1 DEF Start, ScheduleBatchTimer, caches, history
  <2>2. CASE Stop(n) \/ FlushAnnouncements(n) \/ TimerFires(n)
    <3>1. TakeBatch(n) /\ UNCHANGED <<peers, chan, heads, latest>>
      BY <2>2 DEF Stop, FlushAnnouncements, TimerFires, caches, history
    <3> QED BY <1>0, <3>1, BatchWay
  <2>3. CASE SendNext(n)
    BY <1>0, <2>3, SendWay
  <2> QED BY <1>3, <2>1, <2>2, <2>3
<1>4. ASSUME NEW m \in Nodes, NEW n \in Nodes, Receive(m, n) \/ Disconnect(m, n) \/ Connect(m, n)
      PROVE  Paths' /\ \A k \in Keys : Way(k)'
  BY <1>0, <1>4, ReceiveWay, NoLoss, ConnectWay
<1> QED BY <1>1, <1>2, <1>3, <1>4 DEF Next

\* When nothing is under way, nothing is waited for.
LEMMA WayEnds ==
    ASSUME IInv, LInv
    PROVE  LastUpdateWins
<1> SUFFICES ASSUME Reliable, Quiet, NEW n \in Nodes PROVE heads[n] = latest
  BY DEF LastUpdateWins
<1>1. /\ \A p, m \in Nodes : Len(Net.chan[p][m]) = 0
      /\ \A m \in Nodes : Len(Net.pending[m]) = 0 /\ Len(Net.sending[m]) = 0
  BY EmptySeq DEF Quiet, Net
<1>2. \A m \in Nodes : \A r, k, l : ~Source(Net, m, r, k, l)
  BY <1>1 DEF Source, Has
<1>3. ASSUME NEW k \in Keys PROVE heads[n][k] = latest[k]
  <2>1. Awaited(Net, heads, k, latest[k])
    BY DEF LInv, Way
  <2> QED BY <1>2, <2>1 DEF Awaited, OnWay
<1>4. heads[n] \in [Keys -> Names \cup {Nothing}] /\ latest \in [Keys -> Names \cup {Nothing}]
  BY DEF IInv, OtherTypes
<1> QED BY <1>3, <1>4

\* LastUpdateWins holds of every network on which connections hold and fanout
\* and ttl suffice, whatever its size and shape: older updates come round and
\* overwrite newer heads, the writer's own too, but once everything has been
\* read every registry has the last one (queueAnnouncement, batchFlush,
\* forwardAnnouncement, handleAnnouncement).
THEOREM LastUpdateHolds == Spec => []LastUpdateWins
<1>1. Init => IInv /\ LInv
  BY GossipInit, WayInit
<1>2. IInv /\ LInv /\ [Next]_vars => (IInv /\ LInv)'
  BY GossipStep, WayKept
<1>3. IInv /\ LInv => LastUpdateWins
  BY WayEnds
<1> QED BY <1>1, <1>2, <1>3, PTL DEF Spec
=============================================================================
