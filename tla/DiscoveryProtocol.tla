-------------------------- MODULE DiscoveryProtocol --------------------------
(***************************************************************************)
(* Finding a block among the connected peers (discovery_protocol.cpp).     *)
(* Several callers are inside discoverBlock at once: the cache, the peers, *)
(* their filters and their answers are each read under a lock of its own,  *)
(* so everything may change between two steps of a discovery.              *)
(***************************************************************************)
EXTENDS BloomFilter, Sequences, SequencesExt

CONSTANTS Callers, Peers, Blocks,
          Wanted,                 \* the blocks that are looked for
          Holdings,               \* the sets of blocks a peer may hold
          Latency,                \* [Peers -> Nat], no two the same
          HashCount,              \* bloomFilterHashCount
          MaxConcurrentQueries,
          Nothing                 \* no cache entry, no filter

\* A filter made with fewer hashes than the receiver assumes would deny blocks
\* it was made from: the configuration and deserialize both say 7.
ASSUME DiscoveryAssumption ==
    /\ IsFiniteSet(Blocks) /\ Holdings \subseteq SUBSET Blocks
    /\ HashCount \in Nat /\ HashCount >= DefaultHashCount
    /\ \A b \in Blocks : \A i \in 0..(HashCount - 1) : Digest[b][i] \in Nat

VARIABLES holds,       \* [Peers -> SUBSET Blocks], what a peer answers to a query
          filters,     \* peerBloomFilters_
          announced,   \* [Peers -> SUBSET Blocks], what the filter was made from
          connected,   \* the peers PeerManager::getConnectedPeers returns
          cache,       \* cache_: [Blocks -> locations]; an expired entry counts as none
          caller       \* [Callers -> where it is in discoverBlock]

discoveryVars == <<holds, filters, announced, connected, cache, caller>>

Idle == [step |-> "idle", block |-> Nothing, toQuery |-> {}, found |-> {}]

DiscoveryInit ==
    /\ holds = [p \in Peers |-> {}]
    /\ filters = [p \in Peers |-> Nothing]
    /\ announced = [p \in Peers |-> {}]
    /\ connected = {}
    /\ cache = [b \in Wanted |-> Nothing]
    /\ caller = [c \in Callers |-> Idle]

-----------------------------------------------------------------------------
(* discoverBlock                                                           *)

\* A valid entry, an empty one too, is returned at once and nothing changes.
DiscoverBlock(c, b) ==
    /\ caller[c].step = "idle" /\ cache[b] = Nothing
    /\ caller' = [caller EXCEPT ![c] = [Idle EXCEPT !.step = "peers", !.block = b]]
    /\ UNCHANGED <<holds, filters, announced, connected, cache>>

\* A peer whose filter is not known is asked too.
CandidatePeers(b) ==
    {p \in connected : filters[p] = Nothing \/ MightContain(filters[p], b)}

\* Mutant: one peer fewer than there are candidates.
QueryLimitOff(candidates) == Min({Cardinality(candidates) - 1, MaxConcurrentQueries})

QueryLimit(candidates) == Min({Cardinality(candidates), MaxConcurrentQueries})

\* getConnectedPeers and the filters.  The peers come in the order of a hash
\* table, so any of the candidates may be among the first ones.
ChoosePeers(c) ==
    LET candidates == CandidatePeers(caller[c].block)
    IN /\ caller[c].step = "peers"
       /\ \E chosen \in SUBSET candidates :
             /\ Cardinality(chosen) = QueryLimit(candidates)
             /\ caller' = [caller EXCEPT ![c].step = "query", ![c].toQuery = chosen]
       /\ UNCHANGED <<holds, filters, announced, connected, cache>>

\* A query reads the answer the peer gives now, connected or not.
QueryPeer(c, p) ==
    /\ caller[c].step = "query" /\ p \in caller[c].toQuery
    /\ caller' = [caller EXCEPT ![c].toQuery = @ \ {p},
                                ![c].found = IF caller[c].block \in holds[p] THEN @ \cup {p} ELSE @]
    /\ UNCHANGED <<holds, filters, announced, connected, cache>>

SortByLatency(S) == SetToSortSeq(S, LAMBDA p, q : Latency[p] < Latency[q])

\* Whatever is cached meanwhile is overwritten, and a clearCache undone.
CacheLocations(c) ==
    /\ caller[c].step = "query" /\ caller[c].toQuery = {}
    /\ cache' = [cache EXCEPT ![caller[c].block] = SortByLatency(caller[c].found)]
    /\ caller' = [caller EXCEPT ![c] = Idle]
    /\ UNCHANGED <<holds, filters, announced, connected>>

-----------------------------------------------------------------------------
ClearCache(b) ==
    /\ cache[b] # Nothing
    /\ cache' = [cache EXCEPT ![b] = Nothing]
    /\ UNCHANGED <<holds, filters, announced, connected, caller>>

ClearAllCache ==
    /\ cache' = [b \in Wanted |-> Nothing]
    /\ UNCHANGED <<holds, filters, announced, connected, caller>>

\* cacheTtlMs have passed since the entry was written (isCacheValid).
Expire(b) == ClearCache(b)

\* getLocalBloomFilter at the peer: the files are counted and then added.
GetLocalBloomFilter(blocks) ==
    LET f == NewFilter(Max({Cardinality(blocks), 1}), HashCount)
    IN [f EXCEPT !.bits = UNION {AddItem(f, b).bits : b \in blocks}]

SetPeerBloomFilter(p) ==
    /\ filters' = [filters EXCEPT ![p] = Deserialize(Serialize(GetLocalBloomFilter(holds[p])))]
    /\ announced' = [announced EXCEPT ![p] = holds[p]]
    /\ UNCHANGED <<holds, connected, cache, caller>>

SetPeerQueryResponse(p, blocks) ==
    /\ blocks # holds[p]
    /\ holds' = [holds EXCEPT ![p] = blocks]
    /\ UNCHANGED <<filters, announced, connected, cache, caller>>

\* External: a peer connects or is lost (PeerManager).
PeerComesOrGoes(p) ==
    /\ connected' = IF p \in connected THEN connected \ {p} ELSE connected \cup {p}
    /\ UNCHANGED <<holds, filters, announced, cache, caller>>

CallerStep(c) ==
    \/ ChoosePeers(c)
    \/ \E p \in Peers : QueryPeer(c, p)
    \/ CacheLocations(c)

DiscoveryNext ==
    \/ \E c \in Callers : CallerStep(c) \/ \E b \in Wanted : DiscoverBlock(c, b)
    \/ \E b \in Wanted : ClearCache(b) \/ Expire(b)
    \/ ClearAllCache
    \/ \E p \in Peers : \/ SetPeerBloomFilter(p) \/ PeerComesOrGoes(p)
                        \/ \E blocks \in Holdings : SetPeerQueryResponse(p, blocks)

-----------------------------------------------------------------------------
(* Properties.                                                             *)

\* BloomFilter::mightContain, "never returns false for items that were added":
\* a filter that went through serialize and deserialize, with another number
\* of hashes than it was made with, still contains every block the peer held.
NoFalseNegative ==
    \A p \in Peers : filters[p] # Nothing => \A b \in announced[p] : MightContain(filters[p], b)

\* The peer would be found: it is connected, holds the block, its filter does
\* not exclude it, and the limit on the queries leaves no candidate out.
WouldBeFound(p, b) ==
    /\ p \in connected /\ b \in holds[p] /\ p \in CandidatePeers(b)
    /\ Cardinality(CandidatePeers(b)) <= MaxConcurrentQueries

Located(p, b) == cache[b] # Nothing /\ \E i \in 1..Len(cache[b]) : cache[b][i] = p

\* discoverBlock, cacheLocations: what the cache says catches up with the
\* peers.  Once a peer can be found for good no entry leaves it out any more,
\* and once it has lost the block for good no entry names it any more, however
\* many discoveries that began earlier still write what they saw.
CacheCatchesUp ==
    \A p \in Peers, b \in Wanted :
        /\ <>[]WouldBeFound(p, b) => <>[](cache[b] = Nothing \/ Located(p, b))
        /\ <>[](b \notin holds[p]) => <>[]~Located(p, b)
=============================================================================
