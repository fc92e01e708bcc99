# BrightChain C++: TLA+ models

A verification project for the C++ port of BrightChain: TLA+ modules that model the
parts of the program whose correctness depends on the order of things (processes
that share a store, timers, acks, connections, gossip, client sessions, elections and
their records), and the algorithms below them that are easy to get wrong (vote counting,
comparison and update of documents, secret sharing, homomorphic encryption); TLC
configurations that check them on small instances; and TLAPS proofs of their main safety
properties for instances of any size. `PROJECT.json` maps every definition to the lines it models
and lists runs, mutants, findings, hazards and theorems.

Paths below are relative to the root of the repository.

## 1. The system

BrightChain stores everything in content-addressed blocks. On top of that are a
document database that several processes may open at once, a gossip network that
spreads the news of blocks, heads, pools and messages between nodes, and a voting
library.

| Part | State | Operations | Talks to |
|---|---|---|---|
| `StoreLock` | a lock file, `held_` | acquire (poll, stale recovery), release, RAII guard | every write of `Collection` |
| `HeadRegistry` | `heads_`, `head-registry.json`, a lock file of its own | load, getHead, setHead, removeHead, clear, persist | `Collection`, `GossipEngine` |
| `DiskBlockStore` | one file per block, metadata files | put, get, has, remove | `Collection` |
| `Collection` | `docIndex_`, `docCache_`, `indexes_`, `loaded_` | insert, update, delete (one, many), find, createIndex, dropIndex, drop | the three above |
| `BrightChainDb` | open collections | connect, collection, dropCollection, dropDatabase | `Collection`, `HeadRegistry` |
| `RetryService` | pending deliveries, a timer | trackDelivery, handleAck, checkRetries, start, stop | failure handlers |
| `PeerManager` | sessions, a heartbeat timer, reconnect timers | connect, disconnect, heartbeat, reconnect, pool cache | Beast streams, threads of the io_context |
| `GossipEngine` | queue of announcements, batch timer, local users | announce*, handleAnnouncement, batchFlush, start, stop | `PeerManager`, `HeadRegistry`, handlers |
| `WebSocketServer` | `clientSessions_`, `clientWsStreams_`, two timers | start, stop, accept, upgrade, JWT validation, node challenge, subscribe, heartbeat, expiry check, broadcast | `GossipEngine`, `PeerManager`, clients |
| `DiscoveryProtocol`, `BloomFilter` | cache of locations with expiry, filters of the peers | discoverBlock, clearCache, setPeerBloomFilter; add, mightContain, serialize | `PeerManager` |
| `QueryEngine`, `UpdateEngine` | none | matchesFilter, applyUpdate | `Collection` |
| `Poll`, `VoteEncoder`, `PollTallier` | votes, receipts, closed or not | vote, close, tally by 15 methods | `Member`, `Paillier` |
| aggregators (precinct, county, state, nation) | tallies by jurisdiction | vote, add*Tally, getTally | `Poll`, `Paillier` |
| `AuditLog`, `BulletinBoard`, `EventLogger` | signed hash chain, signed entries with Merkle roots, numbered events | record*, publish*, log*, verify*, export | `Member` |
| `Paillier`, `Shamir` | keys; field tables | generate, encrypt, add, multiply, decrypt; share, combine | voting, keys |
| blocks (`RawDataBlock`, `CBL`, `ExtendedCBL`, `SuperCBL`) | none beyond their bytes | build, parse | `Checksum` |
| `Document`, `Checksum`, `BlockSize` | none | canonical JSON, SHA3, tables | `Collection` |
| `Ecies`, `AesGcm`, `Member`, ... | keys | encrypt, sign | all of the above |

### What is hard in it

* **The database** has no transactions. A write takes a lock file, rereads the
  collection, puts blocks one by one and changes the head last. Processes die between
  any two of these steps, files are truncated by the opening of them, buffered data is
  lost without an error, reads take no lock, and the head registry is read only once
  per handle.
* **The lock file** has no owner. Whoever waited long enough removes it.
* **Retries** count acks against a timer. A late, an early and a repeated ack must each
  be taken for what it is.
* **Peers** are looked after by handlers in several threads that let go of the mutex
  between looking and acting.
* **Gossip** remembers nothing. Announcements are repeated, overtake one another along
  paths of different length, come back to their origin, and get lost with a connection
  or an empty list of peers.
* **WebSocket clients** are kept in two maps with a mutex each. A connection's handlers,
  two timers, a broadcast, a failed send and `stop()` change them one after the other,
  tokens expire while events are on their way, and closing waits for the client.
* **Voting** stores a vote before it can fail, sends numbers through an encoding with two
  byte orders, and counts by rules with many ties and roundings. Tallies are reported up
  the hierarchy at any time and repeatedly.
* **Records** are signed one by one, and signing can throw after a number was taken. What
  is hashed is joined without lengths.
* **Discovery** has several callers in `discoverBlock` at once, and each writes what it saw
  when it is done.

### What would make each part correct

| Part | Properties |
|---|---|
| `StoreLock` | mutual exclusion through crashes; nobody waits for good; an orphan is cleared |
| `Collection`, `HeadRegistry`, `DiskBlockStore` | no head leads to what was never stored; commits are serial and none is lost; readers see one commit; the cache agrees with the index where documents keep their `_id` |
| `RetryService` | every delivery ends acknowledged or given up; failure is reported only of who failed; retries on schedule |
| `PeerManager` | a lost peer is noticed and dialled until it is back; a removed one stays away |
| `GossipEngine` | traffic ends; acks mean delivery; heads are announced, no failed proof lets one in, and the last one wins |
| `WebSocketServer` | whoever has a session can be written to; one warning before expiry; nobody hears of an event once it is stopped; nothing dead or expired stays while closes return |
| `DiscoveryProtocol`, `BloomFilter` | no false negative; the cache catches up with the peers |
| `QueryEngine`, `UpdateEngine` | comparison is an order that queries and updates agree on; a repeatable update applied again changes nothing |
| `Poll` | a receipt stands for a vote that is counted and final; nothing changes after closing |
| `PollTallier` | the winners are those the ballots ask for |
| aggregators | a vote is never counted twice |
| `AuditLog`, `BulletinBoard`, `EventLogger` | what was recorded verifies; an entry with other bytes than were hashed, or missing, repeated or moved, does not; an export can be read back |
| `Shamir` | a threshold of shares gives the secret, fewer say nothing |
| `Paillier` | operations on ciphertexts are operations on plaintexts; only primes make keys |

## 2. The modules

`X` is a component, `MCX` its instance for TLC, `XProofs` its theorems. (`ServicesProofs` has
those of `RetryService` too.)

### StoreLock, AbstractLock

`pc` is where a process is in `acquire`: polling (`try`), past the loop (`stale`),
about to open once more (`retry`), inside its guard (`held`). `lockFile` is whether the
file exists. One action each for the outcomes of `open(O_CREAT | O_EXCL)`, for the
removal of the stale file, for the last attempt (which throws if the file is back) and
for the guard's release. A crash leaves the file behind.

`rash` is history: a recovery was begun on a file that was in use, held by a slow
process or about to be removed by another. Up to that moment the file implements
`AbstractLock`, in which a lock has one owner; the code does nothing to keep the moment
from coming.

### BrightChainDb, DocumentStore

Processes with one handle each over one store. On disk: `registry`, the blocks that are
`whole`. In memory: `heads` (`heads_`), `index`, `cache`, `indexes`, `loaded`. The
operation of a process is its `pc` and its `job`. A write begins with lock and reload
in one action (with the lock held nobody else changes what it reads), then opens and
writes each block in two steps, puts the `CollectionMeta` block in two more, and sets
the head. A crash or an exception may come at each of them. Opening truncates; a write
may lose its data unnoticed; `persist` may throw after `heads_` was changed. `find`
takes no lock. `dropDatabase` takes and releases the lock for each collection and
clears the registry without it.

`DocumentStore` is what the users are promised: one collection goes from its committed
contents to what one whole operation makes of them. The mapping reads the contents off
the registry.

A scan reads the documents one by one through `loadDocument`, which looks in the cache for
a document under a key that the index leads to the wanted block, and otherwise caches what
it reads under the document's own `_id`. An update may set the `_id`, and then the key in
the index and the `_id` differ: the scan may stop before or after such a document has got
into another's place in the cache, and what it finds depends on it (`Scans`, `Finds`).
`rekeyed` is history: the collections to which this has happened.

Abstractions: a block is named by its contents, as its SHA3 checksum does; a document is
an `_id` (or none) and a value; a filter is the set of documents it matches, an update what
it makes of each document; index descriptors are a set of names. The order in which an `unordered_map`
is scanned is open. The store lock is the abstract one, and a crashed owner loses it at
once. The lock of the head registry, which follows the same protocol, and the write to
a temporary file with a rename, are one step.

### RetryService

Everything runs under `deliveryMutex_`, so every operation is an action. Time is counted
in periods of the one-second timer. A delivery no longer tracked keeps its statuses, for
the properties. The code only leaves a comment where it would announce again, and so
does the model.

### PeerManager

Every critical section of `peerMutex_` is an action. A `chain` is a succession of
reconnect timers, from the pong timeout that begins it to the dial that ends it; its
place is where its handler is between critical sections. `stop` has its two halves.
`age` counts heartbeats since `lastPongReceived`, which only a new session sets. Taking down
a session waits in `ws->close` with `peerMutex_` held (`closing`), so until the peer answers
or the connection breaks no step that needs the mutex is possible; a dial waits without it. The length of the backoff is left to
chance: a timer, once set, fires sometime. Pings are not in the model since nothing
reads their answers. `invited` is history for `NobodyUninvited`.

### GossipEngine

A network of engines. `chan[m][n]` is the connection `m` opened to `n`: in order, lost
when it closes. `pending` is the queue, `sending` the batch taken from it, `timer` the
batch timer. `announce*`, the batch timer, flushing, stopping, sending one announcement
of a batch to a random choice of fanout peers, and receiving are actions; a received
announcement is handled by its type, and forwarded while `ttl > 0`. `heads` is the head
registry as the engine uses it and `pools` the pool cache of `PeerManager`. `heard`,
`delivered`, `acked` and `acks` are what handlers were told.

Nothing orders head updates but the connections: a node applies each one it reads, older
ones that come round too, and its registry goes back and forth. `LastUpdateWins` says where
it ends on a `Reliable` network: no connection is lost, fanout reaches all peers and ttl all
nodes, the registry can be written, and each collection has one writer, whose updates
verify. Without any of these the last update may be missing somewhere for good.

Abstractions: one handler runs at a time in a node; an announcement of a batch goes out to all
its targets in one step; the size of chunks does not matter and is left out; `complete`
stands for the metadata `BlockAnnouncement::validate` asks for; an encrypted batch is read by
the peer it is for. A proof is none, bad, malformed, or good, and a good one is for the head
announced or for another: the code verifies what the proof says and applies what the
announcement says. `Overlaps` says whether two `batchFlush` calls may be under way in a node:
they hold no mutex while they send, and their batches go out between one another.

`Unwraps` are the nodes whose transport takes the announcements out of the array or the
envelope they are sent in. In the program it is the empty set: the only read loop there is
(`src/gossip/websocket_server.cpp:316-321`) parses one object and ignores everything else
(see 5). With it nothing is ever received and every property of this module but `GossipStops`
is empty. So the runs and the theorems are about the engine behind a transport that unwraps,
as the repository's tests use it, which call `handleAnnouncement` themselves; no property
says that anything gets through in the program.

### WebSocketServer

`phase` is where the handlers of a connection are, from `accepted` to `gone`; `sessions`
and `streams` are the two maps, `link` is the socket. `job` is where the heartbeat, the
expiry check and a broadcast are with the lists they collected: each collects under a
lock and then sends, marks, closes, removes the session and erases the stream, in that
order, as steps of its own. `ws->close` is two steps, `CloseSession` and `CloseReturns`, and
between them (`link` is `closing`) the round waits for the client. `stop()` first cancels the
timers and the acceptor, then closes the streams one by one with `wsStreamMutex_` held
(`Unlocked` is the guard of whoever needs that mutex), drops them, and drops the sessions. `start()` may give up with `running_` set (`deaf`), and an error of
`async_accept` ends the accept loop. A failing send cleans up and goes on where the
sender was. A node is answered or sent away; what it gossips afterwards is handled in
`GossipEngine`.

An event has the tier its caller gave it: `broadcastEvent` trusts `event.accessTier`
(`include/brightchain/gossip/websocket_server.hpp:37`, Admin by default), and
`getAccessTierForEvent` is called by tests only. The run has one event, with one client it
reaches; nothing is claimed of who may hear what, as that is the one test in
`isClientAuthorizedForEvent`.

Abstractions: a JWT is whether it verifies, and its claims; the claim `memberType` may be
the text that `createJwt` writes, which `validateJwt` cannot read. Writes to a stream are
atomic and return (Beast does not allow two at once, and nothing in the code prevents them).
The close of a connection that was refused is not waited for, though it takes a thread of the
pool until the client answers. Pings
are not in the model since `lastPongReceived` is set only when a session is added.

### Poll, PollTallier, VoteEncoder

`VoteEncoder` makes ballots as vectors of numbers and carries them through `intToBytes`,
encryption and `bytesToInt`, whose byte orders differ, in a base small enough for numbers
of two digits (`Base` stands for 256). `BytesToInt` keeps `Width` bytes (8 in the code) and
reads them as a signed number; `Decrypt` goes through OpenSSL's numbers, which are neither
(`BytesToBn`). The tallier adds in the order of voters, writing and reading the sum each time
(`Add`). `Agreement` is the share a consensus takes (95 in the code). `PollTallier` has one operator for each way of
counting, with the ties the code breaks by the order of a map left open where that order
is not determined. `Poll` has a poll in each precinct: `vote` is refused or stores the vote
and then signs the receipt or throws; `close`; `tally`; and the reports from precinct to
county to state to nation, at any time. Encryption is the number itself where only sums
matter (`Paillier` shows that this is what sums of ciphertexts are), plus the two outcomes
that sums of something else have (`Empty`, `Void`).

### AuditLog, BulletinBoard, EventLogger, Ledgers

Each has its own variables and operations, and `Ledgers` puts them side by side, since the
program that runs an election calls each of them. A digest and a signature are
represented by what they were made from, so two are equal exactly when that is: SHA3 has
no collisions and nobody signs without the key. What is hashed is joined as the code joins
it, byte by byte where a field has no fixed length, so that fields can run into one another:
an audit entry is number, type, time, poll id, previous hash (32 zeros in the first entry,
the 64 bytes of a digest later), voter and authority with nothing in between. `Forgeries`
are what can be made of the recorded entries without signing anything: fields and links
exchanged, signatures of other entries, other metadata, and every other way to cut what was
hashed into fields (`Recut`).

### BloomFilter, DiscoveryProtocol, QueryEngine, UpdateEngine, Shamir, Paillier, Services

`DiscoveryProtocol` has a step for each lock a discovery takes. `BloomFilter` gives each
item its two hash values and does the rest as the code does, including the number of
hashes that `deserialize` assumes. `QueryEngine` and `UpdateEngine` translate each
operator; a JSON value is a type and a value (an object has nothing but an identity that both
engines order alike), `compareValues` ranks types first, and
`applyUpdate` takes operators in the alphabetical order of the JSON object. `Shamir` works
over GF(8) with the code's tables, marker, padding and Lagrange interpolation; `Paillier`
with primes of one or two digits, in the code's formulas, and with its primality test.
`Services` lets each behaviour exercise one of the four parts, as they share nothing.

### Bounds

Every cap is a constant: `MaxCrashes`, `MaxFaults`, `MaxOps`, `MaxStops`, `MaxCalls`,
`MaxStarts`, `MaxOutages`, `MaxDrops`, `MaxBroadcasts`, `MaxTime`, `MaxUnsigned` bound events
of a behaviour. `MaxAttempt` and `Horizon` stop counters that the properties do not tell
apart beyond them, `MaxNumber` and `MaxLen` keep documents small. Items of `GossipEngine`
are announced once each, and a connection of `WebSocketServer` is used once.

## 3. Runs

| Run | Instance | Shows |
|---|---|---|
| `lock` | 3 processes, 3 polls, 2 crashes | `LockInv`, refinement of `AbstractLock`, no waiter waits for good, orphans are cleared |
| `db_one_writer` | 1 writer, 1 reader, 2 ids, 2 values, 1 index, 4 operations, 1 crash | `ReaderSnapshot`; commits refine `DocumentStore` |
| `db_two_writers` | 2 writers, 2 collections, 2 ids, 3 operations, updates of the value and of the `_id`, 1 crash, 1 I/O error | `StoreInv`, `CacheCoherent` |
| `db_lost` | 2 processes that only insert | *violated*: `NoLostInserts` (see 5) |
| `retry` | 1 message to 0, 1 or 2 recipients, 3 retries, cap reached, 1 stop | `RetryInv`, `OnSchedule`, `AckIsHeeded`, `StatusMachine`, `EventuallyResolved` |
| `peers` | 1 peer, 3 reconnect chains, 3 calls, 1 outage, closes and dials that wait | `PeerInv`, `SilentIsDetected`, `DialsGoOn` |
| `gossip` | 2 nodes, every type of announcement and of proof, overlapping flushes, a stop, a lost connection, a failing registry | `GossipInv` |
| `gossip_live` | 3 nodes in a line or with a detour, ttl 1, fanout 2, a stop | `CopiesBounded`, `LastUpdateWins`, `GossipStops` |
| `websocket` | 1 connection (a member, a token without exp, one the server cannot read, a node, a wrong path), 1 broadcast, 2 starts, 1 error or lost client, 3 instants | `ServerInv`, `WarnedOnce`, `StoppedIsQuiet`, `ExpiredIsClosed`, `DeadIsForgotten` |
| `election` | 15 methods, 3 choices, 2 to 4 voters; under Plurality 2 precincts, a county and a state; 1 vote whose receipt fails | `PollInv`, `ResultIsFair`, `NeverTwice`, `VoteIsFinal` |
| `ledgers` | 4 records in any of three ledgers | `RecordsVerify`, `TamperEvident`, `ExportReadsBack` |
| `services` | 2 callers and 2 peers; documents of 2 fields; secrets in GF(8) among 3; two pairs of primes and 90 candidates | `NoFalseNegative`, `CacheCatchesUp`, `QueriesAreLawful`, `RetriedUpdateIsSafe`, `SharingIsSafe`, `PaillierIsSound` |

Why the bounds are enough for the cases that matter:

* **lock**: three processes are a holder that crashes and two waiters that both run out
  of polls. Two crashes orphan the file again during a recovery.
* **db**: with four operations a collection is filled, updated, dropped and filled
  again, with a crash between any two steps. One reader that loads once and reconnects
  is enough for a snapshot, which is about a single handle. Two writers with two
  collections meet in the registry, which holds both heads. Batches that repeat an id
  fail in the middle. Two ids are what it takes for an update to give one document the
  `_id` of another. (Processes and collections of that run are alike, hence its symmetry;
  it checks invariants only.)
* **retry**: three retries with initial timeout 2, multiplier 2 and cap 5 pass the cap.
  Messages share nothing but the timer; `RetrySafe` and `ScheduleKept` cover any number
  and any schedule.
* **peers**: peers share nothing but the heartbeat's list. A peer that is disconnected
  and connected again while its first chain is under way has a second chain, and a
  third.
* **gossip**: ttl 1 is one origin hop and one forwarding hop; in the line that is what
  it takes to reach the far end, and in the detour the direct copy and the forwarded one
  race. Two announcements are two batches that can overlap. `CopiesAreBounded` covers any ttl, fanout and network, and `LastUpdateHolds` any
  reliable one; both topologies of `gossip_live` are.
* **websocket**: clients share nothing but the two maps, whose entries do not touch, and
  the lists of a round, which are worked off one by one. One client meets the expiry check,
  the heartbeat, a broadcast, a failed read and `stop()` at every lock. Three instants are
  before the grace period, within it and after the expiry; two starts let handlers of
  the first life meet the second.
* **election**: three choices are what it takes for a cycle of preferences, for an
  elimination to matter and for a finalist who is not the leader; three voters have
  majorities and ties, and four are needed for a tie between eliminations. Two precincts
  of one county are two operands of a sum, and the state adds a level that can be late;
  `NothingCountsTwice` covers any number of each. A consensus of four voters with `Agreement`
  75 is met exactly by three. A width of three digits holds every sum of the run, and an
  objection in three digits is negative as eight bytes FF are in the code.
* **ledgers**: four entries make a Merkle tree of three levels, with three entries one node
  has no partner. The checks of the chain compare neighbours, so forgeries of two say it
  all. Ids end in the zeros the first link consists of, so boundaries can move. `AuditChainSafe`, `TamperingShows` and `ExportIsReadable` cover ledgers of any length.
* **services**: with one query allowed and two candidates the limit bites; the slots of the
  two blocks collide modulo the sizes of the filters. Values of every JSON type, objects
  included, meet each other in every comparison; the elements of arrays are no
  arrays, and objects are two different ones without contents. (`FiltersAreHonest`, `QueriesLawful` and `RetriedUpdatesSafe`
  cover any blocks, digests, documents and values.) GF(8) has every step of the tables; secrets begin with zeros,
  are zero, or do not fill their last part. The candidates include squares, products of
  neighbouring primes and a strong pseudoprime to each of the first two witnesses.

Deadlock checking is off because each system may rest: all operations done, no timer
set, nothing under way, every record made. (`lock` and `retry` do not need it.)

### Fairness

* `StoreLock`: `acquire` is a bounded loop in a running thread and the guard releases on
  every way out. Nothing makes a process begin, crash or come back.
* `RetryService`, `PeerManager`: the handlers of timers that are set run, because the
  `io_context` is served. Nobody has to call anything. That `ws->close` or a dial returns is
  not assumed, as both wait for the peer: it is the premise (`CallsReturn`) of
  `SilentIsDetected` and `DialsGoOn`.
* `GossipEngine`: the batch timer's handler and the read loops run. The liveness
  properties assume in addition that engines are kept running (`KeptRunning`), as a stop
  may leave announcements in the queue, and the run has connections that hold.
* `WebSocketServer`: the threads of the io_context run the handlers that are ready, timers
  expire, the loops over collected sessions go on, and time passes. No client has to do
  anything, not even answer: that `ws->close` returns is the premise (`CallsReturn`) of
  `ExpiredIsClosed` and `DeadIsForgotten`. Nobody has to call `stop` or `broadcastEvent`.
* `Services`: a thread inside `discoverBlock` goes on, and time passes (an entry of the cache
  is valid for `cacheTtlMs`).

Weak fairness is enough everywhere. Every property has a mutant: a plausible slip in the
mapped code under which TLC finds the property violated.

## 4. Proofs

All theorems hold for every value of the constants under the named assumptions in the
modules (sizes are natural numbers, "none" values are none of the things, sets of blocks,
nodes and jurisdictions are finite). These say more than that:

* the clock of `RetryService` runs at least until the last retry is due
  (`HorizonAssumption`; the code's clock does not stop at all);
* whatever is recorded in a ledger is bytes, and no id contains a digest (`AuditAssumption`,
  `BoardAssumption`, `EventAssumption`);
* a filter is made with at least as many hashes as the seven `deserialize` assumes, which is
  not in the bytes (`DiscoveryAssumption`; with fewer there are false negatives);
* the elements of arrays are no arrays, nor are the operands of `$push` and `$addToSet`
  (`UpdateAssumption`);
* jurisdictions are precincts, counties, states and a nation, each reporting to one of the
  next level, and a ballot under Plurality is what the encoder makes (`PollAssumption`).

| Theorem | Says | Argument |
|---|---|---|
| `LockSafe` | `Spec => []LockInv` | `LockInv` is inductive. Exclusion alone is not: the process about to remove the file must know that nobody holds it and that it is alone. That is `StaleIsOrphan`, kept as long as `~rash` |
| `LockRefinement` | `Spec => AbstractSpec` | from `LockInv`: while `~rash` the holder is unique, so the owner mapping changes only at opens, releases and crashes of the holder |
| `StoreSafe` | `Spec => []StoreInv` | the registry is overwritten with what processes have in memory, so all of memory, leftovers of failed operations included, must lead to stored blocks (`MemoryClosed`); `JobOK` gives each step a job |
| `CacheSafe` | `Spec => []CacheCoherent` | of collections in which no update has changed an `_id`. There every index, and every head one can be loaded from, keeps each document under its own `_id` (`Fitting`), so what `loadDocument` caches goes to the key it was read for; one case per way of filling, replacing or dropping the cache |
| `ReaderSafe` | `Spec => []ReaderSnapshot` | the head in the registry, the heads a reader has read and the memory it has made of them are each what one commit published, or nothing (`SnapInv`); no step of another process touches that memory, and a reader never has an operation half done |
| `SerialSafe` | one writer, no I/O error, no batch that repeats an id (`NoRepeats`), no update that changes one (`KeepsIds`): `Spec => CommitsAreSerial` | while the writer is at work the registry holds what it loaded, and its index is that with the done part of its job applied (`SerInv`). So the head it sets is what the whole operation makes of the last one. With a second writer commits get lost (5), after an I/O error or a repeated id half an operation stays in memory and is committed with the next, and after a changed `_id` an update may be applied to another document than the one under its key |
| `RetrySafe` | `Spec => []RetryInv` | `CountMatchesStatus` ties statuses to the count, without which the expiry of an Announced recipient could not be excluded |
| `StatusMachineHolds` | `Spec => StatusMachine` | step by step from `RetryInv` |
| `AckHeeded` | `Spec => []AckIsHeeded` | a recipient whose ack was taken is Delivered, which no retry and no expiry leaves |
| `ScheduleKept` | `Spec => []OnSchedule` | the age of a delivery and what it still waits for add up to when the next retry is due, plus at most one period for every stop so far and one for the timer (`OnTime`); `calculateBackoff`, which takes a power, agrees with the schedule, which multiplies step by step |
| `PeerSafe` | `MaxStarts <= 1 /\ Spec => []PeerInv` | `PeerInv` with `BeforeStart`: no list, timer or chain exists before the one start. With a second start the theorem is false (6) |
| `GossipSafe` | `Spec => []GossipInv` | types, then: queues hold only what was announced or earned; the ack invariant and what is said of heads (announced for their collection, none from an update whose proof failed) follow for what is received from them. A head without a proof, or under a good proof for another, gets in, and nothing is claimed of that |
| `CopiesAreBounded` | `Spec => []CopiesBounded` | the bound itself is not inductive, since what is about to be forwarded is not in it. The invariant (`Traffic`) keeps a budget for every ttl, of at most fanout to the power of the hops, that covers the copies there are and fanout times the budget one ttl above. Forwarding takes one from a budget before it adds at most fanout below; everything else only removes copies |
| `LastUpdateHolds` | `Spec => []LastUpdateWins` | every copy of an older update has a copy of the last one with the same ttl behind it: in the same connection, or on a walk to the node that writes to that connection (`Train`), or in the same queue (`Lined`); and a node whose registry does not have the last update has it coming (`Awaited`). Reading the last update takes it away from one node and puts it behind everything else on all connections of that node, so whatever waited for it finds it one hop further on its walk. That every node is on such a walk is the hypothesis on ttl. When nothing is under way nothing is waited for |
| `ServerInvHolds`, `WarnedOnceHolds`, `StoppedIsQuietHolds` | `Spec => []ServerInv`, `[]WarnedOnce`, `StoppedIsQuiet` | one inductive invariant: what every phase of a connection and every place of a timer's round say of the two maps (no session before `added`, none left at `erase`, after `stop()` only streams of late handlers), of the warnings sent and marked, and of who is addressed: a connection that is not read from yet has subscribed to nothing and is on no broadcast's list, and so is none whose stream comes into the map after `stop()` has gone through it (`QuietParts`). (A warning may still be sent, and only events are claimed not to be.) |
| `PollSafe` | `Spec => []PollInv` | inductive together with the types of the maps; results count receipts, which are among the finitely many votes |
| `VotesAreFinal` | `Spec => VoteIsFinal` | step by step from `PollInv`: only `vote` changes votes, and only those without a receipt in an open poll |
| `NothingCountsTwice` | `Spec => []NeverTwice` | a report is within the votes below the jurisdiction that made it, and these only grow (`Poll::vote` never removes a voter). Nobody votes below two children of one parent, as each has one parent and levels differ; so the loop of `getTally` adds up disjoint parts. The sum of parts is bounded by induction on the finite set of children |
| `RecordsSafe` | `Spec => []RecordsVerify` | inductive: a new entry does not touch what the others are hashed from, and a Merkle root is over a prefix that stays |
| `AuditChainSafe` | `Spec => []Unforgeable` | of all entries there could be, not only of `Forgeries`: whatever carries a recorded signature and verifies was hashed from the same bytes (`Genuine`, from `OneSignature`). Where one follows another its link is a digest, of which the bytes hold just one (`OnlyLink`), so poll and link are those recorded, and the entry it names is the one before (`NextEntry`), as hashes tell sequence numbers apart |
| `TamperingShows` | `Spec => []TamperEvident` | `Forgeries` only borrow signatures (`ForgeriesBorrow`), so for the audit chain it is the theorem above. On the board: the right edge of a Merkle tree ends in the hash of its last entry, so two roots that agree are of trees with the same last entry, whose number says how many there are; and a signature or a hash determines the fields it was made from |
| `ExportIsReadable` | `Spec => []ExportReadsBack` | what a reader finds at the place where an event begins is that event: ids and optional fields say their length or whether they are there, numbers have a fixed size, and the name of the type, which the code writes without a length (`src/event_logger.cpp:165`) and the model as one element, is one of a fixed set of names none of which begins another; the export is the join of the events, by induction on their number |
| `FiltersAreHonest` | `ServicesSpec => []NoFalseNegative` | bit `h` is bit `h % 8` of byte `h / 8` when written and when read, so the filter read back has all bits of the one written; every block added has set all bits it is asked for, as those asked for are among those made |
| `QueriesLawful` | `ServicesSpec => []QueriesAreLawful` | types are ranked, numbers, strings and objects ordered as integers, and arrays compared element by element: two arrays differ first at a least place, or one begins the other, and from this come trichotomy and transitivity, on which filters agree; `$min` and `$max` order types in their own way (nlohmann's), which agrees with queries except where a string, an array and an object meet (`SameOrder`) |
| `RetriedUpdatesSafe` | `ServicesSpec => []RetriedUpdateIsSafe` | each operator that can be repeated settles its field: what it does to a field it has already been applied to is nothing. Operators work on fields of their own, so the second pass meets each field as the first left it |

**Induction.** The theorems of the library that take an operator as parameter cannot be
used with the installed provers. Where a proof needs induction it is over a set of numbers
or of finite sets: a set of numbers that holds 0 and with every number the next holds all of
them, since otherwise there were a least one outside (`SetInduction`, from `WFMin`), and a
family of finite sets that holds the empty set and with every set the ones with one element
more holds all of them. That a recursive function is what its definition says is shown by
joining its finite beginnings. For this the modules with proofs write recursion as functions
on numbers: `Pow` and `DueTimes` of `RetryService`, `Spread` of `GossipEngine`, the levels of
the Merkle tree, the loops of `getTally`. Where a list is searched or compared no induction
is needed: the first place at which something happens is the least number of a set.

**Only model-checked.**

* Everything temporal with fairness (`AcquireTerminates`, `OrphanIsCleared`,
  `EventuallyResolved`, `SilentIsDetected`, `DialsGoOn`, `GossipStops`, `ExpiredIsClosed`,
  `DeadIsForgotten`, `CacheCatchesUp`): out of the prover's reach, as is `ENABLED`.
* `ResultIsFair`, which compares 15 ways of counting, with their rounds and eliminations,
  with what the ballots ask for.
* `SharingIsSafe` and `PaillierIsSound`, which rest on interpolation over a finite field, on
  Fermat's theorem and on how primes divide: number theory that would have to be built up
  from nothing.

## 5. Where documents and code disagree

**Lost updates** (`db_lost`, *violated*). The reload under the lock takes the head from a
map read at `connect()`. Two handles that insert different documents lose one of them,
which `docs/DATABASE_DESIGN_SPEC.md` says the lock prevents.

These were met while modelling; the modules follow the code, and no run is about them:

* **Exclusion.** The design document says the lock serializes writes across all processes. A
  waiter removes the file after 250 polls of 20 ms whether or not its owner is still at
  work. `LockInv` and `AbstractSpec` therefore speak up to that moment (`rash`).
* **Early acks.** A recipient is Announced until the first retry, and the state machine has
  no way from there to Delivered: the ack is dropped. `AckIsHeeded` speaks of acks after it.
* **Reconnection.** The session of a lost peer stays registered, and the reconnecting
  `emplace` does nothing for a key that exists; the peer is dialled again and again
  (`DialsGoOn`) and not registered.
* **Wire format.** Engines send arrays and envelopes, and the node read loop
  (`src/gossip/websocket_server.cpp:316-321`) parses one object and ignores what is not one, so
  in the program no node hears another. `Unwraps` stands for a transport that takes them apart.
* **Documents' ids.** `docs/DATABASE_DESIGN_SPEC.md:93` calls `_id` the unique identifier of a
  document within a collection. An update may set it: two documents may then have the same, a
  document may have none, and `loadDocument` caches what it reads under that `_id`
  (`src/collection.cpp:130-131`) while the index has it under its key. `findOne` may then answer
  with another document than the one stored, and `updateMany` write it over that one.
  `CacheCoherent` speaks of collections in which this has not happened, `SerialSafe` excludes it.
* **Heartbeats.** Requirement 3.6 (`.kiro/specs/cpp-gossip-protocol/requirements.md:83`) has peers
  marked as disconnected when no response is received. No response is ever looked at:
  `lastPongReceived` is set when a session is made and never again, so answering peers are
  marked too. `SilentIsDetected` says that silent ones are.
* **Closing.** Requirements 10.6 and 10.7 (`requirements.md:176-177` there) have connections closed
  that do not respond, and sessions closed whose token has expired. `ws->close` waits for the
  client to answer: one that does not keeps its session, holds up the rest of the round and
  the timer, which is set again only after it, and `stop()`, with `wsStreamMutex_` held. A peer
  that hangs while `PeerManager` closes its session holds up everybody who needs `peerMutex_`
  (`src/gossip/peer_manager.cpp:284`).
* **Write proofs.** Property 17 of the design (`.kiro/specs/cpp-gossip-protocol/design.md:955`) and
  requirements 7.3 and 7.4 (`requirements.md:139-140`) accept an update exactly if its proof is a
  signature over its collection and block. The code verifies the signature over the names the
  proof itself carries (`src/gossip/gossip_engine.cpp:373`) and applies those of the announcement.
* **Event tiers.** Requirement 10.5 has events filtered by tier; `broadcastEvent` takes the tier
  its caller wrote into the event, and nothing makes it that of the kind.
* **Consensus.** A comment in `src/poll_tallier.cpp:340` asks for more than 95 %, the code for at
  least 95 %, rounded up; `ResultIsFair` has what the code does.
* **Supermajority.** `include/brightchain/voting_method.hpp:24` asks for two thirds or three
  quarters, `README.md:347` for more than half; the code gives it to whoever has most votes.
  `ResultIsFair` claims the tallies and that the winner is among the highest, and nothing of
  a threshold.
* **Objections.** `src/vote_encoder.cpp:181` has -1 for a strong objection, and the encoder's
  `intToBytes` writes it as 01 FF, which counts as a large positive number: support. The tests
  (`tests/poll_tallier_test.cpp:254-273`) write eight bytes FF instead, which `bytesToInt` reads as
  -1, and there an objection keeps a choice from winning. `ResultIsFair` claims the latter; the
  run offers both.
* **Comparison across types.** `.kiro/specs/cpp-brightchain-db/design.md:253` says that values of
  different types do not match under `$gt` and `$lt`. The code ranks types
  (`include/brightchain/query_engine.hpp:20` and `:50`), and so the tests have it
  (`tests/query_engine_test.cpp:216-236`); `QueriesAreLawful` follows code and tests.
* **Claims.** `createJwt` writes `memberType` as a string and `validateJwt` reads an integer, so
  the server refuses the tokens it makes with one.

## 6. What the models show besides

About the store and the network:

* a put of a block that is already committed truncates it first: a crash then, or a
  reader in between, meets an empty block;
* a peer on the heartbeat's list of timed-out peers that is connected again after a stop is
  still marked lost when its turn comes; `scheduleReconnect` sets no timer while the manager
  is stopped, so after the next start nobody dials that peer;
* of several recipients of a message at one node only the first is acknowledged;
* two flushes of a node that overlap, on two threads, send their batches between one another:
  the update announced last may leave first, and then an older one stays in every registry
  that reads it later (`LastUpdateWins` is violated with `Overlaps` and assumes that none do);
* a head update with a good proof for another head, or without one, is applied;
* a pool announcement that is overtaken by its deletion brings the pool back;
* a batch size of zero makes the chunk loop endless.

About the WebSocket server:

* an expiry check or `stop()` between the adding of a session and the registration of its
  stream leaves a stream without a session, which is read from and never sent to
  (`SessionHasStream` holds, the converse does not);
* a handler that looked at `running_` before `stop()` leaves a session and a stream behind
  (`StoppedIsClean` says which); connections of nodes are not closed by `stop()`;
* one error of `async_accept` ends accepting for good, and a `start()` that fails leaves
  `running_` set;
* `lastPongReceived` is set once, so every client times out, whatever it answers; a token
  without `exp` is closed by the next expiry check;
* the node challenge blocks a thread of the pool, and so does the closing of a refused
  connection until its client answers;
* a client that registers its stream while `stop()` runs may still get the warning that its
  token expires afterwards, but no event (`StoppedIsQuiet`).

About voting:

* weights above one byte change with the byte order; an objection with a sign byte counts as
  support (5); a sum below zero is written with a sign byte too and read as a positive
  number by the next addition;
* zero voters make every choice a consensus; the second round of two counts the first
  round's votes; STV can seat more than there are seats;
* a precinct reports the numbers of its last ballot only, and an empty precinct as second
  operand voids the sum; nobody asks whether the polls are closed;
* `createQuadratic` always throws; a vote whose receipt could not be signed counts, and the
  voter may replace it.

About records: the metadata of an audit entry is neither hashed nor signed; the id of a voter
can be passed off as that of an authority and the other way round, since nothing says which of
the two is there; in the first entry of a stretch, whose link nobody compares, the boundaries of
poll id, link and ids can be moved; what is cut off at either end of the chain is not missed; a failed signature leaves a gap in the numbers of
the audit log; ballots whose bytes agree when joined have one digest on the board.

About the services: a filter with fewer than seven hashes denies what it holds once it has
been sent; a discovery under way undoes `clearCache`; an empty answer is cached as
long as another; `maxConcurrentQueries` limits how many peers are asked at all; `$rename` of
a field to itself loses it; `$ne` and `$nin` do not match a missing field; strings, arrays and
objects are ordered differently by queries and updates, so `$min` may keep what a query finds
greater; fewer shares than
the threshold combine to something else without an error; `getRandomFactor` does not recover
the random factor.

## 7. Not modelled

`Ecies`, `AesGcm`, `HmacDrbg`, `EcKeyPair`, `Member` and `Checksum` put OpenSSL calls one after
the other and have no states to explore; they appear as outcomes: a signature is made or
throws, a proof verifies or does not, a digest stands for what was hashed. The layouts of
blocks and constituent lists, the JSON forms of announcements and the text form of shares
are written and parsed in one go, and what there is to say of them is the layout itself.
`IntrospectionApi` only reads. `UpnpManager` acts on a router. `GossipConfig::validate` is
called by nobody on the way to an engine. `BatchVoteProcessor` is a vector with a limit;
`TestVoterPool` belongs to the tests. Of `Paillier` the drawing of candidates from a seed, of
`DiscoveryProtocol` the searches of the CBL index, and of `PeerManager` the challenge and the
registry queries are left out. `PROJECT.json` gives the reason for every part.

## 8. Plan

1. **Compositions.** `RetryService` over `GossipEngine`: an ack that the network delivers
   stops the retries. `UpdateEngine` inside `BrightChainDb`.
2. **Blocks.** Constituent lists and the splitting of super CBLs as functions on sequences.
3. **Proofs.** `ResultIsFair` for the methods that count once (Plurality, Approval, Borda);
   that any threshold of shares combines to the secret, over any field.

## 9. Running

    tlc -config MCStoreLock.cfg MCStoreLock
    tlapm StoreLockProofs.tla
