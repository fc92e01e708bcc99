--------------------------- MODULE BrightChainDb ---------------------------
(***************************************************************************)
(* Processes sharing one document database: Collection, HeadRegistry,      *)
(* DiskBlockStore and the store lock (collection.cpp, head_registry.cpp,   *)
(* disk_block_store.cpp, brightchain_db.cpp).                              *)
(*                                                                         *)
(* A block is named by the hash of its contents, so the model names it by  *)
(* its contents: a document block is [id, val], where id is the `_id` in   *)
(* the document; a CollectionMeta block is [mappings, indexes], where a    *)
(* checksum in the mappings is the document it leads to.  The key that     *)
(* leads to a document need not be its `_id`: an update may set that.      *)
(* A head is the CollectionMeta block it names.  A block's file is torn    *)
(* when put opens (and truncates) it and whole when the data is written.   *)
(*                                                                         *)
(* The store lock is the abstract lock that StoreLock implements; a crash  *)
(* of its owner ends in the lock's being free again (stale recovery).      *)
(***************************************************************************)
EXTENDS Naturals, Sequences, FiniteSets

CONSTANTS Procs,       \* processes, one database handle each
          Writers,     \* those that call write operations
          None,        \* "no process"
          Colls, Ids, Vals,
          NoId,        \* the _id of a document that has none
          NoDoc,       \* "no document under this key"
          NoMeta,      \* "no head for this collection"
          IndexNames,
          Filters,     \* queries, each the set of documents it matches
          Batches,     \* what insertOne/insertMany are called with
          Updates,     \* updates, each what applyUpdate makes of a document
          NoUpdate,    \* of an insert
          Droppable,   \* collections the clients may drop
          MaxOps, MaxCrashes, MaxFaults   \* bounds of a behaviour

Docs == [id : Ids \cup {NoId}, val : Vals]
Index == [Ids -> Docs \cup {NoDoc}]
Metas == [mappings : Index, indexes : SUBSET IndexNames]
Heads == [Colls -> Metas \cup {NoMeta}]

ASSUME DbAssumption ==
    /\ Writers \subseteq Procs
    /\ None \notin Procs
    /\ IsFiniteSet(Ids)
    /\ NoId \notin Ids
    /\ NoDoc \notin Docs \cup Metas
    /\ NoMeta \notin Metas
    /\ Filters \subseteq SUBSET Docs
    /\ Batches \subseteq Seq({d \in Docs : d.id # NoId})
    /\ Updates \subseteq [Docs -> Docs]
    /\ NoUpdate \notin Updates
    /\ Droppable \subseteq Colls
    /\ MaxOps \in Nat /\ MaxCrashes \in Nat /\ MaxFaults \in Nat

VARIABLES
    \* on disk
    registry,   \* head-registry.json
    whole,      \* blocks whose file holds all of its data
    lock,       \* owner of the store lock
    \* in the memory of each process
    heads,      \* HeadRegistry::heads_
    loaded, index, cache, indexes,   \* Collection::loaded_, docIndex_, docCache_, indexes_
    pc,         \* where the write operation in progress is
    job,        \* what it still has to do
    \* history and bounds
    written,    \* blocks that have been whole at some time
    lost,       \* blocks whose data a put lost without an error
    published,  \* metas that have been heads in the registry, per collection
    rekeyed,    \* collections with a document put under a key not its _id
    ops, crashes, faults

disk == <<registry, whole, written, lost, published>>
memory == <<heads, loaded, index, cache, indexes>>
bounds == <<ops, crashes, faults>>
history == <<bounds, rekeyed>>
vars == <<disk, memory, lock, pc, job, history>>

Blocks == Docs \cup Metas
NoDocs == [i \in Ids |-> NoDoc]

\* Between operations a process is "idle".  A put is at "doc" or "meta" before
\* it opens the block's file and at "docw" or "metaw" with the file open; a
\* change of heads is at "head" (set), "unhead" (drop) or, inside dropDatabase,
\* "dbhead"; "dropdb" is between the drops of dropDatabase.
Resting == {"down", "idle"}
Writing == {"doc", "docw", "meta", "metaw", "head", "unhead", "dbhead"}
PCs == Resting \cup Writing \cup {"dropdb"}

\* todo: documents still to put, under which key, where an update has yet to
\* make its document; by: that update; more: collections dropDatabase has not
\* come to yet.
Entries == [key : Ids, doc : Docs \cup {NoDoc}]
Jobs == [coll : Colls, todo : Seq(Entries), by : Updates \cup {NoUpdate}, more : SUBSET Colls]
NoJob == [coll |-> None, todo |-> <<>>, by |-> NoUpdate, more |-> {}]

Init ==
    /\ registry = [c \in Colls |-> NoMeta]
    /\ whole = {} /\ written = {} /\ lost = {}
    /\ published = [c \in Colls |-> {}]
    /\ lock = None
    /\ heads = [p \in Procs |-> [c \in Colls |-> NoMeta]]
    /\ loaded = [p \in Procs |-> [c \in Colls |-> FALSE]]
    /\ index = [p \in Procs |-> [c \in Colls |-> NoDocs]]
    /\ cache = [p \in Procs |-> [c \in Colls |-> NoDocs]]
    /\ indexes = [p \in Procs |-> [c \in Colls |-> {}]]
    /\ pc = [p \in Procs |-> "down"]
    /\ job = [p \in Procs |-> NoJob]
    /\ rekeyed = {} /\ ops = 0 /\ crashes = 0 /\ faults = 0

-----------------------------------------------------------------------------
(***************************************************************************)
(* Opening the database, and its end in a crash.                           *)
(***************************************************************************)

\* A process starts and calls connect(): HeadRegistry::load.
Connect(p) ==
    /\ pc[p] = "down"
    /\ heads' = [heads EXCEPT ![p] = registry]
    /\ pc' = [pc EXCEPT ![p] = "idle"]
    /\ UNCHANGED <<disk, loaded, index, cache, indexes, lock, job, history>>

\* connect() again on a live handle reloads the registry, not the collections.
Reconnect(p) ==
    /\ pc[p] = "idle"
    /\ heads' = [heads EXCEPT ![p] = registry]
    /\ UNCHANGED <<disk, loaded, index, cache, indexes, lock, pc, job, history>>

\* The process dies: its memory is gone, what it wrote stays as it is, and
\* the store lock it may hold is recovered by the others.
Crash(p) ==
    /\ pc[p] # "down"
    /\ crashes < MaxCrashes
    /\ crashes' = crashes + 1
    /\ pc' = [pc EXCEPT ![p] = "down"]
    /\ lock' = IF lock = p THEN None ELSE lock
    /\ heads' = [heads EXCEPT ![p] = [c \in Colls |-> NoMeta]]
    /\ loaded' = [loaded EXCEPT ![p] = [c \in Colls |-> FALSE]]
    /\ index' = [index EXCEPT ![p] = [c \in Colls |-> NoDocs]]
    /\ cache' = [cache EXCEPT ![p] = [c \in Colls |-> NoDocs]]
    /\ indexes' = [indexes EXCEPT ![p] = [c \in Colls |-> {}]]
    /\ job' = [job EXCEPT ![p] = NoJob]
    /\ UNCHANGED <<disk, ops, faults, rekeyed>>

-----------------------------------------------------------------------------
(***************************************************************************)
(* Loading.                                                                *)
(***************************************************************************)

\* loadFromStore can read the CollectionMeta block, if there is a head.
Loadable(p, c) == heads[p][c] = NoMeta \/ heads[p][c] \in whole

\* What loadFromStore leaves in the collection.  With no head it returns
\* early and keeps the index, the cache and the indexes it has.
LoadedIndex(p, c) ==
    IF heads[p][c] = NoMeta THEN index[p][c] ELSE heads[p][c].mappings

\* Mutant: the indexes are not restored from the CollectionMeta block.
LoadedIndexesKept(p, c) == indexes[p][c]
LoadedIndexes(p, c) ==
    IF heads[p][c] = NoMeta THEN indexes[p][c] ELSE heads[p][c].indexes

LoadedCache(p, c) == IF heads[p][c] = NoMeta THEN cache[p][c] ELSE NoDocs

Put1(f, p, c, x) == [f EXCEPT ![p] = [@ EXCEPT ![c] = x]]

\* loadDocument(idx[i]) looks in the cache for a document under a key that the
\* index leads to the same block, and has none if this is empty.
Covers(idx, ch, i) == {j \in Ids : ch[j] # NoDoc /\ idx[j] = idx[i]}

\* A document read from its block is cached under its own _id, if it has one.
Caching(ch, d) == [j \in Ids |-> IF j = d.id THEN d ELSE ch[j]]

\* What it may return and leave in the cache; nothing if it throws.
LoadDocument(idx, ch, i) ==
    IF Covers(idx, ch, i) # {} THEN {[doc |-> ch[j], cache |-> ch] : j \in Covers(idx, ch, i)}
    ELSE {[doc |-> d, cache |-> Caching(ch, d)] : d \in {idx[i]} \cap whole}

In(idx) == {i \in Ids : idx[i] # NoDoc}

\* A scan reads the documents under the keys V, in the order of an
\* unordered_map.  While it does, Held is what may be cached under j, and it
\* leaves one of Scans.  Seen is what the reading of i may have returned.
Held(idx, ch, V, j) == {ch[j]} \cup {idx[i] : i \in {x \in V : idx[x] \in whole /\ idx[x].id = j}}

Seen(idx, ch, V, after, i) ==
    {d \in {idx[i]} \cap whole : Covers(idx, ch, i) = {} /\ (d.id # NoId => after[d.id] # NoDoc)}
    \cup UNION {Held(idx, ch, V, j) \ {NoDoc} : j \in Covers(idx, after, i)}

Scans(idx, ch, V) ==
    {after \in [Ids -> UNION {Held(idx, ch, V, j) : j \in Ids}] :
        /\ \A j \in Ids : after[j] \in Held(idx, ch, V, j)
        /\ \A i \in V : Seen(idx, ch, V, after, i) # {}}

\* The scan of the -Many operations visits every document; that of updateOne
\* and deleteOne stops at the first match.
FullScan(idx, V, hit) == V = In(idx)
FirstMatch(idx, V, hit) == Cardinality(hit) = 1 \/ (hit = {} /\ V = In(idx))

\* The scan of V has found that the documents under hit match the filter.
Finds(idx, ch, f, many, V, after, hit) ==
    /\ \A i \in V : \E d \in Seen(idx, ch, V, after, i) : i \in hit <=> d \in f
    /\ IF many THEN FullScan(idx, V, hit) ELSE FirstMatch(idx, V, hit)

-----------------------------------------------------------------------------
(***************************************************************************)
(* Write operations: each begins by taking the store lock and reloading.   *)
(***************************************************************************)

\* StoreLock::Guard guard(storeLock_); loaded_ = false; ensureLoaded();
BeginWrite(p, c) ==
    /\ p \in Writers /\ pc[p] = "idle" /\ lock = None
    /\ ops < MaxOps /\ ops' = ops + 1
    /\ Loadable(p, c)
    /\ loaded' = Put1(loaded, p, c, TRUE)
    /\ UNCHANGED <<disk, heads, crashes, faults, rekeyed>>

\* The reload throws: the lock is released again and loaded_ stays false.
WriteFailsToLoad(p, c) ==
    /\ p \in Writers /\ pc[p] = "idle" /\ lock = None
    /\ ops < MaxOps /\ ops' = ops + 1
    /\ ~Loadable(p, c)
    /\ loaded' = Put1(loaded, p, c, FALSE)
    /\ UNCHANGED <<disk, heads, index, cache, indexes, lock, pc, job, crashes, faults, rekeyed>>

\* The operation goes on to the given point, holding the lock.
Continue(p, c, where, todo, by) ==
    /\ lock' = p
    /\ pc' = [pc EXCEPT ![p] = where]
    /\ job' = [job EXCEPT ![p] = [coll |-> c, todo |-> todo, by |-> by, more |-> {}]]

\* The operation ends here, with the guard's release.
Finish(p) ==
    /\ lock' = IF lock = p THEN None ELSE lock
    /\ pc' = [pc EXCEPT ![p] = "idle"]
    /\ job' = [job EXCEPT ![p] = NoJob]

SetMemory(p, c, idx, ch, xs) ==
    /\ index' = Put1(index, p, c, idx)
    /\ cache' = Put1(cache, p, c, ch)
    /\ indexes' = Put1(indexes, p, c, xs)

\* insertOne and insertMany.
Insert(p, c, batch) ==
    /\ BeginWrite(p, c)
    /\ SetMemory(p, c, LoadedIndex(p, c), LoadedCache(p, c), LoadedIndexes(p, c))
    /\ Continue(p, c, "doc", [k \in DOMAIN batch |-> [key |-> batch[k].id, doc |-> batch[k]]], NoUpdate)

\* One order of the documents to rewrite.
IsListing(s, S) ==
    /\ {s[k] : k \in DOMAIN s} = S
    /\ \A k, l \in DOMAIN s : s[k] = s[l] => k = l
Unmade(i) == [key |-> i, doc |-> NoDoc]

\* updateOne and updateMany, where ch is the cache the scan left.
UpdateScanned(p, c, u, ch, hit) ==
    /\ SetMemory(p, c, LoadedIndex(p, c), ch, LoadedIndexes(p, c))
    /\ IF hit = {}
       THEN Finish(p)
       ELSE \E s \in [1..Cardinality(hit) -> {Unmade(i) : i \in hit}] :
                /\ IsListing(s, {Unmade(i) : i \in hit})
                /\ Continue(p, c, "doc", s, u)

Update(p, c, f, u, many) ==
    /\ BeginWrite(p, c)
    /\ LET idx == LoadedIndex(p, c)
           ch  == LoadedCache(p, c)
       IN  \E V \in SUBSET In(idx) : \E after \in Scans(idx, ch, V), hit \in SUBSET V :
              Finds(idx, ch, f, many, V, after, hit) /\ UpdateScanned(p, c, u, after, hit)

UpdateOne(p, c, f, u) == Update(p, c, f, u, FALSE)
UpdateMany(p, c, f, u) == Update(p, c, f, u, TRUE)

\* deleteOne and deleteMany: nothing is written if nothing matched.
Without(idx, S) == [i \in Ids |-> IF i \in S THEN NoDoc ELSE idx[i]]

\* Mutant: the deleted documents stay in the cache.
DeleteScannedKeepsCache(p, c, ch, hit) ==
    /\ SetMemory(p, c, Without(LoadedIndex(p, c), hit), ch, LoadedIndexes(p, c))
    /\ IF hit = {} THEN Finish(p) ELSE Continue(p, c, "meta", <<>>, NoUpdate)

DeleteScanned(p, c, ch, hit) ==
    /\ SetMemory(p, c, Without(LoadedIndex(p, c), hit), Without(ch, hit), LoadedIndexes(p, c))
    /\ IF hit = {} THEN Finish(p) ELSE Continue(p, c, "meta", <<>>, NoUpdate)

Delete(p, c, f, many) ==
    /\ BeginWrite(p, c)
    /\ LET idx == LoadedIndex(p, c)
           ch  == LoadedCache(p, c)
       IN  \E V \in SUBSET In(idx) : \E after \in Scans(idx, ch, V), hit \in SUBSET V :
              Finds(idx, ch, f, many, V, after, hit) /\ DeleteScanned(p, c, after, hit)

DeleteOne(p, c, f) == Delete(p, c, f, FALSE)
DeleteMany(p, c, f) == Delete(p, c, f, TRUE)

\* A scan meets a document whose block it cannot read: the operation throws
\* with the collection reloaded, having cached the documents V before it.
ScanThrows(p, c) ==
    /\ BeginWrite(p, c)
    /\ LET idx == LoadedIndex(p, c)
           ch  == LoadedCache(p, c)
       IN  \E V \in SUBSET In(idx) : \E after \in Scans(idx, ch, V) :
              /\ \E i \in In(idx) \ V : LoadDocument(idx, after, i) = {}
              /\ SetMemory(p, c, idx, after, LoadedIndexes(p, c))
    /\ Finish(p)

CreateIndex(p, c, n) ==
    /\ BeginWrite(p, c)
    /\ SetMemory(p, c, LoadedIndex(p, c), LoadedCache(p, c), LoadedIndexes(p, c) \cup {n})
    /\ Continue(p, c, "meta", <<>>, NoUpdate)

DropIndex(p, c, n) ==
    /\ BeginWrite(p, c)
    /\ SetMemory(p, c, LoadedIndex(p, c), LoadedCache(p, c), LoadedIndexes(p, c) \ {n})
    /\ Continue(p, c, "meta", <<>>, NoUpdate)

\* drop takes the lock and removes the head; it does not load.
StartDrop(p, c, where, more) ==
    /\ p \in Writers /\ pc[p] = "idle" /\ lock = None
    /\ ops < MaxOps /\ ops' = ops + 1
    /\ lock' = p
    /\ pc' = [pc EXCEPT ![p] = where]
    /\ job' = [job EXCEPT ![p] =
           [coll |-> c, todo |-> <<>>, by |-> NoUpdate, more |-> more]]
    /\ UNCHANGED <<disk, memory, crashes, faults, rekeyed>>

Drop(p, c) == c \in Droppable /\ StartDrop(p, c, "unhead", {})

\* dropDatabase drops the collections in the order of an unordered_map, each
\* under a lock of its own (every handle has opened every collection here).
DropDatabase(p, c) == Droppable = Colls /\ StartDrop(p, c, "dbhead", Colls \ {c})

-----------------------------------------------------------------------------
(***************************************************************************)
(* The steps of a write operation under the lock.                          *)
(***************************************************************************)
MetaOf(p, c) == [mappings |-> index[p][c], indexes |-> indexes[p][c]]

At(p, where) == pc[p] = where /\ UNCHANGED history
Goto(p, where) == pc' = [pc EXCEPT ![p] = where]

\* Opening a block's file truncates it, whatever it held.
Truncate(b) == whole' = whole \ {b} /\ UNCHANGED <<registry, written, lost, published>>

\* The data reaches the file.
WriteOut(b) ==
    /\ whole' = whole \cup {b}
    /\ written' = written \cup {b}
    /\ UNCHANGED <<registry, lost, published>>

\* The data is still in the stream's buffer when put returns, and the flush
\* of the destructor fails: nobody is told.
LoseFlush(b) ==
    /\ faults < MaxFaults /\ faults' = faults + 1
    /\ lost' = lost \cup {b}
    /\ UNCHANGED <<registry, whole, written, published>>

PutReturns(b) ==
    /\ \/ WriteOut(b) /\ UNCHANGED faults
       \/ LoseFlush(b)
    /\ UNCHANGED <<ops, crashes>>

\* The block of the next document is opened.
Open(p, d) ==
    /\ Truncate(d)
    /\ Goto(p, "docw")
    /\ job' = [job EXCEPT ![p] = [job[p] EXCEPT !.todo = <<[Head(job[p].todo) EXCEPT !.doc = d]>> \o Tail(job[p].todo)]]
    /\ UNCHANGED lock

\* An insert goes on, or throws DuplicateKeyError and leaves the index with the
\* documents before it.
OpenNew(p) ==
    /\ At(p, "doc") /\ job[p].todo # <<>> /\ job[p].by = NoUpdate
    /\ LET e == Head(job[p].todo)
       IN  IF index[p][job[p].coll][e.key] # NoDoc
           THEN Finish(p) /\ UNCHANGED disk
           ELSE Open(p, e.doc)
    /\ UNCHANGED memory

\* An update loads the document and applies itself to it.  updateOne still has
\* the document it matched, which is what loading it again returns.
OpenRewrite(p) ==
    /\ At(p, "doc") /\ job[p].todo # <<>> /\ job[p].by # NoUpdate
    /\ LET c == job[p].coll
           found == LoadDocument(index[p][c], cache[p][c], Head(job[p].todo).key)
       IN  IF found = {}
           THEN Finish(p) /\ UNCHANGED <<disk, cache>>
           ELSE \E r \in found : Open(p, job[p].by[r.doc]) /\ cache' = Put1(cache, p, c, r.cache)
    /\ UNCHANGED <<heads, loaded, index, indexes>>

\* put returns; the index and the cache follow, under the key.
WriteDoc(p) ==
    /\ pc[p] = "docw"
    /\ LET c == job[p].coll
           e == Head(job[p].todo)
       IN  /\ PutReturns(e.doc)
           /\ index' = Put1(index, p, c, [index[p][c] EXCEPT ![e.key] = e.doc])
           /\ cache' = Put1(cache, p, c, [cache[p][c] EXCEPT ![e.key] = e.doc])
           /\ rekeyed' = IF e.doc.id = e.key THEN rekeyed ELSE rekeyed \cup {c}
    /\ Goto(p, "doc")
    /\ job' = [job EXCEPT ![p] = [job[p] EXCEPT !.todo = Tail(job[p].todo)]]
    /\ UNCHANGED <<heads, loaded, indexes, lock>>

\* All documents are stored: on to persistMeta.
DocsDone(p) ==
    /\ At(p, "doc") /\ job[p].todo = <<>>
    /\ Goto(p, "meta")
    /\ UNCHANGED <<disk, memory, lock, job>>

\* persistMeta, first half: the CollectionMeta block.
OpenMeta(p) ==
    /\ At(p, "meta")
    /\ Truncate(MetaOf(p, job[p].coll))
    /\ Goto(p, "metaw")
    /\ UNCHANGED <<memory, lock, job>>

\* Mutant: the head is set although the meta block never got its data.
WriteMetaSkipped(p) ==
    /\ At(p, "metaw")
    /\ Goto(p, "head")
    /\ UNCHANGED <<disk, memory, lock, job>>

WriteMeta(p) ==
    /\ pc[p] = "metaw"
    /\ PutReturns(MetaOf(p, job[p].coll))
    /\ Goto(p, "head")
    /\ UNCHANGED <<memory, lock, job, rekeyed>>

\* HeadRegistry::persist writes the whole of heads_ to a temporary file and
\* renames it over the registry.
Persist(newHeads) ==
    /\ registry' = newHeads
    /\ published' = [c \in Colls |->
           IF newHeads[c] = NoMeta THEN published[c] ELSE published[c] \cup {newHeads[c]}]
    /\ UNCHANGED <<whole, written, lost>>

\* heads_ after setHead, removeHead and clear.
HeadSet(p, c) == [heads[p] EXCEPT ![c] = MetaOf(p, c)]
HeadRemoved(p, c) == [heads[p] EXCEPT ![c] = NoMeta]
NoHeads == [c \in Colls |-> NoMeta]

SetHeads(p, newHeads) ==
    /\ heads' = [heads EXCEPT ![p] = newHeads]
    /\ Persist(newHeads)

\* persistMeta, second half: setHead, and the end of the operation.
SetHead(p) ==
    /\ At(p, "head")
    /\ SetHeads(p, HeadSet(p, job[p].coll))
    /\ Finish(p)
    /\ UNCHANGED <<loaded, index, cache, indexes>>

\* What follows a drop: the end, or the next collection of dropDatabase.
AfterDrop(p) ==
    \/ At(p, "unhead") /\ Finish(p)
    \/ At(p, "dbhead") /\ Goto(p, "dropdb") /\ lock' = None /\ UNCHANGED job

\* Mutant: drop removes the head and keeps the document index.
RemoveHeadKeepsIndex(p) ==
    LET c == job[p].coll IN
    /\ AfterDrop(p)
    /\ SetHeads(p, HeadRemoved(p, c))
    /\ loaded' = Put1(loaded, p, c, FALSE)
    /\ SetMemory(p, c, index[p][c], cache[p][c], {})

\* drop: removeHead, then the collection forgets what it had.
RemoveHead(p) ==
    LET c == job[p].coll IN
    /\ AfterDrop(p)
    /\ SetHeads(p, HeadRemoved(p, c))
    /\ loaded' = Put1(loaded, p, c, FALSE)
    /\ SetMemory(p, c, NoDocs, NoDocs, {})

\* dropDatabase goes on to another collection.
DropNext(p) ==
    /\ At(p, "dropdb") /\ lock = None
    /\ \E c \in job[p].more :
          job' = [job EXCEPT ![p] =
                     [job[p] EXCEPT !.coll = c, !.more = job[p].more \ {c}]]
    /\ lock' = p
    /\ Goto(p, "dbhead")
    /\ UNCHANGED <<disk, memory>>

\* dropDatabase ends with HeadRegistry::clear, outside the store lock.
ClearHeads(p) ==
    /\ At(p, "dropdb") /\ job[p].more = {}
    /\ SetHeads(p, NoHeads)
    /\ Finish(p)
    /\ UNCHANGED <<loaded, index, cache, indexes>>

\* put (or applyUpdate before it) throws.  An opened file stays truncated, or
\* still gets its data when only the metadata file failed.  The guard releases
\* the lock; the index keeps what the operation had done to it.
PutThrows(p) ==
    /\ faults < MaxFaults /\ faults' = faults + 1
    /\ \/ pc[p] \in {"doc", "docw", "meta", "metaw"} /\ UNCHANGED disk
       \/ pc[p] = "docw" /\ WriteOut(Head(job[p].todo).doc)
       \/ pc[p] = "metaw" /\ WriteOut(MetaOf(p, job[p].coll))
    /\ Finish(p)
    /\ UNCHANGED <<memory, ops, crashes, rekeyed>>

\* The head registry throws: persist does so after heads_ has been changed,
\* acquireLock before.
RegistryThrows(p) ==
    /\ faults < MaxFaults /\ faults' = faults + 1
    /\ \E h \in {heads[p], CASE pc[p] = "head" -> HeadSet(p, job[p].coll)
                             [] pc[p] \in {"unhead", "dbhead"} -> HeadRemoved(p, job[p].coll)
                             [] OTHER -> NoHeads} :
          heads' = [heads EXCEPT ![p] = h]
    /\ \/ pc[p] \in {"head", "unhead", "dbhead"}
       \/ pc[p] = "dropdb" /\ job[p].more = {}
    /\ Finish(p)
    /\ UNCHANGED <<disk, loaded, index, cache, indexes, ops, crashes, rekeyed>>

-----------------------------------------------------------------------------
(***************************************************************************)
(* Reading takes no lock and reloads only what was never loaded.           *)
(***************************************************************************)

\* find and findOne: V are the documents the scan has read when it ends, at
\* the end of the index, at a match or limit, or at a block it cannot read.
FindIn(p, c, idx, ch, xs) ==
    \E V \in SUBSET In(idx) : \E after \in Scans(idx, ch, V) :
        /\ V = {} => In(idx) = {} \/ \E i \in In(idx) : LoadDocument(idx, ch, i) = {}
        /\ SetMemory(p, c, idx, after, xs)

Find(p, c) ==
    /\ pc[p] = "idle"
    /\ \/ loaded[p][c] /\ FindIn(p, c, index[p][c], cache[p][c], indexes[p][c])
       \/ /\ ~loaded[p][c] /\ Loadable(p, c)
          /\ FindIn(p, c, LoadedIndex(p, c), LoadedCache(p, c), LoadedIndexes(p, c))
    /\ loaded' = Put1(loaded, p, c, TRUE)
    /\ UNCHANGED <<disk, heads, lock, pc, job, history>>

-----------------------------------------------------------------------------
Operation(p) == \E c \in Colls :
    \/ \E b \in Batches : Insert(p, c, b)
    \/ \E f \in Filters, u \in Updates : UpdateOne(p, c, f, u) \/ UpdateMany(p, c, f, u)
    \/ \E f \in Filters : DeleteOne(p, c, f) \/ DeleteMany(p, c, f)
    \/ \E n \in IndexNames : CreateIndex(p, c, n) \/ DropIndex(p, c, n)
    \/ Drop(p, c) \/ DropDatabase(p, c)
    \/ ScanThrows(p, c) \/ WriteFailsToLoad(p, c) \/ Find(p, c)

Step(p) ==
    \/ OpenNew(p) \/ OpenRewrite(p) \/ WriteDoc(p) \/ DocsDone(p)
    \/ OpenMeta(p) \/ WriteMeta(p) \/ SetHead(p)
    \/ RemoveHead(p) \/ DropNext(p) \/ ClearHeads(p)
    \/ PutThrows(p) \/ RegistryThrows(p)

Next == \E p \in Procs :
    Connect(p) \/ Reconnect(p) \/ Operation(p) \/ Step(p) \/ Crash(p)

Spec == Init /\ [][Next]_vars

-----------------------------------------------------------------------------
TypeOK ==
    /\ registry \in Heads
    /\ whole \subseteq Blocks /\ written \subseteq Blocks /\ lost \subseteq Blocks
    /\ published \in [Colls -> SUBSET Metas]
    /\ lock \in Procs \cup {None}
    /\ heads \in [Procs -> Heads]
    /\ loaded \in [Procs -> [Colls -> BOOLEAN]]
    /\ index \in [Procs -> [Colls -> Index]]
    /\ cache \in [Procs -> [Colls -> Index]]
    /\ indexes \in [Procs -> [Colls -> SUBSET IndexNames]]
    /\ pc \in [Procs -> PCs]
    /\ job \in [Procs -> Jobs \cup {NoJob}]
    /\ rekeyed \subseteq Colls
    /\ ops \in 0..MaxOps /\ crashes \in 0..MaxCrashes /\ faults \in 0..MaxFaults

\* A process inside an operation has a job, and an open document to write;
\* the documents of an insert are those of its batch.
JobOK == \A p \in Procs :
    /\ pc[p] \notin Resting => job[p] \in Jobs
    /\ pc[p] = "docw" => job[p].todo # <<>> /\ Head(job[p].todo).doc # NoDoc
    /\ job[p].by = NoUpdate => \A k \in 1..Len(job[p].todo) : job[p].todo[k].doc # NoDoc

\* put has returned for the block: it was whole then, or lost unnoticed.
Put(b) == b \in written \cup lost

\* All documents an index leads to have been put.
Stored(idx) == \A i \in Ids : idx[i] # NoDoc => Put(idx[i])

\* A head that is closed: its meta block and its documents have been put.
Closed(h) == h # NoMeta => Put(h) /\ Stored(h.mappings)

\* Crash consistency of the order of writes: whatever process dies or fails
\* where, and however the registry is overwritten by others, every head in
\* head-registry.json names a CollectionMeta block that was stored before it,
\* and so were all documents it maps to (persistMeta puts, then sets the head).
HeadsClosed == \A c \in Colls : Closed(registry[c])

\* Its strengthening: the heads and indexes in every process's memory, also
\* the leftovers of operations that failed half way, lead to stored blocks
\* only, and a head about to be set names a block that has been put.
MemoryClosed ==
    /\ \A p \in Procs, c \in Colls : Closed(heads[p][c]) /\ Stored(index[p][c])
    /\ \A p \in Procs : pc[p] = "head" => Put(MetaOf(p, job[p].coll))

StoreInv == TypeOK /\ JobOK /\ HeadsClosed /\ MemoryClosed

\* The document cache never answers for a checksum it does not belong to: in a
\* collection in which no update has changed an `_id`, a cached document is the
\* one the index names, through reloads, deletes, drops and failed operations
\* (loadDocument trusts docCache_, which it fills by the document's own `_id`
\* and the operations fill by key; where these differ, it answers wrongly).
CacheCoherent == \A p \in Procs, c \in Colls \ rekeyed, i \in Ids :
    cache[p][c][i] # NoDoc => cache[p][c][i] = index[p][c][i]

\* A process that only reads sees, in each collection, documents and indexes
\* that one commit published together, or nothing: never a mixture of two
\* commits, whatever the writer and its crashes do (find, loadFromStore).
ReaderSnapshot == \A p \in Procs \ Writers, c \in Colls :
    MetaOf(p, c) \in published[c] \cup {[mappings |-> NoDocs, indexes |-> {}]}

Committed(c) == IF registry[c] = NoMeta THEN NoDocs ELSE registry[c].mappings
CommittedIndexes(c) == IF registry[c] = NoMeta THEN {} ELSE registry[c].indexes

\* The registry follows the abstract document store: every commit applies one
\* whole operation to the contents committed before it, also after crashes in
\* the middle of earlier operations, drops and rejected inserts (where updates
\* keep the `_id`: otherwise one may be applied to the wrong document).
Abstract == INSTANCE DocumentStore WITH
    docs <- [c \in Colls |-> Committed(c)],
    indexes <- [c \in Colls |-> CommittedIndexes(c)]
CommitsAreSerial == Abstract!Spec

-----------------------------------------------------------------------------
(***************************************************************************)
(* What the design document says and the code does not do.                 *)
(***************************************************************************)

\* The store lock "prevents lost updates when concurrent processes perform
\* read-modify-write cycles on collection metadata": where clients only
\* insert, no document that a commit published disappears again.
NoLostInserts == \A c \in Colls : \A m \in published[c] : \A i \in Ids :
    m.mappings[i] # NoDoc => Committed(c)[i] # NoDoc
=============================================================================
