------------------------ MODULE BrightChainDbProofs ------------------------
(***************************************************************************)
(* For any number of processes, collections, documents, operations,        *)
(* crashes and faults: heads lead to stored blocks only (StoreSafe), the   *)
(* document cache agrees with the document index where no update changed   *)
(* an `_id` (CacheSafe), and readers see what one commit published         *)
(* (ReaderSafe).  With one writer, no I/O errors and updates that keep the *)
(* `_id`, the registry implements DocumentStore (SerialSafe).              *)
(***************************************************************************)
EXTENDS BrightChainDb, FiniteSetTheorems, TLAPS

USE DbAssumption

\* An index that leads from each key to a document with that `_id`, and a
\* cache that agrees with it.
Keyed(idx) == \A i \in Ids : idx[i] # NoDoc => idx[i].id = i
Coherent(idx, ch) == \A i \in Ids : ch[i] # NoDoc => ch[i] = idx[i]
Fit(idx, ch) == Keyed(idx) /\ Coherent(idx, ch)
KeyedHead(h) == h # NoMeta => Keyed(h.mappings)

\* The strengthening of CacheCoherent: loadDocument caches under `_id`, so the
\* indexes, and the heads they are loaded from, must be keyed by it.
Fitting == \A c \in Colls \ rekeyed :
    /\ KeyedHead(registry[c])
    /\ \A p \in Procs : KeyedHead(heads[p][c]) /\ Fit(index[p][c], cache[p][c])

DbInv == StoreInv /\ Fitting

-----------------------------------------------------------------------------
(***************************************************************************)
(* The helpers of the actions.                                             *)
(***************************************************************************)

LEMMA NoDocsOK == NoDocs \in Index /\ Stored(NoDocs) /\ \A idx : Keyed(idx) => Fit(idx, NoDocs)
BY DEF NoDocs, Index, Stored, Fit, Coherent

LEMMA NoDocsKeyed == Keyed(NoDocs)
BY DEF NoDocs, Keyed

\* What loadFromStore leaves is well formed, stored, and coherent.
LEMMA LoadedOK ==
    ASSUME DbInv, NEW p \in Procs, NEW c \in Colls
    PROVE  /\ LoadedIndex(p, c) \in Index
           /\ LoadedCache(p, c) \in Index
           /\ LoadedIndexes(p, c) \in SUBSET IndexNames
           /\ Stored(LoadedIndex(p, c))
           /\ c \notin rekeyed => Fit(LoadedIndex(p, c), LoadedCache(p, c))
<1>1. /\ heads[p][c] \in Metas \cup {NoMeta}
      /\ index[p][c] \in Index /\ cache[p][c] \in Index
      /\ indexes[p][c] \in SUBSET IndexNames
  BY DEF DbInv, StoreInv, TypeOK, Heads
<1>2. Closed(heads[p][c]) /\ Stored(index[p][c])
  BY DEF DbInv, StoreInv, MemoryClosed
<1>3. c \notin rekeyed => KeyedHead(heads[p][c]) /\ Fit(index[p][c], cache[p][c])
  BY DEF DbInv, Fitting
<1>5. CASE heads[p][c] = NoMeta
  BY <1>1, <1>2, <1>3, <1>5 DEF LoadedIndex, LoadedCache, LoadedIndexes
<1>6. CASE heads[p][c] # NoMeta
  BY <1>1, <1>2, <1>3, <1>6, NoDocsOK
     DEF LoadedIndex, LoadedCache, LoadedIndexes, Metas, Closed, KeyedHead
<1> QED BY <1>5, <1>6

\* What a scan may leave in the cache: documents of the index, under its keys
\* if they are the documents' own ids.
LEMMA HeldOK ==
    ASSUME NEW idx \in Index, NEW ch \in Index, NEW V \in SUBSET In(idx), NEW j \in Ids,
           NEW d \in Held(idx, ch, V, j)
    PROVE  /\ d \in Docs \cup {NoDoc}
           /\ Fit(idx, ch) /\ d # NoDoc => d = idx[j]
<1>1. d = ch[j] \/ \E i \in V : d = idx[i] /\ idx[i].id = j
  BY DEF Held
<1>2. V \subseteq Ids /\ \A i \in V : idx[i] # NoDoc
  BY DEF In
<1> QED BY <1>1, <1>2 DEF Index, Fit, Keyed, Coherent

LEMMA ScansOK ==
    ASSUME NEW idx \in Index, NEW ch \in Index, NEW V \in SUBSET In(idx),
           NEW after \in Scans(idx, ch, V)
    PROVE  after \in Index /\ (Fit(idx, ch) => Fit(idx, after))
<1>1. /\ after \in [Ids -> UNION {Held(idx, ch, V, j) : j \in Ids}]
      /\ \A j \in Ids : after[j] \in Held(idx, ch, V, j)
  BY DEF Scans
<1>2. \A j \in Ids : /\ after[j] \in Docs \cup {NoDoc}
                     /\ Fit(idx, ch) /\ after[j] # NoDoc => after[j] = idx[j]
  BY <1>1, HeldOK
<1>3. after = [j \in Ids |-> after[j]]
  BY <1>1
<1>4. after \in Index
  BY <1>2, <1>3 DEF Index
<1> QED BY <1>2, <1>4 DEF Fit, Coherent

\* A scan under a coherent cache reads the documents the index names.
LEMMA SeenOK ==
    ASSUME NEW idx \in Index, NEW ch \in Index, NEW V \in SUBSET In(idx),
           NEW after, Fit(idx, ch), NEW i \in V, NEW d \in Seen(idx, ch, V, after, i)
    PROVE  d = idx[i]
<1>1. CASE d \in {idx[i]}
  BY <1>1
<1>2. CASE d \in UNION {Held(idx, ch, V, j) \ {NoDoc} : j \in Covers(idx, after, i)}
  <2>1. PICK j \in Covers(idx, after, i) : d \in Held(idx, ch, V, j) \ {NoDoc}
    BY <1>2
  <2>2. j \in Ids /\ idx[j] = idx[i]
    BY <2>1 DEF Covers
  <2> QED BY <2>1, <2>2, HeldOK
<1> QED BY <1>1, <1>2 DEF Seen

\* loadDocument returns a document, and keeps the cache.
LEMMA LoadDocumentOK ==
    ASSUME TypeOK, NEW idx \in Index, NEW ch \in Index, NEW i \in Ids,
           NEW r \in LoadDocument(idx, ch, i)
    PROVE  /\ r.doc \in Docs /\ r.cache \in Index
           /\ Fit(idx, ch) => Fit(idx, r.cache)
           /\ Fit(idx, ch) => r.doc = idx[i]
<1>1. CASE Covers(idx, ch, i) # {}
  <2>1. PICK j \in Covers(idx, ch, i) : r = [doc |-> ch[j], cache |-> ch]
    BY <1>1 DEF LoadDocument
  <2>2. r.doc = ch[j] /\ r.cache = ch
    BY <2>1
  <2>3. j \in Ids /\ ch[j] # NoDoc /\ idx[j] = idx[i] /\ ch[j] \in Docs \cup {NoDoc}
    BY <2>1 DEF Covers, Index
  <2> QED BY <2>2, <2>3 DEF Fit, Coherent
<1>2. CASE Covers(idx, ch, i) = {}
  <2>1. PICK d \in {idx[i]} \cap whole : r = [doc |-> d, cache |-> Caching(ch, d)]
    BY <1>2 DEF LoadDocument
  <2>2. r.doc = d /\ r.cache = Caching(ch, d)
    BY <2>1
  <2>3. d = idx[i] /\ d \in Docs
    <3>1. d \in Blocks /\ d \in Docs \cup {NoDoc} /\ NoDoc \notin Blocks
      BY <2>1, DbAssumption DEF TypeOK, Index, Blocks
    <3> QED BY <2>1, <3>1
  <2>4. Caching(ch, d) \in Index
    BY <2>3 DEF Caching, Index
  <2>5. ASSUME Fit(idx, ch) PROVE Fit(idx, Caching(ch, d))
    <3>1. d.id = i
      BY <2>3, <2>5, DbAssumption DEF Fit, Keyed
    <3>2. ASSUME NEW j \in Ids, Caching(ch, d)[j] # NoDoc PROVE Caching(ch, d)[j] = idx[j]
      BY <2>3, <2>5, <3>1, <3>2 DEF Caching, Fit, Coherent
    <3> QED BY <2>5, <3>2 DEF Fit, Coherent
  <2> QED BY <2>2, <2>3, <2>4, <2>5
<1> QED BY <1>1, <1>2

\* Deleting documents from the index and the cache.
LEMMA WithoutOK ==
    ASSUME NEW idx \in Index, NEW ch \in Index, Stored(idx), NEW S
    PROVE  /\ Without(idx, S) \in Index /\ Without(ch, S) \in Index
           /\ Stored(Without(idx, S))
           /\ Fit(idx, ch) => Fit(Without(idx, S), Without(ch, S))
<1>1. Without(idx, S) \in Index /\ Without(ch, S) \in Index
  BY DEF Index, Without
<1>2. Fit(idx, ch) => Fit(Without(idx, S), Without(ch, S))
  BY DEF Index, Without, Fit, Keyed, Coherent
<1>3. Stored(Without(idx, S))
  BY DEF Index, Without, Stored
<1> QED BY <1>1, <1>2, <1>3

-----------------------------------------------------------------------------
(***************************************************************************)
(* What a step has to keep.                                                *)
(***************************************************************************)

\* What a step may do to the memory of one collection: nothing, or replace it
\* by a stored index with a fitting cache.
MemoryMoves(q, c) ==
    \/ /\ index'[q][c] = index[q][c] /\ cache'[q][c] = cache[q][c]
       /\ indexes'[q][c] = indexes[q][c]
    \/ /\ pc'[q] # "head"
       /\ c \notin rekeyed' => Fit(index'[q][c], cache'[q][c])
       /\ \A i \in Ids : index'[q][c][i] \in {NoDoc, index[q][c][i]} \cup written' \cup lost'

\* What a step has to show besides types: put blocks stay put; a head comes
\* from the registry, from the memory of the process, or is one about to be
\* set; a process comes to "head" with its CollectionMeta block put.
LEMMA FrameStep ==
    ASSUME DbInv, TypeOK', JobOK', NEW p \in Procs,
           written \subseteq written', lost \subseteq lost', rekeyed \subseteq rekeyed',
           \A q \in Procs, c \in Colls :
              \/ heads'[q][c] \in {heads[q][c], registry[c], NoMeta}
              \/ pc[q] = "head" /\ c = job[q].coll /\ heads'[q][c] = MetaOf(q, c),
           registry' \in {registry, heads'[p]},
           \A q \in Procs, c \in Colls : MemoryMoves(q, c),
           \A q \in Procs : pc'[q] = "head" =>
              /\ job'[q] = job[q] /\ job[q] \in Jobs
              /\ pc[q] = "head" \/ MetaOf(q, job[q].coll) \in written' \cup lost'
    PROVE  DbInv'
<1> USE DEF DbInv, StoreInv
<1>1. \A q \in Procs, c \in Colls : Stored(index[q][c])'
  BY DEF MemoryClosed, MemoryMoves, Stored, Put
<1>2. \A q \in Procs, c \in Colls : Closed(heads[q][c])'
  <2> SUFFICES ASSUME NEW q \in Procs, NEW c \in Colls
               PROVE  Closed(heads[q][c])'
    OBVIOUS
  <2>1. CASE heads'[q][c] \in {heads[q][c], registry[c], NoMeta}
    BY <2>1 DEF MemoryClosed, HeadsClosed, Closed, Stored, Put
  <2>2. CASE pc[q] = "head" /\ c = job[q].coll /\ heads'[q][c] = MetaOf(q, c)
    <3>1. MetaOf(q, c) \in written' \cup lost'
      BY <2>2 DEF MemoryClosed, Put
    <3>2. \A i \in Ids : index[q][c][i] # NoDoc => index[q][c][i] \in written' \cup lost'
      BY DEF MemoryClosed, Stored, Put
    <3> QED BY <2>2, <3>1, <3>2 DEF Closed, Stored, Put, MetaOf
  <2> QED BY <2>1, <2>2
<1>3. HeadsClosed'
  BY <1>2 DEF HeadsClosed, Closed, Stored, Put
<1>4. ASSUME NEW q \in Procs, pc'[q] = "head"
      PROVE  Put(MetaOf(q, job[q].coll))'
  <2>1. job'[q] = job[q] /\ job[q] \in Jobs
    BY <1>4
  <2>2. MetaOf(q, job[q].coll)' = MetaOf(q, job[q].coll)
    BY <1>4, <2>1 DEF MetaOf, Jobs, MemoryMoves
  <2>3. MetaOf(q, job[q].coll) \in written' \cup lost'
    BY <1>4 DEF MemoryClosed, Put
  <2> QED BY <2>2, <2>3 DEF Put
<1>5. MemoryClosed'
  BY <1>1, <1>2, <1>4 DEF MemoryClosed
<1>6. ASSUME NEW q \in Procs, NEW c \in Colls \ rekeyed' PROVE KeyedHead(heads'[q][c])
  <2>1. KeyedHead(registry[c]) /\ KeyedHead(heads[q][c]) /\ Keyed(index[q][c])
    BY DEF Fitting, Fit
  <2>2. KeyedHead(NoMeta) /\ KeyedHead(MetaOf(q, c))
    BY <2>1 DEF KeyedHead, MetaOf
  <2> QED BY <2>1, <2>2
<1>7. ASSUME NEW q \in Procs, NEW c \in Colls \ rekeyed' PROVE Fit(index'[q][c], cache'[q][c])
  <2>1. Fit(index[q][c], cache[q][c])
    BY DEF Fitting
  <2> QED BY <2>1 DEF MemoryMoves
<1>8. \A c \in Colls \ rekeyed' : KeyedHead(registry'[c])
  BY <1>6 DEF Fitting
<1>9. Fitting'
  BY <1>6, <1>7, <1>8 DEF Fitting, KeyedHead, Fit, Keyed, Coherent
<1> QED BY <1>3, <1>5, <1>9
-----------------------------------------------------------------------------
(***************************************************************************)
(* Steps that replace the memory of one collection and no block.           *)
(***************************************************************************)

\* The documents of a job without an update are known.
Made(j) == j.by = NoUpdate => \A k \in 1..Len(j.todo) : j.todo[k].doc # NoDoc

\* A stored index, and a cache, that a collection may have.
Sound(c, idx, ch, xs) ==
    /\ idx \in Index /\ ch \in Index /\ xs \in SUBSET IndexNames
    /\ Stored(idx)
    /\ c \notin rekeyed => Fit(idx, ch)

\* A step of p that leaves the disk's blocks, and the heads, as they were and
\* gives a collection a stored index with a fitting cache preserves DbInv.
LEMMA MemoryStep ==
    ASSUME DbInv, NEW p \in Procs, NEW c \in Colls,
           NEW idx, NEW ch, NEW xs, Sound(c, idx, ch, xs),
           SetMemory(p, c, idx, ch, xs),
           NEW l \in BOOLEAN, loaded' = Put1(loaded, p, c, l),
           UNCHANGED <<disk, heads, crashes, faults, rekeyed>>,
           ops' \in 0..MaxOps,
           lock' \in Procs \cup {None},
           pc' \in [Procs -> PCs], job' \in [Procs -> Jobs \cup {NoJob}],
           \A q \in Procs \ {p} : pc'[q] = pc[q] /\ job'[q] = job[q],
           pc'[p] \in {"idle", "doc", "meta"}, Made(job'[p]),
           pc'[p] # "idle" => job'[p] \in Jobs
    PROVE  DbInv'
<1> USE DEF DbInv, StoreInv
<1>0. /\ index \in [Procs -> [Colls -> Index]] /\ cache \in [Procs -> [Colls -> Index]]
      /\ indexes \in [Procs -> [Colls -> SUBSET IndexNames]]
      /\ idx \in Index /\ ch \in Index /\ xs \in SUBSET IndexNames
  BY DEF TypeOK, Sound
<1>1. /\ index' \in [Procs -> [Colls -> Index]]
      /\ \A q \in Procs, d \in Colls :
            index'[q][d] = IF q = p /\ d = c THEN idx ELSE index[q][d]
  BY <1>0 DEF SetMemory, Put1
<1>2. /\ cache' \in [Procs -> [Colls -> Index]]
      /\ \A q \in Procs, d \in Colls :
            cache'[q][d] = IF q = p /\ d = c THEN ch ELSE cache[q][d]
  BY <1>0 DEF SetMemory, Put1
<1>3. /\ indexes' \in [Procs -> [Colls -> SUBSET IndexNames]]
      /\ \A q \in Procs, d \in Colls :
            indexes'[q][d] = IF q = p /\ d = c THEN xs ELSE indexes[q][d]
  BY <1>0 DEF SetMemory, Put1
<1>4. loaded' \in [Procs -> [Colls -> BOOLEAN]]
  BY DEF TypeOK, Put1
<1>5. TypeOK'
  BY <1>1, <1>2, <1>3, <1>4 DEF TypeOK, disk
<1>6. JobOK'
  BY DEF JobOK, Resting, Made
<1>7. ASSUME NEW q \in Procs, NEW d \in Colls
      PROVE  MemoryMoves(q, d)
  <2>1. CASE q = p /\ d = c
    <3>1. \A i \in Ids : idx[i] \in {NoDoc} \cup written' \cup lost'
      BY DEF Sound, Stored, Put, disk
    <3> QED BY <2>1, <3>1, <1>1, <1>2 DEF Sound, MemoryMoves
  <2>2. CASE ~(q = p /\ d = c)
    BY <2>2, <1>1, <1>2, <1>3 DEF MemoryMoves
  <2> QED BY <2>1, <2>2
<1>8. \A q \in Procs : pc'[q] = "head" =>
         pc[q] = "head" /\ job'[q] = job[q] /\ job[q] \in Jobs
  BY DEF JobOK, Resting
<1> QED BY <1>5, <1>6, <1>7, <1>8, FrameStep DEF disk

\* The end of an operation keeps types, and the jobs of the others.
LEMMA FinishOK ==
    ASSUME TypeOK, NEW p \in Procs, Finish(p)
    PROVE  /\ lock' \in Procs \cup {None}
           /\ pc' = [pc EXCEPT ![p] = "idle"] /\ pc' \in [Procs -> PCs]
           /\ job' = [job EXCEPT ![p] = NoJob] /\ job' \in [Procs -> Jobs \cup {NoJob}]
BY DEF TypeOK, Finish, PCs, Resting

\* An operation's end leaves nothing to put.
LEMMA NoJobMade == Made(NoJob)
<1>1. NoJob.todo = <<>> /\ Len(<<>>) = 0
  BY DEF NoJob
<1> QED BY <1>1 DEF Made

\* So does going on with the lock.
LEMMA ContinueOK ==
    ASSUME TypeOK, NEW p \in Procs, NEW c \in Colls, NEW where \in PCs,
           NEW todo \in Seq(Entries), NEW by \in Updates \cup {NoUpdate},
           Continue(p, c, where, todo, by)
    PROVE  /\ lock' \in Procs \cup {None}
           /\ pc' = [pc EXCEPT ![p] = where] /\ pc' \in [Procs -> PCs]
           /\ job' \in [Procs -> Jobs \cup {NoJob}]
           /\ job'[p] \in Jobs /\ job'[p].todo = todo /\ job'[p].by = by
           /\ \A q \in Procs \ {p} : job'[q] = job[q]
BY DEF TypeOK, Continue, Jobs

\* A write operation that has loaded the collection and ends, or goes on to
\* put documents or the CollectionMeta block.
LEMMA OperationEnds ==
    ASSUME DbInv, NEW p \in Procs, NEW c \in Colls,
           NEW idx, NEW ch, NEW xs, Sound(c, idx, ch, xs),
           BeginWrite(p, c), SetMemory(p, c, idx, ch, xs), Finish(p)
    PROVE  DbInv'
<1>1. TypeOK
  BY DEF DbInv, StoreInv
<1>2. ops' \in 0..MaxOps /\ UNCHANGED <<disk, heads, crashes, faults, rekeyed>>
      /\ loaded' = Put1(loaded, p, c, TRUE)
  BY <1>1 DEF BeginWrite, TypeOK
<1>3. /\ \A q \in Procs \ {p} : pc'[q] = pc[q] /\ job'[q] = job[q]
      /\ pc'[p] = "idle" /\ job'[p] = NoJob
  BY <1>1, FinishOK DEF TypeOK
<1> QED BY <1>1, <1>2, <1>3, NoJobMade, FinishOK, MemoryStep

\* The same for an operation that goes on under the lock.
LEMMA OperationContinues ==
    ASSUME DbInv, NEW p \in Procs, NEW c \in Colls,
           NEW idx, NEW ch, NEW xs, Sound(c, idx, ch, xs),
           NEW where \in {"doc", "meta"},
           NEW todo \in Seq(Entries), NEW by \in Updates \cup {NoUpdate},
           by = NoUpdate => \A k \in 1..Len(todo) : todo[k].doc # NoDoc,
           BeginWrite(p, c), SetMemory(p, c, idx, ch, xs),
           Continue(p, c, where, todo, by)
    PROVE  DbInv'
<1>1. TypeOK
  BY DEF DbInv, StoreInv
<1>2. ops' \in 0..MaxOps /\ UNCHANGED <<disk, heads, crashes, faults, rekeyed>>
      /\ loaded' = Put1(loaded, p, c, TRUE)
  BY <1>1 DEF BeginWrite, TypeOK
<1>3. where \in PCs
  BY DEF PCs, Writing
<1>4. /\ \A q \in Procs \ {p} : pc'[q] = pc[q] /\ job'[q] = job[q]
      /\ pc'[p] = where /\ job'[p] \in Jobs
      /\ job'[p].todo = todo /\ job'[p].by = by
  BY <1>1, <1>3, ContinueOK DEF TypeOK
<1>5. /\ lock' \in Procs \cup {None} /\ pc' \in [Procs -> PCs]
      /\ job' \in [Procs -> Jobs \cup {NoJob}]
  BY <1>1, <1>3, ContinueOK
<1>6. Made(job'[p])
  BY <1>4 DEF Made
<1> QED BY <1>2, <1>4, <1>5, <1>6, MemoryStep

\* Going on to the CollectionMeta block, with no document to put.
LEMMA NothingToPut ==
    /\ <<>> \in Seq(Entries) /\ \A k \in 1..Len(<<>>) : <<>>[k].doc # NoDoc
    /\ NoUpdate \in Updates \cup {NoUpdate}
<1>1. Len(<<>>) = 0
  OBVIOUS
<1> QED BY <1>1

\* A collection as loaded, and after a scan of it.
LEMMA LoadedSound ==
    ASSUME DbInv, NEW p \in Procs, NEW c \in Colls
    PROVE  Sound(c, LoadedIndex(p, c), LoadedCache(p, c), LoadedIndexes(p, c))
BY LoadedOK DEF Sound

LEMMA ScannedSound ==
    ASSUME NEW c, NEW idx, NEW ch, NEW xs, Sound(c, idx, ch, xs),
           NEW V \in SUBSET In(idx), NEW after \in Scans(idx, ch, V)
    PROVE  Sound(c, idx, after, xs)
BY ScansOK DEF Sound

\* What an update has yet to make.
LEMMA UnmadeOK ==
    ASSUME NEW hit \in SUBSET Ids, NEW s \in [1..Cardinality(hit) -> {Unmade(i) : i \in hit}]
    PROVE  s \in Seq(Entries)
<1>1. Cardinality(hit) \in Nat
  BY FS_Subset, FS_CardinalityType
<1>2. {Unmade(i) : i \in hit} \subseteq Entries
  BY DEF Unmade, Entries
<1> QED BY <1>1, <1>2

\* updateOne, updateMany once the matches are known.
LEMMA UpdateScannedStep ==
    ASSUME DbInv, NEW p \in Procs, NEW c \in Colls, NEW u \in Updates,
           NEW ch, NEW hit \in SUBSET Ids,
           Sound(c, LoadedIndex(p, c), ch, LoadedIndexes(p, c)),
           BeginWrite(p, c), UpdateScanned(p, c, u, ch, hit)
    PROVE  DbInv'
<1>1. SetMemory(p, c, LoadedIndex(p, c), ch, LoadedIndexes(p, c))
  BY DEF UpdateScanned
<1>3. CASE hit = {}
  BY <1>1, <1>3, OperationEnds DEF UpdateScanned
<1>4. CASE hit # {}
  <2>1. PICK s \in [1..Cardinality(hit) -> {Unmade(i) : i \in hit}] :
                 Continue(p, c, "doc", s, u)
    BY <1>4 DEF UpdateScanned
  <2>2. s \in Seq(Entries)
    BY UnmadeOK
  <2>3. u \in Updates \cup {NoUpdate} /\ u # NoUpdate
    BY DbAssumption
  <2> QED BY <1>1, <2>1, <2>2, <2>3, OperationContinues
<1> QED BY <1>3, <1>4

\* deleteOne, deleteMany once the matches are known.
LEMMA DeleteScannedStep ==
    ASSUME DbInv, NEW p \in Procs, NEW c \in Colls,
           NEW ch, NEW hit \in SUBSET Ids,
           Sound(c, LoadedIndex(p, c), ch, LoadedIndexes(p, c)),
           BeginWrite(p, c), DeleteScanned(p, c, ch, hit)
    PROVE  DbInv'
<1>1. Sound(c, Without(LoadedIndex(p, c), hit), Without(ch, hit), LoadedIndexes(p, c))
  BY WithoutOK DEF Sound
<1>2. SetMemory(p, c, Without(LoadedIndex(p, c), hit), Without(ch, hit), LoadedIndexes(p, c))
  BY DEF DeleteScanned
<1>3. Finish(p) \/ Continue(p, c, "meta", <<>>, NoUpdate)
  BY DEF DeleteScanned
<1> QED BY <1>1, <1>2, <1>3, NothingToPut, OperationEnds, OperationContinues

\* find and findOne.
LEMMA FindStep ==
    ASSUME DbInv, NEW p \in Procs, NEW c \in Colls, Find(p, c)
    PROVE  DbInv'
<1>1. TypeOK /\ JobOK
  BY DEF DbInv, StoreInv
<1>2. PICK idx, ch0, xs : Sound(c, idx, ch0, xs) /\ FindIn(p, c, idx, ch0, xs)
  <2>1. CASE loaded[p][c] /\ FindIn(p, c, index[p][c], cache[p][c], indexes[p][c])
    <3>1. /\ index[p][c] \in Index /\ cache[p][c] \in Index
          /\ indexes[p][c] \in SUBSET IndexNames
      BY <1>1 DEF TypeOK
    <3>2. Stored(index[p][c]) /\ (c \notin rekeyed => Fit(index[p][c], cache[p][c]))
      BY DEF DbInv, StoreInv, MemoryClosed, Fitting
    <3> QED BY <2>1, <3>1, <3>2 DEF Sound
  <2>2. CASE FindIn(p, c, LoadedIndex(p, c), LoadedCache(p, c), LoadedIndexes(p, c))
    BY <2>2, LoadedSound
  <2> QED BY <2>1, <2>2 DEF Find
<1>3. PICK V \in SUBSET In(idx) : \E ch \in Scans(idx, ch0, V) : SetMemory(p, c, idx, ch, xs)
  BY <1>2 DEF FindIn
<1>4. PICK ch \in Scans(idx, ch0, V) : SetMemory(p, c, idx, ch, xs)
  BY <1>3
<1>5. Sound(c, idx, ch, xs)
  BY <1>2, <1>3, <1>4, ScannedSound
<1>6. /\ UNCHANGED <<disk, heads, lock, pc, job, ops, crashes, faults, rekeyed>>
      /\ loaded' = Put1(loaded, p, c, TRUE) /\ pc[p] = "idle"
  BY DEF Find, bounds, history
<1>7. /\ ops' \in 0..MaxOps /\ lock' \in Procs \cup {None}
      /\ pc' \in [Procs -> PCs] /\ job' \in [Procs -> Jobs \cup {NoJob}]
      /\ pc'[p] = "idle"
      /\ \A q \in Procs \ {p} : pc'[q] = pc[q] /\ job'[q] = job[q]
  BY <1>1, <1>6 DEF TypeOK
<1>8. UNCHANGED <<disk, heads, crashes, faults, rekeyed>> /\ Made(job'[p])
  BY <1>1, <1>6 DEF JobOK, Made
<1> QED BY <1>4, <1>5, <1>6, <1>7, <1>8, MemoryStep

\* drop and the start of dropDatabase.
LEMMA StartDropStep ==
    ASSUME DbInv, NEW p \in Procs, NEW c \in Colls, NEW more \in SUBSET Colls,
           NEW where \in {"unhead", "dbhead"}, StartDrop(p, c, where, more)
    PROVE  DbInv'
<1>1. TypeOK /\ JobOK
  BY DEF DbInv, StoreInv
<1> DEFINE j == [coll |-> c, todo |-> <<>>, by |-> NoUpdate, more |-> more]
<1>2. j \in Jobs /\ Made(j)
  BY NothingToPut DEF Jobs, Made
<1>3. job' = [job EXCEPT ![p] = j] /\ pc' = [pc EXCEPT ![p] = where] /\ lock' = p
  BY DEF StartDrop
<1>4. UNCHANGED <<disk, memory, crashes, faults, rekeyed>> /\ ops' \in 0..MaxOps
  BY <1>1 DEF StartDrop, TypeOK
<1> HIDE DEF j
<1>5. TypeOK'
  BY <1>1, <1>2, <1>3, <1>4 DEF TypeOK, disk, memory, PCs, Writing
<1>6. JobOK'
  BY <1>1, <1>2, <1>3 DEF TypeOK, JobOK, Made
<1>7. \A q \in Procs : pc'[q] = "head" =>
         pc[q] = "head" /\ job'[q] = job[q] /\ job[q] \in Jobs
  BY <1>1, <1>3 DEF TypeOK, JobOK, Resting
<1>8. \A q \in Procs, d \in Colls : MemoryMoves(q, d)
  BY <1>4 DEF MemoryMoves, memory
<1> QED BY <1>4, <1>5, <1>6, <1>7, <1>8, FrameStep DEF disk, memory

\* The documents of a batch, to be put.
LEMMA BatchOK ==
    ASSUME NEW b \in Batches
    PROVE  LET todo == [k \in DOMAIN b |-> [key |-> b[k].id, doc |-> b[k]]]
           IN  todo \in Seq(Entries) /\ \A k \in 1..Len(todo) : todo[k].doc # NoDoc
<1> DEFINE todo == [k \in DOMAIN b |-> [key |-> b[k].id, doc |-> b[k]]]
<1>1. b \in Seq({d \in Docs : d.id # NoId})
  BY DbAssumption
<1>2. PICK n \in Nat : DOMAIN b = 1..n
  BY <1>1
<1>3. \A k \in 1..n : b[k] \in Docs /\ b[k].id # NoId
  BY <1>1, <1>2
<1>4. \A k \in 1..n : b[k].id \in Ids /\ b[k] # NoDoc
  BY <1>3, DbAssumption DEF Docs
<1>5. todo \in [1..n -> Entries]
  BY <1>2, <1>3, <1>4 DEF Entries
<1>6. todo \in Seq(Entries) /\ Len(todo) = n
  BY <1>5
<1> QED BY <1>2, <1>4, <1>6

\* Every operation of a client, up to its first put.
LEMMA OperationStep ==
    ASSUME DbInv, NEW p \in Procs, Operation(p)
    PROVE  DbInv'
<1>1. PICK c \in Colls :
         \/ \E b \in Batches : Insert(p, c, b)
         \/ \E f \in Filters, u \in Updates : UpdateOne(p, c, f, u) \/ UpdateMany(p, c, f, u)
         \/ \E f \in Filters : DeleteOne(p, c, f) \/ DeleteMany(p, c, f)
         \/ \E n \in IndexNames : CreateIndex(p, c, n) \/ DropIndex(p, c, n)
         \/ Drop(p, c) \/ DropDatabase(p, c)
         \/ ScanThrows(p, c) \/ WriteFailsToLoad(p, c) \/ Find(p, c)
  BY DEF Operation
<1> DEFINE idx == LoadedIndex(p, c)
           ch  == LoadedCache(p, c)
           xs  == LoadedIndexes(p, c)
<1>2. Sound(c, idx, ch, xs)
  BY LoadedSound
<1>4. ASSUME NEW b \in Batches, Insert(p, c, b) PROVE DbInv'
  <2> DEFINE todo == [k \in DOMAIN b |-> [key |-> b[k].id, doc |-> b[k]]]
  <2>1. BeginWrite(p, c) /\ SetMemory(p, c, idx, ch, xs)
        /\ Continue(p, c, "doc", todo, NoUpdate)
    BY <1>4 DEF Insert
  <2>2. todo \in Seq(Entries) /\ \A k \in 1..Len(todo) : todo[k].doc # NoDoc
    BY BatchOK
  <2> HIDE DEF idx, ch, xs, todo
  <2> QED BY <1>2, <2>1, <2>2, NothingToPut, OperationContinues
<1>5. ASSUME NEW f \in Filters, NEW u \in Updates, UpdateOne(p, c, f, u) \/ UpdateMany(p, c, f, u)
      PROVE  DbInv'
  <2>1. PICK V \in SUBSET In(idx) : \E after \in Scans(idx, ch, V), hit \in SUBSET V :
                                       UpdateScanned(p, c, u, after, hit)
    BY <1>5 DEF UpdateOne, UpdateMany, Update
  <2>2. PICK after \in Scans(idx, ch, V), hit \in SUBSET V : UpdateScanned(p, c, u, after, hit)
    BY <2>1
  <2>3. BeginWrite(p, c) /\ hit \in SUBSET Ids
    BY <1>5 DEF UpdateOne, UpdateMany, Update, In
  <2>4. Sound(c, idx, after, xs)
    <3> HIDE DEF idx, ch, xs
    <3> QED BY <1>2, <2>2, ScannedSound
  <2> QED BY <2>2, <2>3, <2>4, UpdateScannedStep
<1>6. ASSUME NEW f \in Filters, DeleteOne(p, c, f) \/ DeleteMany(p, c, f)
      PROVE  DbInv'
  <2>1. PICK V \in SUBSET In(idx) : \E after \in Scans(idx, ch, V), hit \in SUBSET V :
                                       DeleteScanned(p, c, after, hit)
    BY <1>6 DEF DeleteOne, DeleteMany, Delete
  <2>2. PICK after \in Scans(idx, ch, V), hit \in SUBSET V : DeleteScanned(p, c, after, hit)
    BY <2>1
  <2>3. BeginWrite(p, c) /\ hit \in SUBSET Ids
    BY <1>6 DEF DeleteOne, DeleteMany, Delete, In
  <2>4. Sound(c, idx, after, xs)
    <3> HIDE DEF idx, ch, xs
    <3> QED BY <1>2, <2>2, ScannedSound
  <2> QED BY <2>2, <2>3, <2>4, DeleteScannedStep
<1>7. ASSUME NEW n \in IndexNames, CreateIndex(p, c, n) \/ DropIndex(p, c, n)
      PROVE  DbInv'
  <2>1. PICK ys \in SUBSET IndexNames : SetMemory(p, c, idx, ch, ys)
    BY <1>2, <1>7 DEF CreateIndex, DropIndex, Sound
  <2>2. BeginWrite(p, c) /\ Continue(p, c, "meta", <<>>, NoUpdate)
    BY <1>7 DEF CreateIndex, DropIndex
  <2>3. Sound(c, idx, ch, ys)
    BY <1>2 DEF Sound
  <2> HIDE DEF idx, ch, xs
  <2> QED BY <2>1, <2>2, <2>3, NothingToPut, OperationContinues
<1>8. ASSUME Drop(p, c) \/ DropDatabase(p, c) PROVE DbInv'
  BY <1>8, StartDropStep DEF Drop, DropDatabase
<1>9. ASSUME ScanThrows(p, c) PROVE DbInv'
  <2>1. PICK V \in SUBSET In(idx) : \E after \in Scans(idx, ch, V) : SetMemory(p, c, idx, after, xs)
    BY <1>9 DEF ScanThrows
  <2>2. PICK after \in Scans(idx, ch, V) : SetMemory(p, c, idx, after, xs)
    BY <2>1
  <2>3. BeginWrite(p, c) /\ Finish(p)
    BY <1>9 DEF ScanThrows
  <2> HIDE DEF idx, ch, xs
  <2>4. Sound(c, idx, after, xs)
    BY <1>2, <2>2, ScannedSound
  <2> QED BY <2>2, <2>3, <2>4, OperationEnds
<1>10. ASSUME WriteFailsToLoad(p, c) PROVE DbInv'
  <2>1. TypeOK /\ JobOK
    BY DEF DbInv, StoreInv
  <2>2. UNCHANGED <<disk, heads, index, cache, indexes, lock, pc, job>>
    BY <1>10 DEF WriteFailsToLoad
  <2>3. ops' \in 0..MaxOps /\ UNCHANGED <<crashes, faults, rekeyed>>
    BY <1>10, <2>1 DEF WriteFailsToLoad, TypeOK
  <2>4. loaded' \in [Procs -> [Colls -> BOOLEAN]]
    BY <1>10, <2>1 DEF WriteFailsToLoad, TypeOK, Put1
  <2>5. TypeOK' /\ JobOK'
    BY <2>1, <2>2, <2>3, <2>4 DEF TypeOK, JobOK, disk
  <2>6. \A q \in Procs : pc'[q] = "head" =>
           pc[q] = "head" /\ job'[q] = job[q] /\ job[q] \in Jobs
    BY <2>1, <2>2 DEF JobOK, Resting
  <2>7. \A q \in Procs, d \in Colls : MemoryMoves(q, d)
    BY <2>2 DEF MemoryMoves
  <2> QED BY <2>2, <2>3, <2>5, <2>6, <2>7, FrameStep DEF disk
<1>11. ASSUME Find(p, c) PROVE DbInv'
  BY <1>11, FindStep
<1> QED BY <1>1, <1>4, <1>5, <1>6, <1>7, <1>8, <1>9, <1>10, <1>11

-----------------------------------------------------------------------------
(***************************************************************************)
(* The steps of an operation under the lock.                               *)
(***************************************************************************)

\* What follows the first entry of a job.
LEMMA TailOK ==
    ASSUME NEW s \in Seq(Entries), s # <<>>
    PROVE  /\ Head(s) = s[1] /\ Head(s) \in Entries
           /\ Tail(s) \in Seq(Entries) /\ Len(Tail(s)) = Len(s) - 1
           /\ \A k \in 1..Len(Tail(s)) : Tail(s)[k] = s[k + 1] /\ k + 1 \in 1..Len(s)
OBVIOUS

\* The first entry of a job is replaced.
LEMMA OpenedOK ==
    ASSUME NEW s \in Seq(Entries), s # <<>>, NEW e \in Entries
    PROVE  /\ <<e>> \o Tail(s) \in Seq(Entries) /\ <<e>> \o Tail(s) # <<>>
           /\ Head(<<e>> \o Tail(s)) = e /\ Tail(<<e>> \o Tail(s)) = Tail(s)
           /\ Len(<<e>> \o Tail(s)) = Len(s)
           /\ \A k \in 1..Len(s) : (<<e>> \o Tail(s))[k] = IF k = 1 THEN e ELSE s[k]
           /\ e = Head(s) => <<e>> \o Tail(s) = s
<1> DEFINE t == <<e>> \o Tail(s)
<1>1. Tail(s) \in Seq(Entries) /\ Len(Tail(s)) = Len(s) - 1 /\ Len(s) \in Nat \ {0}
  OBVIOUS
<1>2. t \in Seq(Entries) /\ Len(t) = Len(s)
  BY <1>1
<1>3. t[1] = e /\ \A k \in 2..Len(s) : t[k] = Tail(s)[k - 1] /\ Tail(s)[k - 1] = s[k]
  BY <1>1
<1>4. \A k \in 1..Len(s) : t[k] = IF k = 1 THEN e ELSE s[k]
  BY <1>1, <1>3
<1> HIDE DEF t
<1>5. t # <<>> /\ Head(t) = e
  BY <1>1, <1>2, <1>3
<1>6. Tail(t) = Tail(s)
  <2>1. Tail(t) \in Seq(Entries) /\ Len(Tail(t)) = Len(Tail(s))
    BY <1>1, <1>2, <1>5
  <2>2. ASSUME NEW k \in 1..Len(Tail(s)) PROVE Tail(t)[k] = Tail(s)[k]
    <3>1. Tail(t)[k] = t[k + 1] /\ Tail(s)[k] = s[k + 1] /\ k + 1 \in 1..Len(s) /\ k + 1 # 1
      BY <1>1, <1>2, <1>5
    <3> QED BY <1>4, <3>1
  <2> QED BY <1>1, <2>1, <2>2
<1>7. e = Head(s) => t = s
  <2> SUFFICES ASSUME e = Head(s) PROVE t = s
    OBVIOUS
  <2>1. e = s[1]
    OBVIOUS
  <2>2. \A k \in 1..Len(s) : t[k] = s[k]
    BY <1>4, <2>1
  <2> QED BY <1>1, <1>2, <2>2
<1> QED BY <1>2, <1>4, <1>5, <1>6, <1>7 DEF t

\* A process inside an operation: its job, its document, its meta block.
LEMMA JobTypes ==
    ASSUME DbInv, NEW p \in Procs, pc[p] \notin Resting
    PROVE  /\ job[p] \in Jobs /\ job[p].coll \in Colls
           /\ MetaOf(p, job[p].coll) \in Metas
           /\ job[p].todo \in Seq(Entries)
           /\ job[p].todo # <<>> =>
                 Head(job[p].todo) \in Entries /\ Tail(job[p].todo) \in Seq(Entries)
           /\ job[p].by \in Updates \cup {NoUpdate}
           /\ Made(job[p])
<1>1. job[p] \in Jobs /\ Made(job[p])
  BY DEF DbInv, StoreInv, JobOK, Made
<1>2. /\ job[p].coll \in Colls /\ job[p].todo \in Seq(Entries)
      /\ job[p].by \in Updates \cup {NoUpdate}
  BY <1>1 DEF Jobs
<1>3. MetaOf(p, job[p].coll) \in Metas
  BY <1>2 DEF DbInv, StoreInv, TypeOK, MetaOf, Metas
<1> QED BY <1>1, <1>2, <1>3

\* An entry with its document made, and the rest of the job.
EntryOpen(j) == j.todo # <<>> /\ Head(j.todo).doc # NoDoc

\* Jobs after a step of p.
LEMMA JobMoves ==
    ASSUME DbInv, NEW p \in Procs,
           NEW where \in PCs, pc' = [pc EXCEPT ![p] = where],
           NEW j \in Jobs \cup {NoJob}, job' = [job EXCEPT ![p] = j],
           where \notin Resting => j \in Jobs,
           where = "docw" => EntryOpen(j), Made(j),
           where = "head" => j = job[p] /\ MetaOf(p, job[p].coll) \in written' \cup lost'
    PROVE  /\ JobOK'
           /\ \A q \in Procs : pc'[q] = "head" =>
                /\ job'[q] = job[q] /\ job[q] \in Jobs
                /\ pc[q] = "head" \/ MetaOf(q, job[q].coll) \in written' \cup lost'
<1>1. TypeOK /\ JobOK
  BY DEF DbInv, StoreInv
<1>2. JobOK'
  BY <1>1 DEF TypeOK, JobOK, Made, EntryOpen
<1>3. ASSUME NEW q \in Procs, pc'[q] = "head"
      PROVE  /\ job'[q] = job[q] /\ job[q] \in Jobs
             /\ pc[q] = "head" \/ MetaOf(q, job[q].coll) \in written' \cup lost'
  <2>0. pc \in [Procs -> PCs] /\ job \in [Procs -> Jobs \cup {NoJob}] /\ "head" \notin Resting
    BY <1>1 DEF TypeOK, Resting
  <2>1. CASE q = p
    BY <1>3, <2>0, <2>1
  <2>2. CASE q # p
    BY <1>1, <1>3, <2>0, <2>2 DEF JobOK
  <2> QED BY <2>1, <2>2
<1> QED BY <1>2, <1>3

\* Steps that change neither collections nor heads nor stored blocks.
LEMMA QuietStep ==
    ASSUME DbInv, NEW p \in Procs,
           UNCHANGED <<memory, registry, published, ops, crashes, rekeyed>>,
           whole' \subseteq Blocks, written' \subseteq Blocks, lost' \subseteq Blocks,
           written \subseteq written', lost \subseteq lost',
           faults' \in 0..MaxFaults, lock' \in Procs \cup {None},
           NEW where \in PCs, pc' = [pc EXCEPT ![p] = where],
           NEW j \in Jobs \cup {NoJob}, job' = [job EXCEPT ![p] = j],
           where \notin Resting => j \in Jobs,
           where = "docw" => EntryOpen(j), Made(j),
           where = "head" => j = job[p] /\ MetaOf(p, job[p].coll) \in written' \cup lost'
    PROVE  DbInv'
<1>1. TypeOK
  BY DEF DbInv, StoreInv
<1>2. TypeOK'
  BY <1>1 DEF TypeOK, memory
<1>3. /\ JobOK'
      /\ \A q \in Procs : pc'[q] = "head" =>
            /\ job'[q] = job[q] /\ job[q] \in Jobs
            /\ pc[q] = "head" \/ MetaOf(q, job[q].coll) \in written' \cup lost'
  BY JobMoves
<1>4. \A q \in Procs, c \in Colls : MemoryMoves(q, c)
  BY DEF MemoryMoves, memory
<1> QED BY <1>2, <1>3, <1>4, FrameStep DEF memory

\* The job whose next document is opened.
Opened(j, d) == [j EXCEPT !.todo = <<[Head(j.todo) EXCEPT !.doc = d]>> \o Tail(j.todo)]

LEMMA OpenJobOK ==
    ASSUME DbInv, NEW p \in Procs, pc[p] = "doc", job[p].todo # <<>>, NEW d \in Docs, Open(p, d)
    PROVE  /\ pc' = [pc EXCEPT ![p] = "docw"] /\ "docw" \in PCs
           /\ job' = [job EXCEPT ![p] = Opened(job[p], d)]
           /\ Opened(job[p], d) \in Jobs /\ EntryOpen(Opened(job[p], d))
           /\ Made(Opened(job[p], d))
           /\ whole' \subseteq Blocks /\ UNCHANGED <<registry, written, lost, published, lock>>
<1>1. /\ job[p] \in Jobs /\ job[p].todo \in Seq(Entries) /\ Head(job[p].todo) \in Entries
      /\ Made(job[p])
  BY JobTypes DEF Resting
<1>2. PICK e : e = [Head(job[p].todo) EXCEPT !.doc = d]
  OBVIOUS
<1>3. e \in Entries /\ e.doc = d /\ d # NoDoc
  BY <1>1, <1>2, DbAssumption DEF Entries
<1>4. PICK t : t = <<e>> \o Tail(job[p].todo)
  OBVIOUS
<1>5. /\ t \in Seq(Entries) /\ t # <<>> /\ Head(t) = e /\ Len(t) = Len(job[p].todo)
      /\ \A k \in 1..Len(t) : t[k] = IF k = 1 THEN e ELSE job[p].todo[k]
  BY <1>1, <1>3, <1>4, OpenedOK
<1>6. Opened(job[p], d) = [job[p] EXCEPT !.todo = t]
  BY <1>2, <1>4 DEF Opened
<1>7. /\ Opened(job[p], d) \in Jobs
      /\ Opened(job[p], d).todo = t /\ Opened(job[p], d).by = job[p].by
  BY <1>1, <1>5, <1>6 DEF Jobs
<1>8. EntryOpen(Opened(job[p], d)) /\ Made(Opened(job[p], d))
  BY <1>1, <1>3, <1>5, <1>7 DEF EntryOpen, Made
<1>9. /\ pc' = [pc EXCEPT ![p] = "docw"] /\ "docw" \in PCs
      /\ job' = [job EXCEPT ![p] = Opened(job[p], d)]
      /\ whole' \subseteq whole /\ UNCHANGED <<registry, written, lost, published, lock>>
  BY DEF Open, Goto, Truncate, Opened, PCs, Writing
<1>10. whole \subseteq Blocks
  BY DEF DbInv, StoreInv, TypeOK
<1> QED BY <1>7, <1>8, <1>9, <1>10

\* The operation ends with nothing on disk changed.
LEMMA GivesUpStep ==
    ASSUME DbInv, NEW p \in Procs, Finish(p), UNCHANGED <<disk, memory, history>>
    PROVE  DbInv'
<1>1. TypeOK
  BY DEF DbInv, StoreInv
<1>2. /\ pc' = [pc EXCEPT ![p] = "idle"] /\ job' = [job EXCEPT ![p] = NoJob]
      /\ lock' \in Procs \cup {None}
  BY <1>1, FinishOK
<1>3. "idle" \in PCs /\ "idle" \in Resting
  BY DEF PCs, Resting
<1>4. UNCHANGED <<memory, registry, published, whole, written, lost, ops, crashes, faults, rekeyed>>
  BY DEF disk, history, bounds
<1>5. /\ whole' \subseteq Blocks /\ written' \subseteq Blocks /\ lost' \subseteq Blocks
      /\ faults' \in 0..MaxFaults
  BY <1>1, <1>4 DEF TypeOK
<1> QED BY <1>2, <1>3, <1>4, <1>5, NoJobMade, QuietStep

\* insertOne, insertMany: a document's file is opened, or the insert is
\* rejected with DuplicateKeyError.
LEMMA OpenNewStep ==
    ASSUME DbInv, NEW p \in Procs, OpenNew(p)
    PROVE  DbInv'
<1> DEFINE d == Head(job[p].todo).doc
<1>1. /\ pc[p] = "doc" /\ job[p].todo # <<>> /\ job[p].by = NoUpdate
      /\ UNCHANGED <<memory, history>>
  BY DEF OpenNew, At
<1>2. CASE Finish(p) /\ UNCHANGED disk
  BY <1>1, <1>2, GivesUpStep
<1>3. CASE Open(p, d)
  <2>1. Head(job[p].todo) \in Entries /\ d # NoDoc
    <3>1. job[p].todo \in Seq(Entries) /\ Made(job[p]) /\ Head(job[p].todo) \in Entries
      BY <1>1, JobTypes DEF Resting
    <3>2. Head(job[p].todo) = job[p].todo[1] /\ 1 \in 1..Len(job[p].todo)
      BY <1>1, <3>1
    <3> QED BY <1>1, <3>1, <3>2 DEF Made
  <2>2. d \in Docs
    BY <2>1 DEF Entries
  <2> HIDE DEF d
  <2>3. /\ UNCHANGED <<memory, registry, published, written, lost, ops, crashes, faults, rekeyed, lock>>
        /\ whole' \subseteq Blocks
    BY <1>1, <1>3, <2>2, OpenJobOK DEF history, bounds
  <2>4. /\ written' \subseteq Blocks /\ lost' \subseteq Blocks
        /\ faults' \in 0..MaxFaults /\ lock' \in Procs \cup {None}
    BY <2>3 DEF DbInv, StoreInv, TypeOK
  <2> QED BY <1>1, <1>3, <2>2, <2>3, <2>4, OpenJobOK, QuietStep
<1> QED BY <1>2, <1>3 DEF OpenNew

\* updateOne, updateMany: the document is loaded, changed, and its new file
\* opened, or the old one cannot be read.
LEMMA OpenRewriteStep ==
    ASSUME DbInv, NEW p \in Procs, OpenRewrite(p)
    PROVE  DbInv'
<1> DEFINE c == job[p].coll
           e == Head(job[p].todo)
           found == LoadDocument(index[p][c], cache[p][c], e.key)
<1>1. /\ TypeOK /\ pc[p] = "doc" /\ job[p].todo # <<>> /\ job[p].by # NoUpdate
      /\ UNCHANGED <<heads, loaded, index, indexes, history>>
  BY DEF OpenRewrite, At, DbInv, StoreInv
<1>2. CASE Finish(p) /\ UNCHANGED <<disk, cache>>
  BY <1>1, <1>2, GivesUpStep DEF memory
<1>3. CASE \E r \in found : Open(p, job[p].by[r.doc]) /\ cache' = Put1(cache, p, c, r.cache)
  <2>1. PICK r \in found : Open(p, job[p].by[r.doc]) /\ cache' = Put1(cache, p, c, r.cache)
    BY <1>3
  <2>2. c \in Colls /\ e \in Entries /\ job[p].by \in Updates
    BY <1>1, JobTypes DEF Resting
  <2>3. e.key \in Ids /\ index[p][c] \in Index /\ cache[p][c] \in Index
    BY <1>1, <2>2 DEF Entries, TypeOK
  <2>4. /\ r.doc \in Docs /\ r.cache \in Index
        /\ Fit(index[p][c], cache[p][c]) => Fit(index[p][c], r.cache)
    BY <1>1, <2>1, <2>3, LoadDocumentOK
  <2>5. job[p].by[r.doc] \in Docs
    BY <2>2, <2>4, DbAssumption
  <2>6. /\ pc' = [pc EXCEPT ![p] = "docw"] /\ "docw" \in PCs
        /\ job' = [job EXCEPT ![p] = Opened(job[p], job[p].by[r.doc])]
        /\ Opened(job[p], job[p].by[r.doc]) \in Jobs
        /\ EntryOpen(Opened(job[p], job[p].by[r.doc])) /\ Made(Opened(job[p], job[p].by[r.doc]))
        /\ whole' \subseteq Blocks /\ UNCHANGED <<registry, written, lost, published, lock>>
    BY <1>1, <2>1, <2>5, OpenJobOK
  <2> HIDE DEF c, e, found
  <2>7. /\ cache' \in [Procs -> [Colls -> Index]]
        /\ \A q \in Procs, d \in Colls :
              cache'[q][d] = IF q = p /\ d = c THEN r.cache ELSE cache[q][d]
    BY <1>1, <2>1, <2>2, <2>4 DEF Put1, TypeOK
  <2>8. /\ JobOK'
        /\ \A q \in Procs : pc'[q] = "head" =>
              /\ job'[q] = job[q] /\ job[q] \in Jobs
              /\ pc[q] = "head" \/ MetaOf(q, job[q].coll) \in written' \cup lost'
    <3>1. PICK j : j = Opened(job[p], job[p].by[r.doc])
      OBVIOUS
    <3>2. /\ pc' = [pc EXCEPT ![p] = "docw"] /\ "docw" \in PCs
          /\ job' = [job EXCEPT ![p] = j] /\ j \in Jobs /\ EntryOpen(j) /\ Made(j)
      BY <2>6, <3>1
    <3>3. DbInv
      BY <1>1
    <3> QED BY <3>2, <3>3, JobMoves
  <2>9. TypeOK'
    <3>1. pc' \in [Procs -> PCs] /\ job' \in [Procs -> Jobs \cup {NoJob}]
      BY <1>1, <2>6 DEF TypeOK
    <3> QED BY <1>1, <2>6, <2>7, <3>1 DEF TypeOK, history, bounds
  <2>10. ASSUME NEW q \in Procs, NEW d \in Colls PROVE MemoryMoves(q, d)
    <3>1. CASE q = p /\ d = c
      <4>1. pc'[p] = "docw"
        BY <1>1, <2>6 DEF TypeOK
      <4>2. c \notin rekeyed' => Fit(index'[p][c], cache'[p][c])
        BY <1>1, <2>2, <2>4, <2>7 DEF DbInv, Fitting, history
      <4> QED BY <1>1, <3>1, <4>1, <4>2 DEF MemoryMoves
    <3>2. CASE ~(q = p /\ d = c)
      BY <1>1, <2>7, <3>2 DEF MemoryMoves
    <3> QED BY <3>1, <3>2
  <2> QED BY <1>1, <2>6, <2>8, <2>9, <2>10, FrameStep DEF history
<1> QED BY <1>2, <1>3 DEF OpenRewrite

\* The last document is stored and persistMeta begins.
LEMMA DocsDoneStep ==
    ASSUME DbInv, NEW p \in Procs, DocsDone(p)
    PROVE  DbInv'
<1>1. TypeOK
  BY DEF DbInv, StoreInv
<1>2. /\ UNCHANGED <<memory, registry, published, whole, written, lost, ops, crashes, faults, rekeyed, lock>>
      /\ pc[p] = "doc" /\ pc' = [pc EXCEPT ![p] = "meta"]
      /\ job' = [job EXCEPT ![p] = job[p]]
  BY <1>1 DEF DocsDone, At, Goto, disk, bounds, history, TypeOK
<1>3. job[p] \in Jobs /\ Made(job[p]) /\ "meta" \in PCs
  BY <1>2, JobTypes DEF Resting, PCs, Writing
<1>4. /\ whole' \subseteq Blocks /\ written' \subseteq Blocks /\ lost' \subseteq Blocks
      /\ faults' \in 0..MaxFaults /\ lock' \in Procs \cup {None}
  BY <1>1, <1>2 DEF TypeOK
<1> QED BY <1>2, <1>3, <1>4, QuietStep

\* persistMeta opens the file of the CollectionMeta block.
LEMMA OpenMetaStep ==
    ASSUME DbInv, NEW p \in Procs, OpenMeta(p)
    PROVE  DbInv'
<1>1. TypeOK
  BY DEF DbInv, StoreInv
<1>2. /\ UNCHANGED <<memory, registry, published, written, lost, ops, crashes, faults, rekeyed, lock>>
      /\ whole' \subseteq whole
      /\ pc[p] = "meta" /\ pc' = [pc EXCEPT ![p] = "metaw"]
      /\ job' = [job EXCEPT ![p] = job[p]]
  BY <1>1 DEF OpenMeta, At, Goto, Truncate, bounds, history, TypeOK
<1>3. job[p] \in Jobs /\ Made(job[p]) /\ "metaw" \in PCs
  BY <1>2, JobTypes DEF Resting, PCs, Writing
<1>4. /\ whole' \subseteq Blocks /\ written' \subseteq Blocks /\ lost' \subseteq Blocks
      /\ faults' \in 0..MaxFaults /\ lock' \in Procs \cup {None}
  BY <1>1, <1>2 DEF TypeOK
<1>5. /\ UNCHANGED <<memory, registry, published, ops, crashes, rekeyed>>
      /\ written \subseteq written' /\ lost \subseteq lost'
  BY <1>2
<1> QED BY <1>2, <1>3, <1>4, <1>5, QuietStep

\* A put that returns: its block counts as put from now on.
LEMMA PutReturnsOK ==
    ASSUME TypeOK, NEW b \in Blocks, PutReturns(b)
    PROVE  /\ whole' \subseteq Blocks /\ written' \subseteq Blocks /\ lost' \subseteq Blocks
           /\ written \subseteq written' /\ lost \subseteq lost'
           /\ b \in written' \cup lost'
           /\ faults' \in 0..MaxFaults
           /\ UNCHANGED <<registry, published, ops, crashes>>
<1>1. CASE WriteOut(b) /\ UNCHANGED faults
  BY <1>1 DEF PutReturns, WriteOut, TypeOK
<1>2. CASE LoseFlush(b)
  BY <1>2 DEF PutReturns, LoseFlush, TypeOK
<1> QED BY <1>1, <1>2 DEF PutReturns

\* persistMeta has put the CollectionMeta block and may set the head.
LEMMA WriteMetaStep ==
    ASSUME DbInv, NEW p \in Procs, WriteMeta(p)
    PROVE  DbInv'
<1>1. TypeOK
  BY DEF DbInv, StoreInv
<1>2. /\ UNCHANGED <<memory, lock, rekeyed>> /\ PutReturns(MetaOf(p, job[p].coll))
      /\ pc[p] = "metaw" /\ pc' = [pc EXCEPT ![p] = "head"]
      /\ job' = [job EXCEPT ![p] = job[p]]
  BY <1>1 DEF WriteMeta, Goto, TypeOK
<1>3. /\ job[p] \in Jobs /\ Made(job[p]) /\ "head" \in PCs /\ MetaOf(p, job[p].coll) \in Blocks
  BY <1>2, JobTypes DEF Resting, PCs, Writing, Blocks
<1>4. lock' \in Procs \cup {None}
  BY <1>1, <1>2 DEF TypeOK
<1>5. /\ whole' \subseteq Blocks /\ written' \subseteq Blocks /\ lost' \subseteq Blocks
      /\ written \subseteq written' /\ lost \subseteq lost'
      /\ MetaOf(p, job[p].coll) \in written' \cup lost'
      /\ faults' \in 0..MaxFaults
      /\ UNCHANGED <<registry, published, ops, crashes>>
  BY <1>1, <1>2, <1>3, PutReturnsOK
<1>6. UNCHANGED <<memory, registry, published, ops, crashes, rekeyed>>
  BY <1>2, <1>5
<1>7. PICK j, where : j = job[p] /\ where = "head"
  OBVIOUS
<1>8. /\ where \in PCs /\ pc' = [pc EXCEPT ![p] = where] /\ where # "docw"
      /\ j \in Jobs \cup {NoJob} /\ job' = [job EXCEPT ![p] = j]
      /\ (where \notin Resting => j \in Jobs) /\ Made(j)
      /\ (where = "head" => j = job[p] /\ MetaOf(p, job[p].coll) \in written' \cup lost')
  BY <1>2, <1>3, <1>5, <1>7
<1> QED BY <1>4, <1>5, <1>6, <1>8, QuietStep

\* A document put under a key, in the index and in the cache.
LEMMA PutDocOK ==
    ASSUME NEW idx \in Index, NEW ch \in Index, NEW key \in Ids, NEW d \in Docs
    PROVE  /\ [idx EXCEPT ![key] = d] \in Index /\ [ch EXCEPT ![key] = d] \in Index
           /\ \A i \in Ids : [idx EXCEPT ![key] = d][i] \in {d, idx[i]}
           /\ Fit(idx, ch) /\ d.id = key =>
                 Fit([idx EXCEPT ![key] = d], [ch EXCEPT ![key] = d])
BY DEF Index, Fit, Keyed, Coherent

\* A document's put returns, and the index and the cache take it in.
LEMMA WriteDocStep ==
    ASSUME DbInv, NEW p \in Procs, WriteDoc(p)
    PROVE  DbInv'
<1> DEFINE c == job[p].coll
           e == Head(job[p].todo)
           J == [job[p] EXCEPT !.todo = Tail(job[p].todo)]
<1>1. TypeOK /\ JobOK
  BY DEF DbInv, StoreInv
<1>2. pc[p] = "docw" /\ job[p].todo # <<>> /\ e.doc # NoDoc
  BY <1>1 DEF WriteDoc, JobOK
<1>3. /\ job[p] \in Jobs /\ c \in Colls /\ e \in Entries /\ job[p].todo \in Seq(Entries)
      /\ Tail(job[p].todo) \in Seq(Entries) /\ Made(job[p])
  BY <1>2, JobTypes DEF Resting
<1>4. /\ PutReturns(e.doc)
      /\ index' = Put1(index, p, c, [index[p][c] EXCEPT ![e.key] = e.doc])
      /\ cache' = Put1(cache, p, c, [cache[p][c] EXCEPT ![e.key] = e.doc])
      /\ rekeyed' = IF e.doc.id = e.key THEN rekeyed ELSE rekeyed \cup {c}
      /\ pc' = [pc EXCEPT ![p] = "doc"]
      /\ job' = [job EXCEPT ![p] = J]
      /\ UNCHANGED <<heads, loaded, indexes, lock>>
  BY DEF WriteDoc, Goto
<1>5. e.key \in Ids /\ e.doc \in Docs /\ e.doc \in Blocks
  BY <1>2, <1>3 DEF Entries, Blocks
<1>6. J \in Jobs /\ Made(J)
  <2>1. J.todo = Tail(job[p].todo) /\ J.by = job[p].by /\ J \in Jobs
    BY <1>3 DEF Jobs
  <2>2. /\ Len(Tail(job[p].todo)) = Len(job[p].todo) - 1
        /\ \A k \in 1..Len(Tail(job[p].todo)) :
              Tail(job[p].todo)[k] = job[p].todo[k + 1] /\ k + 1 \in 1..Len(job[p].todo)
    BY <1>2, <1>3, TailOK
  <2> HIDE DEF J
  <2> QED BY <1>3, <2>1, <2>2 DEF Made
<1> HIDE DEF c, e, J
<1>7. /\ index[p][c] \in Index /\ cache[p][c] \in Index
      /\ index \in [Procs -> [Colls -> Index]] /\ cache \in [Procs -> [Colls -> Index]]
  BY <1>1, <1>3 DEF TypeOK
<1>8. PICK idx, ch : idx = [index[p][c] EXCEPT ![e.key] = e.doc]
                     /\ ch = [cache[p][c] EXCEPT ![e.key] = e.doc]
  OBVIOUS
<1>9. /\ idx \in Index /\ ch \in Index
      /\ \A i \in Ids : idx[i] \in {e.doc, index[p][c][i]}
      /\ Fit(index[p][c], cache[p][c]) /\ e.doc.id = e.key => Fit(idx, ch)
  BY <1>5, <1>7, <1>8, PutDocOK
<1>10. /\ index' \in [Procs -> [Colls -> Index]]
       /\ \A q \in Procs, d \in Colls :
             index'[q][d] = IF q = p /\ d = c THEN idx ELSE index[q][d]
  BY <1>3, <1>4, <1>7, <1>8, <1>9 DEF Put1
<1>11. /\ cache' \in [Procs -> [Colls -> Index]]
       /\ \A q \in Procs, d \in Colls :
             cache'[q][d] = IF q = p /\ d = c THEN ch ELSE cache[q][d]
  BY <1>3, <1>4, <1>7, <1>8, <1>9 DEF Put1
<1>12. /\ whole' \subseteq Blocks /\ written' \subseteq Blocks /\ lost' \subseteq Blocks
       /\ written \subseteq written' /\ lost \subseteq lost'
       /\ e.doc \in written' \cup lost' /\ faults' \in 0..MaxFaults
       /\ UNCHANGED <<registry, published, ops, crashes>>
  BY <1>1, <1>4, <1>5, PutReturnsOK
<1>13. "doc" \in PCs /\ rekeyed \subseteq rekeyed' /\ rekeyed' \subseteq Colls
  BY <1>1, <1>3, <1>4 DEF PCs, Writing, TypeOK
<1>14. pc' \in [Procs -> PCs] /\ pc'[p] = "doc" /\ job' \in [Procs -> Jobs \cup {NoJob}]
  BY <1>1, <1>4, <1>6, <1>13 DEF TypeOK
<1>15. TypeOK'
  BY <1>1, <1>4, <1>10, <1>11, <1>12, <1>13, <1>14 DEF TypeOK
<1>16. /\ JobOK'
       /\ \A q \in Procs : pc'[q] = "head" =>
             /\ job'[q] = job[q] /\ job[q] \in Jobs
             /\ pc[q] = "head" \/ MetaOf(q, job[q].coll) \in written' \cup lost'
  BY <1>4, <1>6, <1>13, JobMoves
<1>17. ASSUME NEW q \in Procs, NEW d \in Colls PROVE MemoryMoves(q, d)
  <2>1. CASE q = p /\ d = c
    <3>1. index'[q][d] = idx /\ cache'[q][d] = ch /\ pc'[q] # "head"
      BY <2>1, <1>10, <1>11, <1>14
    <3>2. c \notin rekeyed' => Fit(index[p][c], cache[p][c]) /\ e.doc.id = e.key
      BY <1>3, <1>4 DEF DbInv, Fitting
    <3> QED BY <2>1, <3>1, <3>2, <1>9, <1>12 DEF MemoryMoves
  <2>2. CASE ~(q = p /\ d = c)
    BY <2>2, <1>4, <1>10, <1>11 DEF MemoryMoves
  <2> QED BY <2>1, <2>2
<1> QED BY <1>4, <1>12, <1>13, <1>15, <1>16, <1>17, FrameStep

\* Persisting heads: registry and heads_ become the same closed heads.
LEMMA SetHeadsOK ==
    ASSUME TypeOK, NEW p \in Procs, NEW h \in Heads, SetHeads(p, h)
    PROVE  /\ heads' \in [Procs -> Heads] /\ heads'[p] = h
           /\ \A q \in Procs \ {p} : heads'[q] = heads[q]
           /\ registry' = h /\ registry' \in Heads
           /\ published' \in [Colls -> SUBSET Metas]
           /\ UNCHANGED <<whole, written, lost>>
BY DEF TypeOK, SetHeads, Persist, Heads

\* The heads that setHead, removeHead and clear leave.
LEMMA NewHeadsOK ==
    ASSUME DbInv, NEW p \in Procs
    PROVE  /\ heads[p] \in Heads /\ NoHeads \in Heads
           /\ \A c \in Colls : HeadRemoved(p, c) \in Heads /\ HeadSet(p, c) \in Heads
<1>1. heads[p] \in Heads
  BY DEF DbInv, StoreInv, TypeOK
<1>2. \A c \in Colls : MetaOf(p, c) \in Metas
  BY DEF DbInv, StoreInv, TypeOK, MetaOf, Metas
<1> QED BY <1>1, <1>2 DEF Heads, NoHeads, HeadRemoved, HeadSet

\* Types and jobs after a step of p that ends its operation.
LEMMA EndsOK ==
    ASSUME DbInv, NEW p \in Procs, Finish(p)
    PROVE  /\ \A q \in Procs : pc'[q] # "idle" => job'[q] = job[q] /\ pc'[q] = pc[q]
           /\ JobOK'
           /\ \A q \in Procs : pc'[q] = "head" =>
                 pc[q] = "head" /\ job'[q] = job[q] /\ job[q] \in Jobs
<1>1. TypeOK /\ JobOK
  BY DEF DbInv, StoreInv
<1>2. pc' = [pc EXCEPT ![p] = "idle"] /\ job' = [job EXCEPT ![p] = NoJob]
  BY <1>1, FinishOK
<1>3. \A q \in Procs : pc'[q] # "idle" => job'[q] = job[q] /\ pc'[q] = pc[q]
  BY <1>1, <1>2 DEF TypeOK
<1>4. \A q \in Procs : job'[q] \in {job[q], NoJob}
  BY <1>1, <1>2 DEF TypeOK
<1>5. JobOK'
  BY <1>1, <1>3, <1>4, NoJobMade DEF JobOK, Resting, Made
<1> QED BY <1>1, <1>3, <1>5 DEF JobOK, Resting

\* persistMeta ends: setHead writes heads_ to the registry.
LEMMA SetHeadStep ==
    ASSUME DbInv, NEW p \in Procs, SetHead(p)
    PROVE  DbInv'
<1> DEFINE c == job[p].coll
<1>1. TypeOK
  BY DEF DbInv, StoreInv
<1>2. /\ pc[p] = "head" /\ SetHeads(p, HeadSet(p, c)) /\ Finish(p)
      /\ UNCHANGED <<loaded, index, cache, indexes, ops, crashes, faults, rekeyed>>
  BY DEF SetHead, At, bounds, history
<1>3. c \in Colls
  BY <1>2, JobTypes DEF Resting
<1>4. HeadSet(p, c) \in Heads
  BY <1>3, NewHeadsOK
<1>5. /\ heads' \in [Procs -> Heads] /\ heads'[p] = HeadSet(p, c)
      /\ \A q \in Procs \ {p} : heads'[q] = heads[q]
      /\ registry' = HeadSet(p, c) /\ registry' \in Heads
      /\ published' \in [Colls -> SUBSET Metas]
      /\ UNCHANGED <<whole, written, lost>>
  BY <1>1, <1>2, <1>4, SetHeadsOK
<1>6. TypeOK'
  BY <1>1, <1>2, <1>5, FinishOK DEF TypeOK
<1>7. \A q \in Procs, e \in Colls :
         \/ heads'[q][e] = heads[q][e]
         \/ pc[q] = "head" /\ e = job[q].coll /\ heads'[q][e] = MetaOf(q, e)
  <2>1. heads[p] \in Heads
    BY <1>1 DEF TypeOK
  <2> HIDE DEF c
  <2>2. \A e \in Colls : heads'[p][e] = IF e = c THEN MetaOf(p, c) ELSE heads[p][e]
    BY <1>3, <1>5, <2>1 DEF HeadSet, Heads
  <2> QED BY <1>2, <1>5, <2>2 DEF c
<1>8. \A q \in Procs, d \in Colls : MemoryMoves(q, d)
  BY <1>2 DEF MemoryMoves
<1> QED BY <1>2, <1>5, <1>6, <1>7, <1>8, EndsOK, FrameStep

\* dropDatabase ends: clear empties heads_ and the registry.
LEMMA ClearHeadsStep ==
    ASSUME DbInv, NEW p \in Procs, ClearHeads(p)
    PROVE  DbInv'
<1>1. TypeOK
  BY DEF DbInv, StoreInv
<1>2. /\ SetHeads(p, NoHeads) /\ Finish(p)
      /\ UNCHANGED <<loaded, index, cache, indexes, ops, crashes, faults, rekeyed>>
  BY DEF ClearHeads, At, bounds, history
<1>3. NoHeads \in Heads
  BY NewHeadsOK
<1>5. /\ heads' \in [Procs -> Heads] /\ heads'[p] = NoHeads
      /\ \A q \in Procs \ {p} : heads'[q] = heads[q]
      /\ registry' = NoHeads /\ registry' \in Heads
      /\ published' \in [Colls -> SUBSET Metas]
      /\ UNCHANGED <<whole, written, lost>>
  BY <1>1, <1>2, <1>3, SetHeadsOK
<1>6. TypeOK'
  BY <1>1, <1>2, <1>5, FinishOK DEF TypeOK
<1>7. \A q \in Procs, e \in Colls : heads'[q][e] \in {heads[q][e], NoMeta}
  BY <1>5 DEF NoHeads
<1>8. \A q \in Procs, d \in Colls : MemoryMoves(q, d)
  BY <1>2 DEF MemoryMoves
<1> QED BY <1>2, <1>5, <1>6, <1>7, <1>8, EndsOK, FrameStep

\* drop removes the head and empties the collection's memory.
LEMMA RemoveHeadStep ==
    ASSUME DbInv, NEW p \in Procs, RemoveHead(p)
    PROVE  DbInv'
<1> DEFINE c == job[p].coll
<1>1. TypeOK /\ JobOK
  BY DEF DbInv, StoreInv
<1>2. /\ pc[p] \in {"unhead", "dbhead"} /\ AfterDrop(p) /\ SetHeads(p, HeadRemoved(p, c))
      /\ loaded' = Put1(loaded, p, c, FALSE) /\ SetMemory(p, c, NoDocs, NoDocs, {})
      /\ UNCHANGED <<ops, crashes, faults, rekeyed>>
  BY DEF RemoveHead, AfterDrop, At, bounds, history
<1>3. c \in Colls /\ job[p] \in Jobs
  BY <1>2, JobTypes DEF Resting
<1>4. /\ heads' \in [Procs -> Heads] /\ heads'[p] = HeadRemoved(p, c)
      /\ \A q \in Procs \ {p} : heads'[q] = heads[q]
      /\ registry' = HeadRemoved(p, c) /\ registry' \in Heads
      /\ published' \in [Colls -> SUBSET Metas]
      /\ UNCHANGED <<whole, written, lost>>
  BY <1>1, <1>2, <1>3, NewHeadsOK, SetHeadsOK
<1>5. \A q \in Procs, e \in Colls : heads'[q][e] \in {heads[q][e], NoMeta}
  <2>1. heads[p] \in Heads
    BY <1>1 DEF TypeOK
  <2> HIDE DEF c
  <2>2. \A e \in Colls : heads'[p][e] = IF e = c THEN NoMeta ELSE heads[p][e]
    BY <1>3, <1>4, <2>1 DEF HeadRemoved, Heads
  <2> QED BY <1>4, <2>2
<1>6. /\ lock' \in Procs \cup {None}
      /\ pc' \in [Procs -> PCs] /\ pc'[p] \in {"idle", "dropdb"}
      /\ job' \in [Procs -> Jobs \cup {NoJob}]
      /\ pc'[p] = "dropdb" => job'[p] = job[p]
      /\ \A q \in Procs \ {p} : pc'[q] = pc[q] /\ job'[q] = job[q]
  <2>1. CASE Finish(p)
    BY <1>1, <2>1, FinishOK DEF TypeOK
  <2>2. CASE Goto(p, "dropdb") /\ lock' = None /\ UNCHANGED job
    BY <1>1, <2>2 DEF Goto, TypeOK, PCs
  <2> QED BY <1>2, <2>1, <2>2 DEF AfterDrop
<1>7. JobOK'
  <2>1. Made(job'[p])
    <3>1. CASE Finish(p)
      BY <1>1, <3>1, FinishOK, NoJobMade DEF TypeOK
    <3>2. CASE UNCHANGED job
      BY <1>1, <3>2 DEF JobOK, Made
    <3> QED BY <1>2, <3>1, <3>2 DEF AfterDrop
  <2> QED BY <1>1, <1>3, <1>6, <2>1 DEF JobOK, Resting, Made
<1> HIDE DEF c
<1>8. NoDocs \in Index /\ Fit(NoDocs, NoDocs) /\ \A i \in Ids : NoDocs[i] = NoDoc
  BY NoDocsOK, NoDocsKeyed DEF NoDocs
<1>9. /\ index' \in [Procs -> [Colls -> Index]]
      /\ \A q \in Procs, e \in Colls :
            index'[q][e] = IF q = p /\ e = c THEN NoDocs ELSE index[q][e]
  BY <1>1, <1>2, <1>3, <1>8 DEF TypeOK, SetMemory, Put1
<1>10. /\ cache' \in [Procs -> [Colls -> Index]]
       /\ \A q \in Procs, e \in Colls :
            cache'[q][e] = IF q = p /\ e = c THEN NoDocs ELSE cache[q][e]
  BY <1>1, <1>2, <1>3, <1>8 DEF TypeOK, SetMemory, Put1
<1>11. /\ indexes' \in [Procs -> [Colls -> SUBSET IndexNames]]
       /\ \A q \in Procs, e \in Colls :
            indexes'[q][e] = IF q = p /\ e = c THEN {} ELSE indexes[q][e]
  BY <1>1, <1>2, <1>3 DEF TypeOK, SetMemory, Put1
<1>12. loaded' \in [Procs -> [Colls -> BOOLEAN]]
  BY <1>1, <1>2, <1>3 DEF TypeOK, Put1
<1>13. TypeOK'
  BY <1>1, <1>2, <1>4, <1>6, <1>9, <1>10, <1>11, <1>12 DEF TypeOK
<1>14. ASSUME NEW q \in Procs, NEW e \in Colls
       PROVE  MemoryMoves(q, e)
  <2>1. CASE q = p /\ e = c
    BY <2>1, <1>6, <1>8, <1>9, <1>10 DEF MemoryMoves
  <2>2. CASE ~(q = p /\ e = c)
    BY <2>2, <1>9, <1>10, <1>11 DEF MemoryMoves
  <2> QED BY <2>1, <2>2
<1>15. \A q \in Procs : pc'[q] = "head" =>
          pc[q] = "head" /\ job'[q] = job[q] /\ job[q] \in Jobs
  BY <1>1, <1>6 DEF JobOK, Resting
<1> QED BY <1>2, <1>4, <1>5, <1>7, <1>13, <1>14, <1>15, FrameStep

\* dropDatabase takes the lock for its next collection.
LEMMA DropNextStep ==
    ASSUME DbInv, NEW p \in Procs, DropNext(p)
    PROVE  DbInv'
<1>1. TypeOK
  BY DEF DbInv, StoreInv
<1>2. /\ pc[p] = "dropdb" /\ pc' = [pc EXCEPT ![p] = "dbhead"] /\ lock' = p
      /\ UNCHANGED <<memory, registry, published, whole, written, lost, ops, crashes, faults, rekeyed>>
  BY DEF DropNext, At, Goto, disk, bounds, history
<1>3. job[p] \in Jobs /\ Made(job[p]) /\ "dbhead" \in PCs /\ "dbhead" \notin Resting
  BY <1>2, JobTypes DEF Resting, PCs, Writing
<1>4. PICK c \in job[p].more :
         job' = [job EXCEPT ![p] = [job[p] EXCEPT !.coll = c, !.more = job[p].more \ {c}]]
  BY DEF DropNext
<1>5. /\ [job[p] EXCEPT !.coll = c, !.more = job[p].more \ {c}] \in Jobs
      /\ Made([job[p] EXCEPT !.coll = c, !.more = job[p].more \ {c}])
  BY <1>3, <1>4 DEF Jobs, Made
<1>6. /\ whole' \subseteq Blocks /\ written' \subseteq Blocks /\ lost' \subseteq Blocks
      /\ faults' \in 0..MaxFaults
  BY <1>1, <1>2 DEF TypeOK
<1>7. /\ UNCHANGED <<memory, registry, published, ops, crashes, rekeyed>>
      /\ written \subseteq written' /\ lost \subseteq lost' /\ lock' \in Procs \cup {None}
  BY <1>2
<1>8. PICK j, where : /\ j = [job[p] EXCEPT !.coll = c, !.more = job[p].more \ {c}]
                      /\ where = "dbhead"
  OBVIOUS
<1>9. /\ where \in PCs /\ pc' = [pc EXCEPT ![p] = where] /\ where # "docw" /\ where # "head"
      /\ j \in Jobs \cup {NoJob} /\ job' = [job EXCEPT ![p] = j]
      /\ (where \notin Resting => j \in Jobs) /\ Made(j)
  BY <1>2, <1>3, <1>4, <1>5, <1>8
<1> QED BY <1>6, <1>7, <1>9, QuietStep

\* A put throws and the operation ends with its index half changed.
LEMMA PutThrowsStep ==
    ASSUME DbInv, NEW p \in Procs, PutThrows(p)
    PROVE  DbInv'
<1>1. TypeOK /\ JobOK
  BY DEF DbInv, StoreInv
<1>2. /\ pc[p] \in {"doc", "docw", "meta", "metaw"} /\ Finish(p)
      /\ UNCHANGED <<memory, ops, crashes, rekeyed>>
      /\ faults' = faults + 1 /\ faults < MaxFaults
  BY DEF PutThrows
<1>3. /\ MetaOf(p, job[p].coll) \in Blocks
      /\ pc[p] = "docw" => Head(job[p].todo).doc \in Blocks
  BY <1>1, <1>2, JobTypes DEF Resting, Blocks, JobOK, Entries
<1>4. UNCHANGED disk \/ \E b \in Blocks : WriteOut(b)
  BY <1>3 DEF PutThrows
<1>5. /\ whole' \subseteq Blocks /\ written' \subseteq Blocks /\ lost' \subseteq Blocks
      /\ written \subseteq written' /\ lost \subseteq lost' /\ UNCHANGED <<registry, published>>
  BY <1>1, <1>4 DEF TypeOK, WriteOut, disk
<1>6. faults' \in 0..MaxFaults
  BY <1>1, <1>2 DEF TypeOK
<1>7. "idle" \in PCs /\ "idle" \in Resting
  BY DEF PCs, Resting
<1> QED BY <1>1, <1>2, <1>5, <1>6, <1>7, NoJobMade, FinishOK, QuietStep

\* The head registry throws, before or after heads_ has changed.
LEMMA RegistryThrowsStep ==
    ASSUME DbInv, NEW p \in Procs, RegistryThrows(p)
    PROVE  DbInv'
<1>1. TypeOK
  BY DEF DbInv, StoreInv
<1>2. /\ Finish(p) /\ UNCHANGED <<disk, loaded, index, cache, indexes, ops, crashes, rekeyed>>
      /\ faults' = faults + 1 /\ faults < MaxFaults /\ pc[p] \notin Resting
  BY DEF RegistryThrows, Resting
<1>3. job[p].coll \in Colls
  BY <1>2, JobTypes
<1>4. PICK h : /\ heads' = [heads EXCEPT ![p] = h]
               /\ \/ h \in {heads[p], HeadRemoved(p, job[p].coll), NoHeads}
                  \/ pc[p] = "head" /\ h = HeadSet(p, job[p].coll)
  BY DEF RegistryThrows
<1>5. h \in Heads
  BY <1>3, <1>4, NewHeadsOK
<1>6. heads' \in [Procs -> Heads] /\ faults' \in 0..MaxFaults
  BY <1>1, <1>2, <1>4, <1>5 DEF TypeOK
<1>7. TypeOK'
  BY <1>1, <1>2, <1>6, FinishOK DEF TypeOK, disk
<1>8. \A q \in Procs, e \in Colls :
         \/ heads'[q][e] \in {heads[q][e], NoMeta}
         \/ pc[q] = "head" /\ e = job[q].coll /\ heads'[q][e] = MetaOf(q, e)
  BY <1>1, <1>3, <1>4 DEF HeadSet, HeadRemoved, NoHeads, TypeOK, Heads
<1>9. \A q \in Procs, d \in Colls : MemoryMoves(q, d)
  BY <1>2 DEF MemoryMoves
<1> QED BY <1>2, <1>7, <1>8, <1>9, EndsOK, FrameStep DEF disk

-----------------------------------------------------------------------------
(***************************************************************************)
(* Opening the database, crashes, and the theorems.                        *)
(***************************************************************************)

\* connect() makes heads_ what the registry holds.
LEMMA ConnectStep ==
    ASSUME DbInv, NEW p \in Procs, Connect(p) \/ Reconnect(p)
    PROVE  DbInv'
<1>1. TypeOK /\ JobOK
  BY DEF DbInv, StoreInv
<1>2. /\ heads' = [heads EXCEPT ![p] = registry]
      /\ UNCHANGED <<disk, loaded, index, cache, indexes, lock, job, ops, crashes, faults, rekeyed>>
      /\ pc' = [pc EXCEPT ![p] = "idle"] /\ pc[p] \in Resting
  BY <1>1 DEF Connect, Reconnect, bounds, history, Resting, TypeOK
<1>3. TypeOK'
  BY <1>1, <1>2 DEF TypeOK, disk, PCs, Resting
<1>4. JobOK'
  BY <1>1, <1>2 DEF TypeOK, JobOK, Resting
<1>5. \A q \in Procs, c \in Colls : heads'[q][c] \in {heads[q][c], registry[c]}
  BY <1>1, <1>2 DEF TypeOK
<1>6. \A q \in Procs : pc'[q] = "head" =>
         pc[q] = "head" /\ job'[q] = job[q] /\ job[q] \in Jobs
  BY <1>1, <1>2 DEF TypeOK, JobOK, Resting
<1>7. \A q \in Procs, d \in Colls : MemoryMoves(q, d)
  BY <1>2 DEF MemoryMoves
<1> QED BY <1>2, <1>3, <1>4, <1>5, <1>6, <1>7, FrameStep DEF disk

\* A crash empties the memory of a process.
LEMMA CrashStep ==
    ASSUME DbInv, NEW p \in Procs, Crash(p)
    PROVE  DbInv'
<1>1. TypeOK /\ JobOK
  BY DEF DbInv, StoreInv
<1>2. NoDocs \in Index /\ Fit(NoDocs, NoDocs) /\ \A i \in Ids : NoDocs[i] = NoDoc
  BY NoDocsOK, NoDocsKeyed DEF NoDocs
<1>3. /\ pc' = [pc EXCEPT ![p] = "down"] /\ job' = [job EXCEPT ![p] = NoJob]
      /\ heads' = [heads EXCEPT ![p] = [c \in Colls |-> NoMeta]]
      /\ index' = [index EXCEPT ![p] = [c \in Colls |-> NoDocs]]
      /\ cache' = [cache EXCEPT ![p] = [c \in Colls |-> NoDocs]]
      /\ indexes' = [indexes EXCEPT ![p] = [c \in Colls |-> {}]]
      /\ loaded' = [loaded EXCEPT ![p] = [c \in Colls |-> FALSE]]
      /\ UNCHANGED <<registry, whole, written, lost, published, ops, faults, rekeyed>>
  BY DEF Crash, disk
<1>4. crashes' \in 0..MaxCrashes /\ lock' \in Procs \cup {None}
  BY <1>1 DEF Crash, TypeOK
<1>5. heads' \in [Procs -> Heads] /\ pc' \in [Procs -> PCs]
      /\ job' \in [Procs -> Jobs \cup {NoJob}]
  BY <1>1, <1>3 DEF TypeOK, Heads, PCs, Resting
<1>6. /\ index' \in [Procs -> [Colls -> Index]] /\ cache' \in [Procs -> [Colls -> Index]]
      /\ indexes' \in [Procs -> [Colls -> SUBSET IndexNames]]
  BY <1>1, <1>2, <1>3 DEF TypeOK
<1>7. loaded' \in [Procs -> [Colls -> BOOLEAN]]
  BY <1>1, <1>3 DEF TypeOK
<1>8. TypeOK'
  BY <1>1, <1>3, <1>4, <1>5, <1>6, <1>7 DEF TypeOK
<1>9. JobOK'
  BY <1>1, <1>3, NoJobMade DEF TypeOK, JobOK, Resting, Made
<1>10. \A q \in Procs, c \in Colls : heads'[q][c] \in {heads[q][c], NoMeta}
  BY <1>1, <1>3 DEF TypeOK
<1>11. ASSUME NEW q \in Procs, NEW c \in Colls PROVE MemoryMoves(q, c)
  <2>1. CASE q = p
    <3>1. index'[q][c] = NoDocs /\ cache'[q][c] = NoDocs /\ pc'[q] = "down"
      BY <2>1, <1>1, <1>3 DEF TypeOK
    <3> QED BY <3>1, <1>2 DEF MemoryMoves
  <2>2. CASE q # p
    BY <2>2, <1>1, <1>3 DEF TypeOK, MemoryMoves
  <2> QED BY <2>1, <2>2
<1>12. \A q \in Procs : pc'[q] = "head" =>
          pc[q] = "head" /\ job'[q] = job[q] /\ job[q] \in Jobs
  BY <1>1, <1>3 DEF TypeOK, JobOK, Resting
<1> QED BY <1>3, <1>8, <1>9, <1>10, <1>11, <1>12, FrameStep

\* Init satisfies the invariant.
LEMMA DbInit ==
    ASSUME Init
    PROVE  DbInv
<1>1. NoDocs \in Index /\ Fit(NoDocs, NoDocs) /\ \A i \in Ids : NoDocs[i] = NoDoc
  BY NoDocsOK, NoDocsKeyed DEF NoDocs
<1>2. registry \in Heads /\ heads \in [Procs -> Heads]
  BY DEF Init, Heads
<1>3. /\ index \in [Procs -> [Colls -> Index]] /\ cache \in [Procs -> [Colls -> Index]]
      /\ indexes \in [Procs -> [Colls -> SUBSET IndexNames]]
      /\ published \in [Colls -> SUBSET Metas]
  BY <1>1 DEF Init
<1>4. loaded \in [Procs -> [Colls -> BOOLEAN]]
  BY DEF Init
<1>5. /\ pc \in [Procs -> PCs] /\ job \in [Procs -> Jobs \cup {NoJob}]
      /\ lock \in Procs \cup {None}
      /\ whole \subseteq Blocks /\ written \subseteq Blocks /\ lost \subseteq Blocks
  BY DEF Init, PCs, Resting
<1>6. /\ ops \in 0..MaxOps /\ crashes \in 0..MaxCrashes /\ faults \in 0..MaxFaults
      /\ rekeyed \subseteq Colls
  BY DEF Init
<1>7. TypeOK
  BY <1>2, <1>3, <1>4, <1>5, <1>6 DEF TypeOK
<1>8. JobOK
  BY NoJobMade DEF Init, JobOK, Resting, Made
<1>9. HeadsClosed /\ MemoryClosed
  BY <1>1 DEF Init, HeadsClosed, MemoryClosed, Closed, Stored
<1>10. Fitting
  BY <1>1 DEF Init, Fitting, KeyedHead
<1> QED BY <1>7, <1>8, <1>9, <1>10 DEF DbInv, StoreInv

\* Every step preserves it.
LEMMA DbStep ==
    ASSUME DbInv, [Next]_vars
    PROVE  DbInv'
<1>1. CASE UNCHANGED vars
  <2> USE DEF vars, disk, memory, bounds, history
  <2>1. TypeOK'
    BY <1>1 DEF DbInv, StoreInv, TypeOK
  <2>2. JobOK'
    BY <1>1 DEF DbInv, StoreInv, JobOK
  <2>3. HeadsClosed' /\ MemoryClosed'
    BY <1>1 DEF DbInv, StoreInv, HeadsClosed, MemoryClosed, Closed, Stored, Put, MetaOf
  <2>4. Fitting'
    BY <1>1 DEF DbInv, Fitting, KeyedHead, Fit, Keyed, Coherent
  <2> QED BY <2>1, <2>2, <2>3, <2>4 DEF DbInv, StoreInv
<1>2. ASSUME NEW p \in Procs, Step(p) PROVE DbInv'
  BY <1>2, OpenNewStep, OpenRewriteStep, WriteDocStep, DocsDoneStep, OpenMetaStep, WriteMetaStep,
     SetHeadStep, RemoveHeadStep, DropNextStep, ClearHeadsStep, PutThrowsStep,
     RegistryThrowsStep DEF Step
<1>3. CASE Next
  BY <1>2, <1>3, ConnectStep, OperationStep, CrashStep DEF Next
<1> QED BY <1>1, <1>3

\* In every reachable state the heads on disk and in every process's memory
\* lead to blocks put before them, whatever crashes, errors and overwritten
\* registries came before (persistMeta, HeadRegistry::setHead).
THEOREM StoreSafe == Spec => []StoreInv
<1>1. Init => DbInv
  BY DbInit
<1>2. DbInv /\ [Next]_vars => DbInv'
  BY DbStep
<1>3. DbInv => StoreInv
  BY DEF DbInv
<1> QED BY <1>1, <1>2, <1>3, PTL DEF Spec

\* In every reachable state, in each collection in which no update has changed
\* an `_id`, the document cache agrees with the document index, so loadDocument
\* returns the document the index names.
THEOREM CacheSafe == Spec => []CacheCoherent
<1>1. Init => DbInv
  BY DbInit
<1>2. DbInv /\ [Next]_vars => DbInv'
  BY DbStep
<1>3. DbInv => CacheCoherent
  BY DEF DbInv, Fitting, Fit, Coherent, CacheCoherent
<1> QED BY <1>1, <1>2, <1>3, PTL DEF Spec

-----------------------------------------------------------------------------
(***************************************************************************)
(* Readers.                                                                *)
(***************************************************************************)

EmptyMeta == [mappings |-> NoDocs, indexes |-> {}]

\* Whatever a reader has in memory was published as a whole, and so was what
\* the registry offers it next.
SnapInv ==
    /\ \A c \in Colls : registry[c] \in published[c] \cup {NoMeta}
    /\ \A p \in Procs \ Writers :
          /\ pc[p] \in Resting
          /\ \A c \in Colls : /\ heads[p][c] \in published[c] \cup {NoMeta}
                              /\ MetaOf(p, c) \in published[c] \cup {EmptyMeta}

\* A process changes no memory but its own.
LEMMA OthersKept ==
    ASSUME TypeOK, NEW p \in Procs, NEW q \in Procs, q # p,
           Connect(p) \/ Reconnect(p) \/ Operation(p) \/ Step(p) \/ Crash(p)
    PROVE  /\ heads'[q] = heads[q] /\ index'[q] = index[q]
           /\ indexes'[q] = indexes[q] /\ pc'[q] = pc[q] /\ job'[q] = job[q]
<1> USE DEF Put1, memory, SetMemory, Finish, Goto
<1>0. /\ heads \in [Procs -> Heads] /\ index \in [Procs -> [Colls -> Index]]
      /\ indexes \in [Procs -> [Colls -> SUBSET IndexNames]]
      /\ pc \in [Procs -> PCs] /\ job \in [Procs -> Jobs \cup {NoJob}]
  BY DEF TypeOK
<1>1. CASE Connect(p) \/ Reconnect(p)
  BY <1>0, <1>1 DEF Connect, Reconnect
<1>2. CASE Crash(p)
  BY <1>0, <1>2 DEF Crash
<1>3. CASE Operation(p)
  <2>1. PICK c \in Colls :
    \/ \E b \in Batches : Insert(p, c, b)
    \/ \E f \in Filters, u \in Updates : UpdateOne(p, c, f, u) \/ UpdateMany(p, c, f, u)
    \/ \E f \in Filters : DeleteOne(p, c, f) \/ DeleteMany(p, c, f)
    \/ \E n \in IndexNames : CreateIndex(p, c, n) \/ DropIndex(p, c, n)
    \/ Drop(p, c) \/ DropDatabase(p, c)
    \/ ScanThrows(p, c) \/ WriteFailsToLoad(p, c) \/ Find(p, c)
    BY <1>0, <1>3 DEF Operation
  <2>2. ASSUME NEW idx, NEW ch, NEW xs, SetMemory(p, c, idx, ch, xs)
        PROVE  index'[q] = index[q] /\ indexes'[q] = indexes[q]
    BY <1>0, <2>2
  <2>3. ASSUME NEW w, NEW todo, NEW by, Continue(p, c, w, todo, by)
        PROVE  pc'[q] = pc[q] /\ job'[q] = job[q]
    BY <1>0, <2>3 DEF Continue
  <2>4. ASSUME Finish(p) PROVE pc'[q] = pc[q] /\ job'[q] = job[q]
    BY <1>0, <2>4
  <2>5. BeginWrite(p, c) => heads' = heads
    BY DEF BeginWrite
  <2> HIDE DEF SetMemory, Finish
  <2>6. ASSUME NEW b, Insert(p, c, b)
        PROVE  /\ heads' = heads /\ index'[q] = index[q] /\ indexes'[q] = indexes[q]
               /\ pc'[q] = pc[q] /\ job'[q] = job[q]
    BY <1>0, <2>2, <2>3, <2>5, <2>6 DEF Insert
  <2>7. ASSUME NEW f, NEW v, UpdateOne(p, c, f, v) \/ UpdateMany(p, c, f, v)
        PROVE  /\ heads' = heads /\ index'[q] = index[q] /\ indexes'[q] = indexes[q]
               /\ pc'[q] = pc[q] /\ job'[q] = job[q]
    BY <1>0, <2>2, <2>3, <2>4, <2>5, <2>7 DEF UpdateOne, UpdateMany, Update, UpdateScanned
  <2>8. ASSUME NEW f, DeleteOne(p, c, f) \/ DeleteMany(p, c, f)
        PROVE  /\ heads' = heads /\ index'[q] = index[q] /\ indexes'[q] = indexes[q]
               /\ pc'[q] = pc[q] /\ job'[q] = job[q]
    BY <1>0, <2>2, <2>3, <2>4, <2>5, <2>8 DEF DeleteOne, DeleteMany, Delete, DeleteScanned
  <2>9. ASSUME NEW n, CreateIndex(p, c, n) \/ DropIndex(p, c, n)
        PROVE  /\ heads' = heads /\ index'[q] = index[q] /\ indexes'[q] = indexes[q]
               /\ pc'[q] = pc[q] /\ job'[q] = job[q]
    BY <1>0, <2>2, <2>3, <2>5, <2>9 DEF CreateIndex, DropIndex
  <2>10. CASE Drop(p, c) \/ DropDatabase(p, c)
    BY <1>0, <2>10 DEF Drop, DropDatabase, StartDrop
  <2>11. CASE ScanThrows(p, c)
    BY <1>0, <2>2, <2>4, <2>5, <2>11 DEF ScanThrows
  <2>12. CASE WriteFailsToLoad(p, c)
    BY <1>0, <2>12 DEF WriteFailsToLoad
  <2>13. CASE Find(p, c)
    BY <1>0, <2>2, <2>13 DEF Find, FindIn
  <2> QED
    BY <2>1, <2>6, <2>7, <2>8, <2>9, <2>10, <2>11, <2>12, <2>13
<1>4. CASE Step(p)
  <2>0. ASSUME NEW d, Open(p, d) PROVE pc'[q] = pc[q] /\ job'[q] = job[q]
    BY <1>0, <2>0 DEF Open
  <2>1. CASE OpenNew(p) \/ OpenRewrite(p)
    <3>1. UNCHANGED <<heads, index, indexes>>
      BY <2>1 DEF OpenNew, OpenRewrite
    <3>2. (\E d : Open(p, d)) \/ Finish(p)
      <4> HIDE DEF Finish
      <4>1. CASE OpenNew(p)
        BY <4>1 DEF OpenNew
      <4>2. CASE OpenRewrite(p)
        BY <4>2 DEF OpenRewrite
      <4> QED BY <2>1, <4>1, <4>2
    <3> QED BY <1>0, <2>0, <3>1, <3>2
  <2>2. CASE WriteDoc(p)
    BY <1>0, <2>2 DEF WriteDoc
  <2>3. CASE DocsDone(p) \/ OpenMeta(p) \/ WriteMeta(p)
    BY <1>0, <2>3 DEF DocsDone, OpenMeta, WriteMeta
  <2>4. CASE SetHead(p) \/ ClearHeads(p)
    BY <1>0, <2>4 DEF SetHead, ClearHeads, SetHeads
  <2>5. CASE RemoveHead(p)
    BY <1>0, <2>5 DEF RemoveHead, SetHeads, AfterDrop
  <2>6. CASE DropNext(p) \/ PutThrows(p)
    BY <1>0, <2>6 DEF DropNext, PutThrows
  <2>7. CASE RegistryThrows(p)
    <3>1. PICK h : heads' = [heads EXCEPT ![p] = h]
      BY <1>0, <2>7 DEF RegistryThrows
    <3> QED
      BY <1>0, <2>7, <3>1 DEF RegistryThrows
  <2> QED
    BY <1>0, <1>4, <2>1, <2>2, <2>3, <2>4, <2>5, <2>6, <2>7 DEF Step
<1> QED
  BY <1>1, <1>2, <1>3, <1>4

\* What is published stays published, and the registry holds nothing else.
LEMMA PublishedGrows ==
    ASSUME TypeOK, SnapInv, NEW p \in Procs,
           Connect(p) \/ Reconnect(p) \/ Operation(p) \/ Step(p) \/ Crash(p)
    PROVE  \A c \in Colls : /\ published[c] \subseteq published'[c]
                            /\ registry'[c] \in published'[c] \cup {NoMeta}
<1> SUFFICES ASSUME ~(UNCHANGED <<registry, published>>)
             PROVE  \E h : Persist(h)
  BY DEF SnapInv, Persist
<1>1. Step(p)
  BY DEF Connect, Reconnect, Crash, Operation, Insert, UpdateOne, UpdateMany, Update, DeleteOne, DeleteMany, Delete,
         CreateIndex, DropIndex, Drop, DropDatabase, StartDrop, ScanThrows, WriteFailsToLoad, Find,
         BeginWrite, disk
<1>2. \/ SetHead(p) \/ RemoveHead(p) \/ ClearHeads(p)
  BY <1>1 DEF Step, OpenNew, OpenRewrite, Open, WriteDoc, DocsDone, OpenMeta, WriteMeta, DropNext, PutThrows,
              RegistryThrows, Truncate, PutReturns, WriteOut, LoseFlush, disk
<1> QED
  BY <1>2 DEF SetHead, RemoveHead, ClearHeads, SetHeads

\* What a reader itself does: it connects, finds, or dies.
LEMMA ReaderStep ==
    ASSUME DbInv, SnapInv, NEW p \in Procs \ Writers,
           Connect(p) \/ Reconnect(p) \/ Operation(p) \/ Step(p) \/ Crash(p)
    PROVE  /\ pc'[p] \in Resting
           /\ \A c \in Colls : /\ heads'[p][c] \in published[c] \cup {NoMeta}
                               /\ MetaOf(p, c)' \in published[c] \cup {EmptyMeta}
<1>1. TypeOK
  BY DEF DbInv, StoreInv
<1>2. ~Step(p)
  BY DEF SnapInv, Resting, Step, OpenNew, OpenRewrite, Open, WriteDoc, DocsDone, OpenMeta, WriteMeta, SetHead, RemoveHead,
         AfterDrop, DropNext, ClearHeads, PutThrows, RegistryThrows, At
<1>3. Operation(p) => \E c \in Colls : Find(p, c)
  BY DEF Operation, Insert, UpdateOne, UpdateMany, Update, DeleteOne, DeleteMany, Delete, CreateIndex, DropIndex,
         Drop, DropDatabase, StartDrop, ScanThrows, WriteFailsToLoad, BeginWrite
<1>4. CASE Connect(p) \/ Reconnect(p)
  BY <1>1, <1>4 DEF Connect, Reconnect, SnapInv, MetaOf, TypeOK, Resting
<1>5. CASE Crash(p)
  BY <1>1, <1>5 DEF Crash, SnapInv, MetaOf, EmptyMeta, TypeOK, Resting
<1>6. ASSUME NEW c \in Colls, Find(p, c)
      PROVE  /\ pc'[p] \in Resting
             /\ \A d \in Colls : /\ heads'[p][d] \in published[d] \cup {NoMeta}
                                 /\ MetaOf(p, d)' \in published[d] \cup {EmptyMeta}
  <2>1. UNCHANGED <<heads, pc>>
    BY <1>6 DEF Find
  <2>2. PICK idx, ch, xs : /\ SetMemory(p, c, idx, ch, xs)
                           /\ \/ idx = index[p][c] /\ xs = indexes[p][c]
                              \/ idx = LoadedIndex(p, c) /\ xs = LoadedIndexes(p, c)
    BY <1>6 DEF Find, FindIn
  <2>3. /\ index'[p] = [index[p] EXCEPT ![c] = idx]
        /\ indexes'[p] = [indexes[p] EXCEPT ![c] = xs]
    BY <1>1, <2>2 DEF SetMemory, Put1, TypeOK
  <2>4. /\ \A d \in Colls : d # c => index'[p][d] = index[p][d] /\ indexes'[p][d] = indexes[p][d]
        /\ index'[p][c] = idx /\ indexes'[p][c] = xs
    BY <1>1, <2>3 DEF TypeOK
  <2>5. [mappings |-> idx, indexes |-> xs] \in published[c] \cup {EmptyMeta}
    <3>1. CASE idx = index[p][c] /\ xs = indexes[p][c]
      BY <3>1 DEF SnapInv, MetaOf
    <3>2. CASE idx = LoadedIndex(p, c) /\ xs = LoadedIndexes(p, c) /\ heads[p][c] = NoMeta
      BY <3>2 DEF SnapInv, MetaOf, LoadedIndex, LoadedIndexes
    <3>3. CASE idx = LoadedIndex(p, c) /\ xs = LoadedIndexes(p, c) /\ heads[p][c] # NoMeta
      <4>1. heads[p][c] \in Metas
        BY <1>1, <3>3 DEF TypeOK, Heads
      <4>2. heads[p][c] = [mappings |-> idx, indexes |-> xs]
        BY <3>3, <4>1 DEF Metas, LoadedIndex, LoadedIndexes
      <4> QED
        BY <3>3, <4>2 DEF SnapInv
    <3> QED
      BY <2>2, <3>1, <3>2, <3>3
  <2> QED
    BY <2>1, <2>4, <2>5 DEF SnapInv, MetaOf
<1> QED
  BY <1>2, <1>3, <1>4, <1>5, <1>6

\* Every step keeps what readers see published.
LEMMA SnapStep ==
    ASSUME DbInv, SnapInv, [Next]_vars
    PROVE  SnapInv'
<1>1. TypeOK
  BY DEF DbInv, StoreInv
<1>2. CASE UNCHANGED vars
  BY <1>2 DEF SnapInv, MetaOf, vars, disk, memory
<1>3. ASSUME NEW p \in Procs,
             Connect(p) \/ Reconnect(p) \/ Operation(p) \/ Step(p) \/ Crash(p)
      PROVE  SnapInv'
  <2>1. \A c \in Colls : /\ published[c] \subseteq published'[c]
                         /\ registry'[c] \in published'[c] \cup {NoMeta}
    BY <1>1, <1>3, PublishedGrows
  <2>2. ASSUME NEW q \in Procs \ Writers
        PROVE  /\ pc'[q] \in Resting
               /\ \A c \in Colls : /\ heads'[q][c] \in published[c] \cup {NoMeta}
                                   /\ MetaOf(q, c)' \in published[c] \cup {EmptyMeta}
    <3>1. CASE q = p
      BY <1>3, <3>1, ReaderStep
    <3>2. CASE q # p
      BY <1>1, <1>3, <3>2, OthersKept DEF SnapInv, MetaOf
    <3> QED
      BY <3>1, <3>2
  <2> QED
    BY <2>1, <2>2 DEF SnapInv
<1> QED
  BY <1>2, <1>3 DEF Next

\* A process that only reads has, in each collection, documents and indexes
\* that one commit published together, or nothing, for any number of writers,
\* of crashes and of faults (find, loadFromStore).
THEOREM ReaderSafe == Spec => []ReaderSnapshot
<1>1. Init => DbInv /\ SnapInv
  BY DbInit DEF Init, SnapInv, MetaOf, EmptyMeta, Resting
<1>2. DbInv /\ SnapInv /\ [Next]_vars => (DbInv /\ SnapInv)'
  BY DbStep, SnapStep
<1>3. SnapInv => ReaderSnapshot
  BY DEF SnapInv, ReaderSnapshot, EmptyMeta
<1> QED BY <1>1, <1>2, <1>3, PTL DEF Spec

-----------------------------------------------------------------------------
(***************************************************************************)
(* The refinement: with one writer, no I/O errors and updates that keep    *)
(* the `_id`, every commit is one operation on what was committed before.  *)
(***************************************************************************)

\* No insertMany repeats an id: a batch that does is rejected half way, and
\* what it leaves in the index of a collection without a head is kept.
NoRepeats == \A b \in Batches : \A j, k \in DOMAIN b : b[j].id = b[k].id => j = k

\* No update changes an `_id`.
KeepsIds == \A u \in Updates, d \in Docs : u[d].id = d.id

Elems(s) == {s[k] : k \in DOMAIN s}

\* What is to be put: the keys, each once, and the documents.
Keys(todo) == {e.key : e \in Elems(todo)}
DocsOf(todo) == {e.doc : e \in Elems(todo)}
KeysDiffer(todo) == \A k, l \in DOMAIN todo : todo[k].key = todo[l].key => k = l

\* idx is base with the documents of D put over it, or with those under the
\* keys of S rewritten by u.
Over(idx, base, D) ==
    /\ \A d \in D : idx[d.id] = d
    /\ \A i \in Ids : (\A d \in D : d.id # i) => idx[i] = base[i]
Redone(base, u, S) == [i \in Ids |-> IF i \in S THEN u[base[i]] ELSE base[i]]

\* The keys of f's matches in base, and what one operation may rewrite of them.
Hits(base, f) == {i \in Ids : base[i] # NoDoc /\ base[i] \in f}
Rewritten(base, S) == \E f \in Filters :
    S \in SUBSET Hits(base, f) /\ (S = Hits(base, f) \/ \E i \in Ids : S = {i})

\* idx and xs are what one operation makes of base and bxs.
Inserted(base, bxs, idx, xs) ==
    /\ xs = bxs
    /\ \E b \in Batches : Over(idx, base, Elems(b)) /\ \A d \in Elems(b) : base[d.id] = NoDoc
Changed(base, bxs, idx, xs) ==
    /\ xs = bxs
    /\ \E u \in Updates, S \in SUBSET Ids : Rewritten(base, S) /\ idx = Redone(base, u, S)
Deleted(base, bxs, idx, xs) ==
    /\ xs = bxs
    /\ \E S \in SUBSET Ids : Rewritten(base, S) /\ idx = Without(base, S)
Reindexed(base, bxs, idx, xs) ==
    /\ idx = base
    /\ \E n \in IndexNames : xs \in {bxs \cup {n}, bxs \ {n}}
Result(base, bxs, idx, xs) ==
    \/ Inserted(base, bxs, idx, xs) \/ Changed(base, bxs, idx, xs)
    \/ Deleted(base, bxs, idx, xs) \/ Reindexed(base, bxs, idx, xs)

\* An insert has put the documents D and is to put todo.
Inserting(base, idx, todo) == \E D \in SUBSET Docs :
    /\ Over(idx, base, D)
    /\ \E b \in Batches : Elems(b) = D \cup DocsOf(todo)
    /\ \A e \in Elems(todo) : e.doc \in Docs /\ e.doc.id = e.key
    /\ KeysDiffer(todo)
    /\ \A d \in D : d.id \in Ids /\ base[d.id] = NoDoc /\ d.id \notin Keys(todo)

\* An update u has rewritten the documents under D and is to rewrite todo.
Updating(base, idx, todo, u) == \E D \in SUBSET Ids :
    /\ idx = Redone(base, u, D)
    /\ Rewritten(base, D \cup Keys(todo))
    /\ KeysDiffer(todo) /\ D \cap Keys(todo) = {}

Progress(base, idx, j) ==
    IF j.by = NoUpdate THEN Inserting(base, idx, j.todo) ELSE Updating(base, idx, j.todo, j.by)

\* What is to be put under the first key of the job.
NextOK(base, idx, j) ==
    LET e == Head(j.todo)
    IN  IF j.by = NoUpdate THEN idx[e.key] = NoDoc ELSE e.doc = j.by[base[e.key]]

Busy == {"doc", "docw", "meta", "metaw", "head"}

\* The memory of a collection without a head is empty between operations.
Clean(w, c) ==
    \/ pc[w] \in Busy /\ c = job[w].coll
    \/ pc[w] # "down" /\ registry[c] # NoMeta
    \/ index[w][c] = NoDocs /\ indexes[w][c] = {}

\* The operation under way works on what is committed.
PuttingDocs(w, c) ==
    /\ indexes[w][c] = CommittedIndexes(c)
    /\ Progress(Committed(c), index[w][c], job[w])
PuttingMeta(w, c) == Result(Committed(c), CommittedIndexes(c), index[w][c], indexes[w][c])

SerInv(w) ==
    /\ rekeyed = {}
    /\ pc[w] # "down" => heads[w] = registry
    /\ \A c \in Colls : Clean(w, c)
    /\ pc[w] \in {"doc", "docw"} => PuttingDocs(w, job[w].coll)
    /\ pc[w] = "docw" => NextOK(Committed(job[w].coll), index[w][job[w].coll], job[w])
    /\ pc[w] \in {"meta", "metaw", "head"} => PuttingMeta(w, job[w].coll)
    /\ pc[w] \in {"dbhead", "dropdb"} => \A d \in Colls \ job[w].more :
          (d # job[w].coll \/ pc[w] = "dropdb") => registry[d] = NoMeta

\* What is committed does not change while the registry does not.
LEMMA CommittedKept ==
    ASSUME registry' = registry
    PROVE  \A c : Committed(c)' = Committed(c) /\ CommittedIndexes(c)' = CommittedIndexes(c)
BY DEF Committed, CommittedIndexes

\* A step that leaves the registry and all of w alone.
LEMMA SerFrame ==
    ASSUME NEW w, SerInv(w), registry' = registry, rekeyed' = rekeyed,
           heads'[w] = heads[w], index'[w] = index[w], indexes'[w] = indexes[w],
           pc'[w] = pc[w], job'[w] = job[w]
    PROVE  SerInv(w)'
BY CommittedKept DEF SerInv, Clean, PuttingDocs, PuttingMeta, NextOK

\* Head and tail of what is to be put.
LEMMA Uncons ==
    ASSUME NEW s \in Seq(Entries), s # <<>>
    PROVE  /\ Head(s) \in Entries /\ Tail(s) \in Seq(Entries)
           /\ Elems(s) = {Head(s)} \cup Elems(Tail(s))
           /\ Keys(s) = {Head(s).key} \cup Keys(Tail(s))
           /\ DocsOf(s) = {Head(s).doc} \cup DocsOf(Tail(s))
           /\ KeysDiffer(s) => KeysDiffer(Tail(s)) /\ Head(s).key \notin Keys(Tail(s))
<1>1. Head(s) = s[1] /\ Len(s) \in Nat /\ Len(s) >= 1 /\ DOMAIN s = 1..Len(s)
  OBVIOUS
<1>2. /\ Tail(s) \in Seq(Entries) /\ DOMAIN Tail(s) = 1..(Len(s) - 1)
      /\ \A k \in DOMAIN Tail(s) : Tail(s)[k] = s[k + 1] /\ k + 1 \in DOMAIN s /\ k + 1 # 1
  OBVIOUS
<1>3. \A k \in DOMAIN s : k # 1 => k - 1 \in DOMAIN Tail(s) /\ Tail(s)[k - 1] = s[k]
  BY <1>1, <1>2
<1>4. Elems(s) = {Head(s)} \cup Elems(Tail(s))
  <2>1. \A x \in Elems(s) : x \in {Head(s)} \cup Elems(Tail(s))
    <3> SUFFICES ASSUME NEW k \in DOMAIN s PROVE s[k] \in {Head(s)} \cup Elems(Tail(s))
      BY DEF Elems
    <3> QED BY <1>1, <1>3 DEF Elems
  <2>2. \A x \in Elems(Tail(s)) : x \in Elems(s)
    BY <1>2 DEF Elems
  <2>3. Head(s) \in Elems(s)
    BY <1>1 DEF Elems
  <2> QED BY <2>1, <2>2, <2>3
<1>5. ASSUME KeysDiffer(s) PROVE KeysDiffer(Tail(s)) /\ Head(s).key \notin Keys(Tail(s))
  <2>1. ASSUME NEW k \in DOMAIN Tail(s), NEW l \in DOMAIN Tail(s), Tail(s)[k].key = Tail(s)[l].key
        PROVE  k = l
    <3>1. k + 1 = l + 1
      BY <1>2, <1>5, <2>1 DEF KeysDiffer
    <3> QED BY <1>2, <3>1
  <2>2. ASSUME NEW k \in DOMAIN Tail(s) PROVE Tail(s)[k].key # Head(s).key
    <3>1. 1 \in DOMAIN s
      BY <1>1
    <3> QED BY <1>1, <1>2, <1>5, <3>1 DEF KeysDiffer
  <2> QED BY <2>1, <2>2 DEF Elems, Keys, KeysDiffer
<1> HIDE DEF Elems
<1>6. Keys(s) = {Head(s).key} \cup Keys(Tail(s)) /\ DocsOf(s) = {Head(s).doc} \cup DocsOf(Tail(s))
  BY <1>4 DEF Keys, DocsOf
<1> QED BY <1>1, <1>2, <1>4, <1>5, <1>6, TailOK

\* Nothing is left to put.
LEMMA NoElems == Elems(<<>>) = {} /\ Keys(<<>>) = {} /\ DocsOf(<<>>) = {}
BY DEF Elems, Keys, DocsOf

\* Keys still differ when the first entry is made.
LEMMA OpenedKeysDiffer ==
    ASSUME NEW s \in Seq(Entries), s # <<>>, NEW t \in Seq(Entries), t # <<>>,
           Head(t).key = Head(s).key, Tail(t) = Tail(s), KeysDiffer(s)
    PROVE  KeysDiffer(t)
<1>1. /\ Len(t) = Len(s) /\ DOMAIN t = 1..Len(s) /\ DOMAIN s = 1..Len(s) /\ Len(s) \in Nat
      /\ t[1] = Head(t) /\ s[1] = Head(s)
  <2>1. Len(Tail(t)) = Len(t) - 1 /\ Len(Tail(s)) = Len(s) - 1 /\ Len(s) \in Nat /\ Len(t) \in Nat
    OBVIOUS
  <2>2. Len(t) = Len(s)
    <3>1. Len(Tail(t)) = Len(Tail(s))
      OBVIOUS
    <3> DEFINE a == Len(t)
               b == Len(s)
               x == Len(Tail(t))
               y == Len(Tail(s))
    <3>2. a \in Nat /\ b \in Nat /\ x = a - 1 /\ y = b - 1 /\ x = y
      BY <2>1, <3>1
    <3> HIDE DEF a, b, x, y
    <3>3. a = b
      BY <3>2
    <3> QED BY <3>3 DEF a, b
  <2>3. DOMAIN t = 1..Len(t) /\ DOMAIN s = 1..Len(s) /\ t[1] = Head(t) /\ s[1] = Head(s)
    OBVIOUS
  <2> HIDE <2>1
  <2> QED BY <2>1, <2>2, <2>3
<1>2. \A k \in 1..Len(s) : k # 1 => t[k] = Tail(t)[k - 1] /\ s[k] = Tail(s)[k - 1]
  <2> SUFFICES ASSUME NEW k \in 1..Len(s), k # 1
               PROVE  t[k] = Tail(t)[k - 1] /\ s[k] = Tail(s)[k - 1]
    OBVIOUS
  <2>1. k - 1 \in 1..Len(Tail(t)) /\ k - 1 \in 1..Len(Tail(s)) /\ (k - 1) + 1 = k
    BY <1>1
  <2> QED BY <2>1, TailOK
<1>3. \A k \in 1..Len(s) : t[k].key = s[k].key
  BY <1>1, <1>2
<1> QED BY <1>1, <1>3 DEF KeysDiffer

-----------------------------------------------------------------------------
(***************************************************************************)
(* Putting the documents of one operation.                                 *)
(***************************************************************************)

\* Before the first put.
LEMMA InsertBegins ==
    ASSUME NoRepeats, NEW base, NEW b \in Batches, NEW todo,
           todo = [k \in DOMAIN b |-> [key |-> b[k].id, doc |-> b[k]]]
    PROVE  Inserting(base, base, todo)
<1>1. b \in Seq({d \in Docs : d.id # NoId})
  BY DbAssumption
<1>2. PICK n \in Nat : DOMAIN b = 1..n
  BY <1>1
<1>3. \A k \in DOMAIN b : b[k] \in Docs
  BY <1>1, <1>2
<1>4. DOMAIN todo = DOMAIN b /\ \A k \in DOMAIN b : todo[k].key = b[k].id /\ todo[k].doc = b[k]
  OBVIOUS
<1>5. \A e \in Elems(todo) : e.doc \in Docs /\ e.doc.id = e.key
  BY <1>3, <1>4 DEF Elems
<1>6. KeysDiffer(todo)
  BY <1>4 DEF KeysDiffer, NoRepeats
<1>7. Elems(b) = DocsOf(todo)
  <2>1. \A k \in DOMAIN b : b[k] \in DocsOf(todo)
    BY <1>4 DEF Elems, DocsOf
  <2>2. \A d \in DocsOf(todo) : d \in Elems(b)
    BY <1>4 DEF Elems, DocsOf
  <2> QED BY <2>1, <2>2 DEF Elems
<1>8. Over(base, base, {}) /\ {} \in SUBSET Docs /\ Elems(b) = {} \cup DocsOf(todo)
  BY <1>7 DEF Over
<1> HIDE DEF Elems, DocsOf, Keys, KeysDiffer, Over
<1> QED BY <1>5, <1>6, <1>8 DEF Inserting

LEMMA UpdateBegins ==
    ASSUME NEW base \in Index, NEW u, NEW hit \in SUBSET Ids, Rewritten(base, hit),
           NEW s, IsListing(s, {Unmade(i) : i \in hit})
    PROVE  Updating(base, base, s, u)
<1>1. base = Redone(base, u, {}) /\ {} \in SUBSET Ids
  BY DEF Redone, Index
<1>2. Elems(s) = {Unmade(i) : i \in hit}
  BY DEF IsListing, Elems
<1>3. \A i : Unmade(i).key = i
  BY DEF Unmade
<1>4. Keys(s) = hit
  <2>1. \A e \in Elems(s) : e.key \in hit
    BY <1>2, <1>3
  <2>2. \A i \in hit : \E e \in Elems(s) : e.key = i
    BY <1>2, <1>3
  <2> QED BY <2>1, <2>2 DEF Keys
<1>5. KeysDiffer(s)
  <2> SUFFICES ASSUME NEW k \in DOMAIN s, NEW l \in DOMAIN s, s[k].key = s[l].key PROVE k = l
    BY DEF KeysDiffer
  <2>1. s[k] \in Elems(s) /\ s[l] \in Elems(s)
    BY DEF Elems
  <2>2. s[k] = Unmade(s[k].key) /\ s[l] = Unmade(s[l].key)
    BY <1>2, <1>3, <2>1
  <2> QED BY <2>2 DEF IsListing
<1>6. {} \cup Keys(s) = hit /\ {} \cap Keys(s) = {}
  BY <1>4
<1> QED BY <1>1, <1>5, <1>6 DEF Updating

\* An insert of a document whose id is taken: the id was committed before.
LEMMA RejectedIsCommitted ==
    ASSUME NEW base, NEW idx, NEW todo \in Seq(Entries), todo # <<>>,
           Inserting(base, idx, todo)
    PROVE  idx[Head(todo).key] = base[Head(todo).key]
<1>1. Head(todo) \in Entries /\ Head(todo).key \in Keys(todo)
  BY Uncons
<1>2. Head(todo).key \in Ids
  BY <1>1 DEF Entries
<1> QED BY <1>1, <1>2 DEF Inserting, Over

\* The document an update is to rewrite is the committed one.
LEMMA UnmadeIsCommitted ==
    ASSUME NEW base \in Index, NEW idx, NEW todo \in Seq(Entries), todo # <<>>, NEW u,
           Updating(base, idx, todo, u)
    PROVE  /\ idx[Head(todo).key] = base[Head(todo).key]
           /\ base[Head(todo).key] \in Docs
<1>1. Head(todo) \in Entries /\ Head(todo).key \in Keys(todo)
  BY Uncons
<1>2. Head(todo).key \in Ids
  BY <1>1 DEF Entries
<1>3. PICK D \in SUBSET Ids : /\ idx = Redone(base, u, D) /\ D \cap Keys(todo) = {}
                              /\ Rewritten(base, D \cup Keys(todo))
  BY DEF Updating
<1>4. PICK f \in Filters : D \cup Keys(todo) \in SUBSET Hits(base, f)
  BY <1>3 DEF Rewritten
<1>5. base[Head(todo).key] # NoDoc
  BY <1>1, <1>4 DEF Hits
<1> QED BY <1>1, <1>2, <1>3, <1>5 DEF Redone, Index

\* One more document.
LEMMA InsertGoesOn ==
    ASSUME NEW base \in Index, NEW idx \in Index, NEW todo \in Seq(Entries), todo # <<>>,
           Inserting(base, idx, todo), idx[Head(todo).key] = NoDoc
    PROVE  /\ Inserting(base, [idx EXCEPT ![Head(todo).key] = Head(todo).doc], Tail(todo))
           /\ Head(todo).doc.id = Head(todo).key
<1>1. PICK D \in SUBSET Docs :
         /\ Over(idx, base, D)
         /\ \E b \in Batches : Elems(b) = D \cup DocsOf(todo)
         /\ \A e \in Elems(todo) : e.doc \in Docs /\ e.doc.id = e.key
         /\ KeysDiffer(todo)
         /\ \A d \in D : d.id \in Ids /\ base[d.id] = NoDoc /\ d.id \notin Keys(todo)
  BY DEF Inserting
<1>2. PICK h : h = Head(todo)
  OBVIOUS
<1>3. PICK d, rest : d = h.doc /\ rest = Tail(todo)
  OBVIOUS
<1>4. /\ h \in Entries /\ Elems(todo) = {h} \cup Elems(rest)
      /\ Keys(todo) = {h.key} \cup Keys(rest) /\ DocsOf(todo) = {d} \cup DocsOf(rest)
      /\ KeysDiffer(rest) /\ h.key \notin Keys(rest)
  BY <1>1, <1>2, <1>3, Uncons
<1>5. d \in Docs /\ d.id = h.key /\ h.key \in Ids
  BY <1>1, <1>3, <1>4 DEF Entries
<1>6. base[d.id] = NoDoc
  BY <1>2, <1>5, RejectedIsCommitted
<1>7. PICK new : new = [idx EXCEPT ![h.key] = h.doc]
  OBVIOUS
<1>8. /\ new[d.id] = d /\ \A i \in Ids : i # d.id => new[i] = idx[i]
  BY <1>3, <1>5, <1>7 DEF Index
<1>9. \A x \in D : x.id # d.id /\ x.id \in Ids
  BY <1>1, <1>4, <1>5
<1>10. Over(new, base, D \cup {d})
  BY <1>1, <1>5, <1>8, <1>9 DEF Over
<1>11. \E b \in Batches : Elems(b) = (D \cup {d}) \cup DocsOf(rest)
  BY <1>1, <1>4
<1>12. \A x \in D \cup {d} : x.id \in Ids /\ base[x.id] = NoDoc /\ x.id \notin Keys(rest)
  BY <1>1, <1>4, <1>5, <1>6
<1>13. D \cup {d} \in SUBSET Docs /\ \A e \in Elems(rest) : e.doc \in Docs /\ e.doc.id = e.key
  BY <1>1, <1>4, <1>5
<1>14. Inserting(base, new, rest)
  <2> HIDE DEF Elems, Over, Keys, DocsOf, KeysDiffer
  <2> QED BY <1>4, <1>10, <1>11, <1>12, <1>13 DEF Inserting
<1> QED BY <1>2, <1>3, <1>5, <1>7, <1>14

LEMMA UpdateGoesOn ==
    ASSUME NEW base \in Index, NEW idx \in Index, NEW todo \in Seq(Entries), todo # <<>>, NEW u,
           Updating(base, idx, todo, u), Head(todo).doc = u[base[Head(todo).key]]
    PROVE  Updating(base, [idx EXCEPT ![Head(todo).key] = Head(todo).doc], Tail(todo), u)
<1>1. PICK D \in SUBSET Ids :
         /\ idx = Redone(base, u, D)
         /\ Rewritten(base, D \cup Keys(todo))
         /\ KeysDiffer(todo) /\ D \cap Keys(todo) = {}
  BY DEF Updating
<1>2. PICK h : h = Head(todo)
  OBVIOUS
<1>3. PICK i, rest : i = h.key /\ rest = Tail(todo)
  OBVIOUS
<1>4. /\ h \in Entries /\ Keys(todo) = {i} \cup Keys(rest)
      /\ KeysDiffer(rest) /\ i \notin Keys(rest)
  BY <1>1, <1>2, <1>3, Uncons
<1>5. i \in Ids /\ h.doc = u[base[i]]
  BY <1>2, <1>3, <1>4 DEF Entries
<1>6. PICK new : new = [idx EXCEPT ![i] = h.doc]
  OBVIOUS
<1>7. new = Redone(base, u, D \cup {i})
  BY <1>1, <1>5, <1>6 DEF Redone
<1>8. D \cup {i} \in SUBSET Ids /\ (D \cup {i}) \cup Keys(rest) = D \cup Keys(todo)
      /\ (D \cup {i}) \cap Keys(rest) = {}
  BY <1>1, <1>4, <1>5
<1>9. Updating(base, new, rest, u)
  <2> HIDE DEF Redone, Rewritten, Keys, KeysDiffer
  <2> QED BY <1>1, <1>4, <1>7, <1>8 DEF Updating
<1> QED BY <1>2, <1>3, <1>6, <1>9

\* After the last put.
LEMMA InsertEnds ==
    ASSUME NEW base, NEW idx, NEW xs, Inserting(base, idx, <<>>)
    PROVE  Inserted(base, xs, idx, xs)
<1>1. PICK D \in SUBSET Docs, b \in Batches :
         /\ Over(idx, base, D) /\ Elems(b) = D \cup DocsOf(<<>>)
         /\ \A d \in D : base[d.id] = NoDoc
  BY DEF Inserting
<1>2. Elems(b) = D
  BY <1>1, NoElems
<1> QED BY <1>1, <1>2 DEF Inserted

LEMMA UpdateEnds ==
    ASSUME NEW base, NEW idx, NEW xs, NEW u \in Updates, Updating(base, idx, <<>>, u)
    PROVE  Changed(base, xs, idx, xs)
<1>1. PICK D \in SUBSET Ids : idx = Redone(base, u, D) /\ Rewritten(base, D \cup Keys(<<>>))
  BY DEF Updating
<1>2. D \cup Keys(<<>>) = D
  BY NoElems
<1> QED BY <1>1, <1>2 DEF Changed

-----------------------------------------------------------------------------
(***************************************************************************)
(* The writer opens the database, dies, reads, and begins an operation.    *)
(***************************************************************************)

\* What an idle writer has in memory, or reloads, is what is committed.
LEMMA LoadedIsCommitted ==
    ASSUME NEW w, SerInv(w), pc[w] = "idle", NEW c \in Colls
    PROVE  /\ LoadedIndex(w, c) = Committed(c)
           /\ LoadedIndexes(w, c) = CommittedIndexes(c)
<1>1. heads[w] = registry /\ Clean(w, c)
  BY DEF SerInv
<1>2. registry[c] = NoMeta => index[w][c] = NoDocs /\ indexes[w][c] = {}
  BY <1>1 DEF Clean, Busy
<1> QED BY <1>1, <1>2 DEF LoadedIndex, LoadedIndexes, Committed, CommittedIndexes

\* A step after which the writer is idle with what it had or what is committed.
LEMMA IdleSer ==
    ASSUME NEW w, SerInv(w), pc[w] = "idle", pc'[w] = "idle",
           registry' = registry, rekeyed' = rekeyed, heads'[w] = registry,
           \A d \in Colls :
              \/ index'[w][d] = index[w][d] /\ indexes'[w][d] = indexes[w][d]
              \/ index'[w][d] = Committed(d) /\ indexes'[w][d] = CommittedIndexes(d)
    PROVE  SerInv(w)'
<1>1. ASSUME NEW d \in Colls PROVE Clean(w, d)'
  BY DEF SerInv, Clean, Busy, Committed, CommittedIndexes
<1> QED BY <1>1 DEF SerInv

\* The memory after SetMemory.
LEMMA MemoryIs ==
    ASSUME TypeOK, NEW w \in Procs, NEW c \in Colls, NEW idx, NEW ch, NEW xs,
           SetMemory(w, c, idx, ch, xs)
    PROVE  /\ index'[w][c] = idx /\ indexes'[w][c] = xs
           /\ \A d \in Colls \ {c} : index'[w][d] = index[w][d] /\ indexes'[w][d] = indexes[w][d]
<1>1. /\ index'[w] = [index[w] EXCEPT ![c] = idx]
      /\ indexes'[w] = [indexes[w] EXCEPT ![c] = xs]
  BY DEF SetMemory, Put1, TypeOK
<1> QED BY <1>1 DEF TypeOK

LEMMA OpenSer ==
    ASSUME TypeOK, NEW w \in Procs, SerInv(w), Connect(w) \/ Reconnect(w) \/ Crash(w)
    PROVE  SerInv(w)' /\ registry' = registry
<1>1. registry' = registry /\ rekeyed' = rekeyed
  BY DEF Connect, Reconnect, Crash, disk, history
<1>2. CASE Reconnect(w)
  <2>1. pc'[w] = "idle" /\ pc[w] = "idle" /\ heads'[w] = registry /\ index' = index /\ indexes' = indexes
    BY <1>2 DEF Reconnect, TypeOK
  <2> QED BY <1>1, <2>1, IdleSer
<1>3. CASE Connect(w)
  <2>1. /\ pc[w] = "down" /\ pc'[w] = "idle" /\ heads'[w] = registry
        /\ index' = index /\ indexes' = indexes
    BY <1>3 DEF Connect, TypeOK
  <2>2. ASSUME NEW d \in Colls PROVE Clean(w, d)'
    BY <2>1 DEF SerInv, Clean, Busy
  <2> QED BY <1>1, <2>1, <2>2 DEF SerInv
<1>4. CASE Crash(w)
  <2>1. /\ pc'[w] = "down" /\ \A d \in Colls : index'[w][d] = NoDocs /\ indexes'[w][d] = {}
    BY <1>4 DEF Crash, TypeOK
  <2>2. ASSUME NEW d \in Colls PROVE Clean(w, d)'
    BY <2>1 DEF Clean
  <2> QED BY <1>1, <2>1, <2>2 DEF SerInv
<1> QED BY <1>1, <1>2, <1>3, <1>4

LEMMA FindSer ==
    ASSUME TypeOK, NEW w \in Procs, NEW c \in Colls, SerInv(w), Find(w, c)
    PROVE  SerInv(w)' /\ registry' = registry
<1>1. /\ pc[w] = "idle" /\ UNCHANGED <<registry, heads, pc, rekeyed>> /\ heads[w] = registry
  BY DEF Find, disk, history, SerInv
<1>2. PICK idx, ch, xs : /\ SetMemory(w, c, idx, ch, xs)
                         /\ \/ idx = index[w][c] /\ xs = indexes[w][c]
                            \/ idx = LoadedIndex(w, c) /\ xs = LoadedIndexes(w, c)
  BY DEF Find, FindIn
<1> HIDE DEF SetMemory
<1> QED BY <1>1, <1>2, MemoryIs, LoadedIsCommitted, IdleSer

\* An operation that ends where it began, under a fault or without a match.
LEMMA EndsSer ==
    ASSUME TypeOK, NEW w \in Procs, NEW c \in Colls, SerInv(w), BeginWrite(w, c), NEW ch,
           SetMemory(w, c, Committed(c), ch, CommittedIndexes(c)), Finish(w)
    PROVE  SerInv(w)' /\ registry' = registry
<1>1. /\ pc[w] = "idle" /\ UNCHANGED <<registry, heads, rekeyed>> /\ heads[w] = registry
      /\ pc'[w] = "idle"
  BY DEF BeginWrite, disk, SerInv, Finish, TypeOK
<1> QED BY <1>1, MemoryIs, IdleSer

\* An operation that goes on to its documents or to its CollectionMeta block.
LEMMA ContinuesSer ==
    ASSUME TypeOK, NEW w \in Procs, NEW c \in Colls, SerInv(w), BeginWrite(w, c),
           NEW idx, NEW ch, NEW xs, SetMemory(w, c, idx, ch, xs),
           NEW where \in {"doc", "meta"}, NEW todo, NEW by,
           Continue(w, c, where, todo, by),
           where = "doc" => /\ xs = CommittedIndexes(c)
                            /\ IF by = NoUpdate THEN Inserting(Committed(c), idx, todo)
                                                ELSE Updating(Committed(c), idx, todo, by),
           where = "meta" => Result(Committed(c), CommittedIndexes(c), idx, xs)
    PROVE  SerInv(w)' /\ registry' = registry
<1>1. /\ pc[w] = "idle" /\ UNCHANGED <<registry, heads, rekeyed>> /\ heads[w] = registry
      /\ pc'[w] = where
  BY DEF BeginWrite, disk, SerInv, Continue, TypeOK
<1>2. job'[w].coll = c /\ job'[w].todo = todo /\ job'[w].by = by
  BY DEF Continue, TypeOK
<1>3. /\ index'[w][c] = idx /\ indexes'[w][c] = xs
      /\ \A d \in Colls \ {c} : index'[w][d] = index[w][d] /\ indexes'[w][d] = indexes[w][d]
  BY MemoryIs
<1>4. ASSUME NEW d \in Colls PROVE Clean(w, d)'
  BY <1>1, <1>2, <1>3 DEF SerInv, Clean, Busy
<1>5. where = "doc" => PuttingDocs(w, job[w].coll)'
  BY <1>1, <1>2, <1>3, CommittedKept DEF PuttingDocs, Progress
<1>6. where = "meta" => PuttingMeta(w, job[w].coll)'
  BY <1>1, <1>2, <1>3, CommittedKept DEF PuttingMeta
<1> QED BY <1>1, <1>4, <1>5, <1>6 DEF SerInv

LEMMA StartDropSer ==
    ASSUME TypeOK, NEW w \in Procs, NEW c \in Colls, SerInv(w), Drop(w, c) \/ DropDatabase(w, c)
    PROVE  SerInv(w)' /\ registry' = registry
<1>0. PICK where \in {"unhead", "dbhead"} : \E more :
         /\ StartDrop(w, c, where, more)
         /\ where = "dbhead" => more = Colls \ {c}
  BY DEF Drop, DropDatabase
<1>1. PICK more : /\ StartDrop(w, c, where, more)
                  /\ where = "dbhead" => more = Colls \ {c}
  BY <1>0
<1>2. /\ pc[w] = "idle" /\ pc'[w] = where
      /\ UNCHANGED <<registry, heads, index, indexes, rekeyed>>
      /\ job'[w].coll = c /\ job'[w].more = more
  BY <1>1 DEF StartDrop, disk, memory, TypeOK
<1>3. ASSUME NEW d \in Colls PROVE Clean(w, d)'
  BY <1>2 DEF SerInv, Clean, Busy
<1> QED BY <1>1, <1>2, <1>3 DEF SerInv

\* A scan finds what the committed documents match: the cache is coherent.
LEMMA ScanFinds ==
    ASSUME NEW idx \in Index, NEW ch \in Index, Fit(idx, ch), NEW f \in Filters, NEW many \in BOOLEAN,
           NEW V \in SUBSET In(idx), NEW after, NEW hit \in SUBSET V, hit # {},
           Finds(idx, ch, f, many, V, after, hit)
    PROVE  Rewritten(idx, hit)
<1>1. \A i \in V : i \in hit <=> idx[i] \in f
  BY SeenOK DEF Finds
<1>2. V \subseteq Ids /\ \A i \in V : idx[i] # NoDoc
  BY DEF In
<1>3. hit \subseteq Hits(idx, f)
  BY <1>1, <1>2 DEF Hits
<1>4. V = In(idx) => hit = Hits(idx, f)
  BY <1>1, <1>3 DEF Hits, In
<1>5. V = In(idx) \/ Cardinality(hit) = 1
  BY DEF Finds, FullScan, FirstMatch
<1>6. Cardinality(hit) = 1 => \E i \in Ids : hit = {i}
  <2>1. hit \subseteq Ids /\ IsFiniteSet(hit)
    BY <1>2, FS_Subset, DbAssumption
  <2> QED BY <2>1, FS_Singleton
<1> QED BY <1>3, <1>4, <1>5, <1>6 DEF Rewritten

\* updateOne and updateMany.
LEMMA UpdateSer ==
    ASSUME DbInv, NEW w \in Procs, NEW c \in Colls, SerInv(w), NEW f \in Filters, NEW u \in Updates,
           UpdateOne(w, c, f, u) \/ UpdateMany(w, c, f, u)
    PROVE  SerInv(w)' /\ registry' = registry
<1> DEFINE idx == LoadedIndex(w, c)
           ch  == LoadedCache(w, c)
<1>1. PICK many \in BOOLEAN : Update(w, c, f, u, many)
  BY DEF UpdateOne, UpdateMany
<1>2. TypeOK /\ BeginWrite(w, c) /\ pc[w] = "idle"
  BY <1>1 DEF DbInv, StoreInv, Update, BeginWrite
<1>3. PICK V \in SUBSET In(idx) : \E after \in Scans(idx, ch, V), hit \in SUBSET V :
         Finds(idx, ch, f, many, V, after, hit) /\ UpdateScanned(w, c, u, after, hit)
  BY <1>1 DEF Update
<1>4. PICK after \in Scans(idx, ch, V), hit \in SUBSET V :
         Finds(idx, ch, f, many, V, after, hit) /\ UpdateScanned(w, c, u, after, hit)
  BY <1>3
<1>5. idx = Committed(c) /\ LoadedIndexes(w, c) = CommittedIndexes(c)
  BY <1>2, LoadedIsCommitted
<1>6. SetMemory(w, c, Committed(c), after, CommittedIndexes(c))
  BY <1>4, <1>5 DEF UpdateScanned
<1>7. CASE hit = {}
  BY <1>2, <1>4, <1>6, <1>7, EndsSer DEF UpdateScanned
<1>8. CASE hit # {}
  <2>1. PICK s : IsListing(s, {Unmade(i) : i \in hit}) /\ Continue(w, c, "doc", s, u)
    BY <1>4, <1>8 DEF UpdateScanned
  <2>2. idx \in Index /\ ch \in Index /\ Fit(idx, ch)
    BY LoadedOK DEF SerInv
  <2>3. Rewritten(idx, hit) /\ hit \in SUBSET Ids
    <3> HIDE DEF idx, ch
    <3>1. Rewritten(idx, hit)
      BY <1>4, <1>8, <2>2, ScanFinds
    <3> QED BY <3>1 DEF In
  <2>4. Updating(Committed(c), Committed(c), s, u)
    <3> HIDE DEF idx
    <3> QED BY <1>5, <2>1, <2>2, <2>3, UpdateBegins
  <2>5. u # NoUpdate
    BY DbAssumption
  <2> HIDE DEF idx, ch
  <2> QED BY <1>2, <1>6, <2>1, <2>4, <2>5, ContinuesSer
<1> QED BY <1>7, <1>8

\* deleteOne and deleteMany.
LEMMA DeleteSer ==
    ASSUME DbInv, NEW w \in Procs, NEW c \in Colls, SerInv(w), NEW f \in Filters,
           DeleteOne(w, c, f) \/ DeleteMany(w, c, f)
    PROVE  SerInv(w)' /\ registry' = registry
<1> DEFINE idx == LoadedIndex(w, c)
           ch  == LoadedCache(w, c)
<1>1. PICK many \in BOOLEAN : Delete(w, c, f, many)
  BY DEF DeleteOne, DeleteMany
<1>2. TypeOK /\ BeginWrite(w, c) /\ pc[w] = "idle"
  BY <1>1 DEF DbInv, StoreInv, Delete, BeginWrite
<1>3. PICK V \in SUBSET In(idx) : \E after \in Scans(idx, ch, V), hit \in SUBSET V :
         Finds(idx, ch, f, many, V, after, hit) /\ DeleteScanned(w, c, after, hit)
  BY <1>1 DEF Delete
<1>4. PICK after \in Scans(idx, ch, V), hit \in SUBSET V :
         Finds(idx, ch, f, many, V, after, hit) /\ DeleteScanned(w, c, after, hit)
  BY <1>3
<1>5. idx = Committed(c) /\ LoadedIndexes(w, c) = CommittedIndexes(c)
  BY <1>2, LoadedIsCommitted
<1>6. PICK new : SetMemory(w, c, Without(Committed(c), hit), new, CommittedIndexes(c))
  BY <1>4, <1>5 DEF DeleteScanned
<1>7. idx \in Index /\ ch \in Index /\ Fit(idx, ch)
  BY LoadedOK DEF SerInv
<1>8. CASE hit = {}
  <2>1. Without(Committed(c), hit) = Committed(c)
    BY <1>5, <1>7, <1>8 DEF Without, Index
  <2> QED BY <1>2, <1>4, <1>6, <1>8, <2>1, EndsSer DEF DeleteScanned
<1>9. CASE hit # {}
  <2>1. Continue(w, c, "meta", <<>>, NoUpdate)
    BY <1>4, <1>9 DEF DeleteScanned
  <2>2. Rewritten(Committed(c), hit) /\ hit \in SUBSET Ids
    <3> HIDE DEF idx, ch
    <3>1. Rewritten(idx, hit)
      BY <1>4, <1>7, <1>9, ScanFinds
    <3> QED BY <1>5, <3>1 DEF In
  <2>3. Result(Committed(c), CommittedIndexes(c), Without(Committed(c), hit), CommittedIndexes(c))
    BY <2>2 DEF Result, Deleted
  <2> HIDE DEF idx, ch
  <2> QED BY <1>2, <1>6, <2>1, <2>3, ContinuesSer
<1> QED BY <1>8, <1>9

\* Every operation of the writer, up to its first put.
LEMMA OperationSer ==
    ASSUME DbInv, NEW w \in Procs, SerInv(w), NoRepeats, Operation(w)
    PROVE  SerInv(w)' /\ registry' = registry
<1>1. PICK c \in Colls :
         \/ \E b \in Batches : Insert(w, c, b)
         \/ \E f \in Filters, u \in Updates : UpdateOne(w, c, f, u) \/ UpdateMany(w, c, f, u)
         \/ \E f \in Filters : DeleteOne(w, c, f) \/ DeleteMany(w, c, f)
         \/ \E n \in IndexNames : CreateIndex(w, c, n) \/ DropIndex(w, c, n)
         \/ Drop(w, c) \/ DropDatabase(w, c)
         \/ ScanThrows(w, c) \/ WriteFailsToLoad(w, c) \/ Find(w, c)
  BY DEF Operation
<1>2. TypeOK
  BY DEF DbInv, StoreInv
<1>3. pc[w] = "idle" => /\ LoadedIndex(w, c) = Committed(c)
                        /\ LoadedIndexes(w, c) = CommittedIndexes(c)
  BY LoadedIsCommitted
<1>4. ASSUME NEW b \in Batches, Insert(w, c, b)
      PROVE  SerInv(w)' /\ registry' = registry
  <2>0. PICK todo : todo = [k \in DOMAIN b |-> [key |-> b[k].id, doc |-> b[k]]]
    OBVIOUS
  <2>1. /\ BeginWrite(w, c) /\ Continue(w, c, "doc", todo, NoUpdate)
        /\ SetMemory(w, c, Committed(c), LoadedCache(w, c), CommittedIndexes(c))
    BY <1>3, <1>4, <2>0 DEF Insert, BeginWrite
  <2>2. Inserting(Committed(c), Committed(c), todo)
    BY <2>0, InsertBegins
  <2> QED BY <1>2, <2>1, <2>2, ContinuesSer
<1>5. ASSUME NEW n \in IndexNames, CreateIndex(w, c, n) \/ DropIndex(w, c, n)
      PROVE  SerInv(w)' /\ registry' = registry
  <2>1. PICK xs \in {CommittedIndexes(c) \cup {n}, CommittedIndexes(c) \ {n}} :
           /\ BeginWrite(w, c) /\ Continue(w, c, "meta", <<>>, NoUpdate)
           /\ SetMemory(w, c, Committed(c), LoadedCache(w, c), xs)
    BY <1>3, <1>5 DEF CreateIndex, DropIndex, BeginWrite
  <2>2. Result(Committed(c), CommittedIndexes(c), Committed(c), xs)
    BY <2>1 DEF Result, Reindexed
  <2> QED BY <1>2, <2>1, <2>2, ContinuesSer
<1>6. ASSUME ScanThrows(w, c)
      PROVE  SerInv(w)' /\ registry' = registry
  <2>1. BeginWrite(w, c) /\ Finish(w) /\ pc[w] = "idle"
    BY <1>6 DEF ScanThrows, BeginWrite
  <2>2. PICK ch : SetMemory(w, c, LoadedIndex(w, c), ch, LoadedIndexes(w, c))
    BY <1>6 DEF ScanThrows
  <2>3. SetMemory(w, c, Committed(c), ch, CommittedIndexes(c))
    BY <1>3, <2>1, <2>2
  <2> QED BY <1>2, <2>1, <2>3, EndsSer
<1>7. ASSUME WriteFailsToLoad(w, c)
      PROVE  SerInv(w)' /\ registry' = registry
  BY <1>7, SerFrame DEF WriteFailsToLoad, disk
<1> QED
  BY <1>1, <1>2, <1>4, <1>5, <1>6, <1>7, UpdateSer, DeleteSer, StartDropSer, FindSer

-----------------------------------------------------------------------------
(***************************************************************************)
(* The steps of the writer's operation under the lock.                     *)
(***************************************************************************)

\* Types of the committed contents.
LEMMA CommittedOK ==
    ASSUME TypeOK, NEW c \in Colls
    PROVE  Committed(c) \in Index
<1>1. registry[c] \in Metas \cup {NoMeta} /\ NoDocs \in Index
  BY DEF TypeOK, Heads, NoDocs, Index
<1> QED BY <1>1 DEF Committed, Metas

\* The first document is made: the job is as before, but for it.
LEMMA OpenSerJob ==
    ASSUME DbInv, NEW w \in Procs, pc[w] = "doc", job[w].todo # <<>>, NEW d \in Docs, Open(w, d)
    PROVE  /\ pc'[w] = "docw" /\ job'[w].coll = job[w].coll /\ job'[w].by = job[w].by
           /\ Head(job'[w].todo) = [Head(job[w].todo) EXCEPT !.doc = d]
           /\ Tail(job'[w].todo) = Tail(job[w].todo)
           /\ job'[w].todo \in Seq(Entries) /\ job'[w].todo # <<>>
           /\ d = Head(job[w].todo).doc => job'[w] = job[w]
<1>1. /\ job[w] \in Jobs /\ job[w].todo \in Seq(Entries) /\ Head(job[w].todo) \in Entries
  BY JobTypes DEF Resting
<1>2. PICK e : e = [Head(job[w].todo) EXCEPT !.doc = d]
  OBVIOUS
<1>3. e \in Entries /\ (d = Head(job[w].todo).doc => e = Head(job[w].todo))
  BY <1>1, <1>2 DEF Entries
<1>4. PICK t : t = <<e>> \o Tail(job[w].todo)
  OBVIOUS
<1>5. /\ t \in Seq(Entries) /\ t # <<>> /\ Head(t) = e /\ Tail(t) = Tail(job[w].todo)
      /\ e = Head(job[w].todo) => t = job[w].todo
  BY <1>1, <1>3, <1>4, OpenedOK
<1>6. pc'[w] = "docw" /\ job'[w] = [job[w] EXCEPT !.todo = t]
  BY <1>2, <1>4 DEF Open, Goto, DbInv, StoreInv, TypeOK
<1>7. /\ job'[w].coll = job[w].coll /\ job'[w].by = job[w].by /\ job'[w].todo = t
      /\ t = job[w].todo => job'[w] = job[w]
  BY <1>1, <1>6 DEF Jobs
<1> QED BY <1>2, <1>3, <1>5, <1>6, <1>7

\* An operation that gives up after it has matched or met a committed document.
LEMMA GivesUpSer ==
    ASSUME DbInv, NEW w \in Procs, SerInv(w), pc[w] = "doc", Finish(w),
           UNCHANGED <<registry, rekeyed, heads, index, indexes>>,
           registry[job[w].coll] # NoMeta
    PROVE  SerInv(w)'
<1>1. pc'[w] = "idle"
  BY DEF Finish, DbInv, StoreInv, TypeOK
<1>2. ASSUME NEW e \in Colls PROVE Clean(w, e)'
  BY <1>1 DEF SerInv, Clean, Busy
<1> QED BY <1>1, <1>2 DEF SerInv

\* The writer has opened the file of its next document.
LEMMA OpensSer ==
    ASSUME NEW w, SerInv(w), pc[w] = "doc", pc'[w] = "docw", job'[w].coll = job[w].coll,
           UNCHANGED <<registry, rekeyed, heads, index, indexes>>,
           Progress(Committed(job[w].coll), index[w][job[w].coll], job'[w]),
           NextOK(Committed(job[w].coll), index[w][job[w].coll], job'[w])
    PROVE  SerInv(w)'
<1>1. ASSUME NEW e \in Colls PROVE Clean(w, e)'
  BY DEF SerInv, Clean, Busy
<1>2. indexes[w][job[w].coll] = CommittedIndexes(job[w].coll)
  BY DEF SerInv, PuttingDocs
<1>3. PuttingDocs(w, job[w].coll)'
  BY <1>2, CommittedKept DEF PuttingDocs
<1>4. NextOK(Committed(job[w].coll), index[w][job[w].coll], job[w])'
  BY CommittedKept DEF NextOK
<1> QED BY <1>1, <1>3, <1>4 DEF SerInv

LEMMA OpenNewSer ==
    ASSUME DbInv, NEW w \in Procs, SerInv(w), OpenNew(w)
    PROVE  SerInv(w)' /\ registry' = registry
<1>1. /\ TypeOK /\ pc[w] = "doc" /\ job[w].todo # <<>> /\ job[w].by = NoUpdate
      /\ UNCHANGED <<registry, rekeyed, heads, index, indexes>>
  BY DEF DbInv, StoreInv, OpenNew, At, disk, memory, history, Open, Truncate
<1>2. PICK c, e, idx : c = job[w].coll /\ e = Head(job[w].todo) /\ idx = index[w][c]
  OBVIOUS
<1>3. c \in Colls /\ job[w].todo \in Seq(Entries) /\ e \in Entries /\ e.key \in Ids
  BY <1>1, <1>2, JobTypes DEF Resting, Entries
<1>4. Inserting(Committed(c), idx, job[w].todo)
  BY <1>1, <1>2 DEF SerInv, PuttingDocs, Progress
<1>5. CASE idx[e.key] # NoDoc
  <2>1. Finish(w)
    BY <1>2, <1>5 DEF OpenNew
  <2>2. Committed(c)[e.key] # NoDoc
    BY <1>1, <1>2, <1>3, <1>4, <1>5, RejectedIsCommitted
  <2>3. registry[c] # NoMeta
    BY <1>3, <2>2 DEF Committed, NoDocs
  <2> QED BY <1>1, <1>2, <2>1, <2>3, GivesUpSer
<1>6. CASE idx[e.key] = NoDoc
  <2>1. Open(w, e.doc)
    BY <1>2, <1>6 DEF OpenNew
  <2>2. e.doc \in Docs
    BY <1>1, <1>2, <1>3, <1>4, Uncons DEF Inserting
  <2>3. pc'[w] = "docw" /\ job'[w] = job[w]
    BY <1>1, <1>2, <2>1, <2>2, OpenSerJob
  <2>4. /\ Progress(Committed(c), idx, job'[w])
        /\ NextOK(Committed(c), idx, job'[w])
    BY <1>1, <1>2, <1>4, <1>6, <2>3 DEF Progress, NextOK
  <2> QED BY <1>1, <1>2, <2>3, <2>4, OpensSer
<1> QED BY <1>1, <1>5, <1>6

LEMMA OpenRewriteSer ==
    ASSUME DbInv, NEW w \in Procs, SerInv(w), OpenRewrite(w)
    PROVE  SerInv(w)' /\ registry' = registry
<1>1. /\ TypeOK /\ pc[w] = "doc" /\ job[w].todo # <<>> /\ job[w].by # NoUpdate
      /\ UNCHANGED <<registry, rekeyed, heads, index, indexes>>
  BY DEF DbInv, StoreInv, OpenRewrite, At, disk, history, Open, Truncate
<1>2. PICK c, e, idx, u : /\ c = job[w].coll /\ e = Head(job[w].todo) /\ idx = index[w][c]
                          /\ u = job[w].by
  OBVIOUS
<1>3. /\ c \in Colls /\ job[w].todo \in Seq(Entries) /\ e \in Entries /\ e.key \in Ids
      /\ u \in Updates /\ idx \in Index /\ cache[w][c] \in Index
  <2>1. job[w].coll \in Colls /\ job[w].todo \in Seq(Entries) /\ job[w].by \in Updates
    BY <1>1, JobTypes DEF Resting
  <2>2. e \in Entries /\ e.key \in Ids
    <3>1. Head(job[w].todo) \in Entries
      BY <1>1, JobTypes DEF Resting
    <3> QED BY <1>2, <3>1 DEF Entries
  <2>3. index[w][c] \in Index /\ cache[w][c] \in Index
    BY <1>1, <1>2, <2>1 DEF TypeOK
  <2> QED BY <1>2, <2>1, <2>2, <2>3
<1>4. Updating(Committed(c), idx, job[w].todo, u)
  BY <1>1, <1>2 DEF SerInv, PuttingDocs, Progress
<1>5. Committed(c) \in Index
  BY <1>1, <1>3, CommittedOK
<1>6. idx[e.key] = Committed(c)[e.key] /\ Committed(c)[e.key] \in Docs
  BY <1>1, <1>2, <1>3, <1>4, <1>5, UnmadeIsCommitted
<1>7. CASE Finish(w)
  <2>1. registry[c] # NoMeta
    BY <1>3, <1>6, DbAssumption DEF Committed, NoDocs
  <2> QED BY <1>1, <1>2, <1>7, <2>1, GivesUpSer
<1>8. CASE \E r \in LoadDocument(idx, cache[w][c], e.key) : Open(w, u[r.doc])
  <2>1. PICK r \in LoadDocument(idx, cache[w][c], e.key) : Open(w, u[r.doc])
    BY <1>8
  <2>2. Fit(idx, cache[w][c])
    BY <1>2, <1>3 DEF DbInv, Fitting, SerInv
  <2>3. r.doc \in Docs /\ r.doc = idx[e.key]
    BY <1>1, <1>3, <2>1, <2>2, LoadDocumentOK
  <2>4. PICK d : d = u[r.doc]
    OBVIOUS
  <2>5. d \in Docs /\ Open(w, d)
    BY <1>3, <2>1, <2>3, <2>4, DbAssumption
  <2>6. /\ pc'[w] = "docw" /\ job'[w].coll = c /\ job'[w].by = u
        /\ Head(job'[w].todo) = [e EXCEPT !.doc = d]
        /\ Tail(job'[w].todo) = Tail(job[w].todo)
        /\ job'[w].todo \in Seq(Entries) /\ job'[w].todo # <<>>
    BY <1>1, <1>2, <2>5, OpenSerJob
  <2>7. Head(job'[w].todo).key = e.key /\ Head(job'[w].todo).doc = d
    BY <1>3, <2>6 DEF Entries
  <2>8. Keys(job'[w].todo) = Keys(job[w].todo)
    BY <1>1, <1>2, <1>3, <2>6, <2>7, Uncons
  <2>9. KeysDiffer(job[w].todo) => KeysDiffer(job'[w].todo)
    BY <1>1, <1>2, <1>3, <2>6, <2>7, OpenedKeysDiffer
  <2>10. Updating(Committed(c), idx, job'[w].todo, u)
    BY <1>4, <2>8, <2>9 DEF Updating
  <2>11. /\ Progress(Committed(c), idx, job'[w])
         /\ NextOK(Committed(c), idx, job'[w])
    BY <1>1, <1>2, <1>6, <2>3, <2>4, <2>6, <2>7, <2>10 DEF Progress, NextOK
  <2> QED BY <1>1, <1>2, <2>6, <2>11, OpensSer
<1>9. Finish(w) \/ \E r \in LoadDocument(idx, cache[w][c], e.key) : Open(w, u[r.doc])
  BY <1>2 DEF OpenRewrite
<1> QED BY <1>1, <1>7, <1>8, <1>9

\* A document written under its own `_id`, the next one.
LEMMA WritesNext ==
    ASSUME NEW base \in Index, Keyed(base), KeepsIds, NEW idx \in Index,
           NEW j \in Jobs, j.todo # <<>>,
           Progress(base, idx, j), NextOK(base, idx, j)
    PROVE  /\ Progress(base, [idx EXCEPT ![Head(j.todo).key] = Head(j.todo).doc],
                       [j EXCEPT !.todo = Tail(j.todo)])
           /\ Head(j.todo).doc.id = Head(j.todo).key
<1>1. PICK new : new = [idx EXCEPT ![Head(j.todo).key] = Head(j.todo).doc]
  OBVIOUS
<1>2. PICK J : J = [j EXCEPT !.todo = Tail(j.todo)]
  OBVIOUS
<1>3. /\ j.todo \in Seq(Entries) /\ J.todo = Tail(j.todo) /\ J.by = j.by
      /\ j.by \in Updates \cup {NoUpdate}
  BY <1>2 DEF Jobs
<1>4. Head(j.todo) \in Entries /\ Head(j.todo).key \in Ids
  BY <1>3, Uncons DEF Entries
<1>5. CASE j.by = NoUpdate
  <2>1. Inserting(base, idx, j.todo) /\ idx[Head(j.todo).key] = NoDoc
    BY <1>5 DEF Progress, NextOK
  <2>2. Inserting(base, new, Tail(j.todo)) /\ Head(j.todo).doc.id = Head(j.todo).key
    BY <1>1, <1>3, <2>1, InsertGoesOn
  <2> QED BY <1>1, <1>2, <1>3, <1>5, <2>2 DEF Progress
<1>6. CASE j.by # NoUpdate
  <2>1. Updating(base, idx, j.todo, j.by) /\ Head(j.todo).doc = j.by[base[Head(j.todo).key]]
    BY <1>6 DEF Progress, NextOK
  <2>2. Updating(base, new, Tail(j.todo), j.by)
    BY <1>1, <1>3, <2>1, UpdateGoesOn
  <2>3. base[Head(j.todo).key] \in Docs
    BY <1>3, <2>1, UnmadeIsCommitted
  <2>4. base[Head(j.todo).key].id = Head(j.todo).key
    BY <1>4, <2>3, DbAssumption DEF Keyed
  <2>5. Head(j.todo).doc.id = Head(j.todo).key
    BY <1>3, <1>6, <2>1, <2>3, <2>4 DEF KeepsIds
  <2> QED BY <1>1, <1>2, <1>3, <1>6, <2>2, <2>5 DEF Progress
<1> QED BY <1>5, <1>6

LEMMA WriteDocSer ==
    ASSUME DbInv, NEW w \in Procs, SerInv(w), KeepsIds, WriteDoc(w)
    PROVE  SerInv(w)' /\ registry' = registry
<1>1. TypeOK /\ JobOK /\ pc[w] = "docw"
  BY DEF DbInv, StoreInv, WriteDoc
<1>2. /\ UNCHANGED <<registry, heads, indexes>> /\ heads[w] = registry /\ rekeyed = {}
  BY <1>1 DEF WriteDoc, PutReturns, WriteOut, LoseFlush, SerInv
<1>3. PICK c, e, idx : c = job[w].coll /\ e = Head(job[w].todo) /\ idx = index[w][c]
  OBVIOUS
<1>4. PICK new, J : /\ new = [idx EXCEPT ![e.key] = e.doc]
                    /\ J = [job[w] EXCEPT !.todo = Tail(job[w].todo)]
  OBVIOUS
<1>5. job[w] \in Jobs /\ c \in Colls /\ job[w].todo # <<>>
  BY <1>1, <1>3, JobTypes DEF Resting, JobOK
<1>6. /\ indexes[w][c] = CommittedIndexes(c) /\ Progress(Committed(c), idx, job[w])
      /\ NextOK(Committed(c), idx, job[w])
  BY <1>1, <1>3 DEF SerInv, PuttingDocs
<1>7. idx \in Index /\ Committed(c) \in Index
  BY <1>1, <1>3, <1>5, CommittedOK DEF TypeOK
<1>8. Keyed(Committed(c))
  BY <1>2, <1>5, NoDocsKeyed DEF DbInv, Fitting, KeyedHead, Committed
<1>9. Progress(Committed(c), new, J) /\ e.doc.id = e.key
  BY <1>3, <1>4, <1>5, <1>6, <1>7, <1>8, WritesNext
<1>10. /\ pc'[w] = "doc" /\ job'[w] = J /\ J.coll = c
       /\ index' = Put1(index, w, c, new) /\ rekeyed' = {}
  <2>1. /\ job' = [job EXCEPT ![w] = J] /\ pc' = [pc EXCEPT ![w] = "doc"]
        /\ index' = Put1(index, w, c, new)
        /\ rekeyed' = IF e.doc.id = e.key THEN rekeyed ELSE rekeyed \cup {c}
    BY <1>3, <1>4 DEF WriteDoc, Goto
  <2>2. J.coll = c
    BY <1>3, <1>4, <1>5 DEF Jobs
  <2> QED BY <1>1, <1>2, <1>9, <2>1, <2>2 DEF TypeOK
<1>11. index'[w][c] = new /\ \A d \in Colls \ {c} : index'[w][d] = index[w][d]
  <2>1. index'[w] = [index[w] EXCEPT ![c] = new]
    BY <1>1, <1>5, <1>10 DEF TypeOK, Put1
  <2> QED BY <1>1, <1>5, <2>1 DEF TypeOK
<1>12. ASSUME NEW d \in Colls PROVE Clean(w, d)'
  BY <1>1, <1>2, <1>3, <1>10, <1>11 DEF SerInv, Clean, Busy
<1>13. PuttingDocs(w, job[w].coll)'
  BY <1>2, <1>6, <1>9, <1>10, <1>11, CommittedKept DEF PuttingDocs
<1> QED BY <1>2, <1>10, <1>12, <1>13 DEF SerInv

LEMMA DocsDoneSer ==
    ASSUME DbInv, NEW w \in Procs, SerInv(w), DocsDone(w)
    PROVE  SerInv(w)' /\ registry' = registry
<1> DEFINE c == job[w].coll
<1>1. TypeOK /\ pc[w] = "doc" /\ job[w].todo = <<>>
  BY DEF DbInv, StoreInv, DocsDone, At
<1>2. /\ UNCHANGED <<registry, heads, index, indexes, job, rekeyed>> /\ heads[w] = registry
      /\ pc'[w] = "meta"
  BY <1>1 DEF DocsDone, Goto, disk, memory, At, history, SerInv, TypeOK
<1>3. c \in Colls /\ job[w].by \in Updates \cup {NoUpdate}
  BY <1>1, JobTypes DEF Resting
<1>4. indexes[w][c] = CommittedIndexes(c) /\ Progress(Committed(c), index[w][c], job[w])
  BY <1>1 DEF SerInv, PuttingDocs
<1>5. index[w][c] \in Index /\ Committed(c) \in Index
  BY <1>1, <1>3, CommittedOK DEF TypeOK
<1>6. Result(Committed(c), CommittedIndexes(c), index[w][c], indexes[w][c])
  BY <1>1, <1>3, <1>4, InsertEnds, UpdateEnds DEF Progress, Result
<1>7. ASSUME NEW e \in Colls PROVE Clean(w, e)'
  BY <1>1, <1>2 DEF SerInv, Clean, Busy
<1>8. PuttingMeta(w, job[w].coll)'
  BY <1>2, <1>6, CommittedKept DEF PuttingMeta
<1> QED BY <1>2, <1>7, <1>8 DEF SerInv

LEMMA MetaSer ==
    ASSUME DbInv, NEW w \in Procs, SerInv(w), OpenMeta(w) \/ WriteMeta(w)
    PROVE  SerInv(w)' /\ registry' = registry
<1>1. /\ TypeOK /\ pc[w] \in {"meta", "metaw"}
      /\ UNCHANGED <<registry, heads, index, indexes, job, rekeyed>>
  BY DEF DbInv, StoreInv, OpenMeta, WriteMeta, At, Truncate, PutReturns, WriteOut, LoseFlush, memory, history
<1>2. pc'[w] \in {"metaw", "head"} /\ heads[w] = registry
  BY <1>1 DEF OpenMeta, WriteMeta, Goto, SerInv, TypeOK
<1>3. ASSUME NEW e \in Colls PROVE Clean(w, e)'
  BY <1>1, <1>2 DEF SerInv, Clean, Busy
<1>4. PuttingMeta(w, job[w].coll)'
  BY <1>1, CommittedKept DEF SerInv, PuttingMeta
<1> QED BY <1>1, <1>2, <1>3, <1>4 DEF SerInv

LEMMA SetHeadSer ==
    ASSUME DbInv, NEW w \in Procs, SerInv(w), SetHead(w)
    PROVE  /\ SerInv(w)' /\ job[w].coll \in Colls
           /\ registry' = [registry EXCEPT ![job[w].coll] = MetaOf(w, job[w].coll)]
           /\ MetaOf(w, job[w].coll) # NoMeta
<1> DEFINE c == job[w].coll
<1>1. TypeOK /\ pc[w] = "head" /\ heads[w] = registry
  BY DEF DbInv, StoreInv, SetHead, At, SerInv
<1>2. c \in Colls /\ MetaOf(w, c) \in Metas
  BY <1>1, JobTypes DEF Resting
<1>3. /\ registry' = [registry EXCEPT ![c] = MetaOf(w, c)] /\ heads'[w] = registry'
      /\ pc'[w] = "idle" /\ UNCHANGED <<index, indexes, rekeyed>>
  BY <1>1, <1>2 DEF SetHead, SetHeads, Persist, HeadSet, Finish, At, history, TypeOK
<1>4. MetaOf(w, c) # NoMeta
  BY <1>2
<1> HIDE DEF c
<1>5. registry'[c] # NoMeta /\ \A e \in Colls \ {c} : registry'[e] = registry[e]
  BY <1>1, <1>2, <1>3, <1>4 DEF TypeOK, Heads
<1>6. ASSUME NEW e \in Colls PROVE Clean(w, e)'
  BY <1>1, <1>3, <1>5 DEF SerInv, Clean, Busy, c
<1>7. SerInv(w)'
  BY <1>3, <1>6 DEF SerInv
<1> QED BY <1>2, <1>3, <1>4, <1>7 DEF c

LEMMA RemoveHeadSer ==
    ASSUME DbInv, NEW w \in Procs, SerInv(w), RemoveHead(w)
    PROVE  /\ SerInv(w)' /\ job[w].coll \in Colls
           /\ registry' = [registry EXCEPT ![job[w].coll] = NoMeta]
<1> DEFINE c == job[w].coll
<1>1. TypeOK /\ pc[w] \in {"unhead", "dbhead"} /\ heads[w] = registry
  BY DEF DbInv, StoreInv, RemoveHead, AfterDrop, At, SerInv
<1>2. c \in Colls /\ job[w] \in Jobs
  BY <1>1, JobTypes DEF Resting
<1>3. /\ registry' = [registry EXCEPT ![c] = NoMeta] /\ heads'[w] = registry'
      /\ SetMemory(w, c, NoDocs, NoDocs, {}) /\ rekeyed' = rekeyed
  BY <1>1, <1>2 DEF RemoveHead, SetHeads, Persist, HeadRemoved, AfterDrop, At, history, TypeOK
<1>4. \/ pc'[w] = "idle"
      \/ pc[w] = "dbhead" /\ pc'[w] = "dropdb" /\ job'[w] = job[w]
  BY <1>1 DEF RemoveHead, AfterDrop, At, Finish, Goto, TypeOK
<1> HIDE DEF c
<1>5. /\ index'[w][c] = NoDocs /\ indexes'[w][c] = {}
      /\ \A d \in Colls \ {c} : index'[w][d] = index[w][d] /\ indexes'[w][d] = indexes[w][d]
  BY <1>1, <1>2, <1>3, MemoryIs
<1>6. registry'[c] = NoMeta /\ \A e \in Colls \ {c} : registry'[e] = registry[e]
  BY <1>1, <1>2, <1>3 DEF TypeOK, Heads
<1>7. ASSUME NEW e \in Colls PROVE Clean(w, e)'
  BY <1>1, <1>4, <1>5, <1>6 DEF SerInv, Clean, Busy
<1>8. pc'[w] = "dropdb" => \A e \in Colls \ job'[w].more : registry'[e] = NoMeta
  BY <1>4, <1>6 DEF SerInv, c
<1>9. SerInv(w)'
  BY <1>3, <1>4, <1>7, <1>8 DEF SerInv
<1> QED BY <1>2, <1>3, <1>9 DEF c

LEMMA DropNextSer ==
    ASSUME DbInv, NEW w \in Procs, SerInv(w), DropNext(w)
    PROVE  SerInv(w)' /\ registry' = registry
<1>1. TypeOK /\ pc[w] = "dropdb" /\ heads[w] = registry
  BY DEF DbInv, StoreInv, DropNext, At, SerInv
<1>2. pc'[w] = "dbhead" /\ UNCHANGED <<registry, heads, index, indexes, rekeyed>>
  BY <1>1 DEF DropNext, Goto, disk, memory, At, history, TypeOK
<1>3. job[w] \in Jobs
  BY <1>1, JobTypes DEF Resting
<1>4. PICK c \in job[w].more :
         job' = [job EXCEPT ![w] = [job[w] EXCEPT !.coll = c, !.more = job[w].more \ {c}]]
  BY DEF DropNext
<1> DEFINE J == [job[w] EXCEPT !.coll = c, !.more = job[w].more \ {c}]
<1>5. J.coll = c /\ J.more = job[w].more \ {c}
  BY <1>3 DEF Jobs
<1>6. job' = [job EXCEPT ![w] = J]
  BY <1>4
<1> HIDE DEF J
<1>7. job'[w] = J
  BY <1>1, <1>6 DEF TypeOK
<1>8. ASSUME NEW e \in Colls PROVE Clean(w, e)'
  BY <1>1, <1>2 DEF SerInv, Clean, Busy
<1>9. \A e \in Colls \ J.more : e # J.coll => registry[e] = NoMeta
  BY <1>1, <1>5 DEF SerInv
<1> QED BY <1>1, <1>2, <1>7, <1>8, <1>9 DEF SerInv

\* When dropDatabase clears the registry, every head has been removed.
LEMMA ClearHeadsSer ==
    ASSUME DbInv, NEW w \in Procs, SerInv(w), ClearHeads(w)
    PROVE  SerInv(w)' /\ registry' = registry
<1>1. TypeOK /\ pc[w] = "dropdb" /\ job[w].more = {}
  BY DEF DbInv, StoreInv, ClearHeads, At
<1>2. \A d \in Colls : registry[d] = NoMeta
  BY <1>1 DEF SerInv
<1>3. registry' = NoHeads /\ heads'[w] = NoHeads /\ pc'[w] = "idle"
      /\ UNCHANGED <<index, indexes, rekeyed>>
  BY <1>1 DEF ClearHeads, SetHeads, Persist, Finish, At, history, TypeOK
<1>4. registry = NoHeads
  BY <1>1, <1>2 DEF NoHeads, TypeOK, Heads
<1>5. ASSUME NEW e \in Colls PROVE Clean(w, e)'
  BY <1>1, <1>3, <1>4 DEF SerInv, Clean, Busy
<1> QED BY <1>3, <1>4, <1>5 DEF SerInv

-----------------------------------------------------------------------------
(***************************************************************************)
(* Steps of the abstract document store.                                   *)
(***************************************************************************)

\* What a change of one head does to what is committed.
LEMMA OneHeadChanges ==
    ASSUME NEW c \in Colls, NEW idx, NEW ys,
           idx = IF registry'[c] = NoMeta THEN NoDocs ELSE registry'[c].mappings,
           ys = IF registry'[c] = NoMeta THEN {} ELSE registry'[c].indexes,
           \A e \in Colls \ {c} : registry'[e] = registry[e]
    PROVE  /\ [e \in Colls |-> Committed(e)]' = [[e \in Colls |-> Committed(e)] EXCEPT ![c] = idx]
           /\ [e \in Colls |-> CommittedIndexes(e)]' =
                 [[e \in Colls |-> CommittedIndexes(e)] EXCEPT ![c] = ys]
<1>1. Committed(c)' = idx /\ CommittedIndexes(c)' = ys
  BY DEF Committed, CommittedIndexes
<1>2. \A e \in Colls \ {c} : Committed(e)' = Committed(e)
                             /\ CommittedIndexes(e)' = CommittedIndexes(e)
  BY DEF Committed, CommittedIndexes
<1> QED BY <1>1, <1>2

\* One operation's result, committed, is one step of the document store.
LEMMA CommitRefines ==
    ASSUME DbInv, NEW w \in Procs, SerInv(w), NoRepeats, SetHead(w)
    PROVE  Abstract!Next
<1>1. PICK c \in Colls : c = job[w].coll
  BY SetHeadSer
<1>2. PICK idx, ys : idx = index[w][c] /\ ys = indexes[w][c]
  OBVIOUS
<1>3. registry' = [registry EXCEPT ![c] = MetaOf(w, c)] /\ MetaOf(w, c) # NoMeta
  BY <1>1, SetHeadSer
<1>4. MetaOf(w, c).mappings = idx /\ MetaOf(w, c).indexes = ys
  BY <1>2 DEF MetaOf
<1>5. TypeOK /\ pc[w] = "head"
  BY DEF DbInv, StoreInv, SetHead, At
<1>6. registry'[c] = MetaOf(w, c) /\ \A e \in Colls \ {c} : registry'[e] = registry[e]
  BY <1>3, <1>5 DEF TypeOK, Heads
<1> DEFINE docs == [e \in Colls |-> Committed(e)]
           xs == [e \in Colls |-> CommittedIndexes(e)]
<1>7. docs' = [docs EXCEPT ![c] = idx] /\ xs' = [xs EXCEPT ![c] = ys]
  <2>1. /\ idx = IF registry'[c] = NoMeta THEN NoDocs ELSE registry'[c].mappings
        /\ ys = IF registry'[c] = NoMeta THEN {} ELSE registry'[c].indexes
    BY <1>3, <1>4, <1>6
  <2> QED BY <1>6, <2>1, OneHeadChanges
<1>8. Result(docs[c], xs[c], idx, ys)
  BY <1>1, <1>2, <1>5 DEF SerInv, PuttingMeta
<1>9. idx \in Index /\ docs[c] \in Index
  BY <1>2, <1>5, CommittedOK DEF TypeOK
<1>10. CASE Inserted(docs[c], xs[c], idx, ys)
  <2>1. PICK b \in Batches : Over(idx, docs[c], Elems(b)) /\ \A d \in Elems(b) : docs[c][d.id] = NoDoc
    BY <1>10 DEF Inserted
  <2>2. xs' = xs
    BY <1>7, <1>10 DEF Inserted
  <2>3. idx = [i \in Ids |-> IF \E k \in DOMAIN b : b[k].id = i
                             THEN CHOOSE d \in {b[k] : k \in DOMAIN b} : d.id = i
                             ELSE docs[c][i]]
    <3> SUFFICES ASSUME NEW i \in Ids
                 PROVE  idx[i] = IF \E k \in DOMAIN b : b[k].id = i
                                 THEN CHOOSE d \in Elems(b) : d.id = i ELSE docs[c][i]
      BY <1>9 DEF Index, Elems
    <3>1. CASE \E k \in DOMAIN b : b[k].id = i
      <4>1. \E d \in Elems(b) : d.id = i
        BY <3>1 DEF Elems
      <4> DEFINE x == CHOOSE d \in Elems(b) : d.id = i
      <4>2. x \in Elems(b) /\ x.id = i
        BY <4>1
      <4> HIDE DEF x
      <4>3. idx[i] = x
        BY <2>1, <4>2 DEF Over
      <4> QED BY <3>1, <4>3 DEF x
    <3>2. CASE ~\E k \in DOMAIN b : b[k].id = i
      <4>1. \A d \in Elems(b) : d.id # i
        BY <3>2 DEF Elems
      <4>2. idx[i] = docs[c][i]
        BY <2>1, <4>1 DEF Over
      <4> QED BY <3>2, <4>2
    <3> QED BY <3>1, <3>2
  <2>4. /\ \A k \in DOMAIN b : b[k].id \notin Abstract!Present(c)
        /\ \A j, k \in DOMAIN b : b[j].id = b[k].id => j = k
    BY <2>1 DEF NoRepeats, Abstract!Present, Elems
  <2>5. Abstract!Insert(c)
    BY <1>7, <2>2, <2>3, <2>4 DEF Abstract!Insert, Abstract!Becomes
  <2> QED BY <2>5 DEF Abstract!Next
<1>11. \A f : Abstract!Matches(c, f) = Hits(docs[c], f)
  BY DEF Abstract!Matches, Abstract!Present, Hits
<1>12. \A S : Rewritten(docs[c], S) => Abstract!Chosen(c, S)
  BY <1>11 DEF Rewritten, Abstract!Chosen
<1>13. CASE Changed(docs[c], xs[c], idx, ys)
  <2>1. PICK u \in Updates, S \in SUBSET Ids :
           Rewritten(docs[c], S) /\ idx = Redone(docs[c], u, S)
    BY <1>13 DEF Changed
  <2>2. xs' = xs
    BY <1>7, <1>13 DEF Changed
  <2>3. Abstract!Update(c)
    BY <1>7, <1>12, <2>1, <2>2 DEF Redone, Abstract!Update, Abstract!Becomes
  <2> QED BY <2>3 DEF Abstract!Next
<1>14. CASE Deleted(docs[c], xs[c], idx, ys)
  <2>1. PICK S \in SUBSET Ids : Rewritten(docs[c], S) /\ idx = Without(docs[c], S)
    BY <1>14 DEF Deleted
  <2>2. xs' = xs
    BY <1>7, <1>14 DEF Deleted
  <2>3. Abstract!Delete(c)
    BY <1>7, <1>12, <2>1, <2>2 DEF Without, Abstract!Delete, Abstract!Becomes
  <2> QED BY <2>3 DEF Abstract!Next
<1>15. CASE Reindexed(docs[c], xs[c], idx, ys)
  <2>1. docs' = docs
    BY <1>7, <1>15 DEF Reindexed
  <2>2. Abstract!SetIndexes(c)
    BY <1>7, <1>15, <2>1 DEF Reindexed, Abstract!SetIndexes
  <2> QED BY <2>2 DEF Abstract!Next
<1> QED BY <1>8, <1>10, <1>13, <1>14, <1>15 DEF Result

LEMMA DropRefines ==
    ASSUME DbInv, NEW w \in Procs, SerInv(w), RemoveHead(w)
    PROVE  Abstract!Next
<1>1. PICK c \in Colls : c = job[w].coll
  BY RemoveHeadSer
<1>2. TypeOK /\ registry' = [registry EXCEPT ![c] = NoMeta]
  BY <1>1, RemoveHeadSer DEF DbInv, StoreInv
<1> DEFINE docs == [e \in Colls |-> Committed(e)]
           xs == [e \in Colls |-> CommittedIndexes(e)]
<1>3. /\ registry'[c] = NoMeta /\ \A e \in Colls \ {c} : registry'[e] = registry[e]
      /\ docs' = [docs EXCEPT ![c] = NoDocs] /\ xs' = [xs EXCEPT ![c] = {}]
  BY <1>2, OneHeadChanges DEF TypeOK, Heads
<1>4. Abstract!Drop(c)
  BY <1>3 DEF Abstract!Drop, Abstract!Becomes, Abstract!Empty, NoDocs
<1> QED BY <1>4 DEF Abstract!Next

-----------------------------------------------------------------------------
(***************************************************************************)
(* The refinement.                                                         *)
(***************************************************************************)

\* A step of the writer is a step of the document store, or none.
LEMMA WriterSer ==
    ASSUME DbInv, NEW w \in Procs, SerInv(w), NoRepeats, KeepsIds, MaxFaults = 0,
           Connect(w) \/ Reconnect(w) \/ Operation(w) \/ Step(w) \/ Crash(w)
    PROVE  SerInv(w)' /\ (registry' = registry \/ Abstract!Next)
<1>1. TypeOK /\ faults \in Nat /\ ~(faults < MaxFaults)
  BY DEF DbInv, StoreInv, TypeOK
<1>2. ~PutThrows(w) /\ ~RegistryThrows(w)
  BY <1>1 DEF PutThrows, RegistryThrows
<1>3. CASE Step(w)
  BY <1>2, <1>3, OpenNewSer, OpenRewriteSer, WriteDocSer, DocsDoneSer, MetaSer, SetHeadSer, RemoveHeadSer,
     DropNextSer, ClearHeadsSer, CommitRefines, DropRefines DEF Step
<1>4. CASE Operation(w)
  BY <1>4, OperationSer
<1> QED BY <1>1, <1>3, <1>4, OpenSer

\* The others only read.
LEMMA ReaderSer ==
    ASSUME DbInv, SnapInv, NEW w \in Procs, Writers = {w}, SerInv(w), NEW p \in Procs, p # w,
           Connect(p) \/ Reconnect(p) \/ Operation(p) \/ Step(p) \/ Crash(p)
    PROVE  SerInv(w)' /\ registry' = registry
<1>1. TypeOK
  BY DEF DbInv, StoreInv
<1>2. p \in Procs \ Writers /\ pc[p] \in Resting
  BY DEF SnapInv
<1>3. ~Step(p)
  BY <1>2 DEF Resting, Step, OpenNew, OpenRewrite, Open, WriteDoc, DocsDone, OpenMeta, WriteMeta, SetHead, RemoveHead,
         AfterDrop, DropNext, ClearHeads, PutThrows, RegistryThrows, At
<1>4. registry' = registry /\ rekeyed' = rekeyed
  BY <1>3 DEF Connect, Reconnect, Crash, Operation, Insert, UpdateOne, UpdateMany, Update, DeleteOne, DeleteMany, Delete,
         CreateIndex, DropIndex, Drop, DropDatabase, StartDrop, ScanThrows, WriteFailsToLoad, Find,
         BeginWrite, disk, history
<1>5. /\ heads'[w] = heads[w] /\ index'[w] = index[w] /\ indexes'[w] = indexes[w]
      /\ pc'[w] = pc[w] /\ job'[w] = job[w]
  BY <1>1, OthersKept
<1> QED BY <1>4, <1>5, SerFrame

LEMMA SerStep ==
    ASSUME DbInv, SnapInv, NEW w \in Procs, Writers = {w}, SerInv(w), NoRepeats, KeepsIds,
           MaxFaults = 0, [Next]_vars
    PROVE  /\ SerInv(w)'
           /\ [Abstract!Next]_<<[c \in Colls |-> Committed(c)], [c \in Colls |-> CommittedIndexes(c)]>>
<1>1. SerInv(w)' /\ (registry' = registry \/ Abstract!Next)
  <2>1. CASE UNCHANGED vars
    <3>1. /\ registry' = registry /\ heads' = heads /\ index' = index /\ indexes' = indexes
          /\ pc' = pc /\ job' = job /\ rekeyed' = rekeyed
      BY <2>1 DEF vars, disk, memory, history
    <3> QED BY <3>1, SerFrame
  <2>2. CASE Next
    BY <2>2, WriterSer, ReaderSer DEF Next
  <2> QED BY <2>1, <2>2
<1>2. registry' = registry =>
         UNCHANGED <<[c \in Colls |-> Committed(c)], [c \in Colls |-> CommittedIndexes(c)]>>
  BY CommittedKept
<1> QED BY <1>1, <1>2

\* With one writer, any number of readers and crashes, no I/O errors, no batch
\* that repeats an id and no update that changes one, the registry moves like the document store: every
\* commit applies one whole operation to what was committed before it
\* (persistMeta, HeadRegistry::setHead, removeHead and clear).
THEOREM SerialSafe ==
    ASSUME NEW w \in Procs, Writers = {w}, MaxFaults = 0, NoRepeats, KeepsIds
    PROVE  Spec => CommitsAreSerial
<1>1. Init => DbInv /\ SnapInv /\ SerInv(w)
  <2> SUFFICES ASSUME Init PROVE DbInv /\ SnapInv /\ SerInv(w)
    OBVIOUS
  <2>1. DbInv /\ SnapInv
    BY DbInit DEF Init, SnapInv, MetaOf, EmptyMeta, Resting
  <2>2. ASSUME NEW c \in Colls PROVE Clean(w, c)
    BY DEF Init, Clean
  <2> QED BY <2>1, <2>2 DEF Init, SerInv
<1>2. DbInv /\ SnapInv /\ SerInv(w) /\ [Next]_vars => (DbInv /\ SnapInv /\ SerInv(w))'
  BY DbStep, SnapStep, SerStep
<1>3. Init => Abstract!Init
  BY DEF Init, Abstract!Init, Abstract!Empty, Committed, CommittedIndexes, NoDocs
<1>4. DbInv /\ SnapInv /\ SerInv(w) /\ [Next]_vars =>
         [Abstract!Next]_<<[c \in Colls |-> Committed(c)], [c \in Colls |-> CommittedIndexes(c)]>>
  BY SerStep
<1> QED BY <1>1, <1>2, <1>3, <1>4, PTL DEF Spec, CommitsAreSerial, Abstract!Spec
=============================================================================
