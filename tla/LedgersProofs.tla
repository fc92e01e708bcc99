---------------------------- MODULE LedgersProofs ----------------------------
(***************************************************************************)
(* The audit log and the bulletin board verify, what was tampered with     *)
(* does not, and the export of the event log can be read back, however     *)
(* long they get.                                                          *)
(***************************************************************************)
EXTENDS Ledgers, SequenceTheorems, NaturalsInduction, WellFoundedInduction, TLAPS

\* Entries are of no simple type, as each contains the digest of those before.
AuditType ==
    /\ auditSequence \in Nat
    /\ \E S : auditEntries \in Seq(S)
    /\ \A i \in 1..Len(auditEntries) : auditEntries[i].sequence \in Nat

\* An entry has the fields of AuditEntry.
IsEntry(e) ==
    e = [sequence |-> e.sequence, eventType |-> e.eventType, pollId |-> e.pollId,
         voterIdHash |-> e.voterIdHash, authorityId |-> e.authorityId, metadata |-> e.metadata,
         previousHash |-> e.previousHash, entryHash |-> e.entryHash, signature |-> e.signature]

Octets == [byte : Bytes]

\* The ids of a recorded entry are bytes, and the first is linked to nothing.
IsRecorded(e) ==
    /\ IsEntry(e)
    /\ e.pollId \in Seq(Octets)
    /\ Optional(e.voterIdHash) \in Seq(Octets) /\ Optional(e.authorityId) \in Seq(Octets)

AuditShape ==
    /\ \A i \in 1..Len(auditEntries) : IsRecorded(auditEntries[i])
    /\ auditEntries # <<>> => auditEntries[1].previousHash = Zeros

BoardType == \E S : boardEntries \in Seq(S)

\* appendEntry makes an entry that verifies and is linked to the last one.
LEMMA NewEntryVerifies ==
    ASSUME NEW type, NEW poll, NEW voter, NEW authority, NEW metadata
    PROVE  LET e == NewEntry(type, poll, voter, authority, metadata) IN
           /\ e.sequence = auditSequence
           /\ ComputeEntryHash(e) = e.entryHash
           /\ VerifyAuditEntry(e)
           /\ auditEntries # <<>> => e.previousHash = <<auditEntries[Len(auditEntries)].entryHash>>
           /\ auditEntries = <<>> => e.previousHash = Zeros
           /\ IsEntry(e) /\ e.pollId = poll /\ e.voterIdHash = voter /\ e.authorityId = authority
<1> DEFINE prev == IF auditEntries = <<>> THEN Zeros ELSE <<auditEntries[Len(auditEntries)].entryHash>>
           fields == [sequence |-> auditSequence, eventType |-> type, pollId |-> poll,
                      voterIdHash |-> voter, authorityId |-> authority, metadata |-> metadata,
                      previousHash |-> prev, entryHash |-> Zero, signature |-> Sign(<<>>)]
           hashed == [fields EXCEPT !.entryHash = ComputeEntryHash(fields)]
           e == [hashed EXCEPT !.signature = Sign(SerializeForSigning(hashed))]
<1>1. e = NewEntry(type, poll, voter, authority, metadata)
  BY DEF NewEntry
<1>2. SerializeForHashing(hashed) = SerializeForHashing(fields) /\ SerializeForHashing(e) = SerializeForHashing(fields)
  BY DEF SerializeForHashing
<1>3. /\ e.sequence = auditSequence /\ e.previousHash = prev
      /\ e.entryHash = ComputeEntryHash(fields) /\ hashed.entryHash = ComputeEntryHash(fields)
      /\ e.signature = Sign(SerializeForSigning(hashed))
  OBVIOUS
<1>4. ComputeEntryHash(e) = e.entryHash
  BY <1>2, <1>3 DEF ComputeEntryHash
<1>5. VerifyAuditEntry(e)
  BY <1>2, <1>3 DEF VerifyAuditEntry, SerializeForSigning
<1>6. e.pollId = poll /\ e.voterIdHash = voter /\ e.authorityId = authority
  OBVIOUS
<1>7. IsEntry(e)
  <2> DEFINE h == ComputeEntryHash(fields)
             g == Sign(SerializeForSigning(hashed))
  <2> HIDE DEF h, g, prev
  <2>1. hashed = [fields EXCEPT !.entryHash = h]
    BY DEF h
  <2>2. hashed = [sequence |-> auditSequence, eventType |-> type, pollId |-> poll,
                  voterIdHash |-> voter, authorityId |-> authority, metadata |-> metadata,
                  previousHash |-> prev, entryHash |-> h, signature |-> Sign(<<>>)]
    BY <2>1
  <2>3. e = [hashed EXCEPT !.signature = g]
    BY DEF g
  <2> HIDE DEF e, hashed, fields
  <2>4. e = [sequence |-> auditSequence, eventType |-> type, pollId |-> poll,
             voterIdHash |-> voter, authorityId |-> authority, metadata |-> metadata,
             previousHash |-> prev, entryHash |-> h, signature |-> g]
    BY <2>2, <2>3
  <2> QED BY <2>4 DEF IsEntry
<1> QED BY <1>1, <1>3, <1>4, <1>5, <1>6, <1>7

\* The chain verifies after appendEntry, whether or not signing succeeds.
LEMMA AppendStep ==
    ASSUME AuditType, AuditVerifies, NEW type, NEW poll, NEW voter, NEW authority, NEW metadata, NEW signs,
           AppendEntry(type, poll, voter, authority, metadata, signs)
    PROVE  AuditType' /\ AuditVerifies'
<1> DEFINE e == NewEntry(type, poll, voter, authority, metadata)
<1>1. auditSequence' = auditSequence + 1 /\ auditEntries' \in {auditEntries, Append(auditEntries, e)}
  BY DEF AppendEntry
<1>2. CASE auditEntries' = auditEntries
  BY <1>1, <1>2 DEF AuditType, AuditVerifies
<1>3. CASE auditEntries' = Append(auditEntries, e)
  <2>1. PICK S : auditEntries \in Seq(S)
    BY DEF AuditType
  <2>2. /\ Len(auditEntries) \in Nat /\ Len(auditEntries') = Len(auditEntries) + 1
        /\ \A i \in 1..Len(auditEntries) : auditEntries'[i] = auditEntries[i]
        /\ auditEntries'[Len(auditEntries) + 1] = e
        /\ auditEntries' \in Seq(S \cup {e})
    BY <1>3, <2>1
  <2>3. /\ e.sequence = auditSequence
        /\ ComputeEntryHash(e) = e.entryHash /\ VerifyAuditEntry(e)
        /\ Len(auditEntries) > 0 => e.previousHash = <<auditEntries[Len(auditEntries)].entryHash>>
    BY <2>1, NewEntryVerifies
  <2> HIDE DEF e
  <2>4. AuditType'
    BY <1>1, <2>2, <2>3 DEF AuditType
  <2>5. VerifyChain(auditEntries')
    <3> SUFFICES ASSUME NEW i \in 1..Len(auditEntries')
                 PROVE  /\ ComputeEntryHash(auditEntries'[i]) = auditEntries'[i].entryHash
                        /\ VerifyAuditEntry(auditEntries'[i])
                        /\ i > 1 => Follows(auditEntries'[i], auditEntries'[i - 1])
      BY DEF VerifyChain
    <3>1. CASE i \in 1..Len(auditEntries)
      BY <2>2, <3>1 DEF AuditVerifies, VerifyChain
    <3>2. CASE i = Len(auditEntries) + 1
      BY <2>2, <2>3, <3>2 DEF Follows
    <3> QED BY <2>2, <3>1, <3>2
  <2>6. \A i \in 1..Len(auditEntries') : auditEntries'[i].sequence < auditSequence'
    BY <1>1, <2>2, <2>3 DEF AuditType, AuditVerifies
  <2>7. \A i, j \in 1..Len(auditEntries') : i < j => auditEntries'[i].sequence < auditEntries'[j].sequence
    BY <2>2, <2>3 DEF AuditType, AuditVerifies
  <2> QED BY <2>4, <2>5, <2>6, <2>7 DEF AuditVerifies
<1> QED BY <1>1, <1>2, <1>3

\* publishVote makes an entry that verifies.
LEMMA BoardEntryVerifies ==
    ASSUME NEW poll, NEW ballot, NEW voter
    PROVE  LET e == BoardEntry(poll, ballot, voter) IN
           e.sequence = boardSequence /\ e.merkleRoot = ComputeMerkleRoot(boardEntries) /\ VerifyEntry(e)
<1> DEFINE fields == [sequence |-> boardSequence, pollId |-> poll, encryptedVote |-> ballot, voterIdHash |-> voter,
                      merkleRoot |-> ComputeMerkleRoot(boardEntries), entryHash |-> Zero, signature |-> Sign(Zero)]
           hash == Hash(SerializeEntryData(fields))
           e == [fields EXCEPT !.entryHash = hash, !.signature = Sign(hash)]
<1>1. e = BoardEntry(poll, ballot, voter)
  BY DEF BoardEntry
<1>2. SerializeEntryData(e) = SerializeEntryData(fields)
  BY DEF SerializeEntryData
<1>3. /\ e.sequence = boardSequence /\ e.merkleRoot = ComputeMerkleRoot(boardEntries)
      /\ e.entryHash = hash /\ e.signature = Sign(hash)
  OBVIOUS
<1> QED BY <1>1, <1>2, <1>3 DEF VerifyEntry

\* publishTally makes a proof that verifies.
LEMMA TallyProofVerifies ==
    ASSUME NEW poll, NEW tallies, NEW choices, NEW ballots
    PROVE  VerifyTallyProof(TallyProof(poll, tallies, choices, ballots))
<1> DEFINE fields == [pollId |-> poll, tallies |-> tallies, choices |-> choices,
                      votesHash |-> HashEncryptedVotes(ballots),
                      decryptionProof |-> GenerateDecryptionProof(ballots, tallies), signature |-> Sign(Zero)]
           proof == [fields EXCEPT !.signature = Sign(SerializeTallyProof(fields))]
<1>1. proof = TallyProof(poll, tallies, choices, ballots)
  BY DEF TallyProof
<1>2. SerializeTallyProof(proof) = SerializeTallyProof(fields)
  BY DEF SerializeTallyProof
<1> QED BY <1>1, <1>2 DEF VerifyTallyProof

\* The board verifies after publishVote: the roots of older entries are over
\* prefixes that have not changed.
LEMMA PublishStep ==
    ASSUME BoardType, BoardVerifies, NEW poll, NEW ballot, NEW voter, PublishVote(poll, ballot, voter)
    PROVE  BoardType' /\ BoardVerifies'
<1> DEFINE e == BoardEntry(poll, ballot, voter)
           n == Len(boardEntries)
<1>1. PICK S : boardEntries \in Seq(S)
  BY DEF BoardType
<1>2. boardEntries' = Append(boardEntries, e) /\ boardSequence' = boardSequence + 1 /\ tallyProofs' = tallyProofs
  BY DEF PublishVote
<1>3. e.sequence = boardSequence /\ e.merkleRoot = ComputeMerkleRoot(boardEntries) /\ VerifyEntry(e)
  BY BoardEntryVerifies
<1> HIDE DEF e
<1>4. /\ n \in Nat /\ Len(boardEntries') = n + 1
      /\ \A i \in 1..n : boardEntries'[i] = boardEntries[i]
      /\ boardEntries'[n + 1] = e
      /\ boardEntries' \in Seq(S \cup {e})
  BY <1>1, <1>2
<1>5. \A i \in 1..(n + 1) : SubSeq(boardEntries', 1, i - 1) = SubSeq(boardEntries, 1, i - 1)
  BY <1>1, <1>4
<1>6. SubSeq(boardEntries, 1, n) = boardEntries
  BY <1>1
<1>7. VerifyMerkleTree(boardEntries')
  <2> SUFFICES ASSUME NEW i \in 1..(n + 1)
               PROVE  boardEntries'[i].merkleRoot = ComputeMerkleRoot(SubSeq(boardEntries', 1, i - 1))
    BY <1>4 DEF VerifyMerkleTree
  <2>1. CASE i \in 1..n
    BY <1>4, <1>5, <2>1 DEF BoardVerifies, VerifyMerkleTree
  <2>2. CASE i = n + 1
    <3>1. i - 1 = n
      BY <1>4, <2>2
    <3>2. SubSeq(boardEntries', 1, i - 1) = boardEntries
      BY <1>5, <1>6, <3>1
    <3>3. boardEntries'[i] = e
      BY <1>4, <2>2
    <3> QED BY <1>3, <3>2, <3>3
  <2> QED BY <1>4, <2>1, <2>2
<1>8. \A i \in 1..Len(boardEntries') : VerifyEntry(boardEntries'[i]) /\ boardEntries'[i].sequence = i - 1
  BY <1>3, <1>4 DEF BoardVerifies
<1> QED BY <1>2, <1>4, <1>7, <1>8 DEF BoardType, BoardVerifies

\* publishTally replaces a proof by one that verifies.
LEMMA PublishTallyStep ==
    ASSUME BoardType, BoardVerifies, NEW poll \in Polls, NEW tallies, NEW choices, NEW ballots,
           PublishTally(poll, tallies, choices, ballots)
    PROVE  BoardType' /\ BoardVerifies'
<1>1. /\ UNCHANGED <<boardEntries, boardSequence>>
      /\ tallyProofs' = [tallyProofs EXCEPT ![poll] = TallyProof(poll, tallies, choices, ballots)]
  BY DEF PublishTally
<1>2. \A p \in Polls : tallyProofs'[p] # None => VerifyTallyProof(tallyProofs'[p])
  BY <1>1, TallyProofVerifies DEF BoardVerifies
<1> QED BY <1>1, <1>2 DEF BoardType, BoardVerifies

\* Every step of the three ledgers keeps both verifying.
LEMMA RecordStep ==
    ASSUME AuditType, BoardType, RecordsVerify, [Next]_vars
    PROVE  AuditType' /\ BoardType' /\ RecordsVerify'
<1>1. ASSUME AuditNext PROVE AuditType' /\ AuditVerifies'
  BY <1>1, AppendStep DEF AuditNext, RecordPollCreated, RecordVoteCast, RecordPollClosed, RecordsVerify
<1>2. ASSUME BoardNext PROVE BoardType' /\ BoardVerifies'
  BY <1>2, PublishStep, PublishTallyStep DEF BoardNext, RecordsVerify
<1>3. ASSUME UNCHANGED auditVars PROVE AuditType' /\ AuditVerifies'
  BY <1>3 DEF AuditType, AuditVerifies, RecordsVerify, auditVars
<1>4. ASSUME UNCHANGED boardVars PROVE BoardType' /\ BoardVerifies'
  BY <1>4 DEF BoardType, BoardVerifies, RecordsVerify, boardVars
<1>5. CASE Next
  BY <1>1, <1>2, <1>3, <1>4, <1>5 DEF Next, RecordsVerify
<1>6. CASE UNCHANGED vars
  BY <1>3, <1>4, <1>6 DEF vars, RecordsVerify
<1> QED BY <1>5, <1>6

\* RecordsVerify is inductive together with the types.
LEMMA RecordInvariant == Spec => [](AuditType /\ BoardType /\ RecordsVerify)
<1>1. Init => AuditType /\ BoardType /\ RecordsVerify
  <2> SUFFICES ASSUME Init PROVE AuditType /\ BoardType /\ RecordsVerify
    OBVIOUS
  <2>1. auditEntries = <<>> /\ auditSequence = 0 /\ boardEntries = <<>> /\ boardSequence = 0
    BY DEF Init, AuditInit, BoardInit
  <2>2. \A p \in Polls : tallyProofs[p] = None
    BY DEF Init, BoardInit
  <2>3. AuditType /\ BoardType
    BY <2>1 DEF AuditType, BoardType
  <2>4. AuditVerifies
    BY <2>1 DEF AuditVerifies, VerifyChain
  <2>5. BoardVerifies
    BY <2>1, <2>2 DEF BoardVerifies, VerifyMerkleTree
  <2> QED BY <2>3, <2>4, <2>5 DEF RecordsVerify
<1>2. AuditType /\ BoardType /\ RecordsVerify /\ [Next]_vars => (AuditType /\ BoardType /\ RecordsVerify)'
  BY RecordStep
<1> QED BY <1>1, <1>2, PTL DEF Spec

\* Whatever was recorded verifies, for any number of entries and failures of
\* signing (appendEntry, publishVote, publishTally).
THEOREM RecordsSafe == Spec => []RecordsVerify
  BY RecordInvariant, PTL

-----------------------------------------------------------------------------
\* appendEntry links the new entry to the last one, or to nothing.
LEMMA ShapeStep ==
    ASSUME AuditType, AuditShape, NEW type, NEW poll \in Seq(Octets), NEW voter, NEW authority, NEW metadata, NEW signs,
           Optional(voter) \in Seq(Octets), Optional(authority) \in Seq(Octets),
           AppendEntry(type, poll, voter, authority, metadata, signs)
    PROVE  AuditShape'
<1> DEFINE e == NewEntry(type, poll, voter, authority, metadata)
<1>1. auditEntries' \in {auditEntries, Append(auditEntries, e)}
  BY DEF AppendEntry
<1>2. CASE auditEntries' = auditEntries
  BY <1>2 DEF AuditShape
<1>3. CASE auditEntries' = Append(auditEntries, e)
  <2>1. PICK S : auditEntries \in Seq(S)
    BY DEF AuditType
  <2>2. /\ IsEntry(e) /\ e.pollId = poll /\ e.voterIdHash = voter /\ e.authorityId = authority
        /\ auditEntries = <<>> => e.previousHash = Zeros
    BY NewEntryVerifies
  <2> HIDE DEF e
  <2>3. /\ Len(auditEntries) \in Nat /\ Len(auditEntries') = Len(auditEntries) + 1
        /\ \A i \in 1..Len(auditEntries) : auditEntries'[i] = auditEntries[i]
        /\ auditEntries'[Len(auditEntries) + 1] = e
        /\ auditEntries # <<>> => Len(auditEntries) > 0
        /\ auditEntries = <<>> => Len(auditEntries) = 0
    BY <1>3, <2>1
  <2>4. IsRecorded(e)
    BY <2>2 DEF IsRecorded
  <2>5. \A i \in 1..Len(auditEntries') : IsRecorded(auditEntries'[i])
    BY <2>3, <2>4 DEF AuditShape
  <2>6. auditEntries'[1].previousHash = Zeros
    <3>1. CASE auditEntries = <<>>
      BY <2>2, <2>3, <3>1
    <3>2. CASE auditEntries # <<>>
      BY <2>3, <3>2 DEF AuditShape
    <3> QED BY <3>1, <3>2
  <2> QED BY <2>5, <2>6 DEF AuditShape
<1> QED BY <1>1, <1>2, <1>3

\* The bytes of an id.
LEMMA RawType ==
    ASSUME NEW b \in Seq(Bytes)
    PROVE  Raw(b) \in Seq(Octets)
<1>1. Len(b) \in Nat /\ \A i \in 1..Len(b) : [byte |-> b[i]] \in Octets
  BY DEF Octets
<1> QED BY <1>1 DEF Raw

\* Entries keep their shape in every behaviour.
LEMMA AuditShapeInvariant == Spec => [](AuditType /\ AuditVerifies /\ AuditShape)
<1>1. Init => AuditShape
  BY DEF Init, AuditInit, AuditShape
<1>2. AuditType /\ AuditShape /\ [Next]_vars => AuditShape'
  <2> SUFFICES ASSUME AuditType, AuditShape, [Next]_vars PROVE AuditShape'
    OBVIOUS
  <2>0. /\ Optional(None) \in Seq(Octets)
        /\ \A b \in Polls \cup VoterHashes \cup {Authority} :
              Raw(b) \in Seq(Octets) /\ Optional(Raw(b)) \in Seq(Octets)
    <3>1. <<>> \in Seq(Octets)
      OBVIOUS
    <3>2. \A b \in Polls \cup VoterHashes \cup {Authority} : b \in Seq(Bytes)
      BY AuditAssumption
    <3> QED BY <3>1, <3>2, RawType DEF Optional
  <2>1. ASSUME NEW poll \in Polls, NEW signs \in BOOLEAN, NEW metadata \in Metadata, RecordPollCreated(poll, metadata, signs)
        PROVE  AuditShape'
    BY <2>0, <2>1, ShapeStep DEF RecordPollCreated
  <2>2. ASSUME NEW poll \in Polls, NEW signs \in BOOLEAN, NEW metadata \in Metadata, RecordPollClosed(poll, metadata, signs)
        PROVE  AuditShape'
    BY <2>0, <2>2, ShapeStep DEF RecordPollClosed
  <2>3. ASSUME NEW poll \in Polls, NEW signs \in BOOLEAN, NEW voter \in VoterHashes, RecordVoteCast(poll, voter, signs)
        PROVE  AuditShape'
    BY <2>0, <2>3, ShapeStep DEF RecordVoteCast
  <2>4. CASE AuditNext
    BY <2>1, <2>2, <2>3, <2>4 DEF AuditNext
  <2>5. CASE UNCHANGED auditEntries
    BY <2>5 DEF AuditShape
  <2> QED BY <2>4, <2>5 DEF Next, vars, auditVars
<1> QED BY <1>1, <1>2, RecordInvariant, PTL DEF Spec, RecordsVerify

\* The elements of a concatenation, by their places.
Joint(p, x, z) ==
    /\ Len(p) \in Nat /\ Len(x) \in Nat
    /\ Len(z) = Len(p) + Len(x)
    /\ \A i \in 1..Len(p) : z[i] = p[i]
    /\ \A i \in 1..Len(x) : z[Len(p) + i] = x[i]
    /\ \A i \in 1..Len(z) : i \in 1..Len(p) \/ i - Len(p) \in 1..Len(x)

LEMMA Parts ==
    ASSUME NEW S, NEW p \in Seq(S), NEW x \in Seq(S)
    PROVE  p \o x \in Seq(S) /\ Joint(p, x, p \o x)
<1>1. p \o x \in Seq(S) /\ Len(p) \in Nat /\ Len(x) \in Nat /\ Len(p \o x) = Len(p) + Len(x)
  BY ConcatProperties
<1>2. \A i \in 1..(Len(p) + Len(x)) : (p \o x)[i] = IF i <= Len(p) THEN p[i] ELSE x[i - Len(p)]
  BY ConcatProperties
<1>3. \A i \in 1..Len(p) : (p \o x)[i] = p[i]
  BY <1>1, <1>2
<1>4. ASSUME NEW i \in 1..Len(x) PROVE (p \o x)[Len(p) + i] = x[i]
  <2>1. Len(p) + i \in 1..(Len(p) + Len(x)) /\ ~(Len(p) + i <= Len(p)) /\ Len(p) + i - Len(p) = i
    BY <1>1
  <2> QED BY <1>2, <2>1
<1>5. \A i \in 1..Len(p \o x) : i \in 1..Len(p) \/ i - Len(p) \in 1..Len(x)
  BY <1>1
<1> QED BY <1>1, <1>3, <1>4, <1>5 DEF Joint

\* The four fields of an entry that nothing separates are sequences.
InPieces(f, S) ==
    f.pollId \in Seq(S) /\ f.previousHash \in Seq(S) /\ Optional(f.voterIdHash) \in Seq(S) /\ Optional(f.authorityId) \in Seq(S)

\* What is hashed: three numbers, the poll, the link, and the ids that are there.
Layout(f, h, p) ==
    /\ \E U : h \in Seq(U)
    /\ p \in Nat /\ Len(h) \in Nat
    /\ p + Len(f.previousHash) <= Len(h)
    /\ \A i \in 1..3 : \E n : h[i] = Number(n)
    /\ \A i \in 1..Len(f.pollId) : h[3 + i] = f.pollId[i]
    /\ \A i \in 1..Len(f.previousHash) : h[p + i] = f.previousHash[i]
    /\ \A i \in 1..Len(h) : \/ i \in 1..3
                            \/ i - 3 \in 1..Len(f.pollId)
                            \/ i - p \in 1..Len(f.previousHash)
                            \/ \E j \in 1..Len(Optional(f.voterIdHash)) : h[i] = Optional(f.voterIdHash)[j]
                            \/ \E j \in 1..Len(Optional(f.authorityId)) : h[i] = Optional(f.authorityId)[j]

LEMMA HashedFields ==
    ASSUME NEW f, NEW S, InPieces(f, S)
    PROVE  Layout(f, SerializeForHashing(f), 3 + Len(f.pollId))
<1> DEFINE numbers == <<Number(f.sequence), Number(f.eventType), Timestamp>>
           U == S \cup {Number(f.sequence), Number(f.eventType), Timestamp}
           a == f.pollId
           b == f.previousHash
           c == Optional(f.voterIdHash)
           d == Optional(f.authorityId)
           ab == a \o b
           abc == ab \o c
           abcd == abc \o d
           h == numbers \o abcd
<1>1. h = SerializeForHashing(f)
  BY DEF SerializeForHashing
<1>2. /\ numbers \in Seq(U) /\ Len(numbers) = 3
      /\ numbers[1] = Number(f.sequence) /\ numbers[2] = Number(f.eventType) /\ numbers[3] = Timestamp
  OBVIOUS
<1>3. a \in Seq(U) /\ b \in Seq(U) /\ c \in Seq(U) /\ d \in Seq(U)
  <2>1. S \subseteq U
    OBVIOUS
  <2> HIDE DEF U
  <2> QED BY <2>1 DEF InPieces
<1>4. Timestamp = Number(0)
  BY DEF Timestamp
<1> HIDE DEF numbers, U, a, b, c, d
<1>5. ab \in Seq(U) /\ Joint(a, b, ab)
  BY <1>3, Parts
<1> HIDE DEF ab
<1>6. abc \in Seq(U) /\ Joint(ab, c, abc)
  BY <1>3, <1>5, Parts
<1> HIDE DEF abc
<1>7. abcd \in Seq(U) /\ Joint(abc, d, abcd)
  BY <1>3, <1>6, Parts
<1> HIDE DEF abcd
<1>8. h \in Seq(U) /\ Joint(numbers, abcd, h)
  BY <1>2, <1>7, Parts
<1> HIDE DEF h
<1> USE DEF Joint
<1> DEFINE p == 3 + Len(a)
<1>9. p \in Nat /\ Len(h) \in Nat /\ p + Len(b) <= Len(h)
  BY <1>2, <1>5, <1>6, <1>7, <1>8
<1>10. \A i \in 1..3 : \E n : h[i] = Number(n)
  <2>1. h[1] = Number(f.sequence) /\ h[2] = Number(f.eventType) /\ h[3] = Number(0)
    BY <1>2, <1>4, <1>8
  <2> QED BY <2>1
<1>11. ASSUME NEW i \in 1..Len(a) PROVE h[3 + i] = a[i]
  <2>1. i \in 1..Len(ab) /\ i \in 1..Len(abc) /\ i \in 1..Len(abcd)
    BY <1>5, <1>6, <1>7
  <2> QED BY <1>2, <1>5, <1>6, <1>7, <1>8, <2>1
<1>12. ASSUME NEW i \in 1..Len(b) PROVE h[p + i] = b[i]
  <2>1. Len(a) + i \in 1..Len(ab) /\ Len(a) + i \in 1..Len(abc) /\ Len(a) + i \in 1..Len(abcd)
    BY <1>5, <1>6, <1>7
  <2>2. p + i = Len(numbers) + (Len(a) + i)
    BY <1>2, <1>5
  <2>3. abcd[Len(a) + i] = b[i]
    BY <1>5, <1>6, <1>7, <2>1
  <2>4. h[Len(numbers) + (Len(a) + i)] = abcd[Len(a) + i]
    BY <1>8, <2>1
  <2> HIDE DEF p
  <2> QED BY <2>2, <2>3, <2>4
<1>13. ASSUME NEW i \in 1..Len(h)
       PROVE  \/ i \in 1..3
              \/ i - 3 \in 1..Len(a)
              \/ i - p \in 1..Len(b)
              \/ \E j \in 1..Len(c) : h[i] = c[j]
              \/ \E j \in 1..Len(d) : h[i] = d[j]
  <2>0. i \in Int
    BY <1>9
  <2>1. i \in 1..3 \/ i - 3 \in 1..Len(abcd)
    BY <1>2, <1>8
  <2>2. ASSUME i - 3 \in 1..Len(abcd) PROVE h[i] = abcd[i - 3]
    <3>1. 3 + (i - 3) = i
      BY <2>0
    <3> QED BY <1>2, <1>8, <2>2, <3>1
  <2>3. ASSUME i - 3 \in 1..Len(abcd), i - 3 - Len(abc) \in 1..Len(d)
        PROVE  \E j \in 1..Len(d) : h[i] = d[j]
    <3>1. Len(abc) + (i - 3 - Len(abc)) = i - 3
      BY <1>6, <2>0
    <3>2. abcd[i - 3] = d[i - 3 - Len(abc)]
      BY <1>7, <2>3, <3>1
    <3> QED BY <2>2, <2>3, <3>2
  <2>4. ASSUME i - 3 \in 1..Len(abcd), i - 3 \in 1..Len(abc), i - 3 - Len(ab) \in 1..Len(c)
        PROVE  \E j \in 1..Len(c) : h[i] = c[j]
    <3>1. Len(ab) + (i - 3 - Len(ab)) = i - 3
      BY <1>5, <2>0
    <3>2. abc[i - 3] = c[i - 3 - Len(ab)] /\ abcd[i - 3] = abc[i - 3]
      BY <1>6, <1>7, <2>4, <3>1
    <3> QED BY <2>2, <2>4, <3>2
  <2>5. ASSUME i - 3 \in 1..Len(ab) PROVE i - 3 \in 1..Len(a) \/ i - p \in 1..Len(b)
    BY <1>5, <2>0, <2>5
  <2> HIDE DEF p
  <2> QED BY <1>6, <1>7, <2>1, <2>3, <2>4, <2>5
<1>14. Layout(f, h, p)
  BY <1>8, <1>9, <1>10, <1>11, <1>12, <1>13 DEF Layout, a, b, c, d
<1> QED BY <1>1, <1>14 DEF p, a

\* Two entries with one signature agree in what is hashed and in their hash.
LEMMA OneSignature ==
    ASSUME NEW d, NEW e, Sign(SerializeForSigning(d)) = Sign(SerializeForSigning(e)),
           NEW S, NEW T, SerializeForHashing(d) \in Seq(S), SerializeForHashing(e) \in Seq(T)
    PROVE  SerializeForHashing(d) = SerializeForHashing(e) /\ d.entryHash = e.entryHash
<1>1. Append(SerializeForHashing(d), d.entryHash) = Append(SerializeForHashing(e), e.entryHash)
  BY DEF Sign, SerializeForSigning
<1> DEFINE U == S \cup T \cup {d.entryHash, e.entryHash}
<1>4. SerializeForHashing(d) \in Seq(U) /\ SerializeForHashing(e) \in Seq(U)
  OBVIOUS
<1>5. \A p, q \in Seq(U), x, y \in U : Append(p, x) = Append(q, y) => p = q /\ x = y
  <2> SUFFICES ASSUME NEW p \in Seq(U), NEW q \in Seq(U), NEW x \in U, NEW y \in U,
                      Append(p, x) = Append(q, y)
               PROVE  p = q /\ x = y
    OBVIOUS
  <2>1. Len(p) = Len(q)
    BY LenProperties
  <2>2. x = y /\ \A i \in 1..Len(p) : p[i] = q[i]
    BY <2>1
  <2> QED BY <2>1, <2>2, SeqEqual
<1> QED BY <1>1, <1>4, <1>5

\* No byte of an id and no number is a digest.
LEMMA NoDigest ==
    ASSUME NEW data
    PROVE  (\A x \in Octets : x # Hash(data)) /\ (\A n : Number(n) # Hash(data))
<1>1. DOMAIN Hash(data) = {"digest"}
  BY DEF Hash
<1>2. \A x \in Octets : DOMAIN x = {"byte"}
  BY DEF Octets
<1>3. \A n : DOMAIN Number(n) = {"number"}
  BY DEF Number
<1>4. {"digest"} # {"byte"} /\ {"digest"} # {"number"}
  OBVIOUS
<1>5. ASSUME NEW x \in Octets PROVE x # Hash(data)
  BY <1>1, <1>2, <1>4
<1>6. ASSUME NEW n PROVE Number(n) # Hash(data)
  BY <1>1, <1>3, <1>4
<1> QED BY <1>5, <1>6

\* What is put together: an entry, whatever its fields, with the signature of
\* a recorded one.
Borrowed(f) == /\ \E S : InPieces(f, S)
               /\ \E i \in 1..Len(auditEntries) : f.signature = auditEntries[i].signature

\* A recorded entry is in pieces, and no digest is in it but its link.
LEMMA RecordedFields ==
    ASSUME AuditType, AuditVerifies, AuditShape, NEW i \in 1..Len(auditEntries)
    PROVE  LET e == auditEntries[i] IN
           /\ IsRecorded(e) /\ VerifyAuditEntry(e) /\ e.entryHash = Hash(SerializeForHashing(e))
           /\ IF i = 1 THEN e.previousHash = Zeros ELSE i - 1 \in 1..Len(auditEntries) /\ e.previousHash = <<auditEntries[i - 1].entryHash>>
           /\ \E S : InPieces(e, S)
<1>1. Len(auditEntries) \in Nat
  BY LenProperties DEF AuditType
<1>2. /\ IsRecorded(auditEntries[i]) /\ VerifyAuditEntry(auditEntries[i])
      /\ auditEntries[i].entryHash = Hash(SerializeForHashing(auditEntries[i]))
  BY DEF AuditShape, AuditVerifies, VerifyChain, ComputeEntryHash
<1>3. CASE i = 1
  <2>1. auditEntries[i].previousHash = Zeros
    BY <1>1, <1>3 DEF AuditShape
  <2>2. Zeros \in Seq(Octets)
    <3>1. <<0, 0>> \in Seq(Bytes)
      BY AuditAssumption
    <3> QED BY <3>1, RawType DEF Zeros
  <2>3. InPieces(auditEntries[i], Octets)
    BY <1>2, <2>1, <2>2 DEF InPieces, IsRecorded
  <2> QED BY <1>2, <1>3, <2>1, <2>3
<1>4. CASE i # 1
  <2> DEFINE l == <<auditEntries[i - 1].entryHash>>
             S == Octets \cup {auditEntries[i - 1].entryHash}
  <2>1. i - 1 \in 1..Len(auditEntries) /\ auditEntries[i].previousHash = l
    BY <1>1, <1>4 DEF AuditVerifies, VerifyChain, Follows
  <2>2. l \in Seq(S) /\ Octets \subseteq S
    OBVIOUS
  <2> HIDE DEF l, S
  <2>3. InPieces(auditEntries[i], S)
    BY <1>2, <2>1, <2>2 DEF InPieces, IsRecorded
  <2> QED BY <1>2, <1>4, <2>1, <2>3 DEF l
<1> QED BY <1>3, <1>4

\* What verifies with the signature of a recorded entry has its bytes.
LEMMA Genuine ==
    ASSUME AuditType, AuditVerifies, AuditShape, NEW f, Borrowed(f), VerifyAuditEntry(f)
    PROVE  \E i \in 1..Len(auditEntries) : Alike(f, auditEntries[i])
<1>1. PICK S : InPieces(f, S)
  BY DEF Borrowed
<1>2. PICK i \in 1..Len(auditEntries) : f.signature = auditEntries[i].signature
  BY DEF Borrowed
<1>3. VerifyAuditEntry(auditEntries[i]) /\ \E T : InPieces(auditEntries[i], T)
  BY RecordedFields
<1>4. PICK T : InPieces(auditEntries[i], T)
  BY <1>3
<1>5. PICK U : SerializeForHashing(f) \in Seq(U)
  BY <1>1, HashedFields DEF Layout
<1>6. PICK V : SerializeForHashing(auditEntries[i]) \in Seq(V)
  BY <1>4, HashedFields DEF Layout
<1>7. Sign(SerializeForSigning(f)) = Sign(SerializeForSigning(auditEntries[i]))
  BY <1>2, <1>3 DEF VerifyAuditEntry
<1> QED BY <1>5, <1>6, <1>7, OneSignature DEF Alike

\* In what was hashed of a recorded entry a digest stands only at the link.
LEMMA OnlyLink ==
    ASSUME AuditType, AuditVerifies, AuditShape, NEW j \in 1..Len(auditEntries), NEW data,
           NEW k \in 1..Len(SerializeForHashing(auditEntries[j])),
           SerializeForHashing(auditEntries[j])[k] = Hash(data)
    PROVE  /\ j # 1 /\ j - 1 \in 1..Len(auditEntries) /\ k = 4 + Len(auditEntries[j].pollId)
           /\ auditEntries[j - 1].entryHash = Hash(data)
<1> DEFINE e == auditEntries[j]
           h == SerializeForHashing(e)
           p == 3 + Len(e.pollId)
<1>0. /\ IsRecorded(e)
      /\ IF j = 1 THEN e.previousHash = Zeros ELSE j - 1 \in 1..Len(auditEntries) /\ e.previousHash = <<auditEntries[j - 1].entryHash>>
      /\ \E S : InPieces(e, S)
  BY RecordedFields
<1>1. PICK S : InPieces(e, S)
  BY <1>0
<1>2. /\ p \in Nat /\ Len(h) \in Nat
      /\ \A i \in 1..3 : \E n : h[i] = Number(n)
      /\ \A i \in 1..Len(e.pollId) : h[3 + i] = e.pollId[i]
      /\ \A i \in 1..Len(e.previousHash) : h[p + i] = e.previousHash[i]
      /\ \A i \in 1..Len(h) : \/ i \in 1..3
                              \/ i - 3 \in 1..Len(e.pollId)
                              \/ i - p \in 1..Len(e.previousHash)
                              \/ \E n \in 1..Len(Optional(e.voterIdHash)) : h[i] = Optional(e.voterIdHash)[n]
                              \/ \E n \in 1..Len(Optional(e.authorityId)) : h[i] = Optional(e.authorityId)[n]
  <2>1. Layout(e, h, p)
    BY <1>1, HashedFields
  <2> QED BY <2>1 DEF Layout
<1>3. /\ \A x \in Octets : x # Hash(data)
      /\ \A n : Number(n) # Hash(data)
  BY NoDigest
<1>4. e.pollId \in Seq(Octets) /\ Optional(e.voterIdHash) \in Seq(Octets) /\ Optional(e.authorityId) \in Seq(Octets)
  BY <1>0 DEF IsRecorded
<1>5. /\ \A i \in 1..Len(e.pollId) : e.pollId[i] \in Octets
      /\ \A i \in 1..Len(Optional(e.voterIdHash)) : Optional(e.voterIdHash)[i] \in Octets
      /\ \A i \in 1..Len(Optional(e.authorityId)) : Optional(e.authorityId)[i] \in Octets
  BY <1>4, ElementOfSeq
<1>6. h[k] = Hash(data) /\ k \in 1..Len(h)
  OBVIOUS
<1> HIDE DEF h, e
<1>7. k \in Int
  BY <1>2, <1>6
<1>8. k \notin 1..3
  BY <1>2, <1>3, <1>6
<1>9. k - 3 \notin 1..Len(e.pollId)
  <2> SUFFICES ASSUME k - 3 \in 1..Len(e.pollId) PROVE FALSE
    OBVIOUS
  <2>1. 3 + (k - 3) = k
    BY <1>7
  <2>2. h[k] = e.pollId[k - 3]
    BY <1>2, <2>1
  <2> QED BY <1>3, <1>5, <1>6, <2>2
<1>10. k - p \in 1..Len(e.previousHash)
  <2> HIDE DEF p
  <2> QED BY <1>2, <1>3, <1>5, <1>6, <1>8, <1>9
<1>11. h[k] = e.previousHash[k - p]
  <2>1. p + (k - p) = k
    BY <1>2, <1>7
  <2> HIDE DEF p
  <2> QED BY <1>2, <1>10, <2>1
<1>12. j # 1
  <2> SUFFICES ASSUME j = 1 PROVE FALSE
    OBVIOUS
  <2>1. e.previousHash = Zeros
    BY <1>0 DEF e
  <2>2. Zeros \in Seq(Octets)
    <3>1. <<0, 0>> \in Seq(Bytes)
      BY AuditAssumption
    <3> QED BY <3>1, RawType DEF Zeros
  <2>3. e.previousHash[k - p] \in Octets
    <3> HIDE DEF p
    <3> QED BY <1>10, <2>1, <2>2, ElementOfSeq
  <2> QED BY <1>3, <1>6, <1>11, <2>3
<1>13. j - 1 \in 1..Len(auditEntries) /\ e.previousHash = <<auditEntries[j - 1].entryHash>>
  BY <1>0, <1>12 DEF e
<1>14. k - p = 1 /\ h[k] = auditEntries[j - 1].entryHash
  <2>1. Len(e.previousHash) = 1 /\ e.previousHash[1] = auditEntries[j - 1].entryHash
    BY <1>13
  <2>2. k - p = 1
    <3> HIDE DEF p
    <3> QED BY <1>2, <1>7, <1>10, <2>1
  <2> QED BY <1>11, <2>1, <2>2
<1> QED BY <1>2, <1>6, <1>7, <1>12, <1>13, <1>14 DEF e

\* What is accepted after another is accepted where the recorded one was.
LEMMA NextEntry ==
    ASSUME AuditType, AuditVerifies, AuditShape, NEW f, NEW g, Borrowed(f), Borrowed(g),
           VerifyAuditEntry(f), VerifyAuditEntry(g), Follows(g, f)
    PROVE  \E i \in 2..Len(auditEntries) :
              /\ Alike(f, auditEntries[i - 1]) /\ Alike(g, auditEntries[i])
              /\ g.pollId = auditEntries[i].pollId /\ g.previousHash = auditEntries[i].previousHash
<1>1. PICK i \in 1..Len(auditEntries) : Alike(f, auditEntries[i])
  BY Genuine
<1>2. PICK j \in 1..Len(auditEntries) : Alike(g, auditEntries[j])
  BY Genuine
<1> DEFINE h == SerializeForHashing(g)
           k == 4 + Len(g.pollId)
           data == SerializeForHashing(auditEntries[i])
<1>3. f.entryHash = Hash(data) /\ g.previousHash = <<f.entryHash>>
  BY <1>1, RecordedFields DEF Alike, Follows
<1>4. PICK S : InPieces(g, S)
  BY DEF Borrowed
<1>5. /\ 3 + Len(g.pollId) \in Nat /\ Len(h) \in Nat /\ 3 + Len(g.pollId) + Len(g.previousHash) <= Len(h)
      /\ \A n \in 1..Len(g.pollId) : h[3 + n] = g.pollId[n]
      /\ \A n \in 1..Len(g.previousHash) : h[3 + Len(g.pollId) + n] = g.previousHash[n]
  <2>1. Layout(g, h, 3 + Len(g.pollId))
    BY <1>4, HashedFields
  <2> QED BY <2>1 DEF Layout
<1>6. Len(g.previousHash) = 1 /\ g.previousHash[1] = Hash(data)
  BY <1>3
<1>7. g.pollId \in Seq(S) /\ Len(g.pollId) \in Nat
  BY <1>4 DEF InPieces
<1> HIDE DEF data
<1>8. k \in 1..Len(h) /\ h[k] = Hash(data)
  <2>1. k = 3 + Len(g.pollId) + 1 /\ k \in Int
    BY <1>7
  <2>2. h[3 + Len(g.pollId) + 1] = g.previousHash[1]
    BY <1>5, <1>6
  <2>3. h[k] = Hash(data)
    BY <1>6, <2>1, <2>2
  <2> HIDE DEF h
  <2> QED BY <1>5, <1>6, <1>7, <2>1, <2>3
<1>9. h = SerializeForHashing(auditEntries[j])
  BY <1>2 DEF Alike
<1> HIDE DEF h, k
<1>10. /\ j # 1 /\ j - 1 \in 1..Len(auditEntries) /\ k = 4 + Len(auditEntries[j].pollId)
       /\ auditEntries[j - 1].entryHash = Hash(data)
  BY <1>8, <1>9, OnlyLink
<1>11. Alike(f, auditEntries[j - 1])
  <2>1. f.entryHash = auditEntries[j - 1].entryHash
    BY <1>3, <1>10
  <2>2. Hash(SerializeForHashing(auditEntries[j - 1])) = Hash(data)
    BY <1>10, RecordedFields
  <2>3. SerializeForHashing(auditEntries[j - 1]) = data
    BY <2>2 DEF Hash
  <2> QED BY <1>1, <2>1, <2>3 DEF Alike, data
<1>12. g.previousHash = auditEntries[j].previousHash
  <2>1. auditEntries[j].previousHash = <<auditEntries[j - 1].entryHash>>
    BY <1>10, RecordedFields
  <2> QED BY <1>3, <1>10, <2>1
<1>13. g.pollId = auditEntries[j].pollId
  <2>0. PICK T : InPieces(auditEntries[j], T)
    BY RecordedFields
  <2>1. auditEntries[j].pollId \in Seq(T)
    BY <2>0 DEF InPieces
  <2>2. \A n \in 1..Len(auditEntries[j].pollId) : h[3 + n] = auditEntries[j].pollId[n]
    <3>1. Layout(auditEntries[j], h, 3 + Len(auditEntries[j].pollId))
      BY <1>9, <2>0, HashedFields
    <3> QED BY <3>1 DEF Layout
  <2>3. Len(g.pollId) = Len(auditEntries[j].pollId)
    <3>1. Len(auditEntries[j].pollId) \in Nat
      BY <2>1
    <3> QED BY <1>7, <1>10, <3>1 DEF k
  <2>4. \A n \in 1..Len(g.pollId) : g.pollId[n] = auditEntries[j].pollId[n]
    BY <1>5, <2>2, <2>3
  <2>5. g.pollId \in Seq(S \cup T) /\ auditEntries[j].pollId \in Seq(S \cup T)
    BY <1>7, <2>1
  <2> QED BY <2>3, <2>4, <2>5, SeqEqual
<1>14. j \in 2..Len(auditEntries)
  <2>1. Len(auditEntries) \in Nat
    BY LenProperties DEF AuditType
  <2> QED BY <1>10, <2>1
<1> QED BY <1>2, <1>11, <1>12, <1>13, <1>14

\* An entry with one of its fields exchanged has the others.
SameIds(d, e) ==
    /\ d.pollId = e.pollId /\ d.previousHash = e.previousHash
    /\ d.voterIdHash = e.voterIdHash /\ d.authorityId = e.authorityId

WithHash(e, x) == [e EXCEPT !.entryHash = x]
WithNote(e, x) == [e EXCEPT !.metadata = x]
WithSignature(e, x) == [e EXCEPT !.signature = x]

LEMMA Exchanged ==
    ASSUME NEW e, IsEntry(e), NEW x
    PROVE  /\ SameIds(WithHash(e, x), e) /\ WithHash(e, x).signature = e.signature
           /\ SameIds(WithNote(e, x), e) /\ WithNote(e, x).signature = e.signature
           /\ IsEntry(WithSignature(e, x)) /\ SameIds(WithSignature(e, x), e) /\ WithSignature(e, x).signature = x
<1>1. SameIds(WithHash(e, x), e) /\ WithHash(e, x).signature = e.signature
  BY DEF IsEntry, SameIds, WithHash
<1>2. SameIds(WithNote(e, x), e) /\ WithNote(e, x).signature = e.signature
  BY DEF IsEntry, SameIds, WithNote
<1>3. IsEntry(WithSignature(e, x)) /\ SameIds(WithSignature(e, x), e) /\ WithSignature(e, x).signature = x
  BY DEF IsEntry, SameIds, WithSignature
<1> QED BY <1>1, <1>2, <1>3

\* The same for all ids at once.
LEMMA ExchangedIds ==
    ASSUME NEW e, IsEntry(e), NEW p, NEW h, NEW v, NEW a
    PROVE  LET d == WithFields(e, p, h, v, a) IN
           /\ IsEntry(d) /\ d.pollId = p /\ d.previousHash = h /\ d.voterIdHash = v
           /\ d.authorityId = a /\ d.signature = e.signature
<1> DEFINE d == WithFields(e, p, h, v, a)
<1>1. e = [sequence |-> e.sequence, eventType |-> e.eventType, pollId |-> e.pollId,
           voterIdHash |-> e.voterIdHash, authorityId |-> e.authorityId, metadata |-> e.metadata,
           previousHash |-> e.previousHash, entryHash |-> e.entryHash, signature |-> e.signature]
  BY DEF IsEntry
<1>2. d = [sequence |-> e.sequence, eventType |-> e.eventType, pollId |-> p,
           voterIdHash |-> v, authorityId |-> a, metadata |-> e.metadata,
           previousHash |-> h, entryHash |-> e.entryHash, signature |-> e.signature]
  <2>1. PICK c : c = [e EXCEPT !.pollId = p, !.previousHash = h]
    OBVIOUS
  <2>2. c = [sequence |-> e.sequence, eventType |-> e.eventType, pollId |-> p,
             voterIdHash |-> e.voterIdHash, authorityId |-> e.authorityId, metadata |-> e.metadata,
             previousHash |-> h, entryHash |-> e.entryHash, signature |-> e.signature]
    BY <1>1, <2>1
  <2>3. d = [c EXCEPT !.voterIdHash = v, !.authorityId = a]
    BY <2>1 DEF WithFields
  <2> HIDE DEF d
  <2> QED BY <2>2, <2>3
<1> HIDE DEF d
<1>3. d.pollId = p /\ d.previousHash = h /\ d.voterIdHash = v /\ d.authorityId = a /\ d.signature = e.signature
  BY <1>2
<1>4. IsEntry(d)
  BY <1>2 DEF IsEntry
<1> QED BY <1>3, <1>4 DEF d

\* To hash an entry anew changes nothing else.
LEMMA RehashedFields ==
    ASSUME NEW e, IsEntry(e)
    PROVE  SameIds(Rehashed(e), e) /\ Rehashed(e).signature = e.signature
<1>1. Rehashed(e) = WithHash(e, ComputeEntryHash(e))
  BY DEF Rehashed, WithHash
<1> QED BY <1>1, Exchanged

\* What is in pieces stays so when the fields are the same.
LEMMA SamePieces ==
    ASSUME NEW f, NEW i \in 1..Len(auditEntries), f.signature = auditEntries[i].signature,
           NEW S, f.pollId \in Seq(S), NEW T, f.previousHash \in Seq(T),
           NEW U, Optional(f.voterIdHash) \in Seq(U), NEW V, Optional(f.authorityId) \in Seq(V)
    PROVE  Borrowed(f)
<1>1. InPieces(f, S \cup T \cup U \cup V)
  <2> DEFINE W == S \cup T \cup U \cup V
  <2>1. S \subseteq W /\ T \subseteq W /\ U \subseteq W /\ V \subseteq W
    OBVIOUS
  <2> HIDE DEF W
  <2>2. \A X : X \subseteq W => \A s \in Seq(X) : s \in Seq(W)
    OBVIOUS
  <2>3. f.pollId \in Seq(W) /\ f.previousHash \in Seq(W) /\ Optional(f.voterIdHash) \in Seq(W) /\ Optional(f.authorityId) \in Seq(W)
    BY <2>1, <2>2
  <2> QED BY <2>3 DEF InPieces, W
<1> QED BY <1>1 DEF Borrowed

\* An entry with other fields carries the signature it had.
LEMMA RefilledBorrows ==
    ASSUME NEW i \in 1..Len(auditEntries), NEW e, e = auditEntries[i], IsEntry(e),
           NEW S, NEW p \in Seq(S), NEW T, NEW h \in Seq(T),
           NEW U, NEW v, Optional(v) \in Seq(U), NEW V, NEW a, Optional(a) \in Seq(V)
    PROVE  \A f : f \in {WithFields(e, p, h, v, a), Rehashed(WithFields(e, p, h, v, a))} => Borrowed(f)
<1>1. PICK c : c = WithFields(e, p, h, v, a)
  OBVIOUS
<1>2. /\ IsEntry(c) /\ c.pollId = p /\ c.previousHash = h /\ c.voterIdHash = v
      /\ c.authorityId = a /\ c.signature = e.signature
  BY <1>1, ExchangedIds
<1>3. SameIds(Rehashed(c), c) /\ Rehashed(c).signature = c.signature
  BY <1>2, RehashedFields
<1>4. Borrowed(c)
  BY <1>2, SamePieces
<1>5. Borrowed(Rehashed(c))
  <2>1. PICK f : f = Rehashed(c)
    OBVIOUS
  <2>2. f.pollId = p /\ f.previousHash = h /\ f.voterIdHash = v /\ f.authorityId = a /\ f.signature = auditEntries[i].signature
    BY <1>2, <1>3, <2>1 DEF SameIds
  <2> QED BY <2>1, <2>2, SamePieces
<1> QED BY <1>1, <1>4, <1>5

\* Each forgery carries a recorded signature.
LEMMA ForgeriesBorrow ==
    ASSUME AuditType, AuditVerifies, AuditShape, NEW f \in Forgeries
    PROVE  Borrowed(f)
<1> DEFINE entries == {auditEntries[i] : i \in 1..Len(auditEntries)}
           hashes == {Zeros} \cup {<<e.entryHash>> : e \in entries}
           resigned == {Rehashed([d EXCEPT !.signature = e.signature]) : d \in entries, e \in entries}
           changed == UNION {Altered(e, hashes) \cup Recut(e) : e \in entries}
<1>1. f \in entries \/ f \in resigned \/ f \in changed
  <2>1. Forgeries = (entries \cup resigned) \cup changed
    BY DEF Forgeries
  <2> HIDE DEF entries, resigned, changed
  <2> QED BY <2>1
<1>2. ASSUME NEW e \in entries
      PROVE  \E i \in 1..Len(auditEntries) : \E S : e = auditEntries[i] /\ IsEntry(e) /\ InPieces(e, S)
  <2>1. PICK i \in 1..Len(auditEntries) : e = auditEntries[i]
    BY <1>2
  <2>2. IsRecorded(auditEntries[i]) /\ \E S : InPieces(auditEntries[i], S)
    BY RecordedFields
  <2> QED BY <2>1, <2>2 DEF IsRecorded
<1>3. \A h \in hashes : \E S : h \in Seq(S)
  <2>1. Zeros \in Seq(Octets)
    <3>1. <<0, 0>> \in Seq(Bytes)
      BY AuditAssumption
    <3> QED BY <3>1, RawType DEF Zeros
  <2>2. \A x : <<x>> \in Seq({x})
    OBVIOUS
  <2>3. ASSUME NEW h \in hashes PROVE \E S : h \in Seq(S)
    <3>1. h = Zeros \/ \E e \in entries : h = <<e.entryHash>>
      BY <2>3
    <3> HIDE DEF entries
    <3> QED BY <2>1, <2>2, <3>1
  <2> QED BY <2>3
<1>4. CASE f \in entries
  BY <1>2, <1>4 DEF Borrowed
<1>5. CASE f \in resigned
  <2>1. PICK d \in entries, e \in entries : f = Rehashed([d EXCEPT !.signature = e.signature])
    <3> HIDE DEF entries
    <3> QED BY <1>5, SMT
  <2> HIDE DEF entries
  <2>2. PICK i \in 1..Len(auditEntries) : e = auditEntries[i]
    BY <1>2
  <2>3. IsEntry(d) /\ \E S : InPieces(d, S)
    BY <1>2
  <2>4. PICK S : InPieces(d, S)
    BY <2>3
  <2>5. PICK c : c = WithSignature(d, e.signature)
    OBVIOUS
  <2>6. IsEntry(c) /\ SameIds(c, d) /\ c.signature = e.signature
    BY <2>3, <2>5, Exchanged
  <2>7. f = Rehashed(c)
    BY <2>1, <2>5 DEF WithSignature
  <2>8. SameIds(f, c) /\ f.signature = auditEntries[i].signature
    BY <2>2, <2>6, <2>7, RehashedFields
  <2>9. InPieces(f, S)
    BY <2>4, <2>6, <2>8 DEF InPieces, SameIds
  <2> QED BY <2>8, <2>9 DEF Borrowed
<1>6. CASE f \in changed
  <2>1. PICK e \in entries : f \in Altered(e, hashes) \/ f \in Recut(e)
    <3> HIDE DEF entries, hashes
    <3> QED BY <1>6, SMT
  <2>2. PICK i \in 1..Len(auditEntries) : \E S : e = auditEntries[i] /\ IsEntry(e) /\ InPieces(e, S)
    BY <1>2
  <2>3. PICK S : e = auditEntries[i] /\ IsEntry(e) /\ InPieces(e, S)
    BY <2>2
  <2>4. /\ e.pollId \in Seq(S) /\ e.previousHash \in Seq(S)
        /\ Optional(e.voterIdHash) \in Seq(S) /\ Optional(e.authorityId) \in Seq(S)
    BY <2>3 DEF InPieces
  <2> HIDE DEF entries, hashes
  <2>5. CASE f \in Altered(e, hashes)
    <3> DEFINE ids == {None, Raw(Authority)} \cup {Raw(v) : v \in VoterHashes}
               noted == {[e EXCEPT !.metadata = m] : m \in Metadata}
               relinked == {Rehashed(WithFields(e, e.pollId, h, e.voterIdHash, e.authorityId)) : h \in hashes}
               renamed == {Rehashed(WithFields(e, Raw(poll), e.previousHash, v, a)) : poll \in Polls, v \in ids, a \in ids}
    <3>1. f \in noted \/ f \in relinked \/ f \in renamed
      <4>1. Altered(e, hashes) = (noted \cup relinked) \cup renamed
        BY DEF Altered
      <4> HIDE DEF noted, relinked, renamed
      <4> QED BY <2>5, <4>1
    <3>2. CASE f \in noted
      <4>1. PICK m \in Metadata : f = WithNote(e, m)
        BY <3>2 DEF WithNote
      <4>2. SameIds(f, e) /\ f.signature = e.signature
        BY <2>3, <4>1, Exchanged
      <4>3. InPieces(f, S)
        BY <2>3, <4>2 DEF InPieces, SameIds
      <4> QED BY <2>3, <4>2, <4>3 DEF Borrowed
    <3>3. CASE f \in relinked
      <4>1. PICK h \in hashes : f = Rehashed(WithFields(e, e.pollId, h, e.voterIdHash, e.authorityId))
        BY <3>3
      <4>2. PICK T : h \in Seq(T)
        BY <1>3
      <4> QED BY <2>3, <2>4, <4>1, <4>2, RefilledBorrows
    <3>4. CASE f \in renamed
      <4>1. \A v \in ids : Optional(v) \in Seq(Octets)
        <5>1. <<>> \in Seq(Octets)
          OBVIOUS
        <5>2. ASSUME NEW v \in ids PROVE Optional(v) \in Seq(Octets)
          <6>1. v = None \/ \E b \in VoterHashes \cup {Authority} : v = Raw(b)
            BY <5>2
          <6>2. \A b \in VoterHashes \cup {Authority} : b \in Seq(Bytes)
            BY AuditAssumption
          <6> QED BY <5>1, <6>1, <6>2, RawType DEF Optional
        <5> QED BY <5>2
      <4>2. PICK poll \in Polls, v \in ids, a \in ids : f = Rehashed(WithFields(e, Raw(poll), e.previousHash, v, a))
        <5> HIDE DEF ids
        <5> QED BY <3>4, SMT
      <4>3. Raw(poll) \in Seq(Octets)
        BY AuditAssumption, RawType
      <4>4. Optional(v) \in Seq(Octets) /\ Optional(a) \in Seq(Octets)
        BY <4>1
      <4> QED BY <2>3, <2>4, <4>2, <4>3, <4>4, RefilledBorrows
    <3> QED BY <3>1, <3>2, <3>3, <3>4
  <2>6. CASE f \in Recut(e)
    <3> DEFINE bytes == SerializeForHashing(e)
               ids == SubSeq(bytes, 4, Len(bytes))
               n == Len(ids)
               cut(i_, j_) == SubSeq(ids, i_ + 1, j_)
               recut == UNION {{WithFields(e, cut(0, l), cut(l, j), cut(j, k), cut(k, n)) : l \in 0..j, k \in j..n} : j \in 0..n}
    <3>1. PICK U : bytes \in Seq(U)
      BY <2>3, HashedFields DEF Layout
    <3>2. f \in recut
      BY <2>6 DEF Recut
    <3> HIDE DEF bytes
    <3>3. ids \in Seq(U) /\ n \in Nat
      BY <3>1
    <3> HIDE DEF ids
    <3>4. \A i_ \in Nat, j_ \in 0..n : cut(i_, j_) \in Seq(U)
      BY <3>3
    <3> HIDE DEF n, cut
    <3>5. PICK j \in 0..n : \E l \in 0..j, k \in j..n : f = WithFields(e, cut(0, l), cut(l, j), cut(j, k), cut(k, n))
      BY <3>2, SMT
    <3>8. PICK l \in 0..j, k \in j..n : f = WithFields(e, cut(0, l), cut(l, j), cut(j, k), cut(k, n))
      BY <3>5
    <3>6. cut(0, l) \in Seq(U) /\ cut(l, j) \in Seq(U) /\ cut(j, k) \in Seq(U) /\ cut(k, n) \in Seq(U)
      <4>1. l \in Nat /\ j \in Nat /\ k \in Nat /\ l \in 0..n /\ k \in 0..n /\ n \in 0..n /\ 0 \in Nat
        BY <3>3
      <4> QED BY <3>4, <4>1
    <3>7. \A s \in Seq(U) : Optional(s) \in Seq(U)
      BY DEF Optional
    <3> QED BY <2>3, <3>8, <3>6, <3>7, RefilledBorrows
  <2> QED BY <2>1, <2>5, <2>6
<1> HIDE DEF entries, resigned, changed
<1> QED BY <1>1, <1>4, <1>5, <1>6

\* Whatever carries the signature of a recorded entry and verifies has the bytes
\* that entry was hashed from, and follows another only where the recorded ones
\* did, with the poll and the link that were recorded.
Unforgeable ==
    \A f, g :
        Borrowed(f) /\ Borrowed(g) /\ VerifyAuditEntry(f) /\ VerifyAuditEntry(g) =>
        /\ \E i \in 1..Len(auditEntries) : Alike(f, auditEntries[i])
        /\ Follows(g, f) =>
              \E i \in 2..Len(auditEntries) :
                 /\ Alike(f, auditEntries[i - 1]) /\ Alike(g, auditEntries[i])
                 /\ g.pollId = auditEntries[i].pollId /\ g.previousHash = auditEntries[i].previousHash

\* No entry, whatever its fields, verifies under a signature of the log with
\* other bytes than were signed, and none can be moved (appendEntry,
\* verifyChain, verifyEntry).
THEOREM AuditChainSafe == Spec => []Unforgeable
<1>1. AuditType /\ AuditVerifies /\ AuditShape => Unforgeable
  <2> SUFFICES ASSUME AuditType, AuditVerifies, AuditShape, NEW f, NEW g,
                      Borrowed(f), Borrowed(g), VerifyAuditEntry(f), VerifyAuditEntry(g)
               PROVE  /\ \E i \in 1..Len(auditEntries) : Alike(f, auditEntries[i])
                      /\ Follows(g, f) =>
                            \E i \in 2..Len(auditEntries) :
                               /\ Alike(f, auditEntries[i - 1]) /\ Alike(g, auditEntries[i])
                               /\ g.pollId = auditEntries[i].pollId /\ g.previousHash = auditEntries[i].previousHash
    BY DEF Unforgeable
  <2> QED BY Genuine, NextEntry
<1> QED BY <1>1, AuditShapeInvariant, PTL

\* Of what can be made of the entries, only that verifies.
LEMMA AuditTamperingShows == Spec => []AuditTamperEvident
<1>1. AuditType /\ AuditVerifies /\ AuditShape /\ Unforgeable => AuditTamperEvident
  <2> SUFFICES ASSUME AuditType, AuditVerifies, AuditShape, Unforgeable PROVE AuditTamperEvident
    OBVIOUS
  <2> DEFINE accepted == {f \in Forgeries : VerifyChain(<<f>>)}
  <2>1. ASSUME NEW f \in accepted PROVE Borrowed(f) /\ VerifyAuditEntry(f)
    <3>1. f \in Forgeries /\ VerifyChain(<<f>>)
      BY <2>1
    <3>2. Len(<<f>>) = 1 /\ <<f>>[1] = f
      OBVIOUS
    <3>3. VerifyAuditEntry(f)
      BY <3>1, <3>2 DEF VerifyChain
    <3> QED BY <3>1, <3>3, ForgeriesBorrow
  <2> HIDE DEF accepted
  <2>2. \A f \in accepted : \E i \in 1..Len(auditEntries) : Alike(f, auditEntries[i])
    BY <2>1 DEF Unforgeable
  <2>3. \A f, g \in accepted : Follows(g, f) =>
             \E i \in 2..Len(auditEntries) :
                /\ Alike(f, auditEntries[i - 1]) /\ Alike(g, auditEntries[i])
                /\ g.pollId = auditEntries[i].pollId /\ g.previousHash = auditEntries[i].previousHash
    BY <2>1, Zenon DEF Unforgeable
  <2> QED BY <2>2, <2>3 DEF AuditTamperEvident, accepted
<1> QED BY <1>1, AuditShapeInvariant, AuditChainSafe, PTL

-----------------------------------------------------------------------------
(***************************************************************************)
(* The bulletin board.  The root of a Merkle tree determines the number of *)
(* its leaves: its right edge ends in the hash of the last entry, which is *)
(* not the hash of a pair, and entries are numbered.                       *)
(***************************************************************************)

\* Induction, for a set of numbers.
LEMMA SetInduction ==
    ASSUME NEW S, 0 \in S, \A n \in Nat : n \in S => n + 1 \in S
    PROVE  Nat \subseteq S
<1> DEFINE T == Nat \ S
           R == OpToRel(<, Nat)
<1>1. R = {ss \in Nat \X Nat : ss[1] < ss[2]}
  BY DEF OpToRel
<1>2. IsWellFoundedOn(R, Nat)
  BY NatLessThanWellFounded
<1> SUFFICES ASSUME T # {} PROVE FALSE
  OBVIOUS
<1>3. T \subseteq Nat
  OBVIOUS
<1> HIDE DEF T, R
<1>4. PICK x \in T : \A y \in T : ~(<<y, x>> \in R)
  BY <1>2, <1>3, WFMin
<1>5. x \in Nat /\ x # 0
  BY <1>4 DEF T
<1>6. x - 1 \in T
  BY <1>4, <1>5 DEF T
<1>7. <<x - 1, x>> \in R
  BY <1>1, <1>5
<1> QED
  BY <1>4, <1>6, <1>7

\* The levels of a tree, up to level n, from the hashes at its leaves.
AreLevels(level, n, leaves) ==
    level = [k \in 0..n |-> IF k = 0 THEN leaves ELSE NextLevel(level[k - 1])]

\* There are levels, however many are asked for.
LEMMA LevelsExist ==
    ASSUME NEW leaves, NEW n \in Nat
    PROVE  \E level : AreLevels(level, n, leaves)
<1> DEFINE E == {m \in Nat : \E level : AreLevels(level, m, leaves)}
<1>1. 0 \in E
  <2> DEFINE level == [k \in 0..0 |-> leaves]
  <2>1. AreLevels(level, 0, leaves)
    BY DEF AreLevels
  <2> QED BY <2>1
<1>2. ASSUME NEW m \in Nat, m \in E PROVE m + 1 \in E
  <2>1. PICK level : AreLevels(level, m, leaves)
    BY <1>2
  <2> DEFINE next == [k \in 0..(m + 1) |-> IF k = m + 1 THEN NextLevel(level[m]) ELSE level[k]]
  <2>2. ASSUME NEW k \in 0..(m + 1) PROVE next[k] = IF k = 0 THEN leaves ELSE NextLevel(next[k - 1])
    <3>1. CASE k = 0
      BY <2>1, <3>1 DEF AreLevels
    <3>2. CASE k \in 1..m
      <4>1. next[k] = level[k] /\ next[k - 1] = level[k - 1] /\ k - 1 \in 0..m /\ k \in 0..m
        BY <3>2
      <4>2. level[k] = NextLevel(level[k - 1])
        BY <2>1, <3>2, <4>1 DEF AreLevels
      <4> QED BY <3>2, <4>1, <4>2
    <3>3. CASE k = m + 1
      <4>1. next[k] = NextLevel(level[m]) /\ next[k - 1] = level[m]
        BY <3>3
      <4> QED BY <3>3, <4>1
    <3> QED BY <3>1, <3>2, <3>3
  <2>3. AreLevels(next, m + 1, leaves)
    <3>1. next = [k \in 0..(m + 1) |-> next[k]]
      OBVIOUS
    <3> HIDE DEF next
    <3>2. next = [k \in 0..(m + 1) |-> IF k = 0 THEN leaves ELSE NextLevel(next[k - 1])]
      BY <2>2, <3>1
    <3> QED BY <3>2 DEF AreLevels
  <2> QED BY <2>3
<1> HIDE DEF E
<1>3. Nat \subseteq E
  BY <1>1, <1>2, SetInduction
<1> QED BY <1>3 DEF E

\* A root is the first node of the last level.
LEMMA RootOfLevels ==
    ASSUME NEW entries, Len(entries) \in Nat, entries # <<>>
    PROVE  \E level : /\ AreLevels(level, Len(entries), [i \in 1..Len(entries) |-> entries[i].entryHash])
                      /\ ComputeMerkleRoot(entries) = level[Len(entries)][1]
<1> DEFINE n == Len(entries)
           leaves == [i \in 1..n |-> entries[i].entryHash]
           level == CHOOSE l : l = [k \in 0..n |-> IF k = 0 THEN leaves ELSE NextLevel(l[k - 1])]
<1>1. \E l : l = [k \in 0..n |-> IF k = 0 THEN leaves ELSE NextLevel(l[k - 1])]
  BY LevelsExist DEF AreLevels
<1>2. AreLevels(level, n, leaves)
  <2>1. level = [k \in 0..n |-> IF k = 0 THEN leaves ELSE NextLevel(level[k - 1])]
    BY <1>1
  <2> HIDE DEF level, leaves
  <2> QED BY <2>1 DEF AreLevels
<1>3. ComputeMerkleRoot(entries) = level[n][1]
  BY DEF ComputeMerkleRoot
<1> QED BY <1>2, <1>3

\* A path of k right children down from node d to h.
IsPath(c, k, d, h) ==
    /\ DOMAIN c = 0..k /\ c[0] = h /\ c[k] = d
    /\ \A j \in 1..k : \E x : c[j] = Hash(<<x, c[j - 1]>>)

\* The right edge of the tree under d ends in h.
EndsIn(d, h) == \E k \in Nat : \E c : IsPath(c, k, d, h)

\* A leaf is its own edge, and a parent has that of its right child.
LEMMA EdgeGrows ==
    ASSUME NEW h
    PROVE  EndsIn(h, h) /\ \A x, y : EndsIn(y, h) => EndsIn(Hash(<<x, y>>), h)
<1>1. IsPath([j \in 0..0 |-> h], 0, h, h)
  BY DEF IsPath
<1>2. ASSUME NEW x, NEW y, EndsIn(y, h) PROVE EndsIn(Hash(<<x, y>>), h)
  <2>p. PICK k \in Nat : \E c : IsPath(c, k, y, h)
    BY <1>2 DEF EndsIn
  <2>1. PICK c : IsPath(c, k, y, h)
    BY <2>p
  <2> DEFINE d == [j \in 0..(k + 1) |-> IF j = k + 1 THEN Hash(<<x, y>>) ELSE c[j]]
  <2>2. DOMAIN d = 0..(k + 1) /\ d[0] = h /\ d[k + 1] = Hash(<<x, y>>) /\ d[k] = y
    BY <2>1 DEF IsPath
  <2>3. ASSUME NEW j \in 1..(k + 1) PROVE \E z : d[j] = Hash(<<z, d[j - 1]>>)
    <3>1. CASE j = k + 1
      <4>1. j - 1 = k
        BY <3>1
      <4>2. d[j] = Hash(<<x, d[j - 1]>>)
        BY <2>2, <3>1, <4>1
      <4> QED BY <4>2, Zenon
    <3>2. CASE j # k + 1
      <4>1. j \in 1..k /\ d[j] = c[j] /\ d[j - 1] = c[j - 1]
        BY <3>2
      <4> QED BY <2>1, <4>1 DEF IsPath
    <3> QED BY <3>1, <3>2
  <2> HIDE DEF d
  <2>4. IsPath(d, k + 1, Hash(<<x, y>>), h)
    BY <2>2, <2>3 DEF IsPath
  <2>5. k + 1 \in Nat
    OBVIOUS
  <2> QED BY <2>4, <2>5 DEF EndsIn
<1> QED BY <1>1, <1>2 DEF EndsIn

\* A hash of a pair of nodes, which no hash of an entry is.
IsNode(h) == \E x, y : h = Hash(<<x, y>>)

\* The right child of a node is determined by the node.
LEMMA RightChild ==
    ASSUME NEW a, NEW b, NEW x, NEW y, Hash(<<a, b>>) = Hash(<<x, y>>)
    PROVE  b = y
<1>1. <<a, b>> = <<x, y>>
  BY DEF Hash
<1> QED BY <1>1

\* A node has one edge, so what it ends in is determined.
LEMMA OneEdge ==
    ASSUME NEW d, NEW g, NEW h, ~IsNode(g), ~IsNode(h), EndsIn(d, g), EndsIn(d, h)
    PROVE  g = h
<1>p. PICK m \in Nat : \E a : IsPath(a, m, d, g)
  BY DEF EndsIn
<1>1. PICK a : IsPath(a, m, d, g)
  BY <1>p
<1>q. PICK n \in Nat : \E b : IsPath(b, n, d, h)
  BY DEF EndsIn
<1>2. PICK b : IsPath(b, n, d, h)
  BY <1>q
<1> DEFINE E == {j \in Nat : j <= m /\ j <= n => a[m - j] = b[n - j]}
<1>3. 0 \in E
  BY <1>1, <1>2 DEF IsPath
<1>4. ASSUME NEW j \in Nat, j \in E PROVE j + 1 \in E
  <2> SUFFICES ASSUME j + 1 <= m, j + 1 <= n PROVE a[m - (j + 1)] = b[n - (j + 1)]
    OBVIOUS
  <2>1. a[m - j] = b[n - j] /\ m - j \in 1..m /\ n - j \in 1..n
    BY <1>4
  <2>2. m - (j + 1) = (m - j) - 1 /\ n - (j + 1) = (n - j) - 1
    OBVIOUS
  <2>3. PICK x : a[m - j] = Hash(<<x, a[(m - j) - 1]>>)
    BY <1>1, <2>1 DEF IsPath
  <2>4. PICK y : b[n - j] = Hash(<<y, b[(n - j) - 1]>>)
    BY <1>2, <2>1 DEF IsPath
  <2>5. Hash(<<x, a[(m - j) - 1]>>) = Hash(<<y, b[(n - j) - 1]>>)
    BY <2>1, <2>3, <2>4, Zenon
  <2>6. a[(m - j) - 1] = b[(n - j) - 1]
    BY <2>5, RightChild, Zenon
  <2> QED BY <2>2, <2>6
<1>5. \A j \in Nat : j <= m /\ j <= n => a[m - j] = b[n - j]
  <2> HIDE DEF E
  <2>1. Nat \subseteq E
    BY <1>3, <1>4, SetInduction
  <2> QED BY <2>1 DEF E
<1>6. \A j \in 1..m : IsNode(a[j])
  BY <1>1 DEF IsPath, IsNode
<1>7. \A j \in 1..n : IsNode(b[j])
  BY <1>2 DEF IsPath, IsNode
<1>8. a[0] = g /\ b[0] = h
  BY <1>1, <1>2 DEF IsPath
<1>9. CASE m < n
  <2>1. a[m - m] = b[n - m] /\ m - m = 0 /\ n - m \in 1..n
    BY <1>5, <1>9
  <2> QED BY <1>7, <1>8, <2>1
<1>10. CASE n < m
  <2>1. a[m - n] = b[n - n] /\ n - n = 0 /\ m - n \in 1..m
    BY <1>5, <1>10
  <2> QED BY <1>6, <1>8, <2>1
<1>11. CASE m = n
  <2>1. a[m - m] = b[n - m] /\ m - m = 0 /\ n - m = 0
    BY <1>5, <1>11
  <2> QED BY <1>8, <2>1
<1> QED BY <1>9, <1>10, <1>11

\* A level is a row of nodes, the last of which ends in h.
IsRow(row, size, h) == size \in Nat \ {0} /\ Len(row) = size /\ EndsIn(row[size], h)

\* The next level is half as long and keeps the edge.
LEMMA NextRow ==
    ASSUME NEW row, NEW size, NEW h, IsRow(row, size, h)
    PROVE  IsRow(NextLevel(row), Half(size), h)
<1> DEFINE half == Half(size)
           next == NextLevel(row)
<1>1. size \in Nat \ {0} /\ Len(row) = size /\ EndsIn(row[size], h)
  BY DEF IsRow
<1>2. half \in Nat \ {0} /\ (2 * half = size \/ 2 * half - 1 = size)
  BY <1>1 DEF Half
<1> HIDE DEF half
<1>3. next = [i \in 1..half |-> IF 2 * i <= size THEN Hash(<<row[2 * i - 1], row[2 * i]>>) ELSE row[2 * i - 1]]
  BY <1>1 DEF NextLevel, half
<1>4. Len(next) = half
  <2> DEFINE f(i) == IF 2 * i <= size THEN Hash(<<row[2 * i - 1], row[2 * i]>>) ELSE row[2 * i - 1]
  <2>1. next = [i \in 1..half |-> f(i)]
    BY <1>3
  <2> HIDE DEF f, next
  <2>2. next \in Seq({f(i) : i \in 1..half})
    BY <1>2, <2>1
  <2>3. DOMAIN next = 1..half
    BY <2>1
  <2> QED BY <1>2, <2>2, <2>3, LenProperties
<1>5. EndsIn(next[half], h)
  <2>1. CASE 2 * half = size
    <3>1. next[half] = Hash(<<row[2 * half - 1], row[size]>>)
      BY <1>2, <1>3, <2>1
    <3> QED BY <1>1, <3>1, EdgeGrows
  <2>2. CASE 2 * half - 1 = size
    <3>1. next[half] = row[size]
      BY <1>2, <1>3, <2>2
    <3> QED BY <1>1, <3>1
  <2> QED BY <1>2, <2>1, <2>2
<1> QED BY <1>2, <1>4, <1>5 DEF IsRow, half

\* The root of entries ends in the hash of the last one.
LEMMA RootEndsInLast ==
    ASSUME NEW entries, NEW n \in Nat \ {0}, Len(entries) = n
    PROVE  EndsIn(ComputeMerkleRoot(entries), entries[n].entryHash)
<1> DEFINE h == entries[n].entryHash
           leaves == [i \in 1..n |-> entries[i].entryHash]
<1>1. entries # <<>>
  OBVIOUS
<1>2. PICK level : AreLevels(level, n, leaves) /\ ComputeMerkleRoot(entries) = level[n][1]
  BY <1>1, RootOfLevels
<1>3. IsRow(leaves, n, h)
  <2>1. leaves \in Seq({entries[i].entryHash : i \in 1..n}) /\ DOMAIN leaves = 1..n
    OBVIOUS
  <2>2. leaves[n] = h
    OBVIOUS
  <2> HIDE DEF leaves, h
  <2>3. Len(leaves) = n
    BY <2>1, LenProperties
  <2> QED BY <2>2, <2>3, EdgeGrows DEF IsRow
<1> HIDE DEF leaves, h
<1> DEFINE E == {k \in Nat : k <= n => \E size : IsRow(level[k], size, h) /\ (size = 1 \/ size + k <= n)}
<1>4. 0 \in E
  <2>1. level[0] = leaves
    BY <1>2 DEF AreLevels
  <2>2. IsRow(level[0], n, h) /\ n + 0 <= n
    BY <1>3, <2>1
  <2> QED BY <2>2
<1>5. ASSUME NEW k \in Nat, k \in E PROVE k + 1 \in E
  <2> SUFFICES ASSUME k + 1 <= n
               PROVE  \E size : IsRow(level[k + 1], size, h) /\ (size = 1 \/ size + (k + 1) <= n)
    OBVIOUS
  <2>1. PICK size : IsRow(level[k], size, h) /\ (size = 1 \/ size + k <= n)
    BY <1>5
  <2>2. level[k + 1] = NextLevel(level[k])
    <3>1. k + 1 \in 0..n /\ k + 1 # 0 /\ (k + 1) - 1 = k
      OBVIOUS
    <3> QED BY <1>2, <3>1 DEF AreLevels
  <2>3. IsRow(level[k + 1], Half(size), h)
    BY <2>1, <2>2, NextRow
  <2>4. Half(size) = 1 \/ Half(size) + (k + 1) <= n
    <3>1. size \in Nat \ {0}
      BY <2>1 DEF IsRow
    <3> QED BY <2>1, <3>1 DEF Half
  <2> QED BY <2>3, <2>4
<1>6. n \in E
  <2> HIDE DEF E
  <2> QED BY <1>4, <1>5, SetInduction
<1>7. PICK size : IsRow(level[n], size, h) /\ (size = 1 \/ size + n <= n)
  BY <1>6
<1>8. size = 1
  BY <1>7 DEF IsRow
<1> QED BY <1>2, <1>7, <1>8 DEF IsRow, h

\* One array after the other.
Join(p, x) == p \o x

\* The concatenations of the first k arrays, up to k = n.
AreJoined(upTo, n, arrays) ==
    upTo = [i \in 0..n |-> IF i = 0 THEN <<>> ELSE Join(upTo[i - 1], arrays[i])]

\* There are such, however many are asked for.
LEMMA JoinedExist ==
    ASSUME NEW arrays, NEW n \in Nat
    PROVE  \E upTo : AreJoined(upTo, n, arrays)
<1> DEFINE E == {m \in Nat : \E upTo : AreJoined(upTo, m, arrays)}
<1>1. 0 \in E
  <2> DEFINE upTo == [k \in 0..0 |-> <<>>]
  <2>1. AreJoined(upTo, 0, arrays)
    BY DEF AreJoined
  <2> QED BY <2>1
<1>2. ASSUME NEW m \in Nat, m \in E PROVE m + 1 \in E
  <2>1. PICK upTo : AreJoined(upTo, m, arrays)
    BY <1>2
  <2> DEFINE next == [k \in 0..(m + 1) |-> IF k = m + 1 THEN Join(upTo[m], arrays[m + 1]) ELSE upTo[k]]
  <2>2. ASSUME NEW k \in 0..(m + 1) PROVE next[k] = IF k = 0 THEN <<>> ELSE Join(next[k - 1], arrays[k])
    <3>1. CASE k = 0
      BY <2>1, <3>1 DEF AreJoined
    <3>2. CASE k \in 1..m
      <4>1. next[k] = upTo[k] /\ next[k - 1] = upTo[k - 1] /\ k - 1 \in 0..m /\ k \in 0..m
        BY <3>2
      <4>2. upTo[k] = Join(upTo[k - 1], arrays[k])
        BY <2>1, <3>2, <4>1 DEF AreJoined
      <4> QED BY <3>2, <4>1, <4>2
    <3>3. CASE k = m + 1
      <4>1. next[k] = Join(upTo[m], arrays[k]) /\ next[k - 1] = upTo[m]
        BY <3>3
      <4> QED BY <3>3, <4>1
    <3> QED BY <3>1, <3>2, <3>3
  <2>3. AreJoined(next, m + 1, arrays)
    <3>1. next = [k \in 0..(m + 1) |-> next[k]]
      OBVIOUS
    <3> HIDE DEF next
    <3>2. next = [k \in 0..(m + 1) |-> IF k = 0 THEN <<>> ELSE Join(next[k - 1], arrays[k])]
      BY <2>2, <3>1
    <3> QED BY <3>2 DEF AreJoined
  <2> QED BY <2>3
<1> HIDE DEF E
<1>3. Nat \subseteq E
  BY <1>1, <1>2, SetInduction
<1> QED BY <1>3 DEF E

\* concat gives the last of them.
LEMMA ConcatIsJoined ==
    ASSUME NEW arrays, Len(arrays) \in Nat
    PROVE  \E upTo : AreJoined(upTo, Len(arrays), arrays) /\ Concat(arrays) = upTo[Len(arrays)]
<1> DEFINE n == Len(arrays)
           upTo == CHOOSE u : u = [i \in 0..n |-> IF i = 0 THEN <<>> ELSE Join(u[i - 1], arrays[i])]
<1>1. \E u : u = [i \in 0..n |-> IF i = 0 THEN <<>> ELSE Join(u[i - 1], arrays[i])]
  BY JoinedExist DEF AreJoined
<1>2. AreJoined(upTo, n, arrays)
  <2>1. upTo = [i \in 0..n |-> IF i = 0 THEN <<>> ELSE Join(upTo[i - 1], arrays[i])]
    BY <1>1
  <2> HIDE DEF upTo
  <2> QED BY <2>1 DEF AreJoined
<1>3. Concat(arrays) = upTo[n]
  BY DEF Concat, Join
<1> QED BY <1>2, <1>3

\* Sequences joined together are a sequence.
LEMMA ConcatType ==
    ASSUME NEW S, NEW arrays \in Seq(Seq(S))
    PROVE  Concat(arrays) \in Seq(S)
<1> DEFINE n == Len(arrays)
<1>1. n \in Nat /\ \A i \in 1..n : arrays[i] \in Seq(S)
  OBVIOUS
<1>2. PICK upTo : AreJoined(upTo, n, arrays) /\ Concat(arrays) = upTo[n]
  BY <1>1, ConcatIsJoined
<1> HIDE DEF n
<1> DEFINE E == {k \in Nat : k <= n => upTo[k] \in Seq(S)}
<1>3. 0 \in E
  BY <1>1, <1>2 DEF AreJoined
<1>4. ASSUME NEW k \in Nat, k \in E PROVE k + 1 \in E
  <2> SUFFICES ASSUME k + 1 <= n PROVE upTo[k + 1] \in Seq(S)
    OBVIOUS
  <2>1. k + 1 \in 1..n /\ (k + 1) - 1 = k /\ upTo[k] \in Seq(S)
    BY <1>1, <1>4
  <2>2. upTo[k + 1] = Join(upTo[k], arrays[k + 1])
    <3>1. k + 1 \in 0..n /\ k + 1 # 0 /\ (k + 1) - 1 = k
      BY <1>1, <2>1
    <3>2. \A i \in 0..n : upTo[i] = IF i = 0 THEN <<>> ELSE Join(upTo[i - 1], arrays[i])
      BY <1>2 DEF AreJoined
    <3> QED BY <3>1, <3>2
  <2>3. Join(upTo[k], arrays[k + 1]) \in Seq(S)
    <3>1. \A p, x \in Seq(S) : Join(p, x) \in Seq(S)
      BY ConcatProperties DEF Join
    <3> QED BY <1>1, <2>1, <3>1
  <2> QED BY <2>2, <2>3
<1>5. n \in E
  <2> HIDE DEF E
  <2> QED BY <1>1, <1>3, <1>4, SetInduction
<1> QED BY <1>1, <1>2, <1>5

\* An entry of the board has the fields of BulletinBoardEntry and a ballot.
IsBoardEntry(e) ==
    /\ e = [sequence |-> e.sequence, pollId |-> e.pollId, encryptedVote |-> e.encryptedVote,
            voterIdHash |-> e.voterIdHash, merkleRoot |-> e.merkleRoot,
            entryHash |-> e.entryHash, signature |-> e.signature]
    /\ e.encryptedVote \in Ballots /\ e.pollId \in Seq(Bytes) /\ e.voterIdHash \in Seq(Bytes)

BoardShape == \A i \in 1..Len(boardEntries) : IsBoardEntry(boardEntries[i])

\* publishVote makes such an entry.
LEMMA BoardEntryShape ==
    ASSUME NEW poll \in Seq(Bytes), NEW ballot \in Ballots, NEW voter \in Seq(Bytes)
    PROVE  IsBoardEntry(BoardEntry(poll, ballot, voter))
<1> DEFINE root == ComputeMerkleRoot(boardEntries)
           fields == [sequence |-> boardSequence, pollId |-> poll, encryptedVote |-> ballot, voterIdHash |-> voter,
                      merkleRoot |-> root, entryHash |-> Zero, signature |-> Sign(Zero)]
           hash == Hash(SerializeEntryData(fields))
           e == [fields EXCEPT !.entryHash = hash, !.signature = Sign(hash)]
<1>1. e = BoardEntry(poll, ballot, voter)
  BY DEF BoardEntry
<1> HIDE DEF root, hash
<1> DEFINE signature == Sign(hash)
           hashed == [fields EXCEPT !.entryHash = hash]
<1>a. e = [hashed EXCEPT !.signature = signature]
  OBVIOUS
<1> HIDE DEF signature, e
<1>b. hashed = [sequence |-> boardSequence, pollId |-> poll, encryptedVote |-> ballot, voterIdHash |-> voter,
                merkleRoot |-> root, entryHash |-> hash, signature |-> Sign(Zero)]
  OBVIOUS
<1> HIDE DEF hashed, fields
<1>2. e = [sequence |-> boardSequence, pollId |-> poll, encryptedVote |-> ballot, voterIdHash |-> voter,
           merkleRoot |-> root, entryHash |-> hash, signature |-> signature]
  BY <1>a, <1>b
<1>3. IsBoardEntry(e)
  BY <1>2 DEF IsBoardEntry
<1> QED BY <1>1, <1>3

\* The entries stay of that shape.
LEMMA ShapeInvariant == Spec => [](BoardType /\ BoardShape)
<1>1. Init => BoardShape
  BY DEF Init, BoardInit, BoardShape
<1>2. BoardType /\ BoardShape /\ [Next]_vars => BoardShape'
  <2> SUFFICES ASSUME BoardType, BoardShape, [Next]_vars PROVE BoardShape'
    OBVIOUS
  <2>1. CASE UNCHANGED boardEntries
    BY <2>1 DEF BoardShape
  <2>2. ASSUME NEW poll \in Polls, NEW ballot \in Ballots, NEW voter \in VoterHashes, PublishVote(poll, ballot, voter)
        PROVE  BoardShape'
    <3> DEFINE e == BoardEntry(poll, ballot, voter)
    <3>1. PICK S : boardEntries \in Seq(S)
      BY DEF BoardType
    <3>2. boardEntries' = Append(boardEntries, e)
      BY <2>2 DEF PublishVote
    <3>3. IsBoardEntry(e)
      BY AuditAssumption, BoardEntryShape
    <3> HIDE DEF e
    <3>4. /\ Len(boardEntries) \in Nat /\ Len(boardEntries') = Len(boardEntries) + 1
          /\ \A i \in 1..Len(boardEntries) : boardEntries'[i] = boardEntries[i]
          /\ boardEntries'[Len(boardEntries) + 1] = e
      BY <3>1, <3>2
    <3> SUFFICES ASSUME NEW i \in 1..Len(boardEntries') PROVE IsBoardEntry(boardEntries'[i])
      BY DEF BoardShape
    <3>5. CASE i \in 1..Len(boardEntries)
      BY <3>4, <3>5 DEF BoardShape
    <3>6. CASE i = Len(boardEntries) + 1
      BY <3>3, <3>4, <3>6
    <3> QED BY <3>4, <3>5, <3>6
  <2> QED BY <2>1, <2>2 DEF Next, vars, boardVars, BoardNext, PublishTally
<1> QED BY <1>1, <1>2, RecordInvariant, PTL DEF Spec

\* What is hashed of an entry: what comes before the ballot, and the ballot.
BoardFront(e) == <<Number(e.sequence), Timestamp>> \o (Raw(e.pollId) \o Raw(e.voterIdHash) \o <<e.merkleRoot>>)

\* It begins with the number of the entry and is longer than a pair.
LEMMA HashedEntry ==
    ASSUME NEW e, e.encryptedVote \in Ballots, e.pollId \in Seq(Bytes), e.voterIdHash \in Seq(Bytes)
    PROVE  \E S : /\ BoardFront(e) \in Seq(S)
                  /\ Raw(Concat(e.encryptedVote)) \in Seq(S)
                  /\ SerializeEntryData(e) \in Seq(S)
                  /\ Len(SerializeEntryData(e)) >= 3
                  /\ SerializeEntryData(e)[1] = Number(e.sequence)
<1> DEFINE numbers == <<Number(e.sequence), Timestamp>>
           S == {Number(e.sequence), Timestamp, e.merkleRoot} \cup Octets
           a == Raw(e.pollId)
           b == Raw(e.voterIdHash)
           r == <<e.merkleRoot>>
           v == Raw(Concat(e.encryptedVote))
           ab == a \o b
           abr == ab \o r
           front == numbers \o abr
<1>1. numbers \in Seq(S) /\ Len(numbers) = 2 /\ numbers[1] = Number(e.sequence) /\ r \in Seq(S) /\ Len(r) = 1
  OBVIOUS
<1>2. a \in Seq(S) /\ b \in Seq(S) /\ v \in Seq(S)
  <2>1. e.encryptedVote \in Seq(Seq(Bytes))
    BY BoardAssumption
  <2>2. Concat(e.encryptedVote) \in Seq(Bytes)
    BY <2>1, ConcatType
  <2>3. Octets \subseteq S
    OBVIOUS
  <2>4. a \in Seq(Octets) /\ b \in Seq(Octets) /\ v \in Seq(Octets)
    BY <2>2, RawType
  <2> HIDE DEF S, a, b, v
  <2> QED BY <2>3, <2>4
<1>3. SerializeEntryData(e) = front \o v /\ front = BoardFront(e)
  BY DEF SerializeEntryData, BoardFront
<1> HIDE DEF numbers, S, a, b, r, v
<1>4. ab \in Seq(S)
  BY <1>2, Parts
<1> HIDE DEF ab
<1>5. abr \in Seq(S) /\ Joint(ab, r, abr)
  BY <1>1, <1>4, Parts
<1> HIDE DEF abr
<1>6. front \in Seq(S) /\ Joint(numbers, abr, front)
  BY <1>1, <1>5, Parts
<1> HIDE DEF front
<1>7. front \o v \in Seq(S) /\ Joint(front, v, front \o v)
  BY <1>2, <1>6, Parts
<1> USE DEF Joint
<1>8. Len(front) >= 3 /\ Len(front) \in Nat /\ front[1] = Number(e.sequence)
  BY <1>1, <1>4, <1>5, <1>6
<1>9. Len(front \o v) >= 3 /\ (front \o v)[1] = Number(e.sequence)
  BY <1>7, <1>8
<1> QED BY <1>2, <1>3, <1>6, <1>7, <1>9 DEF v

\* The hash of an entry is not that of a pair, nor of nothing.
LEMMA LeafIsNoNode ==
    ASSUME NEW e, IsBoardEntry(e), VerifyEntry(e)
    PROVE  ~IsNode(e.entryHash) /\ e.entryHash # Zero
<1>1. e.entryHash = Hash(SerializeEntryData(e)) /\ Len(SerializeEntryData(e)) >= 3
  BY HashedEntry DEF VerifyEntry, IsBoardEntry
<1>2. \A p, q : Hash(p) = Hash(q) => p = q
  BY DEF Hash
<1>3. ASSUME NEW x, NEW y, e.entryHash = Hash(<<x, y>>) PROVE FALSE
  <2>1. SerializeEntryData(e) = <<x, y>>
    BY <1>1, <1>2, <1>3
  <2>2. Len(<<x, y>>) = 2
    OBVIOUS
  <2> QED BY <1>1, <2>1, <2>2
<1>4. ASSUME e.entryHash = Zero PROVE FALSE
  <2>1. SerializeEntryData(e) = <<>>
    BY <1>1, <1>2, <1>4 DEF Zero
  <2>2. Len(<<>>) = 0
    OBVIOUS
  <2> QED BY <1>1, <2>1, <2>2
<1> QED BY <1>3, <1>4 DEF IsNode

\* What ends in the hash of an entry is not the root of an empty board.
LEMMA RootIsNotZero ==
    ASSUME NEW d, NEW h, EndsIn(d, h), h # Zero
    PROVE  d # Zero
<1>p. PICK k \in Nat : \E c : IsPath(c, k, d, h)
  BY DEF EndsIn
<1>1. PICK c : IsPath(c, k, d, h)
  BY <1>p
<1>2. CASE k = 0
  BY <1>1, <1>2 DEF IsPath
<1>3. CASE k # 0
  <2>1. k \in 1..k
    BY <1>3
  <2>2. PICK x : d = Hash(<<x, c[k - 1]>>)
    BY <1>1, <2>1 DEF IsPath
  <2>3. <<x, c[k - 1]>> # <<>>
    OBVIOUS
  <2> QED BY <2>2, <2>3 DEF Hash, Zero
<1> QED BY <1>2, <1>3

\* The roots of the board at two times are different.
LEMMA RootsDiffer ==
    ASSUME BoardType, BoardVerifies, BoardShape,
           NEW m \in 0..Len(boardEntries), NEW n \in 0..Len(boardEntries),
           ComputeMerkleRoot(SubSeq(boardEntries, 1, m)) = ComputeMerkleRoot(SubSeq(boardEntries, 1, n))
    PROVE  m = n
<1> DEFINE Root(k) == ComputeMerkleRoot(SubSeq(boardEntries, 1, k))
<1>1. PICK S : boardEntries \in Seq(S)
  BY DEF BoardType
<1>2. Len(boardEntries) \in Nat
  BY <1>1
<1>3. ASSUME NEW k \in 1..Len(boardEntries)
      PROVE  /\ EndsIn(Root(k), boardEntries[k].entryHash)
             /\ ~IsNode(boardEntries[k].entryHash) /\ boardEntries[k].entryHash # Zero
  <2> DEFINE s == SubSeq(boardEntries, 1, k)
  <2>1. Len(s) = k /\ s[k] = boardEntries[k] /\ k \in Nat \ {0}
    BY <1>1, <1>2
  <2> HIDE DEF s
  <2>2. EndsIn(ComputeMerkleRoot(s), boardEntries[k].entryHash)
    BY <2>1, RootEndsInLast
  <2>3. IsBoardEntry(boardEntries[k]) /\ VerifyEntry(boardEntries[k])
    BY DEF BoardShape, BoardVerifies
  <2>4. ~IsNode(boardEntries[k].entryHash) /\ boardEntries[k].entryHash # Zero
    BY <2>3, LeafIsNoNode
  <2> QED BY <2>2, <2>4 DEF s
<1>4. Root(0) = Zero
  <2>1. SubSeq(boardEntries, 1, 0) = <<>>
    BY <1>1
  <2> QED BY <2>1 DEF ComputeMerkleRoot
<1>5. \A k \in 1..Len(boardEntries) : Root(k) # Zero
  BY <1>3, RootIsNotZero
<1>6. Root(m) = Root(n)
  OBVIOUS
<1> HIDE DEF Root
<1>7. CASE m = 0 \/ n = 0
  BY <1>2, <1>4, <1>5, <1>6, <1>7
<1>8. CASE m # 0 /\ n # 0
  <2>1. m \in 1..Len(boardEntries) /\ n \in 1..Len(boardEntries)
    BY <1>2, <1>8
  <2>2. boardEntries[m].entryHash = boardEntries[n].entryHash
    <3>1. EndsIn(Root(m), boardEntries[m].entryHash) /\ EndsIn(Root(m), boardEntries[n].entryHash)
      BY <1>3, <1>6, <2>1
    <3>2. ~IsNode(boardEntries[m].entryHash) /\ ~IsNode(boardEntries[n].entryHash)
      BY <1>3, <2>1
    <3> QED BY <3>1, <3>2, OneEdge
  <2>3. SerializeEntryData(boardEntries[m]) = SerializeEntryData(boardEntries[n])
    <3>1. Hash(SerializeEntryData(boardEntries[m])) = Hash(SerializeEntryData(boardEntries[n]))
      BY <2>1, <2>2 DEF BoardVerifies, VerifyEntry
    <3> QED BY <3>1 DEF Hash
  <2>4. boardEntries[m].sequence = boardEntries[n].sequence
    <3>1. Number(boardEntries[m].sequence) = Number(boardEntries[n].sequence)
      BY <2>1, <2>3, HashedEntry DEF BoardShape, IsBoardEntry
    <3> QED BY <3>1 DEF Number
  <2>5. boardEntries[m].sequence = m - 1 /\ boardEntries[n].sequence = n - 1
    BY <2>1 DEF BoardVerifies
  <2>6. m \in Nat /\ n \in Nat
    BY <1>2
  <2>7. m - 1 = n - 1
    BY <2>4, <2>5, Zenon
  <2> QED BY <2>6, <2>7
<1> QED BY <1>7, <1>8

\* Published entries that verify as a board are the board up to some entry.
LEMMA SameBoard ==
    ASSUME BoardType, BoardVerifies, BoardShape, NEW n \in 1..Len(boardEntries),
           NEW s \in [1..n -> {boardEntries[i] : i \in 1..Len(boardEntries)}], VerifyMerkleTree(s)
    PROVE  s = SubSeq(boardEntries, 1, n)
<1> DEFINE entries == {boardEntries[i] : i \in 1..Len(boardEntries)}
<1>1. PICK S : boardEntries \in Seq(S)
  BY DEF BoardType
<1>2. Len(boardEntries) \in Nat /\ n \in Nat
  BY <1>1
<1>3. s \in Seq(entries) /\ Len(s) = n
  <2> HIDE DEF entries
  <2>1. s \in [1..n -> entries]
    BY DEF entries
  <2> QED BY <1>2, <2>1
<1>3a. \A i \in 1..n : \E j \in 1..Len(boardEntries) : s[i] = boardEntries[j]
  OBVIOUS
<1> HIDE DEF entries
<1> DEFINE E == {k \in Nat : k <= n => \A i \in 1..k : s[i] = boardEntries[i]}
<1>4. 0 \in E
  OBVIOUS
<1>5. ASSUME NEW k \in Nat, k \in E PROVE k + 1 \in E
  <2> SUFFICES ASSUME k + 1 <= n PROVE \A i \in 1..(k + 1) : s[i] = boardEntries[i]
    OBVIOUS
  <2>1. k + 1 \in 1..n /\ k + 1 \in 1..Len(boardEntries) /\ \A i \in 1..k : s[i] = boardEntries[i]
    BY <1>2, <1>5
  <2>2. PICK j \in 1..Len(boardEntries) : s[k + 1] = boardEntries[j]
    BY <1>3a, <2>1
  <2>3. SubSeq(s, 1, k) = SubSeq(boardEntries, 1, k)
    BY <1>1, <1>3, <2>1
  <2>4. s[k + 1].merkleRoot = ComputeMerkleRoot(SubSeq(s, 1, k))
    <3>1. (k + 1) - 1 = k
      OBVIOUS
    <3> QED BY <1>3, <2>1, <3>1 DEF VerifyMerkleTree
  <2>5. boardEntries[j].merkleRoot = ComputeMerkleRoot(SubSeq(boardEntries, 1, j - 1))
    BY DEF BoardVerifies, VerifyMerkleTree
  <2>6. k \in 0..Len(boardEntries) /\ j - 1 \in 0..Len(boardEntries)
    BY <1>2, <2>1
  <2>7. ComputeMerkleRoot(SubSeq(boardEntries, 1, k)) = ComputeMerkleRoot(SubSeq(boardEntries, 1, j - 1))
    BY <2>2, <2>3, <2>4, <2>5
  <2>8. j - 1 = k
    BY <2>6, <2>7, RootsDiffer
  <2>9. s[k + 1] = boardEntries[k + 1]
    <3>1. j = k + 1
      BY <1>2, <2>8
    <3> QED BY <2>2, <3>1
  <2> QED BY <2>1, <2>9
<1>6. n \in E
  <2> HIDE DEF E
  <2> QED BY <1>2, <1>4, <1>5, SetInduction
<1>7. \A i \in 1..n : s[i] = boardEntries[i]
  BY <1>2, <1>6
<1> QED BY <1>1, <1>2, <1>3, <1>7

\* What follows the same front is determined by the whole.
LEMMA SameRest ==
    ASSUME NEW S, NEW p \in Seq(S), NEW x \in Seq(S), NEW y \in Seq(S), p \o x = p \o y
    PROVE  x = y
<1>1. Len(p) \in Nat /\ Len(x) \in Nat /\ Len(y) \in Nat
  OBVIOUS
<1>2. Len(p \o x) = Len(p) + Len(x) /\ Len(p \o y) = Len(p) + Len(y)
  BY ConcatProperties
<1>3. Len(x) = Len(y)
  BY <1>1, <1>2
<1>4. ASSUME NEW i \in 1..Len(x) PROVE x[i] = y[i]
  <2>1. (p \o x)[Len(p) + i] = x[i]
    BY <1>1
  <2>2. (p \o y)[Len(p) + i] = y[i]
    BY <1>1, <1>3
  <2> QED BY <2>1, <2>2
<1> QED BY <1>3, <1>4, SeqEqual

\* An entry with another ballot verifies only for the same bytes.
LEMMA SameBallot ==
    ASSUME BoardVerifies, BoardShape, NEW i \in 1..Len(boardEntries), NEW ballot \in Ballots,
           VerifyEntry([boardEntries[i] EXCEPT !.encryptedVote = ballot])
    PROVE  Concat(ballot) = Concat(boardEntries[i].encryptedVote)
<1> DEFINE e == boardEntries[i]
           d == [e EXCEPT !.encryptedVote = ballot]
           front == BoardFront(e)
           x == Concat(ballot)
           y == Concat(e.encryptedVote)
<1>1. IsBoardEntry(e) /\ VerifyEntry(e) /\ VerifyEntry(d)
  BY DEF BoardShape, BoardVerifies
<1>2. /\ d.sequence = e.sequence /\ d.pollId = e.pollId /\ d.voterIdHash = e.voterIdHash
      /\ d.merkleRoot = e.merkleRoot /\ d.entryHash = e.entryHash /\ d.encryptedVote = ballot
  BY <1>1 DEF IsBoardEntry
<1> HIDE DEF d, e
<1>3. SerializeEntryData(d) = front \o Raw(x) /\ SerializeEntryData(e) = front \o Raw(y)
  BY <1>2 DEF SerializeEntryData, BoardFront
<1>4. SerializeEntryData(d) = SerializeEntryData(e)
  <2>1. Hash(SerializeEntryData(d)) = Hash(SerializeEntryData(e))
    BY <1>1, <1>2 DEF VerifyEntry
  <2> QED BY <2>1 DEF Hash
<1>5. PICK S : front \in Seq(S)
  BY <1>1, HashedEntry DEF IsBoardEntry
<1>6. x \in Seq(Bytes) /\ y \in Seq(Bytes)
  <2>1. ballot \in Seq(Seq(Bytes)) /\ e.encryptedVote \in Seq(Seq(Bytes))
    BY <1>1, BoardAssumption DEF IsBoardEntry
  <2> QED BY <2>1, ConcatType
<1> HIDE DEF front, x, y
<1>7. Raw(x) \in Seq(Octets) /\ Raw(y) \in Seq(Octets)
  BY <1>6, RawType
<1>8. front \in Seq(S \cup Octets) /\ Raw(x) \in Seq(S \cup Octets) /\ Raw(y) \in Seq(S \cup Octets)
  BY <1>5, <1>7
<1>9. Raw(x) = Raw(y)
  BY <1>3, <1>4, <1>8, SameRest
<1>10. x = y
  <2>1. Len(x) \in Nat /\ Len(y) \in Nat /\ DOMAIN Raw(x) = 1..Len(x) /\ DOMAIN Raw(y) = 1..Len(y)
    BY <1>6 DEF Raw
  <2>2. Len(x) = Len(y)
    BY <1>9, <2>1
  <2>3. ASSUME NEW k \in 1..Len(x) PROVE x[k] = y[k]
    <3>1. [byte |-> x[k]] = [byte |-> y[k]]
      BY <1>9, <2>2 DEF Raw
    <3> QED BY <3>1
  <2> QED BY <1>6, <2>2, <2>3, SeqEqual
<1> QED BY <1>10 DEF x, y, e

\* Changed, moved, repeated or missing records do not verify, in the chain of
\* the audit log and on the board, whatever was recorded (verifyChain,
\* verifyEntry, verifyMerkleTree).
THEOREM TamperingShows == Spec => []TamperEvident
<1>1. AuditTamperEvident /\ BoardType /\ RecordsVerify /\ BoardShape => TamperEvident
  <2> SUFFICES ASSUME BoardType, RecordsVerify, BoardShape PROVE BoardTamperEvident
    BY DEF TamperEvident
  <2>1. BoardVerifies
    BY DEF RecordsVerify
  <2>2. ASSUME NEW n \in 1..Len(boardEntries),
               NEW s \in [1..n -> {boardEntries[i] : i \in 1..Len(boardEntries)}], VerifyMerkleTree(s)
        PROVE  s = SubSeq(boardEntries, 1, n)
    BY <2>1, <2>2, SameBoard
  <2>3. ASSUME NEW e \in {boardEntries[i] : i \in 1..Len(boardEntries)}, NEW ballot \in Ballots,
               VerifyEntry([e EXCEPT !.encryptedVote = ballot])
        PROVE  Concat(ballot) = Concat(e.encryptedVote)
    <3>1. PICK i \in 1..Len(boardEntries) : e = boardEntries[i]
      OBVIOUS
    <3> QED BY <2>1, <2>3, <3>1, SameBallot
  <2> QED BY <2>2, <2>3 DEF BoardTamperEvident
<1> QED BY <1>1, AuditTamperingShows, RecordInvariant, ShapeInvariant, PTL

-----------------------------------------------------------------------------
(***************************************************************************)
(* The event log.  A reader of the export comes to the place of each event *)
(* because each field says how long it is.                                 *)
(***************************************************************************)

\* x stands in b from place k on.
At(b, k, x) ==
    /\ k \in Nat \ {0} /\ k + Len(x) <= Len(b) + 1
    /\ \A j \in 1..Len(x) : b[k + j - 1] = x[j]

\* The elements of a concatenation.
LEMMA Joined ==
    ASSUME NEW S, NEW p \in Seq(S), NEW x \in Seq(S)
    PROVE  /\ p \o x \in Seq(S) /\ Len(p) \in Nat /\ Len(x) \in Nat
           /\ Len(p \o x) = Len(p) + Len(x)
           /\ \A j \in 1..Len(p) : (p \o x)[j] = p[j]
           /\ \A j \in 1..Len(x) : (p \o x)[Len(p) + j] = x[j]
<1>1. Len(p) \in Nat /\ Len(x) \in Nat /\ p \o x \in Seq(S) /\ Len(p \o x) = Len(p) + Len(x)
  BY ConcatProperties
<1>2. \A i \in 1..(Len(p) + Len(x)) : (p \o x)[i] = IF i <= Len(p) THEN p[i] ELSE x[i - Len(p)]
  BY ConcatProperties
<1>3. \A j \in 1..Len(p) : (p \o x)[j] = p[j]
  BY <1>1, <1>2
<1>4. ASSUME NEW j \in 1..Len(x) PROVE (p \o x)[Len(p) + j] = x[j]
  <2>1. Len(p) + j \in 1..(Len(p) + Len(x)) /\ ~(Len(p) + j <= Len(p)) /\ (Len(p) + j) - Len(p) = j
    BY <1>1
  <2> QED BY <1>2, <2>1
<1> QED BY <1>1, <1>3, <1>4

\* Where two sequences stand together, each of them stands.
LEMMA AtParts ==
    ASSUME NEW S, NEW b \in Seq(S), NEW p \in Seq(S), NEW x \in Seq(S), NEW k, At(b, k, p \o x)
    PROVE  At(b, k, p) /\ At(b, k + Len(p), x)
<1> DEFINE c == p \o x
<1>1. /\ c \in Seq(S) /\ Len(p) \in Nat /\ Len(x) \in Nat /\ Len(c) = Len(p) + Len(x)
      /\ \A j \in 1..Len(p) : c[j] = p[j]
      /\ \A j \in 1..Len(x) : c[Len(p) + j] = x[j]
  BY Joined
<1>2. At(b, k, c)
  OBVIOUS
<1> HIDE DEF c
<1>3. k \in Nat \ {0} /\ Len(b) \in Nat /\ k + Len(c) <= Len(b) + 1 /\ \A j \in 1..Len(c) : b[k + j - 1] = c[j]
  BY <1>2 DEF At
<1>4. At(b, k, p)
  BY <1>1, <1>3 DEF At
<1>5. ASSUME NEW j \in 1..Len(x) PROVE b[(k + Len(p)) + j - 1] = x[j]
  <2>1. Len(p) + j \in 1..Len(c) /\ k + (Len(p) + j) - 1 = (k + Len(p)) + j - 1
    BY <1>1, <1>3
  <2>2. b[k + (Len(p) + j) - 1] = c[Len(p) + j]
    BY <1>3, <2>1
  <2> QED BY <1>1, <2>1, <2>2
<1>6. k + Len(p) \in Nat \ {0} /\ (k + Len(p)) + Len(x) <= Len(b) + 1
  BY <1>1, <1>3
<1> QED BY <1>4, <1>5, <1>6 DEF At

\* What stands in a sequence stands in a longer one, later by what comes first.
LEMMA AtLonger ==
    ASSUME NEW S, NEW b \in Seq(S), NEW q \in Seq(S), NEW x \in Seq(S), NEW k, At(b, k, x)
    PROVE  At(b \o q, k, x) /\ At(q \o b, Len(q) + k, x)
<1>1. /\ Len(b) \in Nat /\ Len(q) \in Nat /\ Len(b \o q) = Len(b) + Len(q)
      /\ \A j \in 1..Len(b) : (b \o q)[j] = b[j]
  BY Joined
<1>2. /\ Len(q \o b) = Len(q) + Len(b)
      /\ \A j \in 1..Len(b) : (q \o b)[Len(q) + j] = b[j]
  BY Joined
<1>3. k \in Nat \ {0} /\ Len(x) \in Nat /\ k + Len(x) <= Len(b) + 1 /\ \A j \in 1..Len(x) : b[k + j - 1] = x[j]
  BY DEF At
<1> DEFINE r == b \o q
           t == q \o b
<1>4. At(r, k, x)
  <2>1. Len(r) = Len(b) + Len(q) /\ \A j \in 1..Len(b) : r[j] = b[j]
    BY <1>1
  <2> HIDE DEF r
  <2>2. ASSUME NEW j \in 1..Len(x) PROVE r[k + j - 1] = x[j]
    <3>1. k + j - 1 \in 1..Len(b)
      BY <1>1, <1>3
    <3> QED BY <1>3, <2>1, <3>1
  <2> QED BY <1>1, <1>3, <2>1, <2>2 DEF At
<1>5. At(t, Len(q) + k, x)
  <2>1. Len(t) = Len(q) + Len(b) /\ \A j \in 1..Len(b) : t[Len(q) + j] = b[j]
    BY <1>2
  <2> HIDE DEF t
  <2>2. ASSUME NEW j \in 1..Len(x) PROVE t[(Len(q) + k) + j - 1] = x[j]
    <3>1. k + j - 1 \in 1..Len(b) /\ (Len(q) + k) + j - 1 = Len(q) + (k + j - 1)
      BY <1>1, <1>3
    <3> QED BY <1>3, <2>1, <3>1
  <2>3. Len(q) + k \in Nat \ {0} /\ (Len(q) + k) + Len(x) <= Len(t) + 1
    BY <1>1, <1>3, <2>1
  <2> QED BY <2>2, <2>3 DEF At
<1> QED BY <1>4, <1>5

\* The second of two joined sequences stands after the first.
LEMMA AtEnd ==
    ASSUME NEW S, NEW p \in Seq(S), NEW x \in Seq(S)
    PROVE  At(p \o x, Len(p) + 1, x)
<1> DEFINE t == p \o x
<1>1. /\ Len(p) \in Nat /\ Len(x) \in Nat /\ Len(t) = Len(p) + Len(x)
      /\ \A j \in 1..Len(x) : t[Len(p) + j] = x[j]
  BY Joined
<1> HIDE DEF t
<1>2. ASSUME NEW j \in 1..Len(x) PROVE t[(Len(p) + 1) + j - 1] = x[j]
  <2>1. (Len(p) + 1) + j - 1 = Len(p) + j
    BY <1>1
  <2> QED BY <1>1, <2>1
<1>3. At(t, Len(p) + 1, x)
  BY <1>1, <1>2 DEF At
<1> QED BY <1>3 DEF t

\* The bytes that stand at a place are read there.
LEMMA AtRead ==
    ASSUME NEW S, NEW b \in Seq(S), NEW x \in Seq(S), NEW k, At(b, k, x)
    PROVE  SubSeq(b, k, k + Len(x) - 1) = x
<1>1. k \in Nat \ {0} /\ Len(b) \in Nat /\ Len(x) \in Nat /\ k + Len(x) <= Len(b) + 1
      /\ \A j \in 1..Len(x) : b[k + j - 1] = x[j]
  BY DEF At
<1> DEFINE s == SubSeq(b, k, k + Len(x) - 1)
<1>2. Len(s) = Len(x) /\ s \in Seq(S)
  BY <1>1
<1>3. \A j \in 1..Len(x) : s[j] = b[k + j - 1]
  BY <1>1
<1> HIDE DEF s
<1>4. s = x
  BY <1>1, <1>2, <1>3, SeqEqual
<1> QED BY <1>4 DEF s

\* What an export is made of.
EventTypes == {"PollCreated", "VoteCast", "PollClosed", "AuditRequested"}
Symbols == Bytes \cup Nat \cup EventTypes

OptionalBytes == Seq(Bytes) \cup {None}

\* A field is written in those symbols.
LEMMA FieldType ==
    ASSUME NEW f \in OptionalBytes
    PROVE  Field(f) \in Seq(Symbols)
<1>1. CASE f = None
  <2>1. Field(f) = <<0>> /\ 0 \in Symbols
    BY <1>1 DEF Field, Symbols
  <2> HIDE DEF Symbols
  <2> QED BY <2>1
<1>2. CASE f # None
  <2>1. f \in Seq(Bytes) /\ Len(f) \in Nat
    BY <1>2 DEF OptionalBytes
  <2>2. 1 \in Symbols /\ Len(f) \in Symbols /\ Bytes \subseteq Symbols
    BY <2>1 DEF Symbols
  <2>3. f \in Seq(Symbols) /\ <<1, Len(f)>> \in Seq(Symbols)
    BY <2>1, <2>2
  <2>4. <<1, Len(f)>> \o f \in Seq(Symbols)
    BY <2>3, ConcatProperties
  <2> QED BY <1>2, <2>4 DEF Field
<1> QED BY <1>1, <1>2

\* A field that stands at a place is read there.
LEMMA FieldReads ==
    ASSUME NEW f \in OptionalBytes, NEW b \in Seq(Symbols), NEW k, At(b, k, Field(f))
    PROVE  /\ ReadField(b, k) = [value |-> f, next |-> k + Len(Field(f))]
           /\ Len(Field(f)) \in Nat
<1>0. k \in Nat \ {0}
  BY DEF At
<1>1. CASE f = None
  <2>1. Field(f) = <<0>> /\ Len(<<0>>) = 1 /\ <<0>>[1] = 0
    BY <1>1 DEF Field
  <2>2. b[k + 1 - 1] = 0
    BY <2>1 DEF At
  <2>3. k + 1 - 1 = k
    BY <1>0
  <2>4. b[k] = 0
    BY <2>2, <2>3
  <2> QED BY <1>1, <2>1, <2>4 DEF ReadField
<1>2. CASE f # None
  <2> DEFINE head == <<1, Len(f)>>
             n == Len(f)
  <2>1. f \in Seq(Bytes) /\ n \in Nat /\ Field(f) = head \o f
    BY <1>2 DEF OptionalBytes, Field
  <2>2. 1 \in Symbols /\ n \in Symbols /\ Bytes \subseteq Symbols
    BY <2>1 DEF Symbols
  <2>3. f \in Seq(Symbols) /\ head \in Seq(Symbols) /\ Len(head) = 2 /\ head[1] = 1 /\ head[2] = n
    BY <2>1, <2>2
  <2> HIDE DEF head
  <2>4. At(b, k, head) /\ At(b, k + Len(head), f)
    BY <2>1, <2>3, AtParts
  <2>5. b[k + 1 - 1] = 1 /\ b[k + 2 - 1] = n
    BY <2>3, <2>4 DEF At
  <2>6. b[k] = 1 /\ b[k + 1] = n
    <3>1. k + 1 - 1 = k /\ k + 2 - 1 = k + 1
      BY <1>0
    <3> QED BY <2>5, <3>1
  <2>7. SubSeq(b, k + 2, k + 1 + n) = f
    <3>1. At(b, k + 2, f)
      BY <2>3, <2>4
    <3>2. SubSeq(b, k + 2, (k + 2) + Len(f) - 1) = f
      BY <2>3, <3>1, AtRead
    <3>3. (k + 2) + Len(f) - 1 = k + 1 + n
      BY <1>0, <2>1
    <3> QED BY <3>2, <3>3
  <2>8. Len(Field(f)) = 2 + n
    <3>1. Len(head \o f) = Len(head) + Len(f)
      BY <2>3, Joined
    <3> QED BY <2>1, <2>3, <3>1
  <2>9. ReadField(b, k) = [value |-> SubSeq(b, k + 2, k + 1 + n), next |-> k + 2 + n]
    BY <2>6 DEF ReadField
  <2>10. k + 2 + n = k + (2 + n)
    BY <1>0, <2>1
  <2>11. ReadField(b, k) = [value |-> f, next |-> k + Len(Field(f))]
    BY <2>7, <2>8, <2>9, <2>10, Zenon
  <2> QED BY <2>1, <2>8, <2>11
<1> QED BY <1>1, <1>2

\* A field after other bytes is written in the symbols.
LEMMA WithField ==
    ASSUME NEW p \in Seq(Symbols), NEW f \in OptionalBytes
    PROVE  p \o Field(f) \in Seq(Symbols)
<1>1. Field(f) \in Seq(Symbols)
  BY FieldType
<1> QED BY <1>1, Joined

\* A field that stands after other bytes is read there.
LEMMA FieldAfter ==
    ASSUME NEW p \in Seq(Symbols), NEW f \in OptionalBytes, NEW b \in Seq(Symbols), NEW k, At(b, k, p \o Field(f))
    PROVE  /\ At(b, k, p)
           /\ ReadField(b, k + Len(p)) = [value |-> f, next |-> k + Len(p \o Field(f))]
<1> DEFINE x == Field(f)
<1>1. x \in Seq(Symbols)
  BY FieldType
<1>2. At(b, k, p) /\ At(b, k + Len(p), x)
  BY <1>1, AtParts
<1>3. ReadField(b, k + Len(p)) = [value |-> f, next |-> (k + Len(p)) + Len(x)] /\ Len(x) \in Nat
  BY <1>2, FieldReads
<1> HIDE DEF x
<1>4. Len(p \o x) = Len(p) + Len(x) /\ Len(p) \in Nat
  BY <1>1, Joined
<1>5. k \in Nat
  BY <1>2 DEF At
<1>6. (k + Len(p)) + Len(x) = k + Len(p \o x)
  BY <1>3, <1>4, <1>5
<1>7. ReadField(b, k + Len(p)) = [value |-> f, next |-> k + Len(p \o x)]
  BY <1>3, <1>6, Zenon
<1> QED BY <1>2, <1>7 DEF x

\* An event has the fields of EventLogEntry.
IsEvent(e) ==
    /\ e = [sequence |-> e.sequence, eventType |-> e.eventType, pollId |-> e.pollId,
            creatorId |-> e.creatorId, voterToken |-> e.voterToken, configuration |-> e.configuration,
            tallyHash |-> e.tallyHash, metadata |-> e.metadata]
    /\ e.sequence \in Nat /\ e.eventType \in EventTypes /\ e.pollId \in Seq(Bytes)
    /\ e.creatorId \in OptionalBytes /\ e.voterToken \in OptionalBytes /\ e.configuration \in OptionalBytes
    /\ e.tallyHash \in OptionalBytes /\ e.metadata \in OptionalBytes

Head3(e) == <<e.sequence, e.eventType, Len(e.pollId)>>

\* An event is written in the symbols.
LEMMA EventType ==
    ASSUME NEW e, IsEvent(e)
    PROVE  /\ Head3(e) \in Seq(Symbols) /\ Len(Head3(e)) = 3
           /\ Head3(e)[1] = e.sequence /\ Head3(e)[2] = e.eventType /\ Head3(e)[3] = Len(e.pollId)
           /\ e.pollId \in Seq(Symbols)
           /\ SerializeEvent(e) \in Seq(Symbols)
<1>1. e.pollId \in Seq(Bytes) /\ Len(e.pollId) \in Nat /\ e.sequence \in Nat /\ e.eventType \in EventTypes
  BY DEF IsEvent
<1>2. e.sequence \in Symbols /\ e.eventType \in Symbols /\ Len(e.pollId) \in Symbols /\ Bytes \subseteq Symbols
  BY <1>1 DEF Symbols
<1>3. e.pollId \in Seq(Symbols)
  BY <1>1, <1>2
<1>4. /\ Head3(e) \in Seq(Symbols) /\ Len(Head3(e)) = 3
      /\ Head3(e)[1] = e.sequence /\ Head3(e)[2] = e.eventType /\ Head3(e)[3] = Len(e.pollId)
  BY <1>2 DEF Head3
<1>5. /\ e.creatorId \in OptionalBytes /\ e.voterToken \in OptionalBytes /\ e.configuration \in OptionalBytes
      /\ e.tallyHash \in OptionalBytes /\ e.metadata \in OptionalBytes
  BY DEF IsEvent
<1> DEFINE p1 == Head3(e) \o e.pollId
           p2 == p1 \o Field(e.creatorId)
           p3 == p2 \o Field(e.voterToken)
           p4 == p3 \o Field(e.configuration)
           p5 == p4 \o Field(e.tallyHash)
           p6 == p5 \o Field(e.metadata)
<1>6. SerializeEvent(e) = p6
  BY DEF SerializeEvent, Head3
<1>7. p1 \in Seq(Symbols)
  BY <1>3, <1>4, Joined
<1> HIDE DEF p1
<1>8. p2 \in Seq(Symbols)
  BY <1>5, <1>7, WithField
<1> HIDE DEF p2
<1>9. p3 \in Seq(Symbols)
  BY <1>5, <1>8, WithField
<1> HIDE DEF p3
<1>10. p4 \in Seq(Symbols)
  BY <1>5, <1>9, WithField
<1> HIDE DEF p4
<1>11. p5 \in Seq(Symbols)
  BY <1>5, <1>10, WithField
<1> HIDE DEF p5
<1>12. p6 \in Seq(Symbols)
  BY <1>5, <1>11, WithField
<1> HIDE DEF p6
<1> QED BY <1>3, <1>4, <1>6, <1>12, Zenon

\* An event that stands at a place is read there.
LEMMA EventReads ==
    ASSUME NEW e, IsEvent(e), NEW b \in Seq(Symbols), NEW k, At(b, k, SerializeEvent(e))
    PROVE  ReadEvent(b, k).event = e /\ ReadEvent(b, k).next = k + Len(SerializeEvent(e))
<1> DEFINE head == Head3(e)
           poll == e.pollId
           n == Len(poll)
           p1 == head \o poll
           p2 == p1 \o Field(e.creatorId)
           p3 == p2 \o Field(e.voterToken)
           p4 == p3 \o Field(e.configuration)
           p5 == p4 \o Field(e.tallyHash)
           p6 == p5 \o Field(e.metadata)
<1>0. k \in Nat \ {0}
  BY DEF At
<1>1. /\ head \in Seq(Symbols) /\ Len(head) = 3 /\ poll \in Seq(Symbols)
      /\ head[1] = e.sequence /\ head[2] = e.eventType /\ head[3] = n
  BY EventType
<1>2. /\ e.creatorId \in OptionalBytes /\ e.voterToken \in OptionalBytes /\ e.configuration \in OptionalBytes
      /\ e.tallyHash \in OptionalBytes /\ e.metadata \in OptionalBytes
  BY DEF IsEvent
<1>3. SerializeEvent(e) = p6
  BY DEF SerializeEvent, Head3
<1>4. p1 \in Seq(Symbols) /\ Len(p1) = 3 + n /\ n \in Nat
  <2> HIDE DEF head, poll
  <2>1. p1 \in Seq(Symbols) /\ Len(p1) = Len(head) + Len(poll) /\ Len(poll) \in Nat
    BY <1>1, Joined
  <2> QED BY <1>1, <2>1
<1> HIDE DEF p1
<1>5. p2 \in Seq(Symbols)
  BY <1>2, <1>4, WithField
<1> HIDE DEF p2
<1>6. p3 \in Seq(Symbols)
  BY <1>2, <1>5, WithField
<1> HIDE DEF p3
<1>7. p4 \in Seq(Symbols)
  BY <1>2, <1>6, WithField
<1> HIDE DEF p4
<1>8. p5 \in Seq(Symbols)
  BY <1>2, <1>7, WithField
<1> HIDE DEF p5
<1>9. At(b, k, p6)
  BY <1>3
<1>10. At(b, k, p5) /\ ReadField(b, k + Len(p5)) = [value |-> e.metadata, next |-> k + Len(p6)]
  BY <1>2, <1>8, <1>9, FieldAfter
<1> HIDE DEF p6
<1>11. At(b, k, p4) /\ ReadField(b, k + Len(p4)) = [value |-> e.tallyHash, next |-> k + Len(p5)]
  BY <1>2, <1>7, <1>10, FieldAfter DEF p5
<1>12. At(b, k, p3) /\ ReadField(b, k + Len(p3)) = [value |-> e.configuration, next |-> k + Len(p4)]
  BY <1>2, <1>6, <1>11, FieldAfter DEF p4
<1>13. At(b, k, p2) /\ ReadField(b, k + Len(p2)) = [value |-> e.voterToken, next |-> k + Len(p3)]
  BY <1>2, <1>5, <1>12, FieldAfter DEF p3
<1>14. At(b, k, p1) /\ ReadField(b, k + Len(p1)) = [value |-> e.creatorId, next |-> k + Len(p2)]
  BY <1>2, <1>4, <1>13, FieldAfter DEF p2
<1>15. At(b, k, head) /\ At(b, k + Len(head), poll)
  BY <1>1, <1>14, AtParts DEF p1
<1> HIDE DEF head
<1>16. b[k] = e.sequence /\ b[k + 1] = e.eventType /\ b[k + 2] = n
  <2>1. b[k + 1 - 1] = head[1] /\ b[k + 2 - 1] = head[2] /\ b[k + 3 - 1] = head[3]
    <3>1. \A j \in 1..3 : b[k + j - 1] = head[j]
      BY <1>1, <1>15 DEF At
    <3> QED BY <3>1
  <2>2. k + 1 - 1 = k /\ k + 2 - 1 = k + 1 /\ k + 3 - 1 = k + 2
    BY <1>0
  <2> QED BY <1>1, <2>1, <2>2
<1> HIDE DEF poll
<1>17. SubSeq(b, k + 3, k + 2 + n) = poll
  <2>1. At(b, k + 3, poll)
    BY <1>1, <1>15
  <2>2. SubSeq(b, k + 3, (k + 3) + Len(poll) - 1) = poll
    BY <1>1, <2>1, AtRead
  <2>3. (k + 3) + Len(poll) - 1 = k + 2 + n
    BY <1>0, <1>4
  <2> QED BY <2>2, <2>3
<1>18. k + 3 + n = k + Len(p1)
  BY <1>0, <1>4
<1> HIDE DEF n
<1> DEFINE creator == ReadField(b, k + 3 + b[k + 2])
           voter == ReadField(b, creator.next)
           configuration == ReadField(b, voter.next)
           tallyHash == ReadField(b, configuration.next)
           metadata == ReadField(b, tallyHash.next)
<1>19. creator = [value |-> e.creatorId, next |-> k + Len(p2)]
  BY <1>14, <1>16, <1>18, Zenon
<1>20. ReadEvent(b, k) =
          [event |-> [sequence |-> b[k], eventType |-> b[k + 1], pollId |-> SubSeq(b, k + 3, k + 2 + b[k + 2]),
                      creatorId |-> creator.value, voterToken |-> voter.value,
                      configuration |-> configuration.value, tallyHash |-> tallyHash.value,
                      metadata |-> metadata.value],
           next |-> metadata.next]
  BY DEF ReadEvent
<1> HIDE DEF creator
<1>21. creator.value = e.creatorId /\ creator.next = k + Len(p2)
  BY <1>19
<1>22. voter = [value |-> e.voterToken, next |-> k + Len(p3)]
  BY <1>13, <1>21, Zenon
<1> HIDE DEF voter
<1>23. voter.value = e.voterToken /\ voter.next = k + Len(p3)
  BY <1>22
<1>24. configuration = [value |-> e.configuration, next |-> k + Len(p4)]
  BY <1>12, <1>23, Zenon
<1> HIDE DEF configuration
<1>25. configuration.value = e.configuration /\ configuration.next = k + Len(p4)
  BY <1>24
<1>26. tallyHash = [value |-> e.tallyHash, next |-> k + Len(p5)]
  BY <1>11, <1>25, Zenon
<1> HIDE DEF tallyHash
<1>27. tallyHash.value = e.tallyHash /\ tallyHash.next = k + Len(p5)
  BY <1>26
<1>28. metadata = [value |-> e.metadata, next |-> k + Len(p6)]
  BY <1>10, <1>27, Zenon
<1> HIDE DEF metadata
<1>29. metadata.value = e.metadata /\ metadata.next = k + Len(p6)
  BY <1>28
<1> DEFINE event == [sequence |-> b[k], eventType |-> b[k + 1], pollId |-> SubSeq(b, k + 3, k + 2 + b[k + 2]),
                     creatorId |-> creator.value, voterToken |-> voter.value,
                     configuration |-> configuration.value, tallyHash |-> tallyHash.value,
                     metadata |-> metadata.value]
<1>30. event = e
  <2>1. SubSeq(b, k + 3, k + 2 + b[k + 2]) = e.pollId
    BY <1>16, <1>17, Zenon DEF poll
  <2>2. event = [sequence |-> e.sequence, eventType |-> e.eventType, pollId |-> e.pollId,
                 creatorId |-> e.creatorId, voterToken |-> e.voterToken, configuration |-> e.configuration,
                 tallyHash |-> e.tallyHash, metadata |-> e.metadata]
    BY <1>16, <1>21, <1>23, <1>25, <1>27, <1>29, <2>1, Zenon
  <2> HIDE DEF event
  <2> QED BY <2>2, Zenon DEF IsEvent
<1>31. ReadEvent(b, k) = [event |-> event, next |-> metadata.next]
  BY <1>20, Zenon
<1> HIDE DEF event
<1> QED BY <1>3, <1>29, <1>30, <1>31

\* Each of the arrays stands in the concatenation after those before it.
EachStands(upTo, n, arrays, S) ==
    /\ upTo[0] = <<>>
    /\ \A i \in 0..n : upTo[i] \in Seq(S)
    /\ \A i \in 1..n : /\ Len(upTo[i]) = Len(upTo[i - 1]) + Len(arrays[i])
                       /\ At(upTo[n], Len(upTo[i - 1]) + 1, arrays[i])

\* That is so, by induction over their number.
LEMMA JoinedAt ==
    ASSUME NEW S, NEW arrays \in Seq(Seq(S)), NEW n, n = Len(arrays), NEW upTo, AreJoined(upTo, n, arrays)
    PROVE  EachStands(upTo, n, arrays, S)
<1>1. n \in Nat /\ \A i \in 1..n : arrays[i] \in Seq(S)
  OBVIOUS
<1>2. \A i \in 0..n : upTo[i] = IF i = 0 THEN <<>> ELSE Join(upTo[i - 1], arrays[i])
  BY DEF AreJoined
<1> DEFINE E == {k \in Nat : k <= n =>
                    /\ upTo[k] \in Seq(S)
                    /\ \A i \in 1..k : At(upTo[k], Len(upTo[i - 1]) + 1, arrays[i])}
<1>3. upTo[0] = <<>>
  BY <1>1, <1>2
<1>4. 0 \in E
  <2>1. upTo[0] \in Seq(S)
    BY <1>3
  <2>2. \A i \in 1..0 : At(upTo[0], Len(upTo[i - 1]) + 1, arrays[i])
    OBVIOUS
  <2> QED BY <2>1, <2>2
<1>5. \A i \in 1..n : upTo[i] = Join(upTo[i - 1], arrays[i])
  BY <1>1, <1>2
<1>6. ASSUME NEW k \in Nat, k \in E PROVE k + 1 \in E
  <2> SUFFICES ASSUME k + 1 <= n
               PROVE  /\ upTo[k + 1] \in Seq(S)
                      /\ \A i \in 1..(k + 1) : At(upTo[k + 1], Len(upTo[i - 1]) + 1, arrays[i])
    OBVIOUS
  <2> DEFINE p == upTo[k]
             x == arrays[k + 1]
  <2>1. k + 1 \in 1..n /\ (k + 1) - 1 = k
    BY <1>1
  <2>2. /\ p \in Seq(S) /\ x \in Seq(S) /\ upTo[k + 1] = Join(p, x)
        /\ \A i \in 1..k : arrays[i] \in Seq(S) /\ At(p, Len(upTo[i - 1]) + 1, arrays[i])
    BY <1>1, <1>5, <1>6, <2>1
  <2>3. Join(p, x) \in Seq(S)
    BY <2>2, Joined DEF Join
  <2>4. ASSUME NEW i \in 1..k PROVE At(Join(p, x), Len(upTo[i - 1]) + 1, arrays[i])
    <3> DEFINE a == arrays[i]
               m == Len(upTo[i - 1]) + 1
    <3>1. At(p, m, a) /\ a \in Seq(S)
      BY <2>2
    <3> HIDE DEF a, m, p, x
    <3>2. At(Join(p, x), m, a)
      BY <2>2, <3>1, AtLonger DEF Join
    <3> QED BY <3>2 DEF a, m
  <2>5. At(Join(p, x), Len(p) + 1, x)
    BY <2>2, AtEnd DEF Join
  <2>6. ASSUME NEW i \in 1..(k + 1) PROVE At(upTo[k + 1], Len(upTo[i - 1]) + 1, arrays[i])
    <3>1. CASE i \in 1..k
      BY <2>2, <2>4, <3>1
    <3>2. CASE i = k + 1
      BY <2>1, <2>2, <2>5, <3>2
    <3> QED BY <3>1, <3>2
  <2> QED BY <2>2, <2>3, <2>6
<1>7. \A k \in 0..n : k \in E
  <2> HIDE DEF E
  <2>1. Nat \subseteq E
    BY <1>4, <1>6, SetInduction
  <2> QED BY <1>1, <2>1
<1>8. \A i \in 0..n : upTo[i] \in Seq(S)
  BY <1>1, <1>7
<1>9. \A i \in 1..n : At(upTo[n], Len(upTo[i - 1]) + 1, arrays[i])
  BY <1>1, <1>7
<1> HIDE DEF E
<1>10. ASSUME NEW i \in 1..n PROVE Len(upTo[i]) = Len(upTo[i - 1]) + Len(arrays[i])
  <2> DEFINE p == upTo[i - 1]
             x == arrays[i]
  <2>1. i - 1 \in 0..n
    BY <1>1
  <2>2. p \in Seq(S) /\ x \in Seq(S)
    BY <1>1, <1>8, <2>1
  <2> HIDE DEF p, x
  <2>3. Len(Join(p, x)) = Len(p) + Len(x)
    BY <2>2, Joined DEF Join
  <2> QED BY <1>5, <2>3 DEF p, x
<1> QED BY <1>3, <1>8, <1>9, <1>10 DEF EachStands

\* The log is numbered, and its events have their fields.
EventsOK ==
    /\ \E S : events \in Seq(S)
    /\ eventSequence = Len(events)
    /\ \A i \in 1..Len(events) : IsEvent(events[i]) /\ events[i].sequence = i - 1

\* appendEvent adds an event that has the next number.
LEMMA AppendEventStep ==
    ASSUME EventsOK, NEW type \in EventTypes, NEW poll \in Seq(Bytes), NEW creator \in OptionalBytes,
           NEW voter \in OptionalBytes, NEW configuration \in OptionalBytes, NEW tallyHash \in OptionalBytes,
           NEW metadata \in OptionalBytes,
           AppendEvent(type, poll, creator, voter, configuration, tallyHash, metadata)
    PROVE  EventsOK'
<1> DEFINE e == [sequence |-> eventSequence, eventType |-> type, pollId |-> poll,
                 creatorId |-> creator, voterToken |-> voter, configuration |-> configuration,
                 tallyHash |-> tallyHash, metadata |-> metadata]
<1>1. eventSequence' = eventSequence + 1 /\ events' = Append(events, e)
  BY DEF AppendEvent
<1>2. PICK S : events \in Seq(S)
  BY DEF EventsOK
<1>3. eventSequence = Len(events) /\ Len(events) \in Nat
  BY <1>2 DEF EventsOK
<1>4. IsEvent(e) /\ e.sequence = Len(events)
  BY <1>3 DEF IsEvent
<1> HIDE DEF e
<1>5. /\ Len(events') = Len(events) + 1 /\ events' \in Seq(S \cup {e})
      /\ \A i \in 1..Len(events) : events'[i] = events[i]
      /\ events'[Len(events) + 1] = e
  BY <1>1, <1>2
<1>6. ASSUME NEW i \in 1..Len(events') PROVE IsEvent(events'[i]) /\ events'[i].sequence = i - 1
  <2>1. CASE i \in 1..Len(events)
    BY <1>5, <2>1 DEF EventsOK
  <2>2. CASE i = Len(events) + 1
    <3>1. events'[i] = e /\ i - 1 = Len(events)
      BY <1>3, <1>5, <2>2
    <3> QED BY <1>4, <3>1
  <2> QED BY <1>3, <1>5, <2>1, <2>2
<1> QED BY <1>1, <1>3, <1>5, <1>6 DEF EventsOK

\* Every event that is logged is of that form.
LEMMA EventsInvariant == Spec => []EventsOK
<1>1. Init => EventsOK
  <2> SUFFICES ASSUME Init PROVE EventsOK
    OBVIOUS
  <2>1. eventSequence = 0 /\ events = <<>>
    BY DEF Init, EventInit
  <2> QED BY <2>1 DEF EventsOK
<1>2. EventsOK /\ [Next]_vars => EventsOK'
  <2> SUFFICES ASSUME EventsOK, [Next]_vars PROVE EventsOK'
    OBVIOUS
  <2>1. CASE EventNext
    <3>1. /\ Polls \subseteq Seq(Bytes) /\ VoterHashes \cup {None} \subseteq OptionalBytes
          /\ Creators \cup {None} \subseteq OptionalBytes /\ Configurations \subseteq OptionalBytes
          /\ TallyHashes \cup {None} \subseteq OptionalBytes /\ Metadata \subseteq OptionalBytes
          /\ None \in OptionalBytes
      BY AuditAssumption, EventAssumption DEF OptionalBytes
    <3>2. {"PollCreated", "VoteCast", "PollClosed", "AuditRequested"} \subseteq EventTypes
      BY DEF EventTypes
    <3>3. PICK poll \in Polls :
            \/ \E creator \in Creators, configuration \in Configurations : LogPollCreated(poll, creator, configuration)
            \/ \E voter \in VoterHashes, metadata \in Metadata : LogVoteCast(poll, voter, metadata)
            \/ \E tallyHash \in TallyHashes, metadata \in Metadata : LogPollClosed(poll, tallyHash, metadata)
            \/ \E creator \in Creators \cup {None}, voter \in VoterHashes \cup {None},
                  tallyHash \in TallyHashes \cup {None} : LogEvent(poll, creator, voter, tallyHash)
      BY <2>1 DEF EventNext
    <3>4. CASE \E creator \in Creators, configuration \in Configurations : LogPollCreated(poll, creator, configuration)
      BY <3>1, <3>2, <3>4, AppendEventStep DEF LogPollCreated
    <3>5. CASE \E voter \in VoterHashes, metadata \in Metadata : LogVoteCast(poll, voter, metadata)
      BY <3>1, <3>2, <3>5, AppendEventStep DEF LogVoteCast
    <3>6. CASE \E tallyHash \in TallyHashes, metadata \in Metadata : LogPollClosed(poll, tallyHash, metadata)
      BY <3>1, <3>2, <3>6, AppendEventStep DEF LogPollClosed
    <3>7. CASE \E creator \in Creators \cup {None}, voter \in VoterHashes \cup {None},
                  tallyHash \in TallyHashes \cup {None} : LogEvent(poll, creator, voter, tallyHash)
      BY <3>1, <3>2, <3>7, AppendEventStep DEF LogEvent
    <3> QED BY <3>3, <3>4, <3>5, <3>6, <3>7
  <2>2. CASE UNCHANGED eventVars
    BY <2>2 DEF EventsOK, eventVars
  <2> QED BY <2>1, <2>2 DEF Next, vars
<1> QED BY <1>1, <1>2, PTL DEF Spec

\* The places a reader comes to, one after the other.
AreStarts(start, n, b) ==
    start = [i \in 1..(n + 1) |-> IF i = 1 THEN 2 ELSE ReadEvent(b, start[i - 1]).next]

\* The export of a log can be read back.
LEMMA ExportStep == EventsOK => ExportReadsBack
<1> SUFFICES ASSUME EventsOK PROVE ExportReadsBack
  OBVIOUS
<1> DEFINE n == Len(events)
           written == [i \in 1..n |-> SerializeEvent(events[i])]
           b == ExportEvents(events)
<1>1. n \in Nat
  BY DEF EventsOK
<1>2. \A i \in 1..n : IsEvent(events[i]) /\ events[i].sequence = i - 1
  BY DEF EventsOK
<1> HIDE DEF n
<1>3. \A i \in 1..n : SerializeEvent(events[i]) \in Seq(Symbols)
  BY <1>2, EventType
<1>4. written \in Seq(Seq(Symbols)) /\ \A i \in 1..n : written[i] = SerializeEvent(events[i])
  BY <1>1, <1>3
<1>5. Len(written) = n
  <2>1. DOMAIN written = 1..n
    OBVIOUS
  <2> HIDE DEF written
  <2> QED BY <1>1, <1>4, <2>1, LenProperties
<1>6. b = <<n>> \o Concat(written)
  BY DEF ExportEvents, n
<1> HIDE DEF written, b
<1>7. PICK upTo : AreJoined(upTo, n, written) /\ Concat(written) = upTo[n]
  BY <1>1, <1>5, ConcatIsJoined
<1>8. /\ upTo[0] = <<>>
      /\ \A i \in 0..n : upTo[i] \in Seq(Symbols)
      /\ \A i \in 1..n : /\ Len(upTo[i]) = Len(upTo[i - 1]) + Len(written[i])
                         /\ At(upTo[n], Len(upTo[i - 1]) + 1, written[i])
  <2>1. written \in Seq(Seq(Symbols)) /\ n = Len(written) /\ AreJoined(upTo, n, written)
    BY <1>4, <1>5, <1>7
  <2>2. EachStands(upTo, n, written, Symbols)
    BY <2>1, JoinedAt, Zenon
  <2> QED BY <2>2, Zenon DEF EachStands
<1>9. <<n>> \in Seq(Symbols) /\ Len(<<n>>) = 1 /\ <<n>>[1] = n
  <2>1. n \in Symbols
    BY <1>1 DEF Symbols
  <2> QED BY <2>1
<1>10. upTo[n] \in Seq(Symbols)
  BY <1>1, <1>8
<1>11. b \in Seq(Symbols) /\ Len(b) = 1 + Len(upTo[n]) /\ b[1] = n /\ Len(upTo[n]) \in Nat
  <2> DEFINE q == <<n>>
             c == upTo[n]
  <2>1. q \in Seq(Symbols) /\ c \in Seq(Symbols) /\ Len(q) = 1 /\ q[1] = n /\ b = q \o c
    BY <1>6, <1>7, <1>9, <1>10
  <2> HIDE DEF q, c
  <2>2. /\ q \o c \in Seq(Symbols) /\ Len(c) \in Nat /\ Len(q \o c) = Len(q) + Len(c)
        /\ \A j \in 1..Len(q) : (q \o c)[j] = q[j]
    BY <2>1, Joined
  <2>3. b[1] = n
    BY <2>1, <2>2
  <2> QED BY <2>1, <2>2, <2>3 DEF c
<1>12. ASSUME NEW i \in 1..n
       PROVE  At(b, 2 + Len(upTo[i - 1]), written[i]) /\ Len(upTo[i - 1]) \in Nat
  <2> DEFINE x == written[i]
             k == Len(upTo[i - 1]) + 1
             q == <<n>>
             c == upTo[n]
  <2>1. Len(upTo[i - 1]) \in Nat
    <3>1. i - 1 \in 0..n
      BY <1>1
    <3> QED BY <1>8, <3>1
  <2>2. x \in Seq(Symbols) /\ At(c, k, x) /\ c \in Seq(Symbols) /\ q \in Seq(Symbols) /\ b = q \o c /\ Len(q) = 1
    BY <1>3, <1>4, <1>6, <1>7, <1>8, <1>9, <1>10
  <2>3. k \in Nat /\ 1 + k = 2 + Len(upTo[i - 1])
    BY <2>1
  <2> HIDE DEF q, c, x, k
  <2>4. At(b, Len(q) + k, x)
    BY <2>2, AtLonger
  <2>5. At(b, 2 + Len(upTo[i - 1]), x)
    BY <2>2, <2>3, <2>4
  <2> QED BY <2>1, <2>5 DEF x
<1> DEFINE place(i) == 2 + Len(upTo[i - 1])
<1>13. ASSUME NEW i \in 1..n
       PROVE  ReadEvent(b, place(i)).event = events[i] /\ ReadEvent(b, place(i)).next = place(i + 1)
  <2> DEFINE e == events[i]
             k == place(i)
  <2>1. IsEvent(e) /\ At(b, k, SerializeEvent(e)) /\ k \in Nat
    BY <1>2, <1>4, <1>12
  <2>2. ReadEvent(b, k).event = e /\ ReadEvent(b, k).next = k + Len(SerializeEvent(e))
    <3> HIDE DEF e, k
    <3> QED BY <1>11, <2>1, EventReads
  <2>3. k + Len(SerializeEvent(e)) = place(i + 1)
    <3>1. (i + 1) - 1 = i /\ Len(upTo[i - 1]) \in Nat /\ Len(SerializeEvent(e)) \in Nat
      BY <1>3, <1>12
    <3>2. Len(upTo[i]) = Len(upTo[i - 1]) + Len(SerializeEvent(e))
      BY <1>4, <1>8
    <3> HIDE DEF e
    <3> QED BY <3>1, <3>2
  <2> QED BY <2>2, <2>3
<1>14. place(1) = 2
  <2>1. Len(<<>>) = 0 /\ 1 - 1 = 0
    OBVIOUS
  <2>2. Len(upTo[1 - 1]) = 0
    BY <1>8, <2>1
  <2> QED BY <2>2
<1>15. place(n + 1) = Len(b) + 1
  <2>1. (n + 1) - 1 = n
    BY <1>1
  <2> QED BY <1>11, <2>1
<1> HIDE DEF place
<1> DEFINE g == [i \in 1..(n + 1) |-> place(i)]
<1>16. AreStarts(g, n, b)
  <2>1. ASSUME NEW i \in 1..(n + 1) PROVE place(i) = IF i = 1 THEN 2 ELSE ReadEvent(b, g[i - 1]).next
    <3>1. CASE i = 1
      BY <1>14, <3>1
    <3>2. CASE i # 1
      <4>1. i - 1 \in 1..n /\ i - 1 \in 1..(n + 1) /\ (i - 1) + 1 = i
        BY <1>1, <3>2
      <4>2. ReadEvent(b, place(i - 1)).next = place(i)
        BY <1>13, <4>1
      <4>3. g[i - 1] = place(i - 1)
        BY <4>1
      <4> QED BY <3>2, <4>2, <4>3
    <3> QED BY <3>1, <3>2
  <2>2. g = [i \in 1..(n + 1) |-> IF i = 1 THEN 2 ELSE ReadEvent(b, g[i - 1]).next]
    BY <2>1
  <2> HIDE DEF g
  <2> QED BY <2>2 DEF AreStarts
<1> DEFINE start == CHOOSE s : s = [i \in 1..(n + 1) |-> IF i = 1 THEN 2 ELSE ReadEvent(b, s[i - 1]).next]
<1>17. AreStarts(start, n, b)
  <2> HIDE DEF g
  <2>1. \E s : s = [i \in 1..(n + 1) |-> IF i = 1 THEN 2 ELSE ReadEvent(b, s[i - 1]).next]
    BY <1>16 DEF AreStarts
  <2>2. start = [i \in 1..(n + 1) |-> IF i = 1 THEN 2 ELSE ReadEvent(b, start[i - 1]).next]
    BY <2>1
  <2> HIDE DEF start
  <2> QED BY <2>2 DEF AreStarts
<1>18. \A i \in 1..(n + 1) : start[i] = place(i)
  <2> HIDE DEF start
  <2>1. \A i \in 1..(n + 1) : start[i] = IF i = 1 THEN 2 ELSE ReadEvent(b, start[i - 1]).next
    BY <1>17 DEF AreStarts
  <2> DEFINE E == {k \in Nat : k <= n => start[k + 1] = place(k + 1)}
  <2>2. 0 \in E
    <3>1. 0 + 1 = 1 /\ 1 \in 1..(n + 1)
      BY <1>1
    <3> QED BY <1>14, <2>1, <3>1
  <2>3. ASSUME NEW k \in Nat, k \in E PROVE k + 1 \in E
    <3> SUFFICES ASSUME k + 1 <= n PROVE start[(k + 1) + 1] = place((k + 1) + 1)
      OBVIOUS
    <3>1. k + 1 \in 1..n /\ (k + 1) + 1 \in 1..(n + 1) /\ (k + 1) + 1 # 1 /\ ((k + 1) + 1) - 1 = k + 1
      BY <1>1
    <3>2. start[k + 1] = place(k + 1)
      BY <1>1, <2>3
    <3>3. start[(k + 1) + 1] = ReadEvent(b, start[k + 1]).next
      BY <2>1, <3>1
    <3> QED BY <1>13, <3>1, <3>2, <3>3
  <2>4. Nat \subseteq E
    <3> HIDE DEF E
    <3> QED BY <2>2, <2>3, SetInduction
  <2> SUFFICES ASSUME NEW i \in 1..(n + 1) PROVE start[i] = place(i)
    OBVIOUS
  <2>5. i - 1 \in Nat /\ i - 1 <= n /\ (i - 1) + 1 = i
    BY <1>1
  <2>6. i - 1 \in E
    <3> HIDE DEF E
    <3> QED BY <2>4, <2>5
  <2> QED BY <2>5, <2>6
<1>19. /\ \A i \in 1..n : ReadEvent(b, start[i]).event = events[i]
       /\ start[n + 1] = Len(b) + 1
  <2> HIDE DEF start
  <2>1. \A i \in 1..n : i \in 1..(n + 1)
    BY <1>1
  <2>2. n + 1 \in 1..(n + 1)
    BY <1>1
  <2> QED BY <1>13, <1>15, <1>18, <2>1, <2>2
<1>20. VerifySequence(events)
  BY <1>2 DEF VerifySequence, n
<1> QED BY <1>11, <1>19, <1>20 DEF ExportReadsBack, b, n

\* The event log is numbered without a gap, and its export can be read back
\* event by event, however many there are and whichever of their fields are
\* missing (appendEvent, exportEvents, serializeEntry).
THEOREM ExportIsReadable == Spec => []ExportReadsBack
  BY EventsInvariant, ExportStep, PTL
=============================================================================
