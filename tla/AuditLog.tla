------------------------------ MODULE AuditLog ------------------------------
(***************************************************************************)
(* The signed chain of audit entries (audit_log.cpp).  A digest and a      *)
(* signature are represented by what they are made from, so that they are  *)
(* equal exactly when that is.  What is hashed is a sequence in which each *)
(* byte of an id is an element, and so is a number of fixed size, and a    *)
(* digest: one never occurs in part, or inside an id.                      *)
(***************************************************************************)
EXTENDS Integers, Sequences

CONSTANTS Bytes, Polls, VoterHashes, Metadata, Authority, None

ASSUME AuditAssumption ==
    /\ Polls \cup VoterHashes \cup {Authority} \subseteq Seq(Bytes)
    /\ 0 \in Bytes
    /\ None \notin Seq(Bytes)

VARIABLES auditSequence,  \* sequence_
          auditEntries    \* entries_

auditVars == <<auditSequence, auditEntries>>

Hash(data) == [digest |-> data]
Sign(data) == [signed |-> data]
Zero == Hash(<<>>)   \* 32 zero bytes where a digest stands otherwise

Number(n) == [number |-> n]
Raw(bytes) == [i \in 1..Len(bytes) |-> [byte |-> bytes[i]]]
Timestamp == Number(0)      \* eight bytes; what they say is left out
Zeros == Raw(<<0, 0>>)      \* 32 bytes, half as many as a digest here

Optional(x) == IF x = None THEN <<>> ELSE x

\* Mutant: the link to the entry before is not hashed.
SerializeUnlinked(e) ==
    <<Number(e.sequence), Number(e.eventType), Timestamp>>
        \o (e.pollId \o Optional(e.voterIdHash) \o Optional(e.authorityId))

\* Nothing says where a field ends or which optional fields are there, and
\* metadata is left out.
SerializeForHashing(e) ==
    <<Number(e.sequence), Number(e.eventType), Timestamp>>
        \o (e.pollId \o e.previousHash \o Optional(e.voterIdHash) \o Optional(e.authorityId))

ComputeEntryHash(e) == Hash(SerializeForHashing(e))

SerializeForSigning(e) == Append(SerializeForHashing(e), e.entryHash)

VerifyAuditEntry(e) == e.signature = Sign(SerializeForSigning(e))

Follows(e, d) == e.previousHash = <<d.entryHash>>

VerifyChain(entries) ==
    \A i \in 1..Len(entries) :
        /\ ComputeEntryHash(entries[i]) = entries[i].entryHash
        /\ VerifyAuditEntry(entries[i])
        /\ i > 1 => Follows(entries[i], entries[i - 1])

\* The new entry: its hash, and then its signature over the fields and hash.
NewEntry(type, poll, voter, authority, metadata) ==
    LET fields == [sequence |-> auditSequence, eventType |-> type, pollId |-> poll,
                   voterIdHash |-> voter, authorityId |-> authority, metadata |-> metadata,
                   previousHash |-> IF auditEntries = <<>> THEN Zeros
                                    ELSE <<auditEntries[Len(auditEntries)].entryHash>>,
                   entryHash |-> Zero, signature |-> Sign(<<>>)]
        hashed == [fields EXCEPT !.entryHash = ComputeEntryHash(fields)]
    IN [hashed EXCEPT !.signature = Sign(SerializeForSigning(hashed))]

AuditInit == auditSequence = 0 /\ auditEntries = <<>>

\* Mutant: the entry is appended before it is signed.
AppendThenSign(type, poll, voter, authority, metadata, signs) ==
    LET e == NewEntry(type, poll, voter, authority, metadata) IN
    /\ auditSequence' = auditSequence + 1
    /\ auditEntries' = Append(auditEntries, IF signs THEN e ELSE [e EXCEPT !.signature = Sign(<<>>)])

\* appendEntry.  The number is taken first: when signing throws it is lost.
AppendEntry(type, poll, voter, authority, metadata, signs) ==
    /\ auditSequence' = auditSequence + 1
    /\ auditEntries' = IF signs THEN Append(auditEntries, NewEntry(type, poll, voter, authority, metadata))
                       ELSE auditEntries

RecordPollCreated(poll, metadata, signs) ==
    AppendEntry("PollCreated", Raw(poll), None, Raw(Authority), metadata, signs)
RecordVoteCast(poll, voter, signs) == AppendEntry("VoteCast", Raw(poll), Raw(voter), None, None, signs)
RecordPollClosed(poll, metadata, signs) ==
    AppendEntry("PollClosed", Raw(poll), None, Raw(Authority), metadata, signs)

AuditNext ==
    \E poll \in Polls, signs \in BOOLEAN :
        \/ \E metadata \in Metadata : RecordPollCreated(poll, metadata, signs) \/ RecordPollClosed(poll, metadata, signs)
        \/ \E voter \in VoterHashes : RecordVoteCast(poll, voter, signs)

-----------------------------------------------------------------------------
(* Properties.                                                             *)

\* appendEntry, verifyChain: whatever was recorded verifies, also after a
\* signature has failed; the numbers only grow, and leave gaps.
AuditVerifies ==
    /\ VerifyChain(auditEntries)
    /\ \A i \in 1..Len(auditEntries) : auditEntries[i].sequence < auditSequence
    /\ \A i, j \in 1..Len(auditEntries) : i < j => auditEntries[i].sequence < auditEntries[j].sequence

\* What can be made of the entries without signing anything.  Fields may be
\* exchanged and the entry hashed anew, also under the signature of another;
\* or what was hashed is cut into fields at other places.
Rehashed(e) == [e EXCEPT !.entryHash = ComputeEntryHash(e)]

WithFields(e, poll, link, voter, authority) ==
    [e EXCEPT !.pollId = poll, !.previousHash = link, !.voterIdHash = voter, !.authorityId = authority]

Altered(e, hashes) ==
    LET ids == {None, Raw(Authority)} \cup {Raw(v) : v \in VoterHashes}
    IN {[e EXCEPT !.metadata = m] : m \in Metadata}
       \cup {Rehashed(WithFields(e, e.pollId, h, e.voterIdHash, e.authorityId)) : h \in hashes}
       \cup {Rehashed(WithFields(e, Raw(poll), e.previousHash, v, a)) : poll \in Polls, v \in ids, a \in ids}

Recut(e) ==
    LET ids == SubSeq(SerializeForHashing(e), 4, Len(SerializeForHashing(e)))
        cut(i, j) == SubSeq(ids, i + 1, j)
        n == Len(ids)
    IN UNION {{WithFields(e, cut(0, i), cut(i, j), cut(j, k), cut(k, n)) : i \in 0..j, k \in j..n} : j \in 0..n}

Forgeries ==
    LET entries == {auditEntries[i] : i \in 1..Len(auditEntries)}
        hashes == {Zeros} \cup {<<e.entryHash>> : e \in entries}
    IN entries
       \cup {Rehashed([d EXCEPT !.signature = e.signature]) : d \in entries, e \in entries}
       \cup UNION {Altered(e, hashes) \cup Recut(e) : e \in entries}

\* The same bytes were hashed and signed.
Alike(f, e) == f.entryHash = e.entryHash /\ SerializeForHashing(f) = SerializeForHashing(e)

\* verifyChain, verifyEntry: of what can be made of the entries, one verifies
\* only with the bytes of a recorded entry; and one verifies after another only
\* if the recorded ones followed each other, with the poll and link recorded.
\* Not protected are metadata, whether an id is the voter's or the authority's,
\* where the fields of the first entry of a stretch begin, and what is cut off
\* at either end.  (The checks look at one entry and the next, so two say it
\* all.)
AuditTamperEvident ==
    LET accepted == {f \in Forgeries : VerifyChain(<<f>>)}
    IN /\ \A f \in accepted : \E i \in 1..Len(auditEntries) : Alike(f, auditEntries[i])
       /\ \A f, g \in accepted : Follows(g, f) =>
             \E i \in 2..Len(auditEntries) :
                /\ Alike(f, auditEntries[i - 1]) /\ Alike(g, auditEntries[i])
                /\ g.pollId = auditEntries[i].pollId /\ g.previousHash = auditEntries[i].previousHash
=============================================================================
