---------------------------- MODULE BulletinBoard ----------------------------
(***************************************************************************)
(* Published votes and tallies (bulletin_board.cpp).  Each entry is signed *)
(* and carries the Merkle root of all entries before it.  Ciphertexts,     *)
(* tallies and the names of choices are sequences of bytes: concat joins   *)
(* them with nothing in between.                                           *)
(***************************************************************************)
EXTENDS AuditLog

CONSTANTS Ballots,       \* sequences of ciphertexts
          TallyLists,    \* sequences of tallies
          ChoiceLists    \* sequences of names

ASSUME BoardAssumption == Ballots \cup TallyLists \cup ChoiceLists \subseteq Seq(Seq(Bytes))

VARIABLES boardSequence,  \* sequence_
          boardEntries,   \* entries_
          tallyProofs     \* tallyProofs_

boardVars == <<boardSequence, boardEntries, tallyProofs>>

Concat(arrays) ==
    LET upTo[i \in 0..Len(arrays)] == IF i = 0 THEN <<>> ELSE upTo[i - 1] \o arrays[i]
    IN upTo[Len(arrays)]

Half(n) == (n + 1) \div 2

\* Mutant: a node without a partner is lost.
NextLevelLossy(hashes) ==
    [i \in 1..(IF Len(hashes) = 1 THEN 1 ELSE Len(hashes) \div 2) |->
        IF Len(hashes) = 1 THEN hashes[1] ELSE Hash(<<hashes[2 * i - 1], hashes[2 * i]>>)]

\* One round of computeMerkleRootInternal: a node without a partner moves up.
NextLevel(hashes) ==
    [i \in 1..Half(Len(hashes)) |->
        IF 2 * i <= Len(hashes) THEN Hash(<<hashes[2 * i - 1], hashes[2 * i]>>) ELSE hashes[2 * i - 1]]

ComputeMerkleRoot(entries) ==
    LET level[k \in 0..Len(entries)] ==
            IF k = 0 THEN [i \in 1..Len(entries) |-> entries[i].entryHash] ELSE NextLevel(level[k - 1])
    IN IF entries = <<>> THEN Zero ELSE level[Len(entries)][1]

SerializeEntryData(e) ==
    <<Number(e.sequence), Timestamp>>
        \o (Raw(e.pollId) \o Raw(e.voterIdHash) \o <<e.merkleRoot>>) \o Raw(Concat(e.encryptedVote))

VerifyEntry(e) ==
    /\ Hash(SerializeEntryData(e)) = e.entryHash
    /\ e.signature = Sign(e.entryHash)

VerifyMerkleTree(entries) ==
    \A i \in 1..Len(entries) : entries[i].merkleRoot = ComputeMerkleRoot(SubSeq(entries, 1, i - 1))

BoardEntry(poll, ballot, voter) ==
    LET fields == [sequence |-> boardSequence, pollId |-> poll, encryptedVote |-> ballot, voterIdHash |-> voter,
                   merkleRoot |-> ComputeMerkleRoot(boardEntries), entryHash |-> Zero, signature |-> Sign(Zero)]
        hash == Hash(SerializeEntryData(fields))
    IN [fields EXCEPT !.entryHash = hash, !.signature = Sign(hash)]

HashEncryptedVotes(ballots) == Hash(Concat([i \in 1..Len(ballots) |-> Concat(ballots[i])]))

GenerateDecryptionProof(ballots, tallies) ==
    Hash(Concat([i \in 1..Len(ballots) |-> Concat(ballots[i])]) \o Concat(tallies))

SerializeTallyProof(proof) ==
    Raw(proof.pollId) \o <<Timestamp, proof.votesHash, proof.decryptionProof>>
        \o Raw(Concat(proof.tallies)) \o Raw(Concat(proof.choices))

VerifyTallyProof(proof) == proof.signature = Sign(SerializeTallyProof(proof))

TallyProof(poll, tallies, choices, ballots) ==
    LET fields == [pollId |-> poll, tallies |-> tallies, choices |-> choices,
                   votesHash |-> HashEncryptedVotes(ballots),
                   decryptionProof |-> GenerateDecryptionProof(ballots, tallies), signature |-> Sign(Zero)]
    IN [fields EXCEPT !.signature = Sign(SerializeTallyProof(fields))]

BoardInit ==
    /\ boardSequence = 0
    /\ boardEntries = <<>>
    /\ tallyProofs = [poll \in Polls |-> None]

\* publishVote; when signing throws nothing has changed.
PublishVote(poll, ballot, voter) ==
    /\ boardEntries' = Append(boardEntries, BoardEntry(poll, ballot, voter))
    /\ boardSequence' = boardSequence + 1
    /\ UNCHANGED tallyProofs

\* publishTally replaces the proof of a poll; the ballots are the caller's,
\* not those on the board.
PublishTally(poll, tallies, choices, ballots) ==
    /\ tallyProofs' = [tallyProofs EXCEPT ![poll] = TallyProof(poll, tallies, choices, ballots)]
    /\ UNCHANGED <<boardEntries, boardSequence>>

EncryptedVotes(poll) ==
    LET ofPoll == SelectSeq(boardEntries, LAMBDA e : e.pollId = poll)
    IN [i \in 1..Len(ofPoll) |-> ofPoll[i].encryptedVote]

BoardNext ==
    \E poll \in Polls :
        \/ \E ballot \in Ballots, voter \in VoterHashes : PublishVote(poll, ballot, voter)
        \/ \E tallies \in TallyLists, choices \in ChoiceLists :
              PublishTally(poll, tallies, choices, EncryptedVotes(poll))

-----------------------------------------------------------------------------
(* Properties.                                                             *)

\* publishVote, publishTally: all that is published verifies, and the entries
\* are numbered from 0 without a gap.
BoardVerifies ==
    /\ VerifyMerkleTree(boardEntries)
    /\ \A i \in 1..Len(boardEntries) : VerifyEntry(boardEntries[i]) /\ boardEntries[i].sequence = i - 1
    /\ boardSequence = Len(boardEntries)
    /\ \A poll \in Polls : tallyProofs[poll] # None => VerifyTallyProof(tallyProofs[poll])

\* verifyEntry, verifyMerkleTree: a board put together from published entries
\* in any order, with some left out or twice, verifies only when it is what
\* was on the board at some time; and an entry whose ballot was changed
\* verifies only when the bytes, joined together, are the same.
BoardTamperEvident ==
    LET entries == {boardEntries[i] : i \in 1..Len(boardEntries)}
    IN /\ \A n \in 1..Len(boardEntries) : \A s \in [1..n -> entries] :
             VerifyMerkleTree(s) => s = SubSeq(boardEntries, 1, n)
       /\ \A e \in entries, ballot \in Ballots :
             VerifyEntry([e EXCEPT !.encryptedVote = ballot]) => Concat(ballot) = Concat(e.encryptedVote)
=============================================================================
