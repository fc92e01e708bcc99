----------------------------- MODULE EventLogger -----------------------------
(***************************************************************************)
(* The event log (event_logger.cpp): numbered, neither hashed nor signed,  *)
(* and exported as bytes.  Ids, configurations, hashes and metadata are    *)
(* sequences of bytes; a number and the name of a type are one element.    *)
(***************************************************************************)
EXTENDS BulletinBoard

CONSTANTS Creators, Configurations, TallyHashes

ASSUME EventAssumption ==
    /\ Creators \cup Configurations \cup TallyHashes \subseteq Seq(Bytes)
    /\ Metadata \subseteq Seq(Bytes) \cup {None}

VARIABLES eventSequence,  \* sequence_
          events          \* events_

eventVars == <<eventSequence, events>>

EventInit == eventSequence = 0 /\ events = <<>>

AppendEvent(type, poll, creator, voter, configuration, tallyHash, metadata) ==
    /\ eventSequence' = eventSequence + 1
    /\ events' = Append(events, [sequence |-> eventSequence, eventType |-> type, pollId |-> poll,
                                 creatorId |-> creator, voterToken |-> voter, configuration |-> configuration,
                                 tallyHash |-> tallyHash, metadata |-> metadata])

LogPollCreated(poll, creator, configuration) ==
    AppendEvent("PollCreated", poll, creator, None, configuration, None, None)
LogVoteCast(poll, voter, metadata) == AppendEvent("VoteCast", poll, None, voter, None, None, metadata)
LogPollClosed(poll, tallyHash, metadata) == AppendEvent("PollClosed", poll, None, None, None, tallyHash, metadata)

\* logEvent: any combination of the optional fields.
LogEvent(poll, creator, voter, tallyHash) ==
    AppendEvent("AuditRequested", poll, creator, voter, None, tallyHash, None)

EventNext ==
    \E poll \in Polls :
        \/ \E creator \in Creators, configuration \in Configurations : LogPollCreated(poll, creator, configuration)
        \/ \E voter \in VoterHashes, metadata \in Metadata : LogVoteCast(poll, voter, metadata)
        \/ \E tallyHash \in TallyHashes, metadata \in Metadata : LogPollClosed(poll, tallyHash, metadata)
        \/ \E creator \in Creators \cup {None}, voter \in VoterHashes \cup {None}, tallyHash \in TallyHashes \cup {None} :
              LogEvent(poll, creator, voter, tallyHash)

VerifySequence(log) == \A i \in 1..Len(log) : log[i].sequence = i - 1

\* Mutant: an absent field is written like an empty one.
FieldEmpty(x) == IF x = None THEN <<1, 0>> ELSE <<1, Len(x)>> \o x

\* An optional field: 1, its size and its bytes, or 0.
Field(x) == IF x = None THEN <<0>> ELSE <<1, Len(x)>> \o x

SerializeEvent(e) ==
    <<e.sequence, e.eventType, Len(e.pollId)>> \o e.pollId
        \o Field(e.creatorId) \o Field(e.voterToken) \o Field(e.configuration)
        \o Field(e.tallyHash) \o Field(e.metadata)

ExportEvents(log) == <<Len(log)>> \o Concat([i \in 1..Len(log) |-> SerializeEvent(log[i])])

-----------------------------------------------------------------------------
(* Properties.                                                             *)

\* A reader who follows the sizes and marks: the fields of the event that
\* starts at place k of an export, and the place after it.
ReadField(bytes, k) == IF bytes[k] = 0 THEN [value |-> None, next |-> k + 1]
                       ELSE [value |-> SubSeq(bytes, k + 2, k + 1 + bytes[k + 1]), next |-> k + 2 + bytes[k + 1]]

ReadEvent(bytes, k) ==
    LET creator == ReadField(bytes, k + 3 + bytes[k + 2])
        voter == ReadField(bytes, creator.next)
        configuration == ReadField(bytes, voter.next)
        tallyHash == ReadField(bytes, configuration.next)
        metadata == ReadField(bytes, tallyHash.next)
    IN [event |-> [sequence |-> bytes[k], eventType |-> bytes[k + 1], pollId |-> SubSeq(bytes, k + 3, k + 2 + bytes[k + 2]),
                   creatorId |-> creator.value, voterToken |-> voter.value,
                   configuration |-> configuration.value, tallyHash |-> tallyHash.value,
                   metadata |-> metadata.value],
        next |-> metadata.next]

\* verifySequence, exportEvents: the log is numbered without a gap, and every
\* event of it can be read back from its export.
ExportReadsBack ==
    LET bytes == ExportEvents(events)
        start[i \in 1..(Len(events) + 1)] == IF i = 1 THEN 2 ELSE ReadEvent(bytes, start[i - 1]).next
    IN /\ VerifySequence(events)
       /\ bytes[1] = Len(events)
       /\ \A i \in 1..Len(events) : ReadEvent(bytes, start[i]).event = events[i]
       /\ start[Len(events) + 1] = Len(bytes) + 1
=============================================================================
