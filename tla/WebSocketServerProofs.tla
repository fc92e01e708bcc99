----------------------- MODULE WebSocketServerProofs -----------------------
(***************************************************************************)
(* Proofs about WebSocketServer, for any number of connections, members,   *)
(* pools, events, requests and starts: the two maps stay together as far   *)
(* as the code can keep them together, a client is warned once, and nobody *)
(* hears of anything after stop().                                         *)
(***************************************************************************)
EXTENDS WebSocketServer, TLAPS

\* The phases of a connection that has had a session, or never will.
Late == {"added", "looping", "reading", "erasing", "abandoned", "gone"}

\* A session belongs to a connection whose handlers have added it and have not
\* cleaned up yet.
SessionPhase ==
    \A c \in Conns : sessions[c] # None => phase[c] \in {"added", "looping", "reading", "abandoned"}

StreamPhase ==
    \A c \in streams : phase[c] \in {"looping", "reading", "erasing", "abandoned"}

\* Whatever a job has collected has had a session: no such connection can be
\* added, or ask for something, again.
CollectedLate ==
    \A j \in Jobs : \A c \in Conns :
        c \in job[j].list \cup job[j].warn \/ job[j].at = c => phase[c] \in Late

\* Between removeClientSession and the erasure of the stream nobody brings the
\* session back.
EraseRemoved ==
    \A j \in Jobs : \A c \in Conns : job[j].pc = "erase" /\ job[j].at = c => sessions[c] = None

\* stop() is under way only while running_ is false, and what is registered
\* after its first mutex is not read from.
StopPhase ==
    /\ stopping # "no" => ~running
    /\ stopping = "sessions" => \A c \in streams : phase[c] \in {"looping", "abandoned"}

\* No broadcast has collected c, and none will: it is not subscribed.
Unaddressed(c) == c \notin job["broadcast"].list /\ (sessions[c] # None => sessions[c].subs = {})

\* stop() has gone through the map of streams.
StreamsPassed == ~running /\ stopping \in {"no", "sessions"}

\* Who has not been read from yet is not addressed, and so nobody is whose stream
\* comes into the map after stop() has gone through it.
QuietParts ==
    /\ \A c \in Conns : phase[c] = "added" => Unaddressed(c)
    /\ StreamsPassed => \A c \in streams : Unaddressed(c)

\* A warning is counted only for a session that is marked, about to be marked,
\* or gone; what is still to be warned has had none.
WarningMarked ==
    /\ \A c \in Conns : warnings[c] = 1 /\ sessions[c] # None =>
           sessions[c].warned \/ (job["jwt"].pc = "mark" /\ job["jwt"].at = c)
    /\ \A c \in job["jwt"].warn : warnings[c] = 0

\* Nobody is warned before it has had a session.
ReachedLate == \A c \in Conns : warnings[c] # 0 => phase[c] \in Late

\* broadcastEvent collects for an event it was given.
EventChosen == job["broadcast"].list # {} => job["broadcast"].event \in Events

MapsParts == /\ SessionHasStream /\ StoppedIsClean /\ SessionPhase /\ StreamPhase
             /\ CollectedLate /\ EraseRemoved /\ StopPhase
WarnParts == WarningMarked /\ WarnedOnce /\ ReachedLate

\* The inductive invariant: what the runs check, and what it takes to keep it.
IInv == TypeOK /\ EventChosen /\ MapsParts /\ WarnParts /\ QuietParts

-----------------------------------------------------------------------------
\* The records of job.
JobType == [pc : {"idle", "warn", "mark", "send", "close", "closing", "remove", "erase"},
            list : SUBSET Conns, warn : SUBSET Conns, at : Conns \cup {None},
            then : {"idle", "mark", "send", "close"}, event : Events \cup {None}]

\* What the assumption says of the constants the type invariant mentions.
LEMMA Constants ==
    /\ None \notin Nat /\ None \notin Conns
    /\ MaxTime \in Nat /\ MaxStarts \in Nat /\ MaxBroadcasts \in Nat /\ MaxDrops \in Nat
BY WebSocketAssumption

\* Every step of the server keeps the types.  An event is among those sent to
\* only because its broadcast has chosen it.
LEMMA TypeStep == TypeOK /\ EventChosen /\ [Next]_vars => (TypeOK /\ EventChosen)'
<1> SUFFICES ASSUME TypeOK, EventChosen, [Next]_vars PROVE (TypeOK /\ EventChosen)'
  OBVIOUS
<1> USE Constants DEF TypeOK, EventChosen, conns, maps, inbox, limits, Jobs, Timers
<1>1. ASSUME NEW ok \in BOOLEAN, Start(ok) PROVE (TypeOK /\ EventChosen)'
  BY <1>1 DEF Start
<1>2. ASSUME Stop PROVE (TypeOK /\ EventChosen)'
  BY <1>2 DEF Stop
<1>3. ASSUME StopStreams PROVE (TypeOK /\ EventChosen)'
  BY <1>3 DEF StopStreams
<1>4. ASSUME StopSessions PROVE (TypeOK /\ EventChosen)'
  BY <1>4 DEF StopSessions
<1>5. ASSUME AcceptFails PROVE (TypeOK /\ EventChosen)'
  <2>1. /\ drops < MaxDrops /\ drops' = drops + 1 /\ accepting' = FALSE
        /\ UNCHANGED <<server, stopping, conns, maps, waiting, job, now, inbox, starts, broadcasts>>
    BY <1>5 DEF AcceptFails
  <2>2. drops' \in 0..MaxDrops
    BY <2>1
  <2>3. accepting' \in BOOLEAN
    BY <2>1, Zenon
  <2> QED
    BY <2>1, <2>2, <2>3
<1>6. ASSUME Tick PROVE (TypeOK /\ EventChosen)'
  BY <1>6 DEF Tick
<1>7. ASSUME HeartbeatRound PROVE (TypeOK /\ EventChosen)'
  BY <1>7 DEF HeartbeatRound, Idle
<1>8. ASSUME JwtExpiryRound PROVE (TypeOK /\ EventChosen)'
  BY <1>8 DEF JwtExpiryRound, Idle, Expiring, Expired
<1>9. ASSUME NEW e \in Events, BroadcastEvent(e) PROVE (TypeOK /\ EventChosen)'
  <2> DEFINE L == {c \in Conns : /\ sessions[c] # None /\ e.kind \in sessions[c].subs
                                 /\ IsClientAuthorizedForEvent(Token(c), e)}
             J == [Idle EXCEPT !.pc = "send", !.event = e, !.list = L]
  <2>1. job' = [job EXCEPT !["broadcast"] = J]
    BY <1>9 DEF BroadcastEvent
  <2>2. L \subseteq Conns
    OBVIOUS
  <2> HIDE DEF L
  <2>3. J \in JobType /\ J.event \in Events
    BY <2>2 DEF JobType, Idle
  <2> HIDE DEF J
  <2>4. job' \in [Jobs -> JobType] /\ job'["broadcast"].event \in Events
    BY <2>1, <2>3 DEF JobType
  <2>5. broadcasts' \in 0..MaxBroadcasts
    BY <1>9 DEF BroadcastEvent
  <2> QED
    BY <1>9, <2>4, <2>5 DEF BroadcastEvent, JobType
<1>10. ASSUME NEW j \in Jobs, FinishRound(j) PROVE (TypeOK /\ EventChosen)'
  BY <1>10 DEF FinishRound, Idle
<1>11. ASSUME NEW j \in Jobs, NEW c \in Conns, RemoveSession(j, c) PROVE (TypeOK /\ EventChosen)'
  BY <1>11 DEF RemoveSession
<1>12. ASSUME NEW j \in Jobs, NEW c \in Conns, EraseStream(j, c) PROVE (TypeOK /\ EventChosen)'
  BY <1>12 DEF EraseStream
<1>13. ASSUME NEW j \in Timers, NEW c \in Conns, CloseSession(j, c) PROVE (TypeOK /\ EventChosen)'
  <2> DEFINE J == [job[j] EXCEPT !.list = @ \ {c}, !.at = c, !.then = "close",
                                 !.pc = IF c \in streams /\ IsOpen(c) THEN "closing" ELSE "remove"]
  <2>1. job' = [job EXCEPT ![j] = J]
    BY <1>13, Zenon DEF CloseSession
  <2>2a. job[j] \in JobType
    BY DEF JobType
  <2>2. J \in JobType
    BY <2>2a DEF JobType
  <2> HIDE DEF J
  <2> QED
    BY <1>13, <2>1, <2>2 DEF CloseSession, JobType
<1>14. ASSUME AllWarned PROVE (TypeOK /\ EventChosen)'
  BY <1>14 DEF AllWarned
<1>15. ASSUME NEW c \in Conns, SendTokenExpiring(c) PROVE (TypeOK /\ EventChosen)'
  <2> DEFINE J == [job["jwt"] EXCEPT !.warn = @ \ {c}, !.at = c, !.pc = "mark"]
             K == [J EXCEPT !.pc = "remove", !.at = c, !.then = J.pc]
  <2>1. J \in JobType /\ J.pc = "mark"
    BY DEF JobType
  <2> HIDE DEF J
  <2>1a. K \in JobType
    BY <2>1 DEF JobType
  <2>2. SendToClient("jwt", c, J)
    BY <1>15 DEF SendTokenExpiring, J
  <2>3. job' = [job EXCEPT !["jwt"] = J] \/ job' = [job EXCEPT !["jwt"] = K]
    BY <2>2 DEF SendToClient
  <2> HIDE DEF J, K
  <2>4. job' \in [Jobs -> JobType] /\ job'["broadcast"] = job["broadcast"]
    BY <2>1, <2>1a, <2>3 DEF JobType
  <2>5. link' \in [Conns -> {"up", "lost", "closing", "closed"}] /\ heard' = heard /\ warnings' \in [Conns -> Nat]
    BY <2>2 DEF SendToClient
  <2> QED
    BY <1>15, <2>4, <2>5 DEF SendTokenExpiring, JobType
<1>16. ASSUME NEW c \in Conns, MarkTokenExpiringSent(c) PROVE (TypeOK /\ EventChosen)'
  BY <1>16 DEF MarkTokenExpiringSent, Session
<1>17. ASSUME NEW c \in Conns, SendEvent(c) PROVE (TypeOK /\ EventChosen)'
  <2> DEFINE J == [job["broadcast"] EXCEPT !.list = @ \ {c}]
             K == [J EXCEPT !.pc = "remove", !.at = c, !.then = J.pc]
  <2>1. J \in JobType /\ K \in JobType /\ J.event \in Events /\ K.event \in Events
    BY <1>17 DEF JobType, SendEvent
  <2>2. SendToClient("broadcast", c, J)
    BY <1>17 DEF SendEvent
  <2>3. job' = [job EXCEPT !["broadcast"] = J] \/ job' = [job EXCEPT !["broadcast"] = K]
    BY <2>2 DEF SendToClient
  <2> HIDE DEF J, K
  <2>4. job' \in [Jobs -> JobType] /\ job'["broadcast"].event \in Events
    BY <2>1, <2>3 DEF JobType
  <2>5. link' \in [Conns -> {"up", "lost", "closing", "closed"}] /\ warnings' = warnings
        /\ heard' \in [Conns -> SUBSET Events]
    BY <2>1, <2>2 DEF SendToClient
  <2> QED
    BY <1>17, <2>4, <2>5 DEF SendEvent, JobType
<1>18. ASSUME NEW c \in Conns, Route(c) PROVE (TypeOK /\ EventChosen)'
  BY <1>18 DEF Route, Leave
<1>19. ASSUME NEW c \in Conns, HandleClientConnection(c) PROVE (TypeOK /\ EventChosen)'
  BY <1>19 DEF HandleClientConnection, Leave
<1>20. ASSUME NEW c \in Conns, NEW known \in BOOLEAN, HandleNodeConnection(c, known) PROVE (TypeOK /\ EventChosen)'
  BY <1>20 DEF HandleNodeConnection, Leave
<1>21. ASSUME NEW c \in Conns, AddClientSession(c) PROVE (TypeOK /\ EventChosen)'
  BY <1>21 DEF AddClientSession, Session
<1>22. ASSUME NEW c \in Conns, RegisterStream(c) PROVE (TypeOK /\ EventChosen)'
  BY <1>22 DEF RegisterStream
<1>23. ASSUME NEW c \in Conns, StartClientReadLoop(c) PROVE (TypeOK /\ EventChosen)'
  BY <1>23 DEF StartClientReadLoop
<1>24. ASSUME NEW c \in Conns, ReadFails(c) PROVE (TypeOK /\ EventChosen)'
  BY <1>24 DEF ReadFails
<1>25. ASSUME NEW c \in Conns, ForgetStream(c) PROVE (TypeOK /\ EventChosen)'
  BY <1>25 DEF ForgetStream
<1>26. ASSUME NEW c \in Conns, NodeReadEnds(c) PROVE (TypeOK /\ EventChosen)'
  BY <1>26 DEF NodeReadEnds, Leave
<1>27. ASSUME NEW c \in Conns, ClientDrops(c) PROVE (TypeOK /\ EventChosen)'
  BY <1>27 DEF ClientDrops
<1>28. ASSUME NEW c \in Conns, NEW ok \in BOOLEAN, AuthenticateEcies(c, ok) PROVE (TypeOK /\ EventChosen)'
  BY <1>28 DEF AuthenticateEcies, Leave
<1>29. ASSUME NEW c \in Conns, NEW r \in Requests, Accept(c, r) PROVE (TypeOK /\ EventChosen)'
  BY <1>29 DEF Accept
<1>30. ASSUME NEW c \in Conns, NEW k \in Topics, ReadCommand(c, k) PROVE (TypeOK /\ EventChosen)'
  <2>1. sessions' \in [Conns -> Session \cup {None}]
    <3>1. CASE sessions[c] = None
      BY <1>30, <3>1 DEF ReadCommand, SubscribeClient, UnsubscribeClient
    <3>2. CASE sessions[c] # None
      <4>1. sessions[c] \in Session
        BY <3>2
      <4>2. /\ [sessions[c] EXCEPT !.subs = @ \cup {k}] \in Session
            /\ [sessions[c] EXCEPT !.subs = @ \ {k}] \in Session
        BY <4>1 DEF Session
      <4> QED
        BY <1>30, <3>2, <4>2 DEF ReadCommand, SubscribeClient, UnsubscribeClient
    <3> QED
      BY <3>1, <3>2
  <2> QED
    BY <1>30, <2>1 DEF ReadCommand
<1>32. ASSUME LockStreams PROVE (TypeOK /\ EventChosen)'
  BY <1>32 DEF LockStreams
<1>33. ASSUME NEW c \in Conns, StopCloseStream(c) PROVE (TypeOK /\ EventChosen)'
  BY <1>33 DEF StopCloseStream
<1>34. ASSUME NEW c \in Conns, StopCloseReturns(c) PROVE (TypeOK /\ EventChosen)'
  BY <1>34 DEF StopCloseReturns
<1>35. ASSUME NEW j \in Timers, NEW c \in Conns, CloseReturns(j, c) PROVE (TypeOK /\ EventChosen)'
  BY <1>35 DEF CloseReturns
<1>31. CASE UNCHANGED vars
  BY <1>31 DEF vars
<1> QED
  BY <1>1, <1>2, <1>3, <1>4, <1>5, <1>6, <1>7, <1>8, <1>9, <1>10, <1>11, <1>12, <1>13,
     <1>14, <1>15, <1>16, <1>17, <1>18, <1>19, <1>20, <1>21, <1>22, <1>23, <1>24,
     <1>25, <1>26, <1>27, <1>28, <1>29, <1>30, <1>31, <1>32, <1>33, <1>34, <1>35
  DEF Next, Work, Handle

\* A job is a record of its type.
LEMMA JobTyped == ASSUME TypeOK, NEW j \in Jobs PROVE job[j] \in JobType
BY DEF TypeOK, JobType

\* What sendToClient leaves of a job: the lists it had, and either the place it
\* goes on from or the cleaning up after a failed write.
LEMMA Sent ==
    ASSUME TypeOK, NEW j \in Jobs, NEW c \in Conns, NEW J \in JobType, SendToClient(j, c, J)
    PROVE  /\ \A k \in Jobs : k # j => job'[k] = job[k]
           /\ job'[j].list = J.list /\ job'[j].warn = J.warn /\ job'[j].event = J.event
           /\ \/ job'[j].pc = J.pc /\ job'[j].at = J.at
              \/ job'[j].pc = "remove" /\ job'[j].at = c /\ UNCHANGED inbox
<1> DEFINE K == [J EXCEPT !.pc = "remove", !.at = c, !.then = J.pc]
<1>1. /\ K.list = J.list /\ K.warn = J.warn /\ K.event = J.event
      /\ K.pc = "remove" /\ K.at = c
  BY DEF JobType
<1>2. \/ job' = [job EXCEPT ![j] = J]
      \/ job' = [job EXCEPT ![j] = K] /\ UNCHANGED inbox
  BY DEF SendToClient
<1> HIDE DEF K
<1> QED
  BY <1>1, <1>2 DEF TypeOK

\* clientSessions_ and clientWsStreams_ stay together: whoever takes the stream
\* has taken the session first, and the session does not come back.
LEMMA MapsStep == TypeOK /\ TypeOK' /\ MapsParts /\ [Next]_vars => MapsParts'
<1> SUFFICES ASSUME TypeOK, TypeOK', MapsParts, [Next]_vars PROVE MapsParts'
  OBVIOUS
<1> USE Constants DEF MapsParts, SessionHasStream, StoppedIsClean, SessionPhase, StreamPhase,
      CollectedLate, EraseRemoved, StopPhase, running, Late, TypeOK, conns, maps, Jobs, Timers
<1>1. ASSUME NEW ok \in BOOLEAN, Start(ok) PROVE MapsParts'
  BY <1>1 DEF Start
<1>2. ASSUME Stop PROVE MapsParts'
  BY <1>2 DEF Stop
<1>3. ASSUME StopStreams PROVE MapsParts'
  BY <1>3 DEF StopStreams
<1>4. ASSUME StopSessions PROVE MapsParts'
  BY <1>4 DEF StopSessions
<1>5. ASSUME AcceptFails PROVE MapsParts'
  BY <1>5 DEF AcceptFails
<1>6. ASSUME Tick PROVE MapsParts'
  BY <1>6 DEF Tick
<1>7. ASSUME HeartbeatRound PROVE MapsParts'
  <2> DEFINE L == {c \in streams : /\ IsOpen(c) /\ sessions[c] # None
                                   /\ now - sessions[c].pong > HeartbeatTimeout}
             J == [Idle EXCEPT !.pc = "close", !.list = L]
  <2>1. job' = [job EXCEPT !["heartbeat"] = J]
    BY <1>7 DEF HeartbeatRound
  <2>2. \A c \in L : sessions[c] # None
    OBVIOUS
  <2> HIDE DEF L
  <2>3. J.list = L /\ J.warn = {} /\ J.at = None /\ J.pc = "close"
    BY DEF Idle
  <2> HIDE DEF J
  <2>4. /\ \A k \in Jobs : k # "heartbeat" => job'[k] = job[k]
        /\ \A c \in Conns : c \in job'["heartbeat"].list \cup job'["heartbeat"].warn => sessions[c] # None
        /\ job'["heartbeat"].at = None /\ job'["heartbeat"].pc # "erase"
    BY <2>1, <2>2, <2>3
  <2>5. UNCHANGED <<server, accepting, stopping, conns, maps>>
    BY <1>7 DEF HeartbeatRound
  <2> QED
    BY <2>4, <2>5
<1>8. ASSUME JwtExpiryRound PROVE MapsParts'
  <2> DEFINE J == [Idle EXCEPT !.pc = "warn", !.warn = Expiring, !.list = Expired]
  <2>1. job' = [job EXCEPT !["jwt"] = J]
    BY <1>8 DEF JwtExpiryRound
  <2>2. J.list = Expired /\ J.warn = Expiring /\ J.at = None /\ J.pc = "warn"
    BY DEF Idle
  <2>3. \A c \in Expired \cup Expiring : c \in Conns /\ sessions[c] # None
    BY DEF Expired, Expiring
  <2> HIDE DEF J
  <2>4. /\ \A k \in Jobs : k # "jwt" => job'[k] = job[k]
        /\ \A c \in Conns : c \in job'["jwt"].list \cup job'["jwt"].warn => sessions[c] # None
        /\ job'["jwt"].at = None /\ job'["jwt"].pc # "erase"
    BY <2>1, <2>2, <2>3
  <2>5. UNCHANGED <<server, accepting, stopping, conns, maps>>
    BY <1>8 DEF JwtExpiryRound
  <2> QED
    BY <2>4, <2>5
<1>9. ASSUME NEW e \in Events, BroadcastEvent(e) PROVE MapsParts'
  <2> DEFINE L == {c \in Conns : /\ sessions[c] # None /\ e.kind \in sessions[c].subs
                                 /\ IsClientAuthorizedForEvent(Token(c), e)}
             J == [Idle EXCEPT !.pc = "send", !.event = e, !.list = L]
  <2>1. job' = [job EXCEPT !["broadcast"] = J]
    BY <1>9 DEF BroadcastEvent
  <2>2. \A c \in L : c \in Conns /\ sessions[c] # None
    OBVIOUS
  <2> HIDE DEF L
  <2>3. J.list = L /\ J.warn = {} /\ J.at = None /\ J.pc = "send"
    BY DEF Idle
  <2> HIDE DEF J
  <2>4. /\ \A k \in Jobs : k # "broadcast" => job'[k] = job[k]
        /\ \A c \in Conns : c \in job'["broadcast"].list \cup job'["broadcast"].warn => sessions[c] # None
        /\ job'["broadcast"].at = None /\ job'["broadcast"].pc # "erase"
    BY <2>1, <2>2, <2>3
  <2>5. UNCHANGED <<server, accepting, stopping, conns, maps>>
    BY <1>9 DEF BroadcastEvent
  <2> QED
    BY <2>4, <2>5
<1>10. ASSUME NEW j \in Jobs, FinishRound(j) PROVE MapsParts'
  BY <1>10 DEF FinishRound, Idle
<1>11. ASSUME NEW j \in Jobs, NEW c \in Conns, RemoveSession(j, c) PROVE MapsParts'
  BY <1>11 DEF RemoveSession
<1>12. ASSUME NEW j \in Jobs, NEW c \in Conns, EraseStream(j, c) PROVE MapsParts'
  BY <1>12 DEF EraseStream
<1>13. ASSUME NEW j \in Timers, NEW c \in Conns, CloseSession(j, c) PROVE MapsParts'
  BY <1>13 DEF CloseSession
<1>14. ASSUME AllWarned PROVE MapsParts'
  BY <1>14 DEF AllWarned
<1>15. ASSUME NEW c \in Conns, SendTokenExpiring(c) PROVE MapsParts'
  <2> DEFINE J == [job["jwt"] EXCEPT !.warn = @ \ {c}, !.at = c, !.pc = "mark"]
  <2>1. J \in JobType
    BY JobTyped DEF JobType
  <2>2. J.list = job["jwt"].list /\ J.warn \subseteq job["jwt"].warn /\ J.at = c /\ J.pc = "mark"
    BY JobTyped DEF JobType
  <2>3. SendToClient("jwt", c, J)
    BY <1>15 DEF SendTokenExpiring
  <2> HIDE DEF J
  <2>4. /\ \A k \in Jobs : k # "jwt" => job'[k] = job[k]
        /\ job'["jwt"].list = job["jwt"].list /\ job'["jwt"].warn \subseteq job["jwt"].warn
        /\ job'["jwt"].at = c /\ job'["jwt"].pc # "erase"
    BY <2>1, <2>2, <2>3, Sent
  <2> QED
    BY <1>15, <2>4 DEF SendTokenExpiring
<1>16. ASSUME NEW c \in Conns, MarkTokenExpiringSent(c) PROVE MapsParts'
  BY <1>16 DEF MarkTokenExpiringSent
<1>17. ASSUME NEW c \in Conns, SendEvent(c) PROVE MapsParts'
  <2> DEFINE J == [job["broadcast"] EXCEPT !.list = @ \ {c}]
  <2>1. J \in JobType
    BY JobTyped DEF JobType
  <2>2. /\ J.list \subseteq job["broadcast"].list /\ J.warn = job["broadcast"].warn
        /\ J.at = job["broadcast"].at /\ J.pc = job["broadcast"].pc
    BY JobTyped DEF JobType
  <2>3. SendToClient("broadcast", c, J)
    BY <1>17 DEF SendEvent
  <2> HIDE DEF J
  <2>4. /\ \A k \in Jobs : k # "broadcast" => job'[k] = job[k]
        /\ job'["broadcast"].list \subseteq job["broadcast"].list
        /\ job'["broadcast"].warn = job["broadcast"].warn
        /\ job'["broadcast"].at \in {c, job["broadcast"].at} /\ job'["broadcast"].pc # "erase"
    BY <1>17, <2>1, <2>2, <2>3, Sent DEF SendEvent
  <2> QED
    BY <1>17, <2>4 DEF SendEvent
<1>18. ASSUME NEW c \in Conns, Route(c) PROVE MapsParts'
  BY <1>18 DEF Route, Leave
<1>19. ASSUME NEW c \in Conns, HandleClientConnection(c) PROVE MapsParts'
  BY <1>19 DEF HandleClientConnection, Leave
<1>20. ASSUME NEW c \in Conns, NEW known \in BOOLEAN, HandleNodeConnection(c, known) PROVE MapsParts'
  BY <1>20 DEF HandleNodeConnection, Leave
<1>21. ASSUME NEW c \in Conns, AddClientSession(c) PROVE MapsParts'
  BY <1>21 DEF AddClientSession
<1>22. ASSUME NEW c \in Conns, RegisterStream(c) PROVE MapsParts'
  BY <1>22 DEF RegisterStream
<1>23. ASSUME NEW c \in Conns, StartClientReadLoop(c) PROVE MapsParts'
  BY <1>23 DEF StartClientReadLoop
<1>24. ASSUME NEW c \in Conns, ReadFails(c) PROVE MapsParts'
  BY <1>24 DEF ReadFails
<1>25. ASSUME NEW c \in Conns, ForgetStream(c) PROVE MapsParts'
  BY <1>25 DEF ForgetStream
<1>26. ASSUME NEW c \in Conns, NodeReadEnds(c) PROVE MapsParts'
  BY <1>26 DEF NodeReadEnds, Leave
<1>27. ASSUME NEW c \in Conns, ClientDrops(c) PROVE MapsParts'
  BY <1>27 DEF ClientDrops
<1>28. ASSUME NEW c \in Conns, NEW ok \in BOOLEAN, AuthenticateEcies(c, ok) PROVE MapsParts'
  BY <1>28 DEF AuthenticateEcies, Leave
<1>29. ASSUME NEW c \in Conns, NEW r \in Requests, Accept(c, r) PROVE MapsParts'
  BY <1>29 DEF Accept
<1>30. ASSUME NEW c \in Conns, NEW k \in Topics, ReadCommand(c, k) PROVE MapsParts'
  BY <1>30 DEF ReadCommand, SubscribeClient, UnsubscribeClient
<1>32. ASSUME LockStreams PROVE MapsParts'
  BY <1>32 DEF LockStreams
<1>33. ASSUME NEW c \in Conns, StopCloseStream(c) PROVE MapsParts'
  BY <1>33 DEF StopCloseStream
<1>34. ASSUME NEW c \in Conns, StopCloseReturns(c) PROVE MapsParts'
  BY <1>34 DEF StopCloseReturns
<1>35. ASSUME NEW j \in Timers, NEW c \in Conns, CloseReturns(j, c) PROVE MapsParts'
  BY <1>35 DEF CloseReturns
<1>31. CASE UNCHANGED vars
  BY <1>31 DEF vars
<1> HIDE DEF MapsParts
<1> QED
  BY <1>1, <1>2, <1>3, <1>4, <1>5, <1>6, <1>7, <1>8, <1>9, <1>10, <1>11, <1>12, <1>13,
     <1>14, <1>15, <1>16, <1>17, <1>18, <1>19, <1>20, <1>21, <1>22, <1>23, <1>24,
     <1>25, <1>26, <1>27, <1>28, <1>29, <1>30, <1>31, <1>32, <1>33, <1>34, <1>35
  DEF Next, Work, Handle

\* A client was warned once, or not at all.
LEMMA NoneOrOne == TypeOK /\ WarnedOnce => \A c \in Conns : warnings[c] \in {0, 1}
<1> SUFFICES ASSUME TypeOK, WarnedOnce, NEW c \in Conns PROVE warnings[c] \in {0, 1}
  OBVIOUS
<1>1. warnings[c] \in Nat /\ warnings[c] <= 1
  BY DEF TypeOK, WarnedOnce
<1> QED
  BY <1>1

\* Between the warning and the mark nobody collects the session again: the one
\* that collects is the one that marks.
LEMMA WarnStep ==
    TypeOK /\ TypeOK' /\ MapsParts /\ WarnParts /\ [Next]_vars => WarnParts'
<1> SUFFICES ASSUME TypeOK, TypeOK', MapsParts, WarnParts, [Next]_vars PROVE WarnParts'
  OBVIOUS
<1> USE Constants DEF MapsParts, WarnParts, SessionPhase, CollectedLate, 
      WarningMarked, WarnedOnce, ReachedLate, Late, TypeOK, conns, maps, inbox, Jobs, Timers
<1>1. ASSUME NEW ok \in BOOLEAN, Start(ok) PROVE WarnParts'
  BY <1>1 DEF Start
<1>2. ASSUME Stop PROVE WarnParts'
  BY <1>2 DEF Stop
<1>3. ASSUME StopStreams PROVE WarnParts'
  BY <1>3 DEF StopStreams
<1>4. ASSUME StopSessions PROVE WarnParts'
  BY <1>4 DEF StopSessions
<1>5. ASSUME AcceptFails PROVE WarnParts'
  BY <1>5 DEF AcceptFails
<1>6. ASSUME Tick PROVE WarnParts'
  BY <1>6 DEF Tick
<1>7. ASSUME HeartbeatRound PROVE WarnParts'
  BY <1>7 DEF HeartbeatRound, Idle
<1>8. ASSUME JwtExpiryRound PROVE WarnParts'
  <2> DEFINE J == [Idle EXCEPT !.pc = "warn", !.warn = Expiring, !.list = Expired]
  <2>1. job' = [job EXCEPT !["jwt"] = J] /\ job["jwt"].pc = "idle" /\ UNCHANGED <<conns, maps, inbox>>
    BY <1>8 DEF JwtExpiryRound
  <2>2. J.warn = Expiring
    BY DEF Idle
  <2>3. \A c \in Expiring : c \in Conns /\ sessions[c] # None /\ ~sessions[c].warned
    BY DEF Expiring
  <2> HIDE DEF J
  <2>4. job'["jwt"].warn = Expiring
    BY <2>1, <2>2
  <2>5. \A c \in Conns : warnings[c] = 1 /\ sessions[c] # None => sessions[c].warned
    BY <2>1
  <2>6. \A c \in Expiring : warnings[c] = 0
    <3>1. \A c \in Conns : warnings[c] \in {0, 1}
      BY NoneOrOne
    <3> QED
      BY <2>3, <2>5, <3>1, Zenon
  <2> QED
    BY <2>1, <2>4, <2>5, <2>6
<1>9. ASSUME NEW e \in Events, BroadcastEvent(e) PROVE WarnParts'
  BY <1>9 DEF BroadcastEvent, Idle
<1>10. ASSUME NEW j \in Jobs, FinishRound(j) PROVE WarnParts'
  BY <1>10 DEF FinishRound, Idle
<1>11. ASSUME NEW j \in Jobs, NEW c \in Conns, RemoveSession(j, c) PROVE WarnParts'
  BY <1>11 DEF RemoveSession
<1>12. ASSUME NEW j \in Jobs, NEW c \in Conns, EraseStream(j, c) PROVE WarnParts'
  BY <1>12 DEF EraseStream
<1>13. ASSUME NEW j \in Timers, NEW c \in Conns, CloseSession(j, c) PROVE WarnParts'
  BY <1>13 DEF CloseSession
<1>14. ASSUME AllWarned PROVE WarnParts'
  BY <1>14 DEF AllWarned
<1>15. ASSUME NEW c \in Conns, SendTokenExpiring(c) PROVE WarnParts'
  <2> DEFINE J == [job["jwt"] EXCEPT !.warn = @ \ {c}, !.at = c, !.pc = "mark"]
  <2>1. J \in JobType
    BY JobTyped DEF JobType
  <2>2. J.warn = job["jwt"].warn \ {c} /\ J.at = c /\ J.pc = "mark"
    BY JobTyped DEF JobType
  <2>3. SendToClient("jwt", c, J)
    BY <1>15 DEF SendTokenExpiring
  <2>4. heard' = heard /\ warnings' \in {warnings, [warnings EXCEPT ![c] = @ + 1]}
    BY <2>3 DEF SendToClient
  <2> HIDE DEF J
  <2>5. /\ job'["jwt"].warn = job["jwt"].warn \ {c}
        /\ job'["jwt"].at = c
        /\ job'["jwt"].pc = "mark" \/ warnings' = warnings
    BY <2>1, <2>2, <2>3, Sent
  <2>6. /\ job["jwt"].pc = "warn" /\ c \in job["jwt"].warn /\ UNCHANGED <<phase, maps>>
    BY <1>15 DEF SendTokenExpiring
  <2>7. warnings[c] = 0 /\ phase[c] \in Late
    BY <2>6
  <2> QED
    BY <2>4, <2>5, <2>6, <2>7
<1>16. ASSUME NEW c \in Conns, MarkTokenExpiringSent(c) PROVE WarnParts'
  BY <1>16 DEF MarkTokenExpiringSent, Session
<1>17. ASSUME NEW c \in Conns, SendEvent(c) PROVE WarnParts'
  BY <1>17 DEF SendEvent, SendToClient
<1>18. ASSUME NEW c \in Conns, Route(c) PROVE WarnParts'
  BY <1>18 DEF Route, Leave
<1>19. ASSUME NEW c \in Conns, HandleClientConnection(c) PROVE WarnParts'
  BY <1>19 DEF HandleClientConnection, Leave
<1>20. ASSUME NEW c \in Conns, NEW known \in BOOLEAN, HandleNodeConnection(c, known) PROVE WarnParts'
  BY <1>20 DEF HandleNodeConnection, Leave
<1>21. ASSUME NEW c \in Conns, AddClientSession(c) PROVE WarnParts'
  BY <1>21 DEF AddClientSession, Session
<1>22. ASSUME NEW c \in Conns, RegisterStream(c) PROVE WarnParts'
  BY <1>22 DEF RegisterStream
<1>23. ASSUME NEW c \in Conns, StartClientReadLoop(c) PROVE WarnParts'
  BY <1>23 DEF StartClientReadLoop
<1>24. ASSUME NEW c \in Conns, ReadFails(c) PROVE WarnParts'
  BY <1>24 DEF ReadFails
<1>25. ASSUME NEW c \in Conns, ForgetStream(c) PROVE WarnParts'
  BY <1>25 DEF ForgetStream
<1>26. ASSUME NEW c \in Conns, NodeReadEnds(c) PROVE WarnParts'
  BY <1>26 DEF NodeReadEnds, Leave
<1>27. ASSUME NEW c \in Conns, ClientDrops(c) PROVE WarnParts'
  BY <1>27 DEF ClientDrops
<1>28. ASSUME NEW c \in Conns, NEW ok \in BOOLEAN, AuthenticateEcies(c, ok) PROVE WarnParts'
  BY <1>28 DEF AuthenticateEcies, Leave
<1>29. ASSUME NEW c \in Conns, NEW r \in Requests, Accept(c, r) PROVE WarnParts'
  BY <1>29 DEF Accept
<1>30. ASSUME NEW c \in Conns, NEW k \in Topics, ReadCommand(c, k) PROVE WarnParts'
  BY <1>30 DEF ReadCommand, SubscribeClient, UnsubscribeClient, Session
<1>32. ASSUME LockStreams PROVE WarnParts'
  BY <1>32 DEF LockStreams
<1>33. ASSUME NEW c \in Conns, StopCloseStream(c) PROVE WarnParts'
  BY <1>33 DEF StopCloseStream
<1>34. ASSUME NEW c \in Conns, StopCloseReturns(c) PROVE WarnParts'
  BY <1>34 DEF StopCloseReturns
<1>35. ASSUME NEW j \in Timers, NEW c \in Conns, CloseReturns(j, c) PROVE WarnParts'
  BY <1>35 DEF CloseReturns
<1>31. CASE UNCHANGED vars
  BY <1>31 DEF vars
<1> HIDE DEF WarnParts
<1> QED
  BY <1>1, <1>2, <1>3, <1>4, <1>5, <1>6, <1>7, <1>8, <1>9, <1>10, <1>11, <1>12, <1>13,
     <1>14, <1>15, <1>16, <1>17, <1>18, <1>19, <1>20, <1>21, <1>22, <1>23, <1>24,
     <1>25, <1>26, <1>27, <1>28, <1>29, <1>30, <1>31, <1>32, <1>33, <1>34, <1>35
  DEF Next, Work, Handle

\* Everything but the sending leaves what clients have heard alone.
Elsewhere == (\E c \in Conns : SendEvent(c) \/ SendTokenExpiring(c)) \/ heard' = heard
LEMMA OnlySent == Next => Elsewhere
BY DEF Next, Work, Handle, Elsewhere, inbox,
       Start, Stop, LockStreams, StopCloseStream, StopCloseReturns, StopStreams, StopSessions,
       AcceptFails, Tick, HeartbeatRound, JwtExpiryRound, BroadcastEvent, FinishRound, RemoveSession,
       EraseStream, CloseSession, CloseReturns, AllWarned, MarkTokenExpiringSent, Route,
       HandleClientConnection, HandleNodeConnection, AddClientSession, RegisterStream,
       StartClientReadLoop, ReadFails, ForgetStream, NodeReadEnds, ClientDrops, AuthenticateEcies,
       Accept, ReadCommand

\* A broadcast collects who is subscribed, and only who is read from subscribes.
LEMMA QuietStep ==
    TypeOK /\ TypeOK' /\ MapsParts /\ QuietParts /\ [Next]_vars => QuietParts'
<1> SUFFICES ASSUME TypeOK, TypeOK', MapsParts, QuietParts, [Next]_vars PROVE QuietParts'
  OBVIOUS
<1> USE Constants DEF MapsParts, QuietParts, Unaddressed, StreamsPassed, CollectedLate, StopPhase, running,
      Late, TypeOK, conns, maps, Jobs, Timers
<1>1. ASSUME NEW ok \in BOOLEAN, Start(ok) PROVE QuietParts'
  BY <1>1 DEF Start
<1>2. ASSUME Stop PROVE QuietParts'
  BY <1>2 DEF Stop
<1>3. ASSUME StopStreams PROVE QuietParts'
  BY <1>3 DEF StopStreams
<1>4. ASSUME StopSessions PROVE QuietParts'
  BY <1>4 DEF StopSessions
<1>5. ASSUME AcceptFails PROVE QuietParts'
  BY <1>5 DEF AcceptFails
<1>6. ASSUME Tick PROVE QuietParts'
  BY <1>6 DEF Tick
<1>7. ASSUME HeartbeatRound PROVE QuietParts'
  BY <1>7 DEF HeartbeatRound, Idle
<1>8. ASSUME JwtExpiryRound PROVE QuietParts'
  BY <1>8 DEF JwtExpiryRound, Idle
<1>9. ASSUME NEW e \in Events, BroadcastEvent(e) PROVE QuietParts'
  <2> DEFINE L == {c \in Conns : /\ sessions[c] # None /\ e.kind \in sessions[c].subs
                                 /\ IsClientAuthorizedForEvent(Token(c), e)}
             J == [Idle EXCEPT !.pc = "send", !.event = e, !.list = L]
  <2>1. job' = [job EXCEPT !["broadcast"] = J] /\ UNCHANGED <<server, stopping, conns, maps>>
    BY <1>9 DEF BroadcastEvent
  <2>2. \A c \in L : sessions[c] # None /\ sessions[c].subs # {}
    OBVIOUS
  <2> HIDE DEF L
  <2>3. J.list = L
    BY DEF Idle
  <2> HIDE DEF J
  <2>4. job'["broadcast"].list = L
    BY <2>1, <2>3
  <2> QED
    BY <2>1, <2>2, <2>4
<1>10. ASSUME NEW j \in Jobs, FinishRound(j) PROVE QuietParts'
  BY <1>10 DEF FinishRound, Idle
<1>11. ASSUME NEW j \in Jobs, NEW c \in Conns, RemoveSession(j, c) PROVE QuietParts'
  BY <1>11 DEF RemoveSession
<1>12. ASSUME NEW j \in Jobs, NEW c \in Conns, EraseStream(j, c) PROVE QuietParts'
  BY <1>12 DEF EraseStream
<1>13. ASSUME NEW j \in Timers, NEW c \in Conns, CloseSession(j, c) PROVE QuietParts'
  BY <1>13 DEF CloseSession
<1>14. ASSUME AllWarned PROVE QuietParts'
  BY <1>14 DEF AllWarned
<1>15. ASSUME NEW c \in Conns, SendTokenExpiring(c) PROVE QuietParts'
  <2> DEFINE J == [job["jwt"] EXCEPT !.warn = @ \ {c}, !.at = c, !.pc = "mark"]
  <2>1. J \in JobType
    BY JobTyped DEF JobType
  <2>2. SendToClient("jwt", c, J)
    BY <1>15 DEF SendTokenExpiring
  <2> HIDE DEF J
  <2>3. job'["broadcast"] = job["broadcast"]
    BY <2>1, <2>2, Sent
  <2>4. UNCHANGED <<server, stopping, phase, maps>>
    BY <1>15 DEF SendTokenExpiring
  <2> QED
    BY <2>3, <2>4
<1>16. ASSUME NEW c \in Conns, MarkTokenExpiringSent(c) PROVE QuietParts'
  BY <1>16 DEF MarkTokenExpiringSent, Session
<1>17. ASSUME NEW c \in Conns, SendEvent(c) PROVE QuietParts'
  <2> DEFINE J == [job["broadcast"] EXCEPT !.list = @ \ {c}]
  <2>1. J \in JobType /\ J.list \subseteq job["broadcast"].list
    BY JobTyped DEF JobType
  <2>2. SendToClient("broadcast", c, J)
    BY <1>17 DEF SendEvent
  <2> HIDE DEF J
  <2>3. job'["broadcast"].list \subseteq job["broadcast"].list
    BY <2>1, <2>2, Sent
  <2>4. UNCHANGED <<server, stopping, phase, maps>>
    BY <1>17 DEF SendEvent
  <2> QED
    BY <2>3, <2>4
<1>18. ASSUME NEW c \in Conns, Route(c) PROVE QuietParts'
  BY <1>18 DEF Route, Leave
<1>19. ASSUME NEW c \in Conns, HandleClientConnection(c) PROVE QuietParts'
  BY <1>19 DEF HandleClientConnection, Leave
<1>20. ASSUME NEW c \in Conns, NEW known \in BOOLEAN, HandleNodeConnection(c, known) PROVE QuietParts'
  BY <1>20 DEF HandleNodeConnection, Leave
<1>21. ASSUME NEW c \in Conns, AddClientSession(c) PROVE QuietParts'
  BY <1>21 DEF AddClientSession
<1>22. ASSUME NEW c \in Conns, RegisterStream(c) PROVE QuietParts'
  BY <1>22 DEF RegisterStream
<1>23. ASSUME NEW c \in Conns, StartClientReadLoop(c) PROVE QuietParts'
  BY <1>23 DEF StartClientReadLoop
<1>24. ASSUME NEW c \in Conns, ReadFails(c) PROVE QuietParts'
  BY <1>24 DEF ReadFails
<1>25. ASSUME NEW c \in Conns, ForgetStream(c) PROVE QuietParts'
  BY <1>25 DEF ForgetStream
<1>26. ASSUME NEW c \in Conns, NodeReadEnds(c) PROVE QuietParts'
  BY <1>26 DEF NodeReadEnds, Leave
<1>27. ASSUME NEW c \in Conns, ClientDrops(c) PROVE QuietParts'
  BY <1>27 DEF ClientDrops
<1>28. ASSUME NEW c \in Conns, NEW ok \in BOOLEAN, AuthenticateEcies(c, ok) PROVE QuietParts'
  BY <1>28 DEF AuthenticateEcies, Leave
<1>29. ASSUME NEW c \in Conns, NEW r \in Requests, Accept(c, r) PROVE QuietParts'
  BY <1>29 DEF Accept
<1>30. ASSUME NEW c \in Conns, NEW k \in Topics, ReadCommand(c, k) PROVE QuietParts'
  BY <1>30 DEF ReadCommand, SubscribeClient, UnsubscribeClient
<1>32. ASSUME LockStreams PROVE QuietParts'
  BY <1>32 DEF LockStreams
<1>33. ASSUME NEW c \in Conns, StopCloseStream(c) PROVE QuietParts'
  BY <1>33 DEF StopCloseStream
<1>34. ASSUME NEW c \in Conns, StopCloseReturns(c) PROVE QuietParts'
  BY <1>34 DEF StopCloseReturns
<1>35. ASSUME NEW j \in Timers, NEW c \in Conns, CloseReturns(j, c) PROVE QuietParts'
  BY <1>35 DEF CloseReturns
<1>31. CASE UNCHANGED vars
  BY <1>31 DEF vars
<1> HIDE DEF QuietParts
<1> QED
  BY <1>1, <1>2, <1>3, <1>4, <1>5, <1>6, <1>7, <1>8, <1>9, <1>10, <1>11, <1>12, <1>13,
     <1>14, <1>15, <1>16, <1>17, <1>18, <1>19, <1>20, <1>21, <1>22, <1>23, <1>24,
     <1>25, <1>26, <1>27, <1>28, <1>29, <1>30, <1>31, <1>32, <1>33, <1>34, <1>35
  DEF Next, Work, Handle

-----------------------------------------------------------------------------
\* The invariant holds initially and every step of every handler keeps it.
THEOREM IInvHolds == Spec => []IInv
<1>1. Init => IInv
  <2> SUFFICES ASSUME Init PROVE IInv
    OBVIOUS
  <2> USE Constants DEF Init, Idle
  <2>1. TypeOK /\ EventChosen
    <3>1. Idle \in JobType /\ Idle.list = {}
      BY DEF JobType
    <3>2. job \in [Jobs -> JobType] /\ EventChosen
      BY <3>1 DEF EventChosen, Jobs
    <3>3. accepting \in BOOLEAN
      BY Zenon
    <3>4. now \in 0..MaxTime /\ starts \in 0..MaxStarts /\ broadcasts \in 0..MaxBroadcasts /\ drops \in 0..MaxDrops
      OBVIOUS
    <3> QED
      BY <3>2, <3>3, <3>4 DEF TypeOK, JobType
  <2>2. MapsParts
    BY DEF MapsParts, SessionHasStream, StoppedIsClean, SessionPhase, StreamPhase,
           CollectedLate, EraseRemoved, StopPhase, Jobs
  <2>3. WarnParts
    BY DEF WarnParts, WarningMarked, WarnedOnce, ReachedLate, Jobs
  <2>4. QuietParts
    BY DEF QuietParts, Unaddressed, Jobs
  <2> QED
    BY <2>1, <2>2, <2>3, <2>4 DEF IInv
<1>2. IInv /\ [Next]_vars => IInv'
  BY TypeStep, MapsStep, WarnStep, QuietStep DEF IInv
<1> QED
  BY <1>1, <1>2, PTL DEF Spec

\* For any number of connections, restarts and broadcasts, clientSessions_ and
\* clientWsStreams_ agree as far as the code can keep them together: a session
\* has a stream, or gets one next, or stop() is about to drop it, and a stopped
\* server knows only clients it does not read from.
THEOREM ServerInvHolds == Spec => []ServerInv
<1>1. IInv => ServerInv
  BY DEF IInv, MapsParts, ServerInv
<1> QED
  BY <1>1, IInvHolds, PTL

\* However the sending and the marking are interleaved with readers, other
\* timers and stop(), auth:token_expiring reaches a client at most once.
THEOREM WarnedOnceHolds == Spec => []WarnedOnce
<1>1. IInv => WarnedOnce
  BY DEF IInv, WarnParts
<1> QED
  BY <1>1, IInvHolds, PTL

\* However out of date broadcastEvent's list is, and whatever is still being set
\* up, no client hears of an event once stop() has returned.
THEOREM StoppedIsQuietHolds == Spec => StoppedIsQuiet
<1>1. IInv /\ [Next]_vars => [~running /\ stopping = "no" => heard' = heard]_vars
  <2> SUFFICES ASSUME IInv, Next, ~running, stopping = "no" PROVE heard' = heard
    BY DEF vars, inbox
  <2>1. ASSUME NEW c \in Conns, SendEvent(c) PROVE heard' = heard
    <3>1. c \notin streams
      BY <2>1 DEF SendEvent, IInv, QuietParts, StreamsPassed, Unaddressed
    <3> QED
      BY <2>1, <3>1 DEF SendEvent, SendToClient, inbox
  <2>2. ASSUME NEW c \in Conns, SendTokenExpiring(c) PROVE heard' = heard
    BY <2>2 DEF SendTokenExpiring, SendToClient, inbox
  <2> QED
    BY <2>1, <2>2, OnlySent DEF Elsewhere
<1> QED
  BY <1>1, IInvHolds, PTL DEF Spec, StoppedIsQuiet
=============================================================================
