---------------------------- MODULE RetryService ----------------------------
(***************************************************************************)
(* Tracking of message deliveries, with retries and exponential backoff    *)
(* (gossip/retry_service.cpp).  Every operation runs under deliveryMutex_, *)
(* so each is one action.  Time is counted in periods of the 1 s timer:    *)
(* wait is what is left until nextRetryAt, age what has passed since       *)
(* trackDelivery.  The re-announcement itself is not in the code yet.      *)
(*                                                                         *)
(* A delivery that is no longer tracked keeps its last statuses here, for  *)
(* the properties; the code erases it.                                     *)
(***************************************************************************)
EXTENDS Naturals

CONSTANTS Msgs, Recips,
          RecipientSets,     \* the recipient lists deliveries are tracked with
          InitialTimeout, Multiplier, MaxRetries, MaxBackoff,   \* RetryConfig
          MaxStops,          \* bound on the stops of the service
          Horizon            \* ages are counted up to here

ASSUME RetryAssumption ==
    /\ RecipientSets \subseteq SUBSET Recips
    /\ InitialTimeout \in Nat \ {0}
    /\ Multiplier \in Nat \ {0}
    /\ MaxRetries \in Nat \ {0}
    /\ MaxBackoff \in Nat \ {0}
    /\ MaxStops \in Nat
    /\ Horizon \in Nat

VARIABLES tracked,   \* keys of pendingDeliveries_
          status,    \* recipientStatuses of each message
          count,     \* retryCount
          wait, age,
          running,   \* the timer is scheduled
          acked,     \* recipients whose "delivered" ack came after the first retry
          failed,    \* recipients the failure handlers were told of
          stops

vars == <<tracked, status, count, wait, age, running, acked, failed, stops>>

\* DeliveryStatus, and "none" for who is not a recipient of the message.
Statuses == {"Announced", "Pending", "Delivered", "Read", "Failed", "Bounced", "none"}

\* Ack statuses and what handleAck maps them to.
Acks == {"Delivered", "Read", "Failed", "Bounced"}

Init ==
    /\ tracked = {}
    /\ status = [m \in Msgs |-> [r \in Recips |-> "none"]]
    /\ count = [m \in Msgs |-> 0]
    /\ wait = [m \in Msgs |-> 0]
    /\ age = [m \in Msgs |-> 0]
    /\ running = FALSE
    /\ acked = [m \in Msgs |-> {}]
    /\ failed = [m \in Msgs |-> {}]
    /\ stops = 0

-----------------------------------------------------------------------------
\* Mutant: acks are accepted at any time.
ValidTransitionAny(from, to) == from # "none"

ValidTransition(from, to) ==
    \/ from = "Announced" /\ to = "Pending"
    \/ from = "Pending" /\ to \in {"Delivered", "Failed", "Bounced"}
    \/ from = "Delivered" /\ to = "Read"

\* std::pow of the multiplier.
Pow[n \in Nat] == IF n = 0 THEN 1 ELSE Multiplier * Pow[n - 1]

\* Mutant: the exponent is the retry count, not one less.
BackoffOneMore(k) ==
    LET delay == InitialTimeout * Pow[k]
    IN  IF delay > MaxBackoff THEN MaxBackoff ELSE delay

\* calculateBackoff for the k-th retry.
Backoff(k) ==
    LET delay == InitialTimeout * Pow[k - 1]
    IN  IF delay > MaxBackoff THEN MaxBackoff ELSE delay

\* trackDelivery; emplace leaves a delivery that is tracked already alone.
TrackDelivery(m, R) ==
    /\ m \notin tracked
    /\ tracked' = tracked \cup {m}
    /\ status' = [status EXCEPT ![m] =
           [r \in Recips |-> IF r \in R THEN "Announced" ELSE "none"]]
    /\ count' = [count EXCEPT ![m] = 0]
    /\ wait' = [wait EXCEPT ![m] = InitialTimeout]
    /\ age' = [age EXCEPT ![m] = 0]
    /\ acked' = [acked EXCEPT ![m] = {}]
    /\ failed' = [failed EXCEPT ![m] = {}]
    /\ UNCHANGED <<running, stops>>

\* Mutant: the delivery is removed as soon as somebody has it.
AnyDone(st) == \E r \in Recips : st[r] \in {"Delivered", "Read"}

\* All recipients are Delivered or Read.
AllDone(st) == \A r \in Recips : st[r] \in {"Delivered", "Read", "none"}

\* handleAck of a tracked message from one of its recipients; an ack of
\* anything else, or of an unknown status, returns early.
HandleAck(m, r, to) ==
    /\ m \in tracked
    /\ status[m][r] # "none"
    /\ acked' = [acked EXCEPT ![m] = IF to = "Delivered" /\ count[m] > 0 THEN @ \cup {r} ELSE @]
    /\ status' = IF ValidTransition(status[m][r], to)
                 THEN [status EXCEPT ![m] = [@ EXCEPT ![r] = to]]
                 ELSE status
    /\ tracked' = IF ValidTransition(status[m][r], to) /\ AllDone(status'[m])
                  THEN tracked \ {m} ELSE tracked
    /\ UNCHANGED <<count, wait, age, running, failed, stops>>

-----------------------------------------------------------------------------
Due(m) == m \in tracked /\ wait[m] <= 1
Exhausted(m) == Due(m) /\ count[m] + 1 > MaxRetries
Retried(m) == Due(m) /\ ~Exhausted(m)

\* Mutant: whoever has not read the message counts as unreached.
Unread(m) == {r \in Recips : status[m][r] \in {"Announced", "Pending", "Delivered"}}

Unacknowledged(m) == {r \in Recips : status[m][r] \in {"Announced", "Pending"}}

\* What checkRetries makes of the statuses of a message.
CheckedStatus(m) ==
    [r \in Recips |->
        IF Exhausted(m) /\ status[m][r] \in {"Announced", "Pending"} THEN "Failed"
        ELSE IF Retried(m) /\ status[m][r] = "Announced" THEN "Pending"
        ELSE status[m][r]]

\* Mutant: an exhausted delivery stays in the table.
StillTrackedAll == tracked

StillTracked == {m \in tracked : ~Exhausted(m)}

Older(n) == IF n < Horizon THEN n + 1 ELSE Horizon

\* The timer fires: checkRetries, and the timer is set again.
CheckRetries ==
    /\ running
    /\ tracked' = StillTracked
    /\ status' = [m \in Msgs |-> CheckedStatus(m)]
    /\ count' = [m \in Msgs |-> IF Retried(m) THEN count[m] + 1 ELSE count[m]]
    /\ wait' = [m \in Msgs |-> IF Retried(m) THEN Backoff(count[m] + 1)
                               ELSE IF wait[m] = 0 THEN 0 ELSE wait[m] - 1]
    /\ age' = [m \in Msgs |-> IF m \in tracked THEN Older(age[m]) ELSE age[m]]
    /\ failed' = [m \in Msgs |-> IF Exhausted(m) THEN Unacknowledged(m) ELSE failed[m]]
    /\ UNCHANGED <<running, acked, stops>>

\* Time goes by while the service is stopped.
TimePasses ==
    /\ ~running
    /\ \E m \in tracked : wait[m] > 0
    /\ wait' = [m \in Msgs |-> IF wait[m] = 0 THEN 0 ELSE wait[m] - 1]
    /\ age' = [m \in Msgs |-> IF m \in tracked /\ wait[m] > 0 THEN Older(age[m]) ELSE age[m]]
    /\ UNCHANGED <<tracked, status, count, running, acked, failed, stops>>

Start ==
    /\ ~running
    /\ running' = TRUE
    /\ UNCHANGED <<tracked, status, count, wait, age, acked, failed, stops>>

Stop ==
    /\ running /\ stops < MaxStops
    /\ running' = FALSE
    /\ stops' = stops + 1
    /\ UNCHANGED <<tracked, status, count, wait, age, acked, failed>>

Next ==
    \/ \E m \in Msgs, R \in RecipientSets : TrackDelivery(m, R)
    \/ \E m \in Msgs, r \in Recips, to \in Acks : HandleAck(m, r, to)
    \/ CheckRetries \/ TimePasses \/ Start \/ Stop

Spec == Init /\ [][Next]_vars

\* The io_context that runs the timer's handler is served by a thread.
FairSpec == Spec /\ WF_vars(CheckRetries)

-----------------------------------------------------------------------------
TypeOK ==
    /\ tracked \in SUBSET Msgs
    /\ status \in [Msgs -> [Recips -> Statuses]]
    /\ count \in [Msgs -> 0..MaxRetries]
    /\ running \in BOOLEAN
    /\ acked \in [Msgs -> SUBSET Recips]
    /\ failed \in [Msgs -> SUBSET Recips]
    /\ stops \in 0..MaxStops

\* The retry count and the statuses move together: before the first retry all
\* recipients are Announced, after it none is.  This is what keeps the expiry
\* loop of checkRetries, which would also fail an Announced recipient, inside
\* the state machine.
CountMatchesStatus == \A m \in tracked, r \in Recips :
    /\ count[m] = 0 => status[m][r] \in {"Announced", "none"}
    /\ count[m] > 0 => status[m][r] # "Announced"

\* A message that is not tracked any more has been accounted for: every
\* recipient is Delivered, Read, Bounced or Failed.
AllAccounted == \A m \in Msgs \ tracked, r \in Recips :
    status[m][r] \notin {"Announced", "Pending"}

\* The failure handlers hear of a recipient only when the message is given
\* up, and then that recipient has not been recorded Delivered or Read.
FailedIsFailed == \A m \in Msgs :
    /\ m \in tracked => failed[m] = {}
    /\ \A r \in failed[m] : status[m][r] = "Failed"

RetryInv == TypeOK /\ CountMatchesStatus /\ AllAccounted /\ FailedIsFailed

\* An ack races the timer: once a retry has made the recipients Pending, who
\* says that it has the message is never reported as failed, whatever the
\* order of later acks and retries (handleAck, checkRetries).  An ack before
\* the first retry, which validateTransition drops, earns no such promise.
AckIsHeeded == \A m \in Msgs : \A r \in acked[m] :
    r \notin failed[m] /\ status[m][r] \notin {"Announced", "Pending"}

\* The status of a recipient moves only along the state machine of
\* DeliveryStatus, in acks and in retries alike.
StatusMoves == \A m \in tracked, r \in Recips :
    status'[m][r] # status[m][r] =>
        \/ status[m][r] = "Announced" /\ status'[m][r] = "Pending"
        \/ status[m][r] = "Pending" /\ status'[m][r] \in {"Delivered", "Failed", "Bounced"}
        \/ status[m][r] = "Delivered" /\ status'[m][r] = "Read"
StatusMachine == [][StatusMoves]_vars

\* When the k-th retry is due after trackDelivery, if the timer never stops:
\* after the initial timeout, and then after delays that start at the initial
\* timeout and grow by the multiplier, none of them longer than the cap.
Delay[j \in Nat] == IF j <= 1 THEN InitialTimeout ELSE Multiplier * Delay[j - 1]
DueTimes[k \in Nat] ==
    IF k = 0 THEN InitialTimeout
    ELSE DueTimes[k - 1] + (IF Delay[k] < MaxBackoff THEN Delay[k] ELSE MaxBackoff)

\* Ages are counted long enough for the last retry to be late.
ASSUME HorizonAssumption == Horizon >= DueTimes[MaxRetries] + MaxStops + 1

\* Retries come on schedule (calculateBackoff, checkRetries): never early, and
\* late by one timer period at most for each time the service was down.  Time
\* that an overdue delivery spends while the service is down does not count.
OnSchedule == \A m \in tracked :
    age[m] + wait[m] \in DueTimes[count[m]] .. DueTimes[count[m]] + stops + 1

\* Every tracked delivery is resolved in the end, acknowledged or given up,
\* as long as the service runs.
EventuallyResolved == \A m \in Msgs :
    (m \in tracked) ~> (m \notin tracked \/ ~running)

=============================================================================
