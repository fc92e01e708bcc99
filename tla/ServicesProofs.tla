--------------------------- MODULE ServicesProofs ---------------------------
(***************************************************************************)
(* The retry service, for any messages, recipients and settings; discovery *)
(* and its filters, for any peers, blocks and digests; queries and updates *)
(* of documents, for any fields and values.                                *)
(***************************************************************************)
EXTENDS RetryService, Services, FiniteSetTheorems, SequenceTheorems,
        WellFoundedInduction, TLAPS

(***************************************************************************)
(* The retry service.                                                      *)
(***************************************************************************)

USE RetryAssumption

\* With nothing tracked the invariant holds.
LEMMA RetryInit ==
    ASSUME Init
    PROVE  RetryInv
<1>1. TypeOK
  <2>1. running \in BOOLEAN
    BY DEF Init
  <2>2. tracked \in SUBSET Msgs /\ status \in [Msgs -> [Recips -> Statuses]]
    BY DEF Init, Statuses
  <2>3. count \in [Msgs -> 0..MaxRetries] /\ stops \in 0..MaxStops
    BY DEF Init
  <2>4. acked \in [Msgs -> SUBSET Recips] /\ failed \in [Msgs -> SUBSET Recips]
    BY DEF Init
  <2> QED BY <2>1, <2>2, <2>3, <2>4 DEF TypeOK
<1>2. CountMatchesStatus /\ AllAccounted /\ FailedIsFailed
  BY DEF Init, CountMatchesStatus, AllAccounted, FailedIsFailed
<1> QED BY <1>1, <1>2 DEF RetryInv

\* trackDelivery: a new delivery has retry count 0 and Announced recipients.
LEMMA TrackStep ==
    ASSUME RetryInv, NEW m \in Msgs, NEW R \in RecipientSets, TrackDelivery(m, R)
    PROVE  RetryInv'
<1> USE DEF RetryInv
<1>1. TypeOK'
  BY DEF TypeOK, TrackDelivery, Statuses
<1>2. CountMatchesStatus'
  BY DEF TypeOK, CountMatchesStatus, TrackDelivery
<1>3. AllAccounted'
  BY DEF TypeOK, AllAccounted, TrackDelivery
<1>4. FailedIsFailed'
  BY DEF TypeOK, FailedIsFailed, TrackDelivery
<1> QED BY <1>1, <1>2, <1>3, <1>4

\* An ack leaves a message alone, or moves one recipient out of Pending or
\* Delivered; in both cases before the first retry nothing moves.
LEMMA AckMoves ==
    ASSUME RetryInv, NEW m \in Msgs, NEW r \in Recips, NEW to \in Acks, HandleAck(m, r, to)
    PROVE  /\ status' \in [Msgs -> [Recips -> Statuses]]
           /\ \A n \in Msgs, s \in Recips :
                 \/ status'[n][s] = status[n][s]
                 \/ /\ n = m /\ s = r /\ status'[n][s] = to
                    /\ ValidTransition(status[m][r], to)
<1>1. status \in [Msgs -> [Recips -> Statuses]]
  BY DEF RetryInv, TypeOK
<1>2. CASE ~ValidTransition(status[m][r], to)
  BY <1>1, <1>2 DEF HandleAck
<1>3. CASE ValidTransition(status[m][r], to)
  <2>1. status' = [status EXCEPT ![m] = [status[m] EXCEPT ![r] = to]]
    BY <1>3 DEF HandleAck
  <2>2. to \in Statuses
    BY DEF Acks, Statuses
  <2> QED BY <1>1, <1>3, <2>1, <2>2
<1> QED BY <1>2, <1>3

\* handleAck preserves the invariant, also when it removes the delivery.
LEMMA AckStep ==
    ASSUME RetryInv, NEW m \in Msgs, NEW r \in Recips, NEW to \in Acks, HandleAck(m, r, to)
    PROVE  RetryInv'
<1> USE DEF RetryInv
<1>1. /\ m \in tracked /\ UNCHANGED <<count, running, failed, stops>>
      /\ tracked' \in {tracked, tracked \ {m}}
      /\ m \notin tracked' => AllDone(status'[m])
  BY DEF HandleAck
<1>2. acked' \in [Msgs -> SUBSET Recips]
  <2>1. acked' \in {acked, [acked EXCEPT ![m] = acked[m] \cup {r}]}
    BY DEF TypeOK, HandleAck
  <2> QED BY <2>1 DEF TypeOK
<1>3. TypeOK'
  BY <1>1, <1>2, AckMoves DEF TypeOK
<1>4. CountMatchesStatus'
  <2> SUFFICES ASSUME NEW n \in tracked', NEW s \in Recips
               PROVE  /\ count[n] = 0 => status'[n][s] \in {"Announced", "none"}
                      /\ count[n] > 0 => status'[n][s] # "Announced"
    BY <1>1 DEF CountMatchesStatus
  <2>1. n \in tracked
    BY <1>1
  <2>2. CASE status'[n][s] = status[n][s]
    BY <2>1, <2>2 DEF CountMatchesStatus
  <2>3. CASE status'[n][s] # status[n][s]
    <3>1. n = m /\ s = r /\ status'[n][s] = to /\ ValidTransition(status[n][s], to)
      BY <2>3, AckMoves, <2>1, <1>1 DEF TypeOK
    <3>2. status[n][s] \notin {"Announced", "none"} /\ to # "Announced"
      BY <3>1 DEF ValidTransition, Acks
    <3> QED BY <2>1, <3>1, <3>2 DEF CountMatchesStatus
  <2> QED BY <2>2, <2>3
<1>5. AllAccounted'
  <2> SUFFICES ASSUME NEW n \in Msgs, n \notin tracked', NEW s \in Recips
               PROVE  status'[n][s] \notin {"Announced", "Pending"}
    BY DEF AllAccounted
  <2>1. CASE n = m
    BY <2>1, <1>1 DEF AllDone
  <2>2. CASE n # m
    <3>1. n \notin tracked /\ status'[n][s] = status[n][s]
      BY <2>2, <1>1, AckMoves
    <3> QED BY <3>1 DEF AllAccounted
  <2> QED BY <2>1, <2>2
<1>6. FailedIsFailed'
  BY <1>1, AckMoves DEF TypeOK, FailedIsFailed
<1> QED BY <1>3, <1>4, <1>5, <1>6

\* checkRetries preserves the invariant over all deliveries at once.
LEMMA CheckStep ==
    ASSUME RetryInv, CheckRetries
    PROVE  RetryInv'
<1> USE DEF RetryInv
<1>1. /\ tracked' = {m \in tracked : ~Exhausted(m)}
      /\ UNCHANGED <<running, acked, stops>>
  BY DEF CheckRetries, StillTracked
<1>2. /\ status' \in [Msgs -> [Recips -> Statuses]]
      /\ \A m \in Msgs, r \in Recips : status'[m][r] =
            IF Exhausted(m) /\ status[m][r] \in {"Announced", "Pending"} THEN "Failed"
            ELSE IF Retried(m) /\ status[m][r] = "Announced" THEN "Pending"
            ELSE status[m][r]
  BY DEF CheckRetries, CheckedStatus, TypeOK, Statuses
<1>3. /\ count' \in [Msgs -> 0..MaxRetries]
      /\ \A m \in Msgs : count'[m] = IF Retried(m) THEN count[m] + 1 ELSE count[m]
  BY DEF CheckRetries, TypeOK, Retried, Exhausted
<1>4. /\ failed' \in [Msgs -> SUBSET Recips]
      /\ \A m \in Msgs : failed'[m] = IF Exhausted(m) THEN Unacknowledged(m) ELSE failed[m]
  BY DEF CheckRetries, TypeOK, Unacknowledged
<1>5. TypeOK'
  BY <1>1, <1>2, <1>3, <1>4 DEF TypeOK
<1>6. CountMatchesStatus'
  <2> SUFFICES ASSUME NEW m \in tracked', NEW r \in Recips
               PROVE  /\ count'[m] = 0 => status'[m][r] \in {"Announced", "none"}
                      /\ count'[m] > 0 => status'[m][r] # "Announced"
    BY DEF CountMatchesStatus
  <2>1. m \in tracked /\ m \in Msgs /\ ~Exhausted(m) /\ count[m] \in 0..MaxRetries
    BY <1>1 DEF TypeOK
  <2>2. CASE Retried(m)
    BY <2>1, <2>2, <1>2, <1>3
  <2>3. CASE ~Retried(m)
    BY <2>1, <2>3, <1>2, <1>3 DEF CountMatchesStatus
  <2> QED BY <2>2, <2>3
<1>7. AllAccounted'
  BY <1>1, <1>2 DEF TypeOK, AllAccounted, Exhausted, Retried, Due
<1>8. FailedIsFailed'
  <2> SUFFICES ASSUME NEW m \in Msgs
               PROVE  /\ m \in tracked' => failed'[m] = {}
                      /\ \A r \in failed'[m] : status'[m][r] = "Failed"
    BY DEF FailedIsFailed
  <2>1. CASE Exhausted(m)
    BY <2>1, <1>1, <1>2, <1>4 DEF Unacknowledged
  <2>2. CASE ~Exhausted(m)
    BY <2>2, <1>1, <1>2, <1>4 DEF FailedIsFailed, TypeOK
  <2> QED BY <2>1, <2>2
<1> QED BY <1>5, <1>6, <1>7, <1>8

\* Every step preserves the invariant.
LEMMA RetryStep ==
    ASSUME RetryInv, [Next]_vars
    PROVE  RetryInv'
<1>1. ASSUME UNCHANGED <<tracked, status, count, acked, failed>>,
             running' \in BOOLEAN, stops' \in 0..MaxStops
      PROVE  RetryInv'
  BY <1>1 DEF RetryInv, TypeOK, CountMatchesStatus, AllAccounted, FailedIsFailed
<1>2. running \in BOOLEAN /\ stops \in 0..MaxStops
  BY DEF RetryInv, TypeOK
<1>3. CASE TimePasses \/ UNCHANGED vars
  BY <1>1, <1>2, <1>3 DEF TimePasses, vars
<1>4. CASE Start
  <2>1. running' \in BOOLEAN
    BY <1>4 DEF Start
  <2> QED BY <1>1, <1>2, <1>4, <2>1 DEF Start
<1>5. CASE Stop
  <2>1. running' \in BOOLEAN
    BY <1>5 DEF Stop
  <2>2. stops' \in 0..MaxStops
    BY <1>2, <1>5 DEF Stop
  <2> QED BY <1>1, <1>5, <2>1, <2>2 DEF Stop
<1> QED BY <1>3, <1>4, <1>5, TrackStep, AckStep, CheckStep DEF Next

\* Retry counts and statuses stay in step, deliveries leave the table only
\* when every recipient is accounted for, and the failure handlers hear only
\* of recipients that are Failed (trackDelivery, handleAck, checkRetries).
THEOREM RetrySafe == Spec => []RetryInv
<1>1. Init => RetryInv
  BY RetryInit
<1>2. RetryInv /\ [Next]_vars => RetryInv'
  BY RetryStep
<1> QED BY <1>1, <1>2, PTL DEF Spec

\* One step moves a status along the state machine or not at all.
LEMMA StatusStep ==
    ASSUME RetryInv, [Next]_vars
    PROVE  [StatusMoves]_vars
<1> SUFFICES ASSUME NEW m \in tracked, NEW r \in Recips, status'[m][r] # status[m][r]
             PROVE  \/ status[m][r] = "Announced" /\ status'[m][r] = "Pending"
                    \/ status[m][r] = "Pending" /\ status'[m][r] \in {"Delivered", "Failed", "Bounced"}
                    \/ status[m][r] = "Delivered" /\ status'[m][r] = "Read"
  BY DEF StatusMoves
<1>1. m \in Msgs /\ count[m] \in 0..MaxRetries
  BY DEF RetryInv, TypeOK
<1>2. ASSUME NEW n \in Msgs, NEW R \in RecipientSets, TrackDelivery(n, R) PROVE FALSE
  BY <1>1, <1>2 DEF TrackDelivery, RetryInv, TypeOK
<1>3. ASSUME NEW n \in Msgs, NEW s \in Recips, NEW to \in Acks, HandleAck(n, s, to)
      PROVE  ValidTransition(status[m][r], status'[m][r])
  BY <1>1, <1>3, AckMoves
<1>4. CASE CheckRetries
  <2>1. status'[m][r] =
            IF Exhausted(m) /\ status[m][r] \in {"Announced", "Pending"} THEN "Failed"
            ELSE IF Retried(m) /\ status[m][r] = "Announced" THEN "Pending"
            ELSE status[m][r]
    BY <1>1, <1>4 DEF CheckRetries, CheckedStatus
  <2>2. Exhausted(m) => status[m][r] # "Announced"
    BY <1>1 DEF Exhausted, RetryInv, CountMatchesStatus
  <2> QED BY <2>1, <2>2
<1>5. CASE TimePasses \/ Start \/ Stop \/ UNCHANGED vars
  BY <1>5 DEF TimePasses, Start, Stop, vars
<1> QED BY <1>2, <1>3, <1>4, <1>5 DEF Next, ValidTransition

\* The delivery status obeys its state machine in every behaviour; the expiry
\* loop of checkRetries never fails an Announced recipient.
THEOREM StatusMachineHolds == Spec => StatusMachine
<1>1. RetryInv /\ [Next]_vars => [StatusMoves]_vars
  BY StatusStep
<1> QED BY <1>1, RetrySafe, PTL DEF Spec, StatusMachine

\* Who has acknowledged after the first retry stays out of the unacknowledged.
LEMMA HeedStep ==
    ASSUME RetryInv, AckIsHeeded, [Next]_vars
    PROVE  AckIsHeeded'
<1> SUFFICES ASSUME NEW m \in Msgs, NEW r \in acked'[m]
             PROVE  r \notin failed'[m] /\ status'[m][r] \notin {"Announced", "Pending"}
  BY DEF AckIsHeeded
<1>0. acked[m] \subseteq Recips /\ count[m] \in 0..MaxRetries
  BY DEF RetryInv, TypeOK
<1>1. ASSUME NEW n \in Msgs, NEW R \in RecipientSets, TrackDelivery(n, R)
      PROVE  r \notin failed'[m] /\ status'[m][r] \notin {"Announced", "Pending"}
  <2>1. n # m /\ r \in acked[m]
    BY <1>1 DEF TrackDelivery, RetryInv, TypeOK
  <2>2. status'[m] = status[m] /\ failed'[m] = failed[m]
    BY <1>1, <2>1 DEF TrackDelivery, RetryInv, TypeOK
  <2> QED BY <2>1, <2>2 DEF AckIsHeeded
<1>2. ASSUME NEW n \in Msgs, NEW s \in Recips, NEW to \in Acks, HandleAck(n, s, to)
      PROVE  r \notin failed'[m] /\ status'[m][r] \notin {"Announced", "Pending"}
  <2>1. failed' = failed
    BY <1>2 DEF HandleAck
  <2>2. r \in acked[m] \/ (m = n /\ r = s /\ to = "Delivered" /\ count[n] > 0)
    BY <1>2 DEF HandleAck, RetryInv, TypeOK
  <2>3. CASE r \in acked[m]
    <3>1. r \in Recips /\ r \notin failed[m] /\ status[m][r] \notin {"Announced", "Pending"}
      BY <2>3, <1>0 DEF AckIsHeeded
    <3>2. status'[m][r] \in {status[m][r], to}
      BY <1>2, <3>1, AckMoves
    <3> QED BY <2>1, <3>1, <3>2 DEF Acks
  <2>4. CASE m = n /\ r = s /\ to = "Delivered" /\ count[n] > 0
    <3>1. m \in tracked
      BY <1>2, <2>4 DEF HandleAck
    <3>2. failed[m] = {} /\ status[m][r] # "Announced"
      BY <2>4, <3>1 DEF RetryInv, FailedIsFailed, CountMatchesStatus
    <3>3. status'[m][r] \notin {"Announced", "Pending"}
      <4>1. CASE status[m][r] = "Pending"
        <5>1. status' = [status EXCEPT ![m] = [@ EXCEPT ![r] = to]]
          BY <1>2, <2>4, <4>1 DEF HandleAck, ValidTransition
        <5> QED BY <5>1, <2>4 DEF RetryInv, TypeOK
      <4>2. CASE status[m][r] # "Pending"
        <5>1. status'[m][r] \in {status[m][r], to}
          BY <1>2, <2>4, AckMoves
        <5> QED BY <5>1, <4>2, <3>2, <2>4
      <4> QED BY <4>1, <4>2
    <3> QED BY <2>1, <3>2, <3>3
  <2> QED BY <2>2, <2>3, <2>4
<1>3. CASE CheckRetries
  <2>1. r \in acked[m] /\ r \in Recips
    BY <1>0, <1>3 DEF CheckRetries
  <2>2. r \notin failed[m] /\ status[m][r] \notin {"Announced", "Pending"}
    BY <2>1 DEF AckIsHeeded
  <2>3. status'[m][r] = status[m][r]
    BY <1>3, <2>1, <2>2 DEF CheckRetries, CheckedStatus
  <2>4. r \notin failed'[m]
    BY <1>3, <2>1, <2>2 DEF CheckRetries, Unacknowledged
  <2> QED BY <2>2, <2>3, <2>4
<1>4. CASE TimePasses \/ Start \/ Stop \/ UNCHANGED vars
  BY <1>4 DEF TimePasses, Start, Stop, vars, AckIsHeeded
<1> QED BY <1>1, <1>2, <1>3, <1>4 DEF Next

\* Whoever acknowledges after the first retry is not reported as failed, for
\* any messages, recipients and schedules (handleAck, checkRetries).
THEOREM AckHeeded == Spec => []AckIsHeeded
<1>1. Init => AckIsHeeded
  BY DEF Init, AckIsHeeded
<1>2. RetryInv /\ AckIsHeeded /\ [Next]_vars => AckIsHeeded'
  BY HeedStep
<1> QED BY <1>1, <1>2, RetrySafe, PTL DEF Spec

-----------------------------------------------------------------------------
(***************************************************************************)
(* Induction, for sets and functions: what the recursive functions of the  *)
(* schedule are.                                                           *)
(***************************************************************************)

\* Induction, for a set of numbers.
LEMMA SetInduction ==
    ASSUME NEW S, 0 \in S, \A n \in Nat : n \in S => n + 1 \in S
    PROVE  Nat \subseteq S
<1> DEFINE T == Nat \ S
           R == OpToRel(<, Nat)
<1>1. R = {ss \in Nat \X Nat : ss[1] < ss[2]}
  BY DEF OpToRel
<1>2. IsWellFoundedOn(R, Nat)
  BY NatLessThanWellFounded
<1> SUFFICES ASSUME T # {} PROVE FALSE
  OBVIOUS
<1>3. T \subseteq Nat
  OBVIOUS
<1> HIDE DEF T, R
<1>4. PICK x \in T : \A y \in T : ~(<<y, x>> \in R)
  BY <1>2, <1>3, WFMin
<1>5. x \in Nat /\ x # 0
  BY <1>4 DEF T
<1>6. x - 1 \in T
  BY <1>4, <1>5 DEF T
<1>7. <<x - 1, x>> \in R
  BY <1>1, <1>5
<1> QED
  BY <1>4, <1>6, <1>7

\* The first n values of the sequence that starts at a and goes on with step.
Begins(g, n, S, a, step) ==
    g \in [0..n -> S] /\ g[0] = a /\ \A k \in 1..n : g[k] = step[k][g[k - 1]]

\* All of it.
Follows(f, S, a, step) ==
    f \in [Nat -> S] /\ f[0] = a /\ \A n \in Nat : f[n + 1] = step[n + 1][f[n]]

\* Definition by recursion over the naturals, for a step that is a function.
LEMMA PrimRec ==
    ASSUME NEW S, NEW a \in S, NEW step \in [Nat -> [S -> S]]
    PROVE  \E f : Follows(f, S, a, step)
<1> DEFINE B(g, n) == Begins(g, n, S, a, step)
<1>1. \A n \in Nat : \E g : B(g, n)
  <2> DEFINE E == {n \in Nat : \E g : B(g, n)}
  <2>1. 0 \in E
    <3>1. B([k \in 0..0 |-> a], 0)
      BY DEF Begins
    <3> QED
      BY <3>1
  <2>2. ASSUME NEW n \in Nat, n \in E PROVE n + 1 \in E
    <3>1. PICK g : B(g, n)
      BY <2>2
    <3> DEFINE h == [k \in 0..(n + 1) |-> IF k = n + 1 THEN step[n + 1][g[n]] ELSE g[k]]
    <3>2. g[n] \in S /\ step[n + 1][g[n]] \in S /\ \A k \in 0..n : g[k] \in S
      BY <3>1 DEF Begins
    <3>3. h \in [0..(n + 1) -> S] /\ h[0] = a
      BY <3>1, <3>2 DEF Begins
    <3>4. ASSUME NEW k \in 1..(n + 1) PROVE h[k] = step[k][h[k - 1]]
      <4>1. CASE k = n + 1
        BY <4>1
      <4>2. CASE k # n + 1
        <5>1. k \in 1..n /\ h[k] = g[k] /\ h[k - 1] = g[k - 1]
          BY <4>2
        <5> QED
          BY <3>1, <5>1 DEF Begins
      <4> QED
        BY <4>1, <4>2
    <3>5. B(h, n + 1)
      BY <3>3, <3>4 DEF Begins
    <3> QED
      BY <3>5
  <2> HIDE DEF E
  <2>3. Nat \subseteq E
    BY <2>1, <2>2, SetInduction
  <2> QED
    BY <2>3 DEF E
<1>2. \A k \in Nat : \A m, n \in Nat : \A g, h :
         k <= m /\ k <= n /\ B(g, m) /\ B(h, n) => g[k] = h[k]
  <2> DEFINE E == {k \in Nat : \A m, n \in Nat : \A g, h :
                      k <= m /\ k <= n /\ B(g, m) /\ B(h, n) => g[k] = h[k]}
  <2>1. 0 \in E
    BY DEF Begins
  <2>2. ASSUME NEW k \in Nat, k \in E PROVE k + 1 \in E
    <3> SUFFICES ASSUME NEW m \in Nat, NEW n \in Nat, NEW g, NEW h,
                        k + 1 <= m, k + 1 <= n, B(g, m), B(h, n)
                 PROVE  g[k + 1] = h[k + 1]
      OBVIOUS
    <3>1. g[k] = h[k]
      BY <2>2
    <3>2. g[k + 1] = step[k + 1][g[k]] /\ h[k + 1] = step[k + 1][h[k]]
      BY DEF Begins
    <3> QED
      BY <3>1, <3>2
  <2> HIDE DEF E
  <2>3. Nat \subseteq E
    BY <2>1, <2>2, SetInduction
  <2> QED
    BY <2>3 DEF E
<1> DEFINE G(n) == CHOOSE g : B(g, n)
           f == [n \in Nat |-> G(n)[n]]
<1>3. \A n \in Nat : B(G(n), n)
  BY <1>1
<1>4. \A n \in Nat : f[n] = G(n)[n]
  OBVIOUS
<1>5. f \in [Nat -> S]
  <2> HIDE DEF G
  <2> SUFFICES ASSUME NEW n \in Nat PROVE G(n)[n] \in S
    OBVIOUS
  <2> QED
    BY <1>3 DEF Begins
<1> HIDE DEF G, f
<1>6. f[0] = a
  BY <1>3, <1>4 DEF Begins
<1>7. ASSUME NEW n \in Nat PROVE f[n + 1] = step[n + 1][f[n]]
  <2>1. B(G(n), n) /\ B(G(n + 1), n + 1)
    BY <1>3
  <2>2. G(n + 1)[n] = G(n)[n]
    BY <2>1, <1>2
  <2>3. G(n + 1)[n + 1] = step[n + 1][G(n + 1)[n]]
    BY <2>1 DEF Begins
  <2> QED
    BY <1>4, <2>2, <2>3
<1> QED
  BY <1>5, <1>6, <1>7 DEF Follows

\* A product of natural numbers.
LEMMA Product ==
    ASSUME NEW a \in Nat, NEW b \in Nat
    PROVE  a * b \in Nat /\ (a > 0 /\ b > 0 => a * b > 0)
OBVIOUS

\* Factors may change places.
LEMMA Reorder ==
    ASSUME NEW a \in Nat, NEW b \in Nat, NEW c \in Nat
    PROVE  a * (b * c) = b * (a * c)
OBVIOUS

\* Pow is the function its definition describes.
LEMMA PowDef ==
    /\ Pow[0] = 1
    /\ \A n \in Nat : Pow[n + 1] = Multiplier * Pow[n] /\ Pow[n] \in Nat \ {0}
<1> DEFINE step == [n \in Nat |-> [x \in Nat |-> Multiplier * x]]
<1>1. step \in [Nat -> [Nat -> Nat]]
  BY Product
<1>2a. PICK f : Follows(f, Nat, 1, step)
  <2> HIDE DEF step
  <2>1. 1 \in Nat
    OBVIOUS
  <2> QED
    BY <1>1, <2>1, PrimRec
<1>2. f \in [Nat -> Nat] /\ f[0] = 1 /\ \A n \in Nat : f[n + 1] = step[n + 1][f[n]]
  BY <1>2a, Zenon DEF Follows
<1>3. \A n \in Nat : f[n + 1] = Multiplier * f[n]
  <2> SUFFICES ASSUME NEW n \in Nat PROVE step[n + 1][f[n]] = Multiplier * f[n]
    BY <1>2
  <2>1. n + 1 \in Nat /\ f[n] \in Nat
    BY <1>2
  <2> QED
    BY <2>1, Zenon
<1>4. f = [n \in Nat |-> IF n = 0 THEN 1 ELSE Multiplier * f[n - 1]]
  <2>1. \A n \in Nat : f[n] = IF n = 0 THEN 1 ELSE Multiplier * f[n - 1]
    <3> SUFFICES ASSUME NEW n \in Nat, n # 0 PROVE f[n] = Multiplier * f[n - 1]
      BY <1>2
    <3>1. n - 1 \in Nat /\ (n - 1) + 1 = n
      OBVIOUS
    <3> QED
      BY <1>3, <3>1
  <2> QED
    BY <1>2, <2>1
<1>5. Pow = [n \in Nat |-> IF n = 0 THEN 1 ELSE Multiplier * Pow[n - 1]]
  BY <1>4 DEF Pow
<1>6. Pow[0] = 1 /\ \A n \in Nat : Pow[n + 1] = Multiplier * Pow[n]
  <2>1. Pow[0] = 1
    BY <1>5
  <2>2. ASSUME NEW n \in Nat PROVE Pow[n + 1] = Multiplier * Pow[n]
    <3>1. n + 1 \in Nat /\ n + 1 # 0 /\ (n + 1) - 1 = n
      OBVIOUS
    <3> QED
      BY <1>5, <3>1
  <2> QED
    BY <2>1, <2>2
<1> DEFINE E == {n \in Nat : Pow[n] \in Nat \ {0}}
<1>7. 0 \in E
  BY <1>6
<1>8. ASSUME NEW n \in Nat, n \in E PROVE n + 1 \in E
  <2>1. Pow[n] \in Nat /\ Pow[n] > 0 /\ Multiplier \in Nat /\ Multiplier > 0
    BY <1>8
  <2> QED
    BY <2>1, <1>6, Product
<1> HIDE DEF E
<1>9. Nat \subseteq E
  BY <1>7, <1>8, SetInduction
<1> QED
  BY <1>6, <1>9 DEF E

\* The delays of the schedule are what calculateBackoff takes the minimum of.
LEMMA DelayDef == \A n \in Nat : Delay[n + 1] = InitialTimeout * Pow[n]
<1> DEFINE g == [j \in Nat |-> IF j <= 1 THEN InitialTimeout ELSE InitialTimeout * Pow[j - 1]]
<1>1. g = [j \in Nat |-> IF j <= 1 THEN InitialTimeout ELSE Multiplier * g[j - 1]]
  <2>1. ASSUME NEW j \in Nat, j > 1
        PROVE  InitialTimeout * Pow[j - 1] = Multiplier * g[j - 1]
    <3>1. j - 2 \in Nat /\ (j - 2) + 1 = j - 1
      BY <2>1
    <3>2. Pow[j - 1] = Multiplier * Pow[j - 2] /\ Pow[j - 2] \in Nat
      BY <3>1, PowDef
    <3>3. g[j - 1] = InitialTimeout * Pow[j - 2]
      <4>1. CASE j = 2
        <5>1. Pow[0] = 1 /\ g[1] = InitialTimeout
          BY PowDef
        <5> QED
          BY <4>1, <5>1
      <4>2. CASE j > 2
        <5>1. j - 1 \in Nat /\ ~(j - 1 <= 1) /\ (j - 1) - 1 = j - 2
          BY <4>2
        <5> QED
          BY <5>1
      <4> QED
        BY <2>1, <4>1, <4>2
    <3> HIDE DEF g
    <3> QED
      BY <3>2, <3>3, Reorder
  <2>2. ASSUME NEW j \in Nat
        PROVE  g[j] = IF j <= 1 THEN InitialTimeout ELSE Multiplier * g[j - 1]
    <3>1. g[j] = IF j <= 1 THEN InitialTimeout ELSE InitialTimeout * Pow[j - 1]
      OBVIOUS
    <3> HIDE DEF g
    <3> QED
      BY <2>1, <3>1
  <2>3. g = [j \in Nat |-> g[j]]
    OBVIOUS
  <2> HIDE DEF g
  <2> QED
    BY <2>2, <2>3
<1> HIDE DEF g
<1>2. Delay = [j \in Nat |-> IF j <= 1 THEN InitialTimeout ELSE Multiplier * Delay[j - 1]]
  BY <1>1 DEF Delay
<1> DEFINE E == {n \in Nat : Delay[n + 1] = InitialTimeout * Pow[n]}
<1>3. 0 \in E
  <2>1. Delay[1] = InitialTimeout
    BY <1>2
  <2> QED
    BY <2>1, PowDef
<1>4. ASSUME NEW n \in Nat, n \in E PROVE n + 1 \in E
  <2>1. (n + 1) + 1 \in Nat /\ ~((n + 1) + 1 <= 1) /\ ((n + 1) + 1) - 1 = n + 1
    OBVIOUS
  <2>2. Delay[(n + 1) + 1] = Multiplier * Delay[n + 1]
    BY <1>2, <2>1
  <2>3. Delay[n + 1] = InitialTimeout * Pow[n] /\ Pow[n] \in Nat /\ Pow[n + 1] = Multiplier * Pow[n]
    BY <1>4, PowDef
  <2>4. Multiplier * (InitialTimeout * Pow[n]) = InitialTimeout * (Multiplier * Pow[n])
    BY <2>3, Reorder
  <2> QED
    BY <2>2, <2>3, <2>4
<1> HIDE DEF E
<1>5. Nat \subseteq E
  BY <1>3, <1>4, SetInduction
<1> QED
  BY <1>5 DEF E

\* A delay takes at least one period of the timer.
LEMMA BackoffDef ==
    ASSUME NEW n \in Nat
    PROVE  /\ Backoff(n + 1) \in Nat \ {0}
           /\ Backoff(n + 1) = IF Delay[n + 1] < MaxBackoff THEN Delay[n + 1] ELSE MaxBackoff
<1>1. (n + 1) - 1 = n /\ Pow[n] \in Nat /\ Pow[n] > 0 /\ Delay[n + 1] = InitialTimeout * Pow[n]
  BY PowDef, DelayDef
<1>2. InitialTimeout * Pow[n] \in Nat /\ InitialTimeout * Pow[n] > 0
  BY <1>1, Product
<1> HIDE DEF Delay, Pow
<1> QED
  BY <1>1, <1>2 DEF Backoff

\* Each retry is due one backoff after the one before.
LEMMA DueDef ==
    /\ DueTimes[0] = InitialTimeout
    /\ \A n \in Nat : DueTimes[n] \in Nat /\ DueTimes[n + 1] = DueTimes[n] + Backoff(n + 1)
<1> DEFINE cap == [n \in Nat |-> IF n = 0 THEN 0 ELSE
                                 IF Delay[n] < MaxBackoff THEN Delay[n] ELSE MaxBackoff]
           step == [n \in Nat |-> [x \in Nat |-> x + cap[n]]]
<1>1. \A n \in Nat : cap[n] \in Nat /\ (n # 0 => cap[n] = IF Delay[n] < MaxBackoff THEN Delay[n] ELSE MaxBackoff)
  <2> SUFFICES ASSUME NEW n \in Nat, n # 0
               PROVE  (IF Delay[n] < MaxBackoff THEN Delay[n] ELSE MaxBackoff) \in Nat
    OBVIOUS
  <2>1. n - 1 \in Nat /\ (n - 1) + 1 = n
    OBVIOUS
  <2> QED
    BY <2>1, BackoffDef
<1> HIDE DEF cap
<1>2. step \in [Nat -> [Nat -> Nat]]
  BY <1>1
<1>3. PICK f : Follows(f, Nat, InitialTimeout, step)
  <2> HIDE DEF step
  <2>1. InitialTimeout \in Nat
    OBVIOUS
  <2> QED
    BY <1>2, <2>1, PrimRec
<1>4. f \in [Nat -> Nat] /\ f[0] = InitialTimeout /\ \A n \in Nat : f[n + 1] = step[n + 1][f[n]]
  BY <1>3, Zenon DEF Follows
<1>5. \A n \in Nat : f[n + 1] = f[n] + cap[n + 1]
  <2> SUFFICES ASSUME NEW n \in Nat PROVE step[n + 1][f[n]] = f[n] + cap[n + 1]
    BY <1>4
  <2>1. n + 1 \in Nat /\ f[n] \in Nat
    BY <1>4
  <2> QED
    BY <2>1, Zenon
<1>6. f = [k \in Nat |->
             IF k = 0 THEN InitialTimeout
             ELSE f[k - 1] + (IF Delay[k] < MaxBackoff THEN Delay[k] ELSE MaxBackoff)]
  <2>1. ASSUME NEW k \in Nat, k # 0
        PROVE  f[k] = f[k - 1] + (IF Delay[k] < MaxBackoff THEN Delay[k] ELSE MaxBackoff)
    <3>1. k - 1 \in Nat /\ (k - 1) + 1 = k
      BY <2>1
    <3>2. f[k] = f[k - 1] + cap[k]
      BY <1>5, <3>1
    <3> QED
      BY <1>1, <2>1, <3>2
  <2> QED
    BY <1>4, <2>1
<1>7. DueTimes = [k \in Nat |->
             IF k = 0 THEN InitialTimeout
             ELSE DueTimes[k - 1] + (IF Delay[k] < MaxBackoff THEN Delay[k] ELSE MaxBackoff)]
  BY <1>6 DEF DueTimes
<1>8. DueTimes[0] = InitialTimeout
  BY <1>7
<1>9. ASSUME NEW n \in Nat PROVE DueTimes[n + 1] = DueTimes[n] + Backoff(n + 1)
  <2>1. n + 1 \in Nat /\ n + 1 # 0 /\ (n + 1) - 1 = n
    OBVIOUS
  <2>2. DueTimes[n + 1] = DueTimes[n] + (IF Delay[n + 1] < MaxBackoff THEN Delay[n + 1] ELSE MaxBackoff)
    BY <1>7, <2>1
  <2> QED
    BY <2>2, BackoffDef
<1> DEFINE E == {n \in Nat : DueTimes[n] \in Nat}
<1>10. 0 \in E
  BY <1>8
<1>11. ASSUME NEW n \in Nat, n \in E PROVE n + 1 \in E
  BY <1>9, <1>11, BackoffDef
<1> HIDE DEF E
<1>12. Nat \subseteq E
  BY <1>10, <1>11, SetInduction
<1> QED
  BY <1>8, <1>9, <1>12 DEF E

\* No retry is due later than the last one.
LEMMA DueBounded == \A n \in 0..MaxRetries : DueTimes[n] <= DueTimes[MaxRetries]
<1> DEFINE E == {k \in Nat : \A n \in 0..k : DueTimes[n] <= DueTimes[k]}
<1>1. 0 \in E
  BY DueDef
<1>2. ASSUME NEW k \in Nat, k \in E PROVE k + 1 \in E
  <2> SUFFICES ASSUME NEW n \in 0..(k + 1) PROVE DueTimes[n] <= DueTimes[k + 1]
    OBVIOUS
  <2>1. /\ DueTimes[k] \in Nat /\ DueTimes[k + 1] = DueTimes[k] + Backoff(k + 1)
        /\ Backoff(k + 1) \in Nat /\ DueTimes[n] \in Nat
    BY DueDef, BackoffDef
  <2>2. CASE n \in 0..k
    <3>1. DueTimes[n] <= DueTimes[k]
      BY <1>2, <2>2
    <3> QED
      BY <2>1, <3>1
  <2>3. CASE n = k + 1
    BY <2>1, <2>3
  <2> QED
    BY <2>2, <2>3
<1> HIDE DEF E
<1>3. Nat \subseteq E
  BY <1>1, <1>2, SetInduction
<1> QED
  BY <1>3 DEF E

-----------------------------------------------------------------------------
(***************************************************************************)
(* The schedule.                                                           *)
(***************************************************************************)

\* How far a delivery is from its schedule: never ahead of it, and behind it
\* by one period for every stop so far; one more while the service runs, the
\* one that an overdue delivery waits for the timer or the next stop will cost.
OnTime(m) ==
    /\ age[m] + wait[m] >= DueTimes[count[m]]
    /\ running => age[m] + wait[m] <= DueTimes[count[m]] + stops + (IF wait[m] = 0 THEN 0 ELSE 1)
    /\ ~running => age[m] + wait[m] <= DueTimes[count[m]] + stops

SchedInv ==
    /\ wait \in [Msgs -> Nat] /\ age \in [Msgs -> Nat]
    /\ \A m \in tracked : OnTime(m)

\* A delivery ages by one as long as it is tracked and on time.
LEMMA Ages ==
    ASSUME RetryInv, SchedInv, NEW m \in tracked, wait[m] > 0 \/ running
    PROVE  Older(age[m]) = age[m] + 1
<1>1. /\ count[m] \in 0..MaxRetries /\ wait[m] \in Nat /\ age[m] \in Nat /\ stops \in 0..MaxStops
      /\ running \in BOOLEAN /\ OnTime(m)
  BY DEF RetryInv, TypeOK, SchedInv
<1>2. /\ DueTimes[count[m]] \in Nat /\ DueTimes[MaxRetries] \in Nat
      /\ DueTimes[count[m]] <= DueTimes[MaxRetries]
  BY <1>1, DueDef, DueBounded
<1>3. age[m] + wait[m] <= DueTimes[count[m]] + stops + (IF wait[m] = 0 THEN 0 ELSE 1)
  BY <1>1, <1>2 DEF OnTime
<1>4. age[m] <= DueTimes[MaxRetries] + MaxStops
  BY <1>1, <1>2, <1>3
<1> QED
  BY <1>1, <1>2, <1>4, HorizonAssumption DEF Older

\* checkRetries: a delivery that is due gets the next backoff on top of the
\* time it was due at, at most one period late.
LEMMA CheckOnTime ==
    ASSUME RetryInv, SchedInv, CheckRetries
    PROVE  SchedInv'
<1>1. /\ running /\ running' = running /\ stops' = stops /\ stops \in Nat
      /\ wait \in [Msgs -> Nat] /\ age \in [Msgs -> Nat] /\ tracked \subseteq Msgs
      /\ count \in [Msgs -> 0..MaxRetries]
  BY DEF RetryInv, TypeOK, SchedInv, CheckRetries
<1>2. ASSUME NEW m \in Msgs
      PROVE  /\ wait'[m] = IF Retried(m) THEN Backoff(count[m] + 1)
                           ELSE IF wait[m] = 0 THEN 0 ELSE wait[m] - 1
             /\ age'[m] = IF m \in tracked THEN Older(age[m]) ELSE age[m]
             /\ count'[m] = IF Retried(m) THEN count[m] + 1 ELSE count[m]
  BY <1>2 DEF CheckRetries
<1>3. wait' \in [Msgs -> Nat]
  <2>1. \A m \in Msgs : Backoff(count[m] + 1) \in Nat
    BY <1>1, BackoffDef
  <2> QED
    BY <1>1, <2>1 DEF CheckRetries
<1>4. age' \in [Msgs -> Nat]
  BY <1>1 DEF CheckRetries, Older
<1>5. ASSUME NEW m \in tracked' PROVE OnTime(m)'
  <2>1. m \in tracked /\ m \in Msgs /\ ~Exhausted(m)
    BY <1>1, <1>5 DEF CheckRetries, StillTracked
  <2>2. /\ wait[m] \in Nat /\ age[m] \in Nat /\ age'[m] = age[m] + 1
        /\ count[m] \in Nat /\ DueTimes[count[m]] \in Nat
    BY <1>1, <1>2, <2>1, Ages, DueDef
  <2>3. /\ age[m] + wait[m] >= DueTimes[count[m]]
        /\ age[m] + wait[m] <= DueTimes[count[m]] + stops + (IF wait[m] = 0 THEN 0 ELSE 1)
    BY <1>1, <2>1 DEF SchedInv, OnTime
  <2>4. CASE Retried(m)
    <3>1. wait[m] <= 1
      BY <2>4 DEF Retried, Due
    <3>2. /\ wait'[m] = Backoff(count[m] + 1) /\ count'[m] = count[m] + 1
          /\ wait'[m] \in Nat \ {0}
          /\ DueTimes[count'[m]] = DueTimes[count[m]] + wait'[m]
      BY <1>2, <2>1, <2>2, <2>4, BackoffDef, DueDef
    <3> QED
      BY <1>1, <2>2, <2>3, <3>1, <3>2 DEF OnTime
  <2>5. CASE ~Retried(m)
    <3>1. wait[m] > 1
      BY <2>1, <2>2, <2>5 DEF Retried, Due
    <3>2. wait'[m] = wait[m] - 1 /\ count'[m] = count[m]
      BY <1>2, <2>1, <2>2, <2>5, <3>1
    <3> QED
      BY <1>1, <2>2, <2>3, <3>1, <3>2 DEF OnTime
  <2> QED
    BY <2>4, <2>5
<1> QED
  BY <1>3, <1>4, <1>5 DEF SchedInv

\* While the service is down, a delivery ages until it is due.
LEMMA PassOnTime ==
    ASSUME RetryInv, SchedInv, TimePasses
    PROVE  SchedInv'
<1>1. /\ ~running /\ running' = running /\ stops' = stops /\ stops \in Nat
      /\ tracked' = tracked /\ count' = count
      /\ wait \in [Msgs -> Nat] /\ age \in [Msgs -> Nat] /\ tracked \subseteq Msgs
      /\ count \in [Msgs -> 0..MaxRetries]
  BY DEF RetryInv, TypeOK, SchedInv, TimePasses
<1>2. /\ \A m \in Msgs : wait'[m] = IF wait[m] = 0 THEN 0 ELSE wait[m] - 1
      /\ \A m \in Msgs : age'[m] = IF m \in tracked /\ wait[m] > 0 THEN Older(age[m]) ELSE age[m]
  BY DEF TimePasses
<1>3. wait' \in [Msgs -> Nat] /\ age' \in [Msgs -> Nat]
  BY <1>1 DEF TimePasses, Older
<1>4. ASSUME NEW m \in tracked PROVE OnTime(m)'
  <2>1. /\ m \in Msgs /\ wait[m] \in Nat /\ age[m] \in Nat /\ DueTimes[count[m]] \in Nat
    BY <1>1, DueDef
  <2>2. age'[m] + wait'[m] = age[m] + wait[m]
    <3>1. CASE wait[m] = 0
      BY <1>2, <2>1, <3>1
    <3>2. CASE wait[m] > 0
      BY <1>2, <2>1, <3>2, Ages
    <3> QED
      BY <2>1, <3>1, <3>2
  <2>3. /\ age[m] + wait[m] >= DueTimes[count[m]]
        /\ age[m] + wait[m] <= DueTimes[count[m]] + stops
    BY <1>1 DEF SchedInv, OnTime
  <2> QED
    BY <1>1, <2>2, <2>3 DEF OnTime
<1> QED
  BY <1>1, <1>3, <1>4 DEF SchedInv

\* Every step keeps the deliveries on time.
LEMMA SchedStep ==
    ASSUME RetryInv, SchedInv, [Next]_vars
    PROVE  SchedInv'
<1>1. /\ tracked \subseteq Msgs /\ count \in [Msgs -> 0..MaxRetries] /\ stops \in Nat
      /\ wait \in [Msgs -> Nat] /\ age \in [Msgs -> Nat]
  BY DEF RetryInv, TypeOK, SchedInv
<1>2. \A m \in tracked : wait[m] \in Nat /\ age[m] \in Nat /\ DueTimes[count[m]] \in Nat
  BY <1>1, DueDef
<1>3. ASSUME NEW m \in Msgs, NEW R \in RecipientSets, TrackDelivery(m, R) PROVE SchedInv'
  <2>1. /\ tracked' = tracked \cup {m} /\ m \notin tracked
        /\ count' = [count EXCEPT ![m] = 0]
        /\ wait' = [wait EXCEPT ![m] = InitialTimeout]
        /\ age' = [age EXCEPT ![m] = 0] /\ UNCHANGED <<running, stops>>
    BY <1>3 DEF TrackDelivery
  <2>2. wait' \in [Msgs -> Nat] /\ age' \in [Msgs -> Nat]
    BY <1>1, <2>1
  <2>3. ASSUME NEW n \in tracked PROVE OnTime(n)'
    <3>1. count'[n] = count[n] /\ wait'[n] = wait[n] /\ age'[n] = age[n]
      BY <1>1, <2>1
    <3> QED
      BY <2>1, <3>1 DEF SchedInv, OnTime
  <2>4. OnTime(m)'
    <3>1. count'[m] = 0 /\ wait'[m] = InitialTimeout /\ age'[m] = 0 /\ DueTimes[0] = InitialTimeout
      BY <1>1, <2>1, DueDef
    <3> QED
      BY <1>1, <2>1, <3>1 DEF OnTime
  <2> QED
    BY <2>1, <2>2, <2>3, <2>4 DEF SchedInv
<1>4. ASSUME NEW m \in Msgs, NEW r \in Recips, NEW to \in Acks, HandleAck(m, r, to) PROVE SchedInv'
  <2>1. tracked' \subseteq tracked /\ UNCHANGED <<count, wait, age, running, stops>>
    BY <1>4 DEF HandleAck
  <2> QED
    BY <2>1 DEF SchedInv, OnTime
<1>5. CASE Start
  <2>1. ~running /\ running' /\ UNCHANGED <<tracked, count, wait, age, stops>>
    BY <1>5 DEF Start
  <2>2. ASSUME NEW m \in tracked PROVE OnTime(m)'
    BY <1>1, <1>2, <2>1 DEF SchedInv, OnTime
  <2> QED
    BY <2>1, <2>2 DEF SchedInv
<1>6. CASE Stop
  <2>1. running /\ ~running' /\ stops' = stops + 1 /\ UNCHANGED <<tracked, count, wait, age>>
    BY <1>6 DEF Stop
  <2>2. ASSUME NEW m \in tracked PROVE OnTime(m)'
    BY <1>1, <1>2, <2>1 DEF SchedInv, OnTime
  <2> QED
    BY <2>1, <2>2 DEF SchedInv
<1>7. CASE UNCHANGED vars
  BY <1>7 DEF vars, SchedInv, OnTime
<1> QED
  BY <1>3, <1>4, <1>5, <1>6, <1>7, CheckOnTime, PassOnTime DEF Next

\* Retries come when calculateBackoff says, for any timeout, multiplier and
\* cap: never early, and late by at most one period of the timer and one more
\* for each time the service was stopped.
THEOREM ScheduleKept == Spec => []OnSchedule
<1>1. Init => SchedInv
  BY DEF Init, SchedInv
<1>2. RetryInv /\ SchedInv /\ [Next]_vars => SchedInv'
  BY SchedStep
<1>3. RetryInv /\ SchedInv => OnSchedule
  <2> SUFFICES ASSUME RetryInv, SchedInv, NEW m \in tracked
               PROVE  age[m] + wait[m] \in DueTimes[count[m]] .. DueTimes[count[m]] + stops + 1
    BY DEF OnSchedule
  <2>1. /\ m \in Msgs /\ count[m] \in Nat /\ stops \in Nat /\ running \in BOOLEAN
        /\ wait[m] \in Nat /\ age[m] \in Nat /\ OnTime(m)
    BY DEF RetryInv, TypeOK, SchedInv
  <2>2. DueTimes[count[m]] \in Nat
    BY <2>1, DueDef
  <2> QED
    BY <2>1, <2>2 DEF OnTime
<1> QED BY <1>1, <1>2, <1>3, RetrySafe, PTL DEF Spec

(***************************************************************************)
(* Filters and discovery.                                                  *)
(***************************************************************************)

\* The larger of two numbers.
LEMMA MaxOfTwo ==
    ASSUME NEW a \in Nat, NEW b \in Nat
    PROVE  Max({a, b}) \in Nat /\ Max({a, b}) >= a /\ Max({a, b}) >= b
<1>1. \E x \in {a, b} : \A y \in {a, b} : x >= y
  OBVIOUS
<1> QED
  BY <1>1 DEF Max

\* A filter has at least one bit, whatever number of items is expected.
LEMMA SizeIsPositive ==
    ASSUME NEW n \in Nat
    PROVE  OptimalSize(n) \in Nat /\ OptimalSize(n) > 0
<1>1. CASE n = 0
  BY <1>1, FilterAssumption DEF OptimalSize
<1>2. CASE n # 0
  <2>1. n * BitsPerItem \in Nat
    BY FilterAssumption
  <2> DEFINE m == n * BitsPerItem
  <2>2. OptimalSize(n) = Max({m, MinSize})
    BY <1>2 DEF OptimalSize
  <2> HIDE DEF m
  <2>3. m \in Nat /\ MinSize \in Nat /\ MinSize > 0
    BY <2>1, FilterAssumption DEF m
  <2> QED
    BY <2>2, <2>3, MaxOfTwo
<1> QED BY <1>1, <1>2

\* Every bit that is set comes through serialize and deserialize: bit h is bit
\* h % 8 of byte h / 8.
LEMMA BitsTravel ==
    ASSUME NEW s \in Nat, NEW h \in 0..(s - 1), NEW f, f.size = s, h \in f.bits
    PROVE  h \in Deserialize(Serialize(f)).bits
<1> DEFINE k == h \div 8
           bit == h % 8
<1>1. /\ k \in 0..(PackedBytes(s) - 1) /\ bit \in 0..7
      /\ k * 8 + bit = h
  BY DEF PackedBytes, ByteBits
<1> HIDE DEF k, bit
<1>2. bit \in Serialize(f).bytes[k] /\ Serialize(f).size = s
  BY <1>1 DEF Serialize, ByteBits
<1>3. h \in 0..(Serialize(f).size - 1) /\ h % ByteBits \in Serialize(f).bytes[h \div ByteBits]
  BY <1>2 DEF k, bit, ByteBits
<1> QED
  BY <1>3 DEF Deserialize

\* The filter of a set of blocks, as the other side reads it, contains each of
\* them: it asks for hashes that were all added.
LEMMA FilterContains ==
    ASSUME NEW blocks \in SUBSET Blocks, NEW b \in blocks
    PROVE  MightContain(Deserialize(Serialize(GetLocalBloomFilter(blocks))), b)
<1> DEFINE n == Max({Cardinality(blocks), 1})
           s == OptimalSize(n)
           f == NewFilter(n, HashCount)
           l == GetLocalBloomFilter(blocks)
           r == Deserialize(Serialize(l))
<1>1. n \in Nat
  <2>1. IsFiniteSet(blocks)
    BY DiscoveryAssumption, FS_Subset
  <2>2. Cardinality(blocks) \in Nat
    BY <2>1, FS_CardinalityType
  <2> QED
    BY <2>2, MaxOfTwo
<1> HIDE DEF n
<1>2. s \in Nat /\ s > 0
  BY <1>1, SizeIsPositive
<1>3. /\ f.size = s /\ f.hashCount = HashCount
      /\ l.size = s /\ l.bits = UNION {AddItem(f, c).bits : c \in blocks}
  BY DEF NewFilter, GetLocalBloomFilter, n
<1> HIDE DEF s
<1>4. Hashes(f, b) \subseteq l.bits
  <2>1. Hashes(f, b) \subseteq AddItem(f, b).bits
    BY DEF AddItem, NewFilter
  <2> QED
    BY <1>3, <2>1
<1>5. r.size = s /\ r.hashCount = DefaultHashCount
  BY <1>3 DEF Deserialize, Serialize
<1> HIDE DEF f, l, r
<1>6. ASSUME NEW h \in Hashes(r, b)
      PROVE  h \in r.bits
  <2>1. PICK i \in 0..(DefaultHashCount - 1) : h = Digest[b][i] % s
    BY <1>5 DEF Hashes
  <2>2. i \in 0..(HashCount - 1)
    BY FilterAssumption, DiscoveryAssumption
  <2>3. Digest[b][i] \in Nat
    BY <2>2, DiscoveryAssumption
  <2>4. h \in 0..(s - 1)
    BY <1>2, <2>1, <2>3
  <2>5. h \in l.bits
    BY <1>3, <1>4, <2>1, <2>2 DEF Hashes
  <2> QED
    BY <1>2, <1>3, <2>4, <2>5, BitsTravel DEF r
<1> QED
  BY <1>6 DEF MightContain, r, l

\* What the proof of NoFalseNegative needs besides: peers hold known blocks.
HoldsBlocks ==
    /\ holds \in [Peers -> SUBSET Blocks]
    /\ filters = [p \in Peers |-> filters[p]]
    /\ announced \in [Peers -> SUBSET Blocks]

\* Only setPeerBloomFilter changes a filter, and it tells what it was made from.
LEMMA DiscoveryStep ==
    ASSUME HoldsBlocks, NoFalseNegative, [DiscoveryNext]_discoveryVars
    PROVE  HoldsBlocks' /\ NoFalseNegative'
<1>1. ASSUME NEW p \in Peers, SetPeerBloomFilter(p)
      PROVE  HoldsBlocks' /\ NoFalseNegative'
  <2> DEFINE new == Deserialize(Serialize(GetLocalBloomFilter(holds[p])))
  <2>1. holds' = holds /\ filters' = [filters EXCEPT ![p] = new] /\ announced' = [announced EXCEPT ![p] = holds[p]]
    BY <1>1 DEF SetPeerBloomFilter
  <2>2. holds[p] \in SUBSET Blocks
    BY DEF HoldsBlocks
  <2>3. \A b \in holds[p] : MightContain(new, b)
    BY <2>2, FilterContains
  <2> HIDE DEF new
  <2>4. HoldsBlocks'
    BY <2>1, <2>2 DEF HoldsBlocks
  <2>5. NoFalseNegative'
    <3> SUFFICES ASSUME NEW q \in Peers, filters'[q] # Nothing, NEW b \in announced'[q]
                 PROVE  MightContain(filters'[q], b)
      BY DEF NoFalseNegative, MightContain, Hashes
    <3>1. CASE q = p
      BY <2>1, <2>3, <3>1 DEF HoldsBlocks
    <3>2. CASE q # p
      <4>1. filters'[q] = filters[q] /\ announced'[q] = announced[q]
        BY <2>1, <3>2 DEF HoldsBlocks
      <4> QED
        BY <4>1 DEF NoFalseNegative
    <3> QED BY <3>1, <3>2
  <2> QED BY <2>4, <2>5
<1>2. ASSUME NEW p \in Peers, NEW blocks \in Holdings, SetPeerQueryResponse(p, blocks)
      PROVE  HoldsBlocks' /\ NoFalseNegative'
  <2>1. holds' \in [Peers -> SUBSET Blocks] /\ UNCHANGED <<filters, announced>>
    BY <1>2, DiscoveryAssumption DEF SetPeerQueryResponse, HoldsBlocks
  <2> QED
    BY <2>1 DEF HoldsBlocks, NoFalseNegative, MightContain, Hashes
<1>3. ASSUME UNCHANGED <<holds, filters, announced>>
      PROVE  HoldsBlocks' /\ NoFalseNegative'
  BY <1>3 DEF HoldsBlocks, NoFalseNegative, MightContain, Hashes
<1>4. ASSUME NEW c \in Callers, CallerStep(c) \/ \E b \in Wanted : DiscoverBlock(c, b)
      PROVE  UNCHANGED <<holds, filters, announced>>
  BY <1>4 DEF CallerStep, DiscoverBlock, ChoosePeers, QueryPeer, CacheLocations
<1>5. ASSUME NEW b \in Wanted, ClearCache(b) \/ Expire(b)
      PROVE  UNCHANGED <<holds, filters, announced>>
  BY <1>5 DEF ClearCache, Expire
<1>6. ASSUME NEW p \in Peers, PeerComesOrGoes(p)
      PROVE  UNCHANGED <<holds, filters, announced>>
  BY <1>6 DEF PeerComesOrGoes
<1>7. ASSUME ClearAllCache \/ UNCHANGED discoveryVars
      PROVE  UNCHANGED <<holds, filters, announced>>
  BY <1>7 DEF ClearAllCache, discoveryVars
<1> QED
  BY <1>1, <1>2, <1>3, <1>4, <1>5, <1>6, <1>7 DEF DiscoveryNext

\* The other parts leave discovery alone.
LEMMA ServicesAreApart ==
    ASSUME [ServicesNext]_servicesVars
    PROVE  /\ [DiscoveryNext]_discoveryVars
           /\ [\E u \in Updates : Update(u)]_doc
  BY DEF ServicesNext, servicesVars, discoveryVars

\* A filter that was sent contains every block it was made from, for any number
\* of blocks and any digests (BloomFilter::serialize, deserialize, mightContain).
THEOREM FiltersAreHonest == ServicesSpec => []NoFalseNegative
<1>1. ServicesInit => HoldsBlocks /\ NoFalseNegative
  BY DEF ServicesInit, DiscoveryInit, HoldsBlocks, NoFalseNegative
<1>2. HoldsBlocks /\ NoFalseNegative /\ [ServicesNext]_servicesVars => (HoldsBlocks /\ NoFalseNegative)'
  BY DiscoveryStep, ServicesAreApart
<1> QED
  BY <1>1, <1>2, PTL DEF ServicesSpec

(***************************************************************************)
(* The order of values, and what queries make of it.                       *)
(***************************************************************************)

\* A number in a non-empty set of numbers that none is below.
LEMMA LeastOne ==
    ASSUME NEW S, S \subseteq Nat, S # {}
    PROVE  \E x \in S : \A y \in S : x <= y
<1> DEFINE R == OpToRel(<, Nat)
<1>1. R = {ss \in Nat \X Nat : ss[1] < ss[2]}
  BY DEF OpToRel
<1>2. IsWellFoundedOn(R, Nat)
  BY NatLessThanWellFounded
<1> HIDE DEF R
<1>3. PICK x \in S : \A y \in S : ~(<<y, x>> \in R)
  BY <1>2, WFMin
<1>4. ASSUME NEW y \in S PROVE x <= y
  <2>1. x \in Nat /\ y \in Nat /\ (y < x => <<y, x>> \in R)
    BY <1>1
  <2> QED BY <1>3, <2>1
<1> QED BY <1>3, <1>4

ScalarTypes == {"null", "boolean", "number", "string", "object"}

\* What a value is.
LEMMA ValueShape ==
    ASSUME NEW v \in JsonValues
    PROVE  \/ v.type \in ScalarTypes /\ v.value \in Int /\ v = [type |-> v.type, value |-> v.value] /\ v \in Scalars
           \/ v.type = "array" /\ v.value \in Seq(Scalars) /\ v = Array(v.value)
  BY DEF JsonValues, Scalars, ScalarTypes, Array

\* The rank of a value says its type, in both orders.
LEMMA Ranks ==
    ASSUME NEW a \in JsonValues, NEW b \in JsonValues
    PROVE  /\ TypeRank(a) \in Nat /\ JsonRank(a) \in Nat
           /\ TypeRank(a) = TypeRank(b) <=> a.type = b.type
           /\ JsonRank(a) = JsonRank(b) <=> a.type = b.type
           /\ SameOrder(a, b) => (TypeRank(a) < TypeRank(b) <=> JsonRank(a) < JsonRank(b))
<1>1. a.type \in ScalarTypes \cup {"array"} /\ b.type \in ScalarTypes \cup {"array"}
  BY ValueShape
<1> QED
  BY <1>1 DEF TypeRank, JsonRank, ScalarTypes, SameOrder

\* Scalars are ordered by type and then by value.
LEMMA ScalarOrder ==
    ASSUME NEW a \in Scalars, NEW b \in Scalars, NEW c \in Scalars
    PROVE  /\ ~ScalarLess(a, a)
           /\ ScalarLess(a, b) /\ ScalarLess(b, c) => ScalarLess(a, c)
           /\ ScalarLess(a, b) \/ a = b \/ ScalarLess(b, a)
<1>1. /\ a \in JsonValues /\ b \in JsonValues /\ c \in JsonValues
      /\ a.value \in Int /\ b.value \in Int /\ c.value \in Int
      /\ a = [type |-> a.type, value |-> a.value] /\ b = [type |-> b.type, value |-> b.value]
  BY DEF JsonValues, Scalars
<1>2. /\ JsonRank(a) \in Nat /\ JsonRank(b) \in Nat /\ JsonRank(c) \in Nat
      /\ JsonRank(a) = JsonRank(b) <=> a.type = b.type
      /\ JsonRank(b) = JsonRank(c) <=> b.type = c.type
      /\ JsonRank(a) = JsonRank(c) <=> a.type = c.type
  BY <1>1, Ranks
<1>3. ~ScalarLess(a, a)
  BY <1>1, <1>2 DEF ScalarLess
<1>4. ScalarLess(a, b) /\ ScalarLess(b, c) => ScalarLess(a, c)
  BY <1>1, <1>2 DEF ScalarLess
<1>5. ScalarLess(a, b) \/ a = b \/ ScalarLess(b, a)
  BY <1>1, <1>2 DEF ScalarLess
<1> QED BY <1>3, <1>4, <1>5

\* Array a comes before b at position k: they agree up to there.
Before(a, b, k) ==
    /\ k <= Len(a) /\ k <= Len(b) /\ \A i \in 1..k : a[i] = b[i]
    /\ IF k = Len(a) THEN k < Len(b) ELSE k < Len(b) /\ ScalarLess(a[k + 1], b[k + 1])

\* The order of arrays, in terms of the place where they part.
LEMMA ArrayLess ==
    ASSUME NEW a, NEW b, a.type = "array", b.type = "array"
    PROVE  JsonLess(a, b) <=> \E k \in 0..Len(a.value) : Before(a.value, b.value, k)
<1> DEFINE s == a.value
           t == b.value
<1>1. JsonLess(a, b) <=> \E k \in 0..Len(s) :
            /\ k <= Len(t) /\ \A i \in 1..k : s[i] = t[i]
            /\ IF k = Len(s) THEN k < Len(t)
               ELSE k < Len(t) /\ ScalarLess(s[k + 1], t[k + 1])
  BY Zenon DEF JsonLess
<1> HIDE DEF s, t
<1>2. ASSUME NEW k \in 0..Len(s)
      PROVE  Before(s, t, k) <=> /\ k <= Len(t) /\ \A i \in 1..k : s[i] = t[i]
                                 /\ IF k = Len(s) THEN k < Len(t)
                                    ELSE k < Len(t) /\ ScalarLess(s[k + 1], t[k + 1])
  BY DEF Before
<1> QED BY <1>1, <1>2 DEF s, t

\* The lexicographic order of arrays.
LEMMA ArrayOrder ==
    ASSUME NEW a \in Seq(Scalars), NEW b \in Seq(Scalars), NEW c \in Seq(Scalars)
    PROVE  /\ \A k \in Nat : ~Before(a, a, k)
           /\ \A k, m \in Nat : Before(a, b, k) /\ Before(b, c, m) => \E n \in 0..Len(a) : Before(a, c, n)
           /\ a = b \/ \E k \in 0..Len(a) : Before(a, b, k) \/ \E m \in 0..Len(b) : Before(b, a, m)
<1>1. ASSUME NEW k \in Nat, Before(a, a, k) PROVE FALSE
  <2>1. k < Len(a) /\ ScalarLess(a[k + 1], a[k + 1]) /\ Len(a) \in Nat
    BY <1>1 DEF Before
  <2>2. a[k + 1] \in Scalars
    BY <2>1
  <2> QED BY <2>1, <2>2, ScalarOrder
<1>2. ASSUME NEW k \in Nat, NEW m \in Nat, Before(a, b, k), Before(b, c, m)
      PROVE  \E n \in 0..Len(a) : Before(a, c, n)
  <2>0. Len(a) \in Nat /\ Len(b) \in Nat /\ Len(c) \in Nat
    OBVIOUS
  <2>a. /\ k <= Len(a) /\ k < Len(b) /\ (\A i \in 1..k : a[i] = b[i])
        /\ k = Len(a) \/ ScalarLess(a[k + 1], b[k + 1])
    BY <1>2 DEF Before
  <2>b. /\ m <= Len(b) /\ m < Len(c) /\ (\A i \in 1..m : b[i] = c[i])
        /\ m = Len(b) \/ ScalarLess(b[m + 1], c[m + 1])
    BY <1>2 DEF Before
  <2>1. CASE k < m
    <3>1. b[k + 1] = c[k + 1] /\ \A i \in 1..k : a[i] = c[i]
      BY <2>1, <2>a, <2>b
    <3>2. Before(a, c, k)
      BY <2>0, <2>1, <2>a, <2>b, <3>1 DEF Before
    <3> QED BY <2>0, <2>a, <3>2
  <2>2. CASE m < k
    <3>0. m + 1 \in 1..k /\ \A i \in 1..m : i \in 1..k
      BY <2>2
    <3>1. a[m + 1] = b[m + 1] /\ \A i \in 1..m : a[i] = c[i]
      BY <3>0, <2>a, <2>b
    <3>2. m < Len(a) /\ m # Len(b) /\ ScalarLess(a[m + 1], c[m + 1])
      BY <2>0, <2>2, <2>a, <2>b, <3>1
    <3>3. Before(a, c, m)
      BY <2>0, <2>2, <2>a, <2>b, <3>1, <3>2 DEF Before
    <3> QED BY <2>0, <3>2, <3>3
  <2>3. CASE k = m
    <3>1. \A i \in 1..k : a[i] = c[i]
      BY <2>3, <2>a, <2>b
    <3>2. k = Len(a) \/ ScalarLess(a[k + 1], c[k + 1])
      <4> SUFFICES ASSUME k # Len(a) PROVE ScalarLess(a[k + 1], c[k + 1])
        OBVIOUS
      <4>1. ScalarLess(a[k + 1], b[k + 1]) /\ ScalarLess(b[k + 1], c[k + 1])
        BY <2>0, <2>3, <2>a, <2>b
      <4>2. a[k + 1] \in Scalars /\ b[k + 1] \in Scalars /\ c[k + 1] \in Scalars
        BY <2>0, <2>3, <2>a, <2>b
      <4> QED BY <4>1, <4>2, ScalarOrder
    <3>3. Before(a, c, k)
      BY <2>0, <2>3, <2>a, <2>b, <3>1, <3>2 DEF Before
    <3> QED BY <2>0, <2>a, <3>3
  <2> QED BY <2>1, <2>2, <2>3
<1>3. ASSUME a # b
      PROVE  (\E k \in 0..Len(a) : Before(a, b, k)) \/ \E m \in 0..Len(b) : Before(b, a, m)
  <2>0. Len(a) \in Nat /\ Len(b) \in Nat
    OBVIOUS
  <2> DEFINE D == {k \in Nat : k = Len(a) \/ k = Len(b) \/ (k < Len(a) /\ k < Len(b) /\ a[k + 1] # b[k + 1])}
  <2>1. PICK k \in D : \A y \in D : k <= y
    <3>1. D \subseteq Nat /\ Len(a) \in D
      OBVIOUS
    <3> HIDE DEF D
    <3> QED BY <3>1, LeastOne
  <2>2. k \in Nat /\ k <= Len(a) /\ k <= Len(b)
    BY <2>0, <2>1
  <2>3. \A i \in 1..k : a[i] = b[i]
    <3> SUFFICES ASSUME NEW i \in 1..k, a[i] # b[i] PROVE FALSE
      OBVIOUS
    <3>1. i - 1 \in Nat /\ i - 1 < Len(a) /\ i - 1 < Len(b) /\ (i - 1) + 1 = i
      BY <2>0, <2>2
    <3>2. i - 1 \in D
      BY <3>1
    <3> HIDE DEF D
    <3>3. k <= i - 1
      BY <2>1, <3>2, Zenon
    <3> QED BY <2>0, <2>2, <3>1, <3>3
  <2>4. k = Len(a) /\ k = Len(b) => FALSE
    <3> SUFFICES ASSUME k = Len(a), k = Len(b) PROVE FALSE
      OBVIOUS
    <3>1. Len(a) = Len(b) /\ \A i \in 1..Len(a) : a[i] = b[i]
      BY <2>3
    <3> HIDE DEF D
    <3>2. a = b
      BY <3>1, SeqEqual
    <3> QED BY <1>3, <3>2
  <2>5. k < Len(a) /\ k < Len(b) => ScalarLess(a[k + 1], b[k + 1]) \/ ScalarLess(b[k + 1], a[k + 1])
    <3> SUFFICES ASSUME k < Len(a), k < Len(b) PROVE ScalarLess(a[k + 1], b[k + 1]) \/ ScalarLess(b[k + 1], a[k + 1])
      OBVIOUS
    <3>1. a[k + 1] # b[k + 1]
      BY <2>0, <2>1
    <3>2. a[k + 1] \in Scalars /\ b[k + 1] \in Scalars
      BY <2>0, <2>2
    <3> QED BY <3>1, <3>2, ScalarOrder
  <2> HIDE DEF D
  <2>6. Before(a, b, k) \/ Before(b, a, k)
    BY <2>0, <2>2, <2>3, <2>4, <2>5 DEF Before
  <2> QED BY <2>0, <2>2, <2>6
<1> QED BY <1>1, <1>2, <1>3

\* The order of two values of one type.
LEMMA JsonOrder ==
    ASSUME NEW a \in JsonValues, NEW b \in JsonValues, NEW c \in JsonValues,
           a.type = b.type, b.type = c.type
    PROVE  /\ ~JsonLess(a, a)
           /\ JsonLess(a, b) /\ JsonLess(b, c) => JsonLess(a, c)
           /\ JsonLess(a, b) \/ a = b \/ JsonLess(b, a)
<1>1. CASE a.type = "array"
  <2>1. /\ a.value \in Seq(Scalars) /\ b.value \in Seq(Scalars) /\ c.value \in Seq(Scalars)
        /\ a = Array(a.value) /\ b = Array(b.value)
    BY <1>1, ValueShape DEF ScalarTypes
  <2> DEFINE s == a.value
             t == b.value
             u == c.value
  <2>2. /\ JsonLess(a, a) <=> \E k \in 0..Len(s) : Before(s, s, k)
        /\ JsonLess(a, b) <=> \E k \in 0..Len(s) : Before(s, t, k)
        /\ JsonLess(b, a) <=> \E k \in 0..Len(t) : Before(t, s, k)
        /\ JsonLess(b, c) <=> \E k \in 0..Len(t) : Before(t, u, k)
        /\ JsonLess(a, c) <=> \E k \in 0..Len(s) : Before(s, u, k)
    BY <1>1, ArrayLess
  <2>3. s = t => a = b
    BY <2>1
  <2>4. s \in Seq(Scalars) /\ t \in Seq(Scalars) /\ u \in Seq(Scalars)
    BY <2>1
  <2> HIDE DEF s, t, u
  <2>5. /\ \A k \in Nat : ~Before(s, s, k)
        /\ \A k, m \in Nat : Before(s, t, k) /\ Before(t, u, m) => \E n \in 0..Len(s) : Before(s, u, n)
        /\ s = t \/ \E k \in 0..Len(s) : Before(s, t, k) \/ \E m \in 0..Len(t) : Before(t, s, m)
    BY <2>4, ArrayOrder
  <2>6. Len(s) \in Nat /\ Len(t) \in Nat
    BY <2>4
  <2> QED BY <2>2, <2>3, <2>5, <2>6
<1>2. CASE a.type # "array"
  <2>1. a \in Scalars /\ b \in Scalars /\ c \in Scalars
    BY <1>2, ValueShape
  <2> QED
    BY <1>2, <2>1, ScalarOrder DEF JsonLess
<1> QED BY <1>1, <1>2

\* compareValues is an order of all values.
LEMMA CompareOrder ==
    ASSUME NEW a \in JsonValues, NEW b \in JsonValues, NEW c \in JsonValues
    PROVE  /\ CompareValues(a, b) \in Int
           /\ CompareValues(a, a) = 0
           /\ CompareValues(a, b) <= 0 /\ CompareValues(b, c) <= 0 => CompareValues(a, c) <= 0
<1> DEFINE ra == TypeRank(a)
           rb == TypeRank(b)
           rc == TypeRank(c)
<1>1. /\ ra \in Nat /\ rb \in Nat /\ rc \in Nat
      /\ ra = rb <=> a.type = b.type
      /\ rb = rc <=> b.type = c.type
  BY Ranks
<1>2. /\ CompareValues(a, b) = IF ra # rb THEN ra - rb ELSE IF a = b THEN 0 ELSE IF JsonLess(a, b) THEN -1 ELSE 1
      /\ CompareValues(b, c) = IF rb # rc THEN rb - rc ELSE IF b = c THEN 0 ELSE IF JsonLess(b, c) THEN -1 ELSE 1
      /\ CompareValues(a, c) = IF ra # rc THEN ra - rc ELSE IF a = c THEN 0 ELSE IF JsonLess(a, c) THEN -1 ELSE 1
      /\ CompareValues(a, a) = 0
  BY Zenon DEF CompareValues
<1> HIDE DEF ra, rb, rc
<1>3. CompareValues(a, b) \in Int
  BY <1>1, <1>2
<1>4. ASSUME CompareValues(a, b) <= 0, CompareValues(b, c) <= 0
      PROVE  CompareValues(a, c) <= 0
  <2>1. CASE ra = rb /\ rb = rc
    <3>1. (a = b \/ JsonLess(a, b)) /\ (b = c \/ JsonLess(b, c))
      BY <1>1, <1>2, <1>4, <2>1
    <3>2. a = c \/ JsonLess(a, c)
      BY <1>1, <2>1, <3>1, JsonOrder
    <3> QED BY <1>2, <2>1, <3>2
  <2>2. CASE ~(ra = rb /\ rb = rc)
    <3>1. ra <= rb /\ rb <= rc
      BY <1>1, <1>2, <1>4
    <3>2. ra < rc
      BY <1>1, <2>2, <3>1
    <3> QED BY <1>1, <1>2, <3>2
  <2> QED BY <2>1, <2>2
<1> QED BY <1>2, <1>3, <1>4

\* A filter of one test: the field is there and passes it.
LEMMA MatchesDef ==
    ASSUME NEW d, NEW k, NEW op, NEW v
    PROVE  Matches(d, k, op, v) <=> k \in DOMAIN d /\ MatchesOperator(d[k], op, v)
<1> DEFINE clause == Test(k, op, v)
<1>1. /\ clause.key = k /\ clause.exists = None
      /\ clause.tests = {[op |-> op, operand |-> v]}
  BY DEF Test
<1>2. MatchesField(d, clause) <=> k \in DOMAIN d /\ MatchesOperator(d[k], op, v)
  BY <1>1 DEF MatchesField
<1> HIDE DEF clause
<1>3. MatchesFields(d, {clause}) <=> MatchesField(d, clause)
  BY DEF MatchesFields
<1>4. MatchesFilter(d, OnField(clause)) <=> MatchesFields(d, {clause})
  BY DEF MatchesFilter, OnField
<1> QED BY <1>2, <1>3, <1>4 DEF Matches, clause

\* The same, of a clause under $and and $or.
LEMMA SubMatches ==
    ASSUME NEW d, NEW k, NEW op, NEW v
    PROVE  MatchesFields(d, {Test(k, op, v)}) <=> Matches(d, k, op, v)
<1> DEFINE clause == Test(k, op, v)
<1> HIDE DEF clause
<1>1. MatchesFilter(d, OnField(clause)) <=> MatchesFields(d, {clause})
  BY DEF MatchesFilter, OnField
<1> QED BY <1>1 DEF Matches, clause

\* A document: fields with values.
IsDoc(d) ==
    /\ d = [k \in DOMAIN d |-> d[k]]
    /\ \A k \in DOMAIN d : d[k] \in JsonValues

\* The laws of queries hold of every document.
LEMMA QueryLawsHold ==
    ASSUME IsDoc(doc)
    PROVE  QueryLaws
<1> SUFFICES ASSUME NEW k \in Fields, NEW a \in Values, NEW b \in Values
             PROVE
        LET m(op, v) == Matches(doc, k, op, v)
            either == [fields |-> {}, and |-> {}, or |-> {{Test(k, "$eq", a)}, {Test(k, "$eq", b)}}]
            both == [fields |-> {}, and |-> {{Test(k, "$gte", a)}, {Test(k, "$lte", a)}}, or |-> None]
            absent == OnField([key |-> k, exists |-> FALSE, tests |-> {}])
        IN IF k \notin DOMAIN doc
           THEN /\ MatchesFilter(doc, absent)
                /\ \A op \in {"$eq", "$ne", "$gt", "$gte", "$lt", "$lte"} : ~m(op, a)
           ELSE /\ ~MatchesFilter(doc, absent)
                /\ Cardinality({op \in {"$eq", "$gt", "$lt"} : m(op, a)}) = 1
                /\ m("$eq", a) = MatchesFilter(doc, both)
                /\ m("$ne", a) = ~m("$eq", a)
                /\ m("$lte", a) /\ CompareValues(a, b) <= 0 => m("$lte", b)
                /\ a.type # "array" /\ b.type # "array" =>
                      /\ m("$in", Array(<<a, b>>)) = MatchesFilter(doc, either)
                      /\ m("$nin", Array(<<a, b>>)) = ~MatchesFilter(doc, either)
  BY DEF QueryLaws
<1> DEFINE m(op, v) == Matches(doc, k, op, v)
           either == [fields |-> {}, and |-> {}, or |-> {{Test(k, "$eq", a)}, {Test(k, "$eq", b)}}]
           both == [fields |-> {}, and |-> {{Test(k, "$gte", a)}, {Test(k, "$lte", a)}}, or |-> None]
           none == [key |-> k, exists |-> FALSE, tests |-> {}]
           absent == OnField(none)
<1>1. MatchesFilter(doc, absent) <=> k \notin DOMAIN doc
  <2>0. none.key = k /\ none.exists = FALSE /\ none.exists # None /\ none.tests = {}
    BY QueryAssumption
  <2> HIDE DEF none
  <2>1. MatchesField(doc, none) <=> k \notin DOMAIN doc
    <3>1. MatchesField(doc, none) <=>
             ((k \in DOMAIN doc) = FALSE) /\ (k \in DOMAIN doc => \A t \in {} : MatchesOperator(doc[k], t.op, t.operand))
      BY <2>0, Zenon DEF MatchesField
    <3>2. ((k \in DOMAIN doc) = FALSE) <=> k \notin DOMAIN doc
      OBVIOUS
    <3> QED BY <3>1, <3>2
  <2> QED BY <2>1 DEF MatchesFilter, MatchesFields, OnField
<1>2. \A op, v : m(op, v) <=> k \in DOMAIN doc /\ MatchesOperator(doc[k], op, v)
  BY MatchesDef
<1>3. MatchesFilter(doc, both) <=> m("$gte", a) /\ m("$lte", a)
  <2>1. MatchesFilter(doc, both) <=> /\ MatchesFields(doc, {Test(k, "$gte", a)})
                                     /\ MatchesFields(doc, {Test(k, "$lte", a)})
    <3> DEFINE x == {Test(k, "$gte", a)}
               y == {Test(k, "$lte", a)}
    <3> HIDE DEF x, y
    <3>1. MatchesFields(doc, {})
      BY DEF MatchesFields
    <3>2. MatchesFilter(doc, [fields |-> {}, and |-> {x, y}, or |-> None])
          <=> MatchesFields(doc, x) /\ MatchesFields(doc, y)
      BY <3>1 DEF MatchesFilter
    <3> QED BY <3>2 DEF x, y
  <2> QED BY <2>1, SubMatches
<1>4. MatchesFilter(doc, either) <=> m("$eq", a) \/ m("$eq", b)
  <2>1. MatchesFilter(doc, either) <=> \/ MatchesFields(doc, {Test(k, "$eq", a)})
                                       \/ MatchesFields(doc, {Test(k, "$eq", b)})
    <3> DEFINE x == {Test(k, "$eq", a)}
               y == {Test(k, "$eq", b)}
    <3>0. {x, y} # None
      BY UpdateAssumption
    <3> HIDE DEF x, y
    <3>1. MatchesFields(doc, {})
      BY DEF MatchesFields
    <3>2. MatchesFilter(doc, [fields |-> {}, and |-> {}, or |-> {x, y}])
          <=> MatchesFields(doc, x) \/ MatchesFields(doc, y)
      BY <3>0, <3>1 DEF MatchesFilter
    <3> QED BY <3>2 DEF x, y
  <2> QED BY <2>1, SubMatches
<1> HIDE DEF m, either, both, none, absent
<1>5. CASE k \notin DOMAIN doc
  BY <1>1, <1>2, <1>5 DEF m, either, both, none, absent
<1>6. CASE k \in DOMAIN doc
  <2> DEFINE x == doc[k]
             c == CompareValues(x, a)
             e == CompareValues(x, b)
  <2>0. x \in JsonValues /\ a \in JsonValues /\ b \in JsonValues
    BY <1>6, UpdateAssumption DEF IsDoc
  <2>1. c \in Int /\ e \in Int /\ (c <= 0 /\ CompareValues(a, b) <= 0 => e <= 0)
    BY <2>0, CompareOrder
  <2>2. /\ m("$eq", a) <=> c = 0
        /\ m("$eq", b) <=> e = 0
        /\ m("$ne", a) <=> c # 0
        /\ m("$gt", a) <=> c > 0
        /\ m("$lt", a) <=> c < 0
        /\ m("$gte", a) <=> c >= 0
        /\ m("$lte", a) <=> c <= 0
        /\ m("$lte", b) <=> e <= 0
    BY <1>2, <1>6 DEF MatchesOperator
  <2>3. /\ m("$in", Array(<<a, b>>)) <=> c = 0 \/ e = 0
        /\ m("$nin", Array(<<a, b>>)) <=> ~(c = 0 \/ e = 0)
    <3> DEFINE p == Array(<<a, b>>)
    <3>1. p.type = "array" /\ Len(p.value) = 2 /\ p.value[1] = a /\ p.value[2] = b
      BY DEF Array
    <3> HIDE DEF p
    <3>2. \A i : i \in 1..Len(p.value) <=> i = 1 \/ i = 2
      BY <3>1
    <3>3. MatchesOperator(x, "$in", p) <=> \E i \in 1..Len(p.value) : CompareValues(x, p.value[i]) = 0
      BY <3>1 DEF MatchesOperator
    <3>4. MatchesOperator(x, "$nin", p) <=> \A i \in 1..Len(p.value) : CompareValues(x, p.value[i]) # 0
      BY <3>1 DEF MatchesOperator
    <3> QED BY <1>2, <1>6, <3>1, <3>2, <3>3, <3>4 DEF p
  <2>4. Cardinality({op \in {"$eq", "$gt", "$lt"} : m(op, a)}) = 1
    <3> HIDE DEF c
    <3>1. \E op : {o \in {"$eq", "$gt", "$lt"} : m(o, a)} = {op}
      <4>1. CASE c = 0
        <5>1. {o \in {"$eq", "$gt", "$lt"} : m(o, a)} = {"$eq"}
          BY <2>1, <2>2, <4>1
        <5> QED BY <5>1
      <4>2. CASE c > 0
        <5>1. {o \in {"$eq", "$gt", "$lt"} : m(o, a)} = {"$gt"}
          BY <2>1, <2>2, <4>2
        <5> QED BY <5>1
      <4>3. CASE c < 0
        <5>1. {o \in {"$eq", "$gt", "$lt"} : m(o, a)} = {"$lt"}
          BY <2>1, <2>2, <4>3
        <5> QED BY <5>1
      <4>4. c = 0 \/ c > 0 \/ c < 0
        BY <2>1
      <4> QED BY <4>1, <4>2, <4>3, <4>4, Zenon
    <3> QED BY <3>1, FS_Singleton
  <2> HIDE DEF c, e, x
  <2>5. m("$eq", a) <=> MatchesFilter(doc, both)
    BY <1>3, <2>1, <2>2
  <2>6. m("$ne", a) <=> ~m("$eq", a)
    BY <2>2
  <2>7. m("$lte", a) /\ CompareValues(a, b) <= 0 => m("$lte", b)
    BY <2>1, <2>2
  <2>8. /\ m("$in", Array(<<a, b>>)) <=> MatchesFilter(doc, either)
        /\ m("$nin", Array(<<a, b>>)) <=> ~MatchesFilter(doc, either)
    BY <1>4, <2>2, <2>3
  <2>9. /\ m("$eq", a) = MatchesFilter(doc, both)
        /\ m("$ne", a) = ~m("$eq", a)
        /\ m("$in", Array(<<a, b>>)) = MatchesFilter(doc, either)
        /\ m("$nin", Array(<<a, b>>)) = ~MatchesFilter(doc, either)
    <3>1. \A op, v : m(op, v) \in BOOLEAN
      BY Zenon DEF m, Matches, MatchesFilter
    <3>2. MatchesFilter(doc, both) \in BOOLEAN /\ MatchesFilter(doc, either) \in BOOLEAN
      BY Zenon DEF MatchesFilter
    <3>3. \A p, q \in BOOLEAN : (p <=> q) => p = q
      OBVIOUS
    <3>4. m("$eq", a) = MatchesFilter(doc, both)
      BY <2>5, <3>1, <3>2, <3>3, Zenon
    <3>5. m("$ne", a) = ~m("$eq", a)
      BY <2>6, <3>1, <3>3, Zenon
    <3>6. m("$in", Array(<<a, b>>)) = MatchesFilter(doc, either)
      BY <2>8, <3>1, <3>2, <3>3, Zenon
    <3>7. m("$nin", Array(<<a, b>>)) = ~MatchesFilter(doc, either)
      BY <2>8, <3>1, <3>2, <3>3, Zenon
    <3> QED BY <3>4, <3>5, <3>6, <3>7, Zenon
  <2> QED
    BY <1>1, <1>6, <2>4, <2>7, <2>9, Zenon DEF m, either, both, none, absent
<1> QED BY <1>5, <1>6

\* A field that is set, and the others.
LEMMA PutDoc ==
    ASSUME NEW d, IsDoc(d), NEW k, NEW v \in JsonValues
    PROVE  /\ IsDoc(Put(d, k, v))
           /\ DOMAIN Put(d, k, v) = DOMAIN d \cup {k} /\ Put(d, k, v)[k] = v
           /\ \A j \in DOMAIN d : j # k => Put(d, k, v)[j] = d[j]
  BY DEF IsDoc, Put

\* A field that is erased, and the others.
LEMMA EraseDoc ==
    ASSUME NEW d, IsDoc(d), NEW k
    PROVE  /\ IsDoc(Erase(d, k))
           /\ DOMAIN Erase(d, k) = DOMAIN d \ {k}
           /\ \A j \in DOMAIN d : j # k => Erase(d, k)[j] = d[j]
  BY DEF IsDoc, Erase

\* The two operators that $min and $max are compared with.
LEMMA LteGte ==
    ASSUME NEW x, NEW v
    PROVE  /\ MatchesOperator(x, "$lte", v) <=> CompareValues(x, v) <= 0
           /\ MatchesOperator(x, "$gte", v) <=> CompareValues(x, v) >= 0
<1>1. MatchesOperator(x, "$lte", v) <=> CompareValues(x, v) <= 0
  BY DEF MatchesOperator
<1>2. MatchesOperator(x, "$gte", v) <=> CompareValues(x, v) >= 0
  BY DEF MatchesOperator
<1> QED BY <1>1, <1>2

\* $min and $max against $lte and $gte.
LEMMA MinMaxHold ==
    ASSUME IsDoc(doc)
    PROVE  MinMaxAgreeWithQueries
<1> SUFFICES ASSUME NEW k \in Fields, NEW v \in Values, k \in DOMAIN doc => SameOrder(doc[k], v)
             PROVE  /\ Matches(ApplyMin(doc, k, v), k, "$lte", v)
                    /\ Matches(ApplyMax(doc, k, v), k, "$gte", v)
  BY DEF MinMaxAgreeWithQueries
<1>1. v \in JsonValues /\ CompareValues(v, v) = 0
  BY UpdateAssumption, CompareOrder
<1>2. /\ k \in DOMAIN Put(doc, k, v)
      /\ MatchesOperator(Put(doc, k, v)[k], "$lte", v)
      /\ MatchesOperator(Put(doc, k, v)[k], "$gte", v)
  <2>1. k \in DOMAIN Put(doc, k, v) /\ Put(doc, k, v)[k] = v
    BY DEF Put
  <2>2. /\ MatchesOperator(v, "$lte", v) <=> CompareValues(v, v) <= 0
        /\ MatchesOperator(v, "$gte", v) <=> CompareValues(v, v) >= 0
    BY LteGte
  <2> QED BY <1>1, <2>1, <2>2
<1>3. /\ Matches(Put(doc, k, v), k, "$lte", v)
      /\ Matches(Put(doc, k, v), k, "$gte", v)
  BY <1>2, MatchesDef
<1>4. CASE k \notin DOMAIN doc
  BY <1>3, <1>4 DEF ApplyMin, ApplyMax
<1>5. CASE k \in DOMAIN doc
  <2> DEFINE x == doc[k]
  <2>1. x \in JsonValues /\ SameOrder(x, v)
    BY <1>5 DEF IsDoc
  <2> HIDE DEF x
  <2>2. /\ TypeRank(x) \in Nat /\ TypeRank(v) \in Nat
        /\ TypeRank(x) = TypeRank(v) <=> x.type = v.type
        /\ JsonRank(x) \in Nat /\ JsonRank(v) \in Nat
        /\ JsonRank(x) = JsonRank(v) <=> x.type = v.type
        /\ TypeRank(x) < TypeRank(v) <=> JsonRank(x) < JsonRank(v)
    BY <1>1, <2>1, Ranks
  <2>3. x.type # v.type => (JsonLess(v, x) <=> JsonRank(v) < JsonRank(x)) /\ (JsonLess(x, v) <=> JsonRank(x) < JsonRank(v))
    BY DEF JsonLess, ScalarLess
  <2>4. x.type = v.type => JsonLess(x, v) \/ x = v \/ JsonLess(v, x)
    BY <1>1, <2>1, JsonOrder
  <2>5. ASSUME ~JsonLess(v, x) PROVE CompareValues(x, v) <= 0
    BY <2>2, <2>3, <2>4, <2>5 DEF CompareValues
  <2>6. ASSUME ~JsonLess(x, v) PROVE CompareValues(x, v) >= 0
    BY <2>2, <2>3, <2>4, <2>6 DEF CompareValues
  <2>7. ~JsonLess(v, x) => MatchesOperator(x, "$lte", v)
    BY <2>5, LteGte
  <2>8. ~JsonLess(x, v) => MatchesOperator(x, "$gte", v)
    BY <2>6, LteGte
  <2>9. /\ ~JsonLess(v, x) => Matches(doc, k, "$lte", v)
        /\ ~JsonLess(x, v) => Matches(doc, k, "$gte", v)
    BY <1>5, <2>7, <2>8, MatchesDef DEF x
  <2> QED BY <1>3, <2>9 DEF ApplyMin, ApplyMax, x
<1> QED BY <1>4, <1>5

\* The loop of applyPull, element by element.
IsWithout(f, s, v) ==
    /\ f[0] = <<>>
    /\ \A i \in 1..Len(s) : f[i] = IF s[i] # v THEN Append(f[i - 1], s[i]) ELSE f[i - 1]

\* Without is what the loop of applyPull leaves at its end.
LEMMA WithoutDef ==
    ASSUME NEW s \in Seq(Scalars), NEW v
    PROVE  \E f : IsWithout(f, s, v) /\ Without(s, v) = f[Len(s)]
<1> DEFINE B(g, n) == g = [i \in 0..n |-> IF i = 0 THEN <<>> ELSE IF s[i] # v THEN Append(g[i - 1], s[i]) ELSE g[i - 1]]
           E == {n \in Nat : \E g : B(g, n)}
<1>0. Len(s) \in Nat
  OBVIOUS
<1>1. 0 \in E
  <2>1. B([i \in 0..0 |-> <<>>], 0)
    OBVIOUS
  <2> QED BY <2>1
<1>2. ASSUME NEW n \in Nat, n \in E PROVE n + 1 \in E
  <2>1. PICK g : B(g, n)
    BY <1>2
  <2> DEFINE new == IF s[n + 1] # v THEN Append(g[n], s[n + 1]) ELSE g[n]
             h == [i \in 0..(n + 1) |-> IF i = n + 1 THEN new ELSE g[i]]
  <2>2. ASSUME NEW i \in 0..(n + 1)
        PROVE  h[i] = IF i = 0 THEN <<>> ELSE IF s[i] # v THEN Append(h[i - 1], s[i]) ELSE h[i - 1]
    <3>1. CASE i = n + 1
      <4>1. h[i] = new /\ h[n] = g[n] /\ i # 0 /\ i - 1 = n
        BY <3>1
      <4> QED BY <3>1, <4>1
    <3>2. CASE i # n + 1
      <4>1. i \in 0..n /\ h[i] = g[i] /\ (i # 0 => h[i - 1] = g[i - 1])
        BY <3>2
      <4>2. g[i] = IF i = 0 THEN <<>> ELSE IF s[i] # v THEN Append(g[i - 1], s[i]) ELSE g[i - 1]
        BY <2>1, <4>1
      <4> HIDE DEF h
      <4> QED BY <4>1, <4>2
    <3> QED BY <3>1, <3>2
  <2>3. h = [i \in 0..(n + 1) |-> h[i]]
    OBVIOUS
  <2> HIDE DEF h, new
  <2>4. B(h, n + 1)
    BY <2>2, <2>3
  <2> QED BY <2>4
<1> HIDE DEF E
<1>3. Nat \subseteq E
  BY <1>1, <1>2, SetInduction
<1> DEFINE f == CHOOSE g : B(g, Len(s))
<1>4. B(f, Len(s))
  BY <1>0, <1>3 DEF E
<1>5. Without(s, v) = f[Len(s)]
  BY DEF Without
<1> HIDE DEF f
<1>6. ASSUME NEW i \in 0..Len(s)
      PROVE  f[i] = IF i = 0 THEN <<>> ELSE IF s[i] # v THEN Append(f[i - 1], s[i]) ELSE f[i - 1]
  BY <1>4
<1>7. IsWithout(f, s, v)
  BY <1>0, <1>6 DEF IsWithout
<1> QED BY <1>5, <1>7

\* Nothing equal to v is left, and where nothing was, nothing goes.
LEMMA WithoutFacts ==
    ASSUME NEW s \in Seq(Scalars), NEW v
    PROVE  /\ Without(s, v) \in Seq(Scalars)
           /\ \A j \in 1..Len(Without(s, v)) : Without(s, v)[j] # v
           /\ (\A j \in 1..Len(s) : s[j] # v) => Without(s, v) = s
<1>1. PICK f : IsWithout(f, s, v) /\ Without(s, v) = f[Len(s)]
  BY WithoutDef
<1>0. Len(s) \in Nat
  OBVIOUS
<1> DEFINE E == {i \in Nat : i <= Len(s) => /\ f[i] \in Seq(Scalars)
                                            /\ \A j \in 1..Len(f[i]) : f[i][j] # v}
<1>2. 0 \in E
  <2>1. f[0] = <<>>
    BY <1>1 DEF IsWithout
  <2>2. f[0] \in Seq(Scalars) /\ Len(f[0]) = 0
    BY <2>1
  <2> QED BY <2>2
<1>3. ASSUME NEW i \in Nat, i \in E PROVE i + 1 \in E
  <2> SUFFICES ASSUME i + 1 <= Len(s)
               PROVE  f[i + 1] \in Seq(Scalars) /\ \A j \in 1..Len(f[i + 1]) : f[i + 1][j] # v
    OBVIOUS
  <2>1. f[i + 1] = IF s[i + 1] # v THEN Append(f[i], s[i + 1]) ELSE f[i]
    BY <1>1 DEF IsWithout
  <2>2. f[i] \in Seq(Scalars) /\ \A j \in 1..Len(f[i]) : f[i][j] # v
    BY <1>3, <1>0
  <2>3. s[i + 1] \in Scalars
    BY <1>0
  <2> QED BY <2>1, <2>2, <2>3
<1> HIDE DEF E
<1>4. Nat \subseteq E
  BY <1>2, <1>3, SetInduction
<1>5. /\ f[Len(s)] \in Seq(Scalars)
      /\ \A j \in 1..Len(f[Len(s)]) : f[Len(s)][j] # v
  BY <1>0, <1>4 DEF E
<1>6. ASSUME \A j \in 1..Len(s) : s[j] # v
      PROVE  f[Len(s)] = s
  <2> DEFINE G == {i \in Nat : i <= Len(s) => /\ f[i] \in Seq(Scalars) /\ Len(f[i]) = i
                                              /\ \A j \in 1..i : f[i][j] = s[j]}
  <2>1. 0 \in G
    <3>1. f[0] = <<>>
      BY <1>1 DEF IsWithout
    <3>2. f[0] \in Seq(Scalars) /\ Len(f[0]) = 0
      BY <3>1
    <3> QED BY <3>2
  <2>2. ASSUME NEW i \in Nat, i \in G PROVE i + 1 \in G
    <3> SUFFICES ASSUME i + 1 <= Len(s)
                 PROVE  f[i + 1] \in Seq(Scalars) /\ Len(f[i + 1]) = i + 1 /\ \A j \in 1..(i + 1) : f[i + 1][j] = s[j]
      OBVIOUS
    <3>0. i + 1 \in 1..Len(s) /\ (i + 1) - 1 = i
      BY <1>0
    <3>1. f[i + 1] = Append(f[i], s[i + 1])
      BY <1>1, <1>6, <3>0 DEF IsWithout
    <3>2. f[i] \in Seq(Scalars) /\ Len(f[i]) = i /\ \A j \in 1..i : f[i][j] = s[j]
      BY <2>2, <1>0
    <3>3. s[i + 1] \in Scalars
      BY <1>0
    <3> QED BY <3>1, <3>2, <3>3
  <2> HIDE DEF G
  <2>3. Nat \subseteq G
    BY <2>1, <2>2, SetInduction
  <2>4. f[Len(s)] \in Seq(Scalars) /\ Len(f[Len(s)]) = Len(s) /\ \A j \in 1..Len(s) : f[Len(s)][j] = s[j]
    BY <1>0, <2>3 DEF G
  <2> QED BY <2>4, SeqEqual
<1> QED BY <1>1, <1>5, <1>6

(***************************************************************************)
(* Updates: every operator leaves a document, and touches its field only.  *)
(***************************************************************************)

\* What an operator may be given.
OperandOK(op, v) ==
    op # "$rename" => v \in IF op \in {"$push", "$addToSet"} THEN Scalars ELSE JsonValues

\* A number is a value.
LEMMA NumberIsJson ==
    ASSUME NEW n \in Int
    PROVE  Number(n) \in JsonValues
  BY DEF Number, JsonValues, Scalars

\* An array of scalars is a value.
LEMMA ArrayIsJson ==
    ASSUME NEW s \in Seq(Scalars)
    PROVE  Array(s) \in JsonValues /\ Array(s).value = s /\ Array(s).type = "array"
  BY DEF Array, JsonValues

\* Every operator leaves a document.
LEMMA OperatorDoc ==
    ASSUME NEW d, IsDoc(d), NEW op, NEW key, NEW v, OperandOK(op, v)
    PROVE  IsDoc(ApplyOperator(d, op, key, v))
<1>a. /\ \A x \in JsonValues : IsDoc(Put(d, key, x)) /\ key \in DOMAIN Put(d, key, x) /\ Put(d, key, x)[key] = x
      /\ IsDoc(Erase(d, key))
  <2>1. ASSUME NEW x \in JsonValues
        PROVE  IsDoc(Put(d, key, x)) /\ key \in DOMAIN Put(d, key, x) /\ Put(d, key, x)[key] = x
    <3>1. IsDoc(Put(d, key, x))
      BY PutDoc, Zenon
    <3> QED BY <3>1 DEF Put
  <2> QED BY <2>1, EraseDoc
<1>b. ASSUME IsA("array", d, key) PROVE d[key].value \in Seq(Scalars)
  <2>1. d[key] \in JsonValues /\ d[key].type = "array"
    BY <1>b DEF IsA, IsDoc
  <2> QED BY <2>1, ValueShape DEF ScalarTypes
<1>c. ASSUME op # "$rename" PROVE v \in JsonValues
  BY <1>c DEF OperandOK, JsonValues
<1>d. ASSUME v \in JsonValues, v.type = "number" PROVE v.value \in Int
  BY <1>d, ValueShape
<1>e. ASSUME IsA("number", d, key) PROVE d[key].value \in Int
  <2>1. d[key] \in JsonValues /\ d[key].type = "number"
    BY <1>e DEF IsA, IsDoc
  <2> QED BY <2>1, ValueShape
<1>w. ASSUME op \in {"$push", "$addToSet"}
      PROVE  /\ IsDoc(WithArray(d, key))
             /\ IsA("array", WithArray(d, key), key) =>
                   \A x \in Seq(Scalars) : IsDoc(Put(WithArray(d, key), key, Array(x)))
             /\ IsA("array", WithArray(d, key), key) => WithArray(d, key)[key].value \in Seq(Scalars)
             /\ v \in Scalars
  <2> DEFINE w == WithArray(d, key)
  <2>1. IsDoc(w)
    <3>1. Array(<<>>) \in JsonValues
      <4>1. <<>> \in Seq(Scalars)
        OBVIOUS
      <4> QED BY <4>1, ArrayIsJson
    <3> QED BY <1>a, <3>1 DEF WithArray
  <2> HIDE DEF w
  <2>2. \A x \in Seq(Scalars) : IsDoc(Put(w, key, Array(x)))
    BY <2>1, ArrayIsJson, PutDoc
  <2>3. ASSUME IsA("array", w, key) PROVE w[key].value \in Seq(Scalars)
    <3>1. w[key] \in JsonValues /\ w[key].type = "array"
      BY <2>1, <2>3 DEF IsA, IsDoc
    <3> QED BY <3>1, ValueShape DEF ScalarTypes
  <2>4. v \in Scalars
    BY <1>w DEF OperandOK
  <2> QED BY <2>1, <2>2, <2>3, <2>4 DEF w
<1>1. CASE op = "$addToSet"
  <2> DEFINE w == WithArray(d, key)
  <2>1. ApplyOperator(d, op, key, v) = ApplyAddToSet(d, key, v)
    BY <1>1 DEF ApplyOperator
  <2>2. IsDoc(w) /\ v \in Scalars
    BY <1>1, <1>w
  <2>3. IsA("array", w, key) => IsDoc(Put(w, key, Array(Append(w[key].value, v))))
    <3> SUFFICES ASSUME IsA("array", w, key) PROVE IsDoc(Put(w, key, Array(Append(w[key].value, v))))
      OBVIOUS
    <3>1. Append(w[key].value, v) \in Seq(Scalars)
      BY <1>1, <1>w, <2>2
    <3> QED BY <1>1, <1>w, <3>1
  <2> HIDE DEF w
  <2> QED BY <2>1, <2>2, <2>3 DEF ApplyAddToSet, w
<1>2. CASE op = "$push"
  <2> DEFINE w == WithArray(d, key)
  <2>1. ApplyOperator(d, op, key, v) = ApplyPush(d, key, v)
    BY <1>2 DEF ApplyOperator
  <2>2. IsDoc(w) /\ v \in Scalars
    BY <1>2, <1>w
  <2>3. IsA("array", w, key) => IsDoc(Put(w, key, Array(Append(w[key].value, v))))
    <3> SUFFICES ASSUME IsA("array", w, key) PROVE IsDoc(Put(w, key, Array(Append(w[key].value, v))))
      OBVIOUS
    <3>1. Append(w[key].value, v) \in Seq(Scalars)
      BY <1>2, <1>w, <2>2
    <3> QED BY <1>2, <1>w, <3>1
  <2> HIDE DEF w
  <2> QED BY <2>1, <2>2, <2>3 DEF ApplyPush, w
<1>3. CASE op = "$currentDate"
  BY <1>3, <1>a, UpdateAssumption DEF ApplyOperator, ApplyCurrentDate
<1>4. CASE op = "$inc"
  <2>1. ApplyOperator(d, op, key, v) = ApplyInc(d, key, v)
    BY <1>4 DEF ApplyOperator
  <2>2. CASE v.type # "number"
    BY <2>1, <2>2 DEF ApplyInc
  <2>3. CASE v.type = "number"
    <3> DEFINE x == IF IsA("number", d, key) THEN Number(d[key].value + v.value) ELSE v
    <3>1. ApplyInc(d, key, v) = Put(d, key, x)
      BY <2>3 DEF ApplyInc
    <3>2. v \in JsonValues /\ v.value \in Int
      BY <1>4, <1>c, <1>d, <2>3
    <3>3. IsA("number", d, key) => d[key].value + v.value \in Int
      BY <1>e, <3>2
    <3>4. x \in JsonValues
      BY <3>2, <3>3, NumberIsJson
    <3> HIDE DEF x
    <3> QED BY <1>a, <2>1, <3>1, <3>4
  <2> QED BY <2>2, <2>3
<1>5. CASE op = "$mul"
  <2>1. ApplyOperator(d, op, key, v) = ApplyMul(d, key, v)
    BY <1>5 DEF ApplyOperator
  <2>2. CASE v.type # "number"
    BY <2>1, <2>2 DEF ApplyMul
  <2>3. CASE v.type = "number"
    <3> DEFINE x == IF IsA("number", d, key) THEN Number(d[key].value * v.value) ELSE Number(0)
    <3>1. ApplyMul(d, key, v) = Put(d, key, x)
      BY <2>3 DEF ApplyMul
    <3>2. v.value \in Int
      BY <1>5, <1>c, <1>d, <2>3
    <3>3. IsA("number", d, key) => d[key].value * v.value \in Int
      BY <1>e, <3>2
    <3>4. x \in JsonValues
      BY <3>3, NumberIsJson
    <3> HIDE DEF x
    <3> QED BY <1>a, <2>1, <3>1, <3>4
  <2> QED BY <2>2, <2>3
<1>6. CASE op \in {"$max", "$min", "$set"}
  BY <1>6, <1>a, <1>c DEF ApplyOperator, ApplyMax, ApplyMin, ApplySet
<1>7. CASE op = "$unset"
  BY <1>7, <1>a DEF ApplyOperator, ApplyUnset
<1>8. CASE op = "$rename"
  <2>1. ApplyOperator(d, op, key, v) = ApplyRename(d, key, v)
    BY <1>8 DEF ApplyOperator
  <2>2. CASE key \in DOMAIN d
    <3>0. d[key] \in JsonValues
      BY <2>2 DEF IsDoc
    <3>1. IsDoc(Put(d, v, d[key]))
      BY <3>0, PutDoc, Zenon
    <3>2. IsDoc(Erase(Put(d, v, d[key]), key))
      BY <3>1, EraseDoc
    <3> QED BY <2>1, <2>2, <3>2 DEF ApplyRename
  <2> QED BY <2>1, <2>2 DEF ApplyRename
<1>9. CASE op = "$pull"
  <2>1. ApplyOperator(d, op, key, v) = ApplyPull(d, key, v)
    BY <1>9 DEF ApplyOperator
  <2>2. ASSUME IsA("array", d, key) PROVE IsDoc(Put(d, key, Array(Without(d[key].value, v))))
    <3>1. Without(d[key].value, v) \in Seq(Scalars)
      BY <1>b, <2>2, WithoutFacts
    <3> QED BY <1>a, <3>1, ArrayIsJson
  <2> QED BY <2>1, <2>2 DEF ApplyPull
<1>10. CASE op = "$pop"
  <2>1. ApplyOperator(d, op, key, v) = ApplyPop(d, key, v)
    BY <1>10 DEF ApplyOperator
  <2> DEFINE s == d[key].value
  <2>2. CASE ~IsA("array", d, key) \/ s = <<>> \/ v.type # "number"
    BY <2>1, <2>2 DEF ApplyPop
  <2>3. CASE ~(~IsA("array", d, key) \/ s = <<>> \/ v.type # "number")
    <3>1. s \in Seq(Scalars) /\ s # <<>>
      BY <1>b, <2>3
    <3>2. ApplyPop(d, key, v) \in {Put(d, key, Array(SubSeq(s, 1, Len(s) - 1))), Put(d, key, Array(Tail(s))), d}
      BY <2>3 DEF ApplyPop
    <3> HIDE DEF s
    <3>3. SubSeq(s, 1, Len(s) - 1) \in Seq(Scalars) /\ Tail(s) \in Seq(Scalars)
      BY <3>1
    <3>4. /\ IsDoc(Put(d, key, Array(SubSeq(s, 1, Len(s) - 1))))
          /\ IsDoc(Put(d, key, Array(Tail(s))))
      BY <1>a, <3>3, ArrayIsJson
    <3> QED BY <2>1, <3>2, <3>4
  <2> QED BY <2>2, <2>3
<1>11. CASE op \notin {"$addToSet", "$currentDate", "$inc", "$max", "$min", "$mul", "$pop", "$pull", "$push",
                       "$rename", "$set", "$unset"}
  BY <1>11 DEF ApplyOperator
<1> QED
  BY <1>1, <1>2, <1>3, <1>4, <1>5, <1>6, <1>7, <1>8, <1>9, <1>10, <1>11

\* What the i-th operator does to a document.
UpdateStep(u, i, d) ==
    IF Operators[i] \in DOMAIN u
    THEN ApplyOperator(d, Operators[i], u[Operators[i]].key, u[Operators[i]].operand)
    ELSE d

\* The documents between the operators of an update.
IsChain(f, d, u) ==
    f[0] = d /\ \A i \in 1..Len(Operators) : f[i] = UpdateStep(u, i, f[i - 1])

\* applyUpdate goes through such a chain.
LEMMA UpdateChain ==
    ASSUME NEW d, NEW u
    PROVE  \E f : IsChain(f, d, u) /\ ApplyUpdate(d, u) = f[Len(Operators)]
<1> DEFINE B(g, n) == g = [i \in 0..n |-> IF i = 0 THEN d
            ELSE IF Operators[i] \in DOMAIN u
                 THEN ApplyOperator(g[i - 1], Operators[i], u[Operators[i]].key, u[Operators[i]].operand)
                 ELSE g[i - 1]]
           C(g, n) == g = [i \in 0..n |-> IF i = 0 THEN d ELSE UpdateStep(u, i, g[i - 1])]
           E == {n \in Nat : \E g : C(g, n)}
<1>0. Len(Operators) \in Nat
  BY DEF Operators
<1>1. 0 \in E
  <2>1. C([i \in 0..0 |-> d], 0)
    OBVIOUS
  <2> QED BY <2>1
<1>2. ASSUME NEW n \in Nat, n \in E PROVE n + 1 \in E
  <2>1. PICK g : C(g, n)
    BY <1>2
  <2> DEFINE h == [i \in 0..(n + 1) |-> IF i = n + 1 THEN UpdateStep(u, n + 1, g[n]) ELSE g[i]]
  <2>2. ASSUME NEW i \in 0..(n + 1)
        PROVE  h[i] = IF i = 0 THEN d ELSE UpdateStep(u, i, h[i - 1])
    <3>1. CASE i = n + 1
      <4>1. h[i] = UpdateStep(u, n + 1, g[n]) /\ h[n] = g[n] /\ i # 0 /\ i - 1 = n
        BY <3>1
      <4> QED BY <3>1, <4>1
    <3>2. CASE i # n + 1
      <4>1. i \in 0..n /\ h[i] = g[i] /\ (i # 0 => h[i - 1] = g[i - 1])
        BY <3>2
      <4>2. g[i] = IF i = 0 THEN d ELSE UpdateStep(u, i, g[i - 1])
        BY <2>1, <4>1
      <4> HIDE DEF h
      <4> QED BY <4>1, <4>2
    <3> QED BY <3>1, <3>2
  <2>3. h = [i \in 0..(n + 1) |-> h[i]]
    OBVIOUS
  <2> HIDE DEF h
  <2>4. C(h, n + 1)
    BY <2>2, <2>3
  <2> QED BY <2>4
<1> HIDE DEF E
<1>3. Nat \subseteq E
  BY <1>1, <1>2, SetInduction
<1>4. \E g : B(g, Len(Operators))
  <2>1. \E g : C(g, Len(Operators))
    BY <1>0, <1>3 DEF E
  <2> QED BY <2>1, Zenon DEF UpdateStep
<1> DEFINE f == CHOOSE g : B(g, Len(Operators))
<1>5. B(f, Len(Operators))
  BY <1>4
<1>6. ApplyUpdate(d, u) = f[Len(Operators)]
  BY DEF ApplyUpdate
<1> HIDE DEF f
<1>7. C(f, Len(Operators))
  BY <1>5, Zenon DEF UpdateStep
<1>8. ASSUME NEW i \in 0..Len(Operators)
      PROVE  f[i] = IF i = 0 THEN d ELSE UpdateStep(u, i, f[i - 1])
  BY <1>7
<1>9. IsChain(f, d, u)
  BY <1>0, <1>8 DEF IsChain
<1> QED BY <1>6, <1>9

\* Every document of a chain is one.
LEMMA ChainDocs ==
    ASSUME NEW f, NEW d, IsDoc(d), NEW u \in Updates, IsChain(f, d, u)
    PROVE  \A i \in 0..Len(Operators) : IsDoc(f[i])
<1> DEFINE E == {i \in Nat : i <= Len(Operators) => IsDoc(f[i])}
<1>0. Len(Operators) \in Nat
  BY DEF Operators
<1>1. 0 \in E
  BY DEF IsChain
<1>2. ASSUME NEW i \in Nat, i \in E PROVE i + 1 \in E
  <2> SUFFICES ASSUME i + 1 <= Len(Operators) PROVE IsDoc(f[i + 1])
    OBVIOUS
  <2>1. IsDoc(f[i]) /\ i + 1 \in 1..Len(Operators) /\ (i + 1) - 1 = i
    BY <1>0, <1>2
  <2>2. f[i + 1] = UpdateStep(u, i + 1, f[i])
    BY <2>1 DEF IsChain
  <2> DEFINE op == Operators[i + 1]
  <2>3. op \in DOMAIN u => OperandOK(op, u[op].operand)
    BY UpdateAssumption DEF OperandOK
  <2>4. op \in DOMAIN u => IsDoc(ApplyOperator(f[i], op, u[op].key, u[op].operand))
    BY <2>1, <2>3, OperatorDoc
  <2> HIDE DEF op
  <2> QED BY <2>1, <2>2, <2>4 DEF UpdateStep, op
<1> HIDE DEF E
<1>3. Nat \subseteq E
  BY <1>1, <1>2, SetInduction
<1> QED BY <1>0, <1>3 DEF E

\* An update leaves a document.
LEMMA UpdateDoc ==
    ASSUME NEW d, IsDoc(d), NEW u \in Updates
    PROVE  IsDoc(ApplyUpdate(d, u))
<1>1. PICK f : IsChain(f, d, u) /\ ApplyUpdate(d, u) = f[Len(Operators)]
  BY UpdateChain
<1>2. Len(Operators) \in Nat
  BY DEF Operators
<1> QED BY <1>1, <1>2, ChainDocs

\* A field that the operator would not change any more.
Settled(op, d, k, v) ==
    CASE op = "$addToSet" -> k \in DOMAIN d /\ (d[k].type = "array" => \E i \in 1..Len(d[k].value) : d[k].value[i] = v)
      [] op = "$max" -> k \in DOMAIN d /\ ~JsonLess(d[k], v)
      [] op = "$min" -> k \in DOMAIN d /\ ~JsonLess(v, d[k])
      [] op = "$pull" -> k \in DOMAIN d => (d[k].type = "array" => \A i \in 1..Len(d[k].value) : d[k].value[i] # v)
      [] op = "$set" -> k \in DOMAIN d /\ d[k] = v
      [] op = "$unset" -> k \notin DOMAIN d

\* Nothing is put where it already is.
LEMMA PutSame ==
    ASSUME NEW d, IsDoc(d), NEW k \in DOMAIN d
    PROVE  Put(d, k, d[k]) = d
<1>1. d = [j \in DOMAIN d |-> d[j]]
  BY DEF IsDoc
<1>2. DOMAIN d \cup {k} = DOMAIN d
  OBVIOUS
<1>3. Put(d, k, d[k]) = [j \in DOMAIN d |-> IF j = k THEN d[k] ELSE d[j]]
  BY <1>2 DEF Put
<1>4. [j \in DOMAIN d |-> IF j = k THEN d[k] ELSE d[j]] = [j \in DOMAIN d |-> d[j]]
  OBVIOUS
<1> QED BY <1>1, <1>3, <1>4

\* A settled field is left alone.
LEMMA SettledStays ==
    ASSUME NEW d, IsDoc(d), NEW op \in Repeatable, NEW k, NEW v, OperandOK(op, v), Settled(op, d, k, v)
    PROVE  ApplyOperator(d, op, k, v) = d
<1>1. CASE op = "$addToSet"
  <2>1. k \in DOMAIN d /\ (d[k].type = "array" => \E i \in 1..Len(d[k].value) : d[k].value[i] = v)
    BY <1>1 DEF Settled
  <2>2. WithArray(d, k) = d
    BY <2>1 DEF WithArray
  <2>3. ApplyAddToSet(d, k, v) = d
    BY <2>1, <2>2 DEF ApplyAddToSet, IsA
  <2> QED BY <1>1, <2>3 DEF ApplyOperator
<1>2. CASE op = "$max"
  BY <1>2 DEF Settled, ApplyOperator, ApplyMax
<1>3. CASE op = "$min"
  BY <1>3 DEF Settled, ApplyOperator, ApplyMin
<1>4. CASE op = "$pull"
  <2>1. ApplyOperator(d, op, k, v) = ApplyPull(d, k, v)
    BY <1>4 DEF ApplyOperator
  <2>2. CASE IsA("array", d, k)
    <3>1. k \in DOMAIN d /\ d[k].type = "array" /\ \A i \in 1..Len(d[k].value) : d[k].value[i] # v
      BY <1>4, <2>2 DEF Settled, IsA
    <3>2. d[k].value \in Seq(Scalars) /\ d[k] = Array(d[k].value)
      BY <3>1, ValueShape DEF IsDoc, ScalarTypes
    <3>3. Without(d[k].value, v) = d[k].value
      BY <3>1, <3>2, WithoutFacts
    <3> QED BY <2>1, <2>2, <3>1, <3>2, <3>3, PutSame DEF ApplyPull
  <2> QED BY <2>1, <2>2 DEF ApplyPull
<1>5. CASE op = "$set"
  BY <1>5, PutSame DEF Settled, ApplyOperator, ApplySet
<1>6. CASE op = "$unset"
  <2>1. k \notin DOMAIN d
    BY <1>6 DEF Settled
  <2>2. DOMAIN d \ {k} = DOMAIN d
    BY <2>1
  <2>3. Erase(d, k) = [j \in DOMAIN d |-> d[j]]
    BY <2>2 DEF Erase
  <2> QED BY <1>6, <2>3 DEF ApplyOperator, ApplyUnset, IsDoc
<1> QED BY <1>1, <1>2, <1>3, <1>4, <1>5, <1>6 DEF Repeatable

\* An operator settles its field.
LEMMA OperatorSettles ==
    ASSUME NEW d, IsDoc(d), NEW op \in Repeatable, NEW k, NEW v, OperandOK(op, v)
    PROVE  Settled(op, ApplyOperator(d, op, k, v), k, v)
<1>0. v \in JsonValues
  BY DEF Repeatable, OperandOK, JsonValues
<1>a. ~JsonLess(v, v)
  BY <1>0, JsonOrder
<1>b. /\ \A x : k \in DOMAIN Put(d, k, x) /\ Put(d, k, x)[k] = x
      /\ k \notin DOMAIN Erase(d, k)
  BY DEF Put, Erase
<1>1. CASE op = "$addToSet"
  <2> DEFINE e == WithArray(d, k)
             r == Put(e, k, Array(Append(e[k].value, v)))
  <2>1. ApplyOperator(d, op, k, v) = ApplyAddToSet(d, k, v)
    BY <1>1 DEF ApplyOperator
  <2>2. IsDoc(e) /\ k \in DOMAIN e
    <3>1. Array(<<>>) \in JsonValues
      <4>1. <<>> \in Seq(Scalars)
        OBVIOUS
      <4> QED BY <4>1, ArrayIsJson
    <3>2. IsDoc(Put(d, k, Array(<<>>))) /\ k \in DOMAIN Put(d, k, Array(<<>>))
      BY <1>b, <3>1, PutDoc, Zenon
    <3> QED BY <3>2 DEF WithArray
  <2> HIDE DEF e
  <2>3. CASE IsA("array", e, k) /\ ~ \E i \in 1..Len(e[k].value) : e[k].value[i] = v
    <3>1. ApplyAddToSet(d, k, v) = r
      BY <2>3 DEF ApplyAddToSet, e
    <3>2. e[k].value \in Seq(Scalars) /\ v \in Scalars
      BY <1>1, <2>2, <2>3, ValueShape DEF IsA, IsDoc, ScalarTypes, OperandOK
    <3> DEFINE s == Append(e[k].value, v)
    <3>3. s \in Seq(Scalars) /\ Len(s) \in 1..Len(s) /\ s[Len(s)] = v
      BY <3>2
    <3> HIDE DEF s
    <3>4. k \in DOMAIN r /\ r[k] = Array(s) /\ Array(s).value = s
      BY <3>3, ArrayIsJson DEF Put, s
    <3> HIDE DEF r
    <3>5. Settled(op, r, k, v)
      BY <1>1, <3>3, <3>4 DEF Settled
    <3> QED BY <2>1, <3>1, <3>5
  <2>4. CASE ~(IsA("array", e, k) /\ ~ \E i \in 1..Len(e[k].value) : e[k].value[i] = v)
    <3>1. ApplyAddToSet(d, k, v) = e
      BY <2>4 DEF ApplyAddToSet, e
    <3>2. Settled(op, e, k, v)
      BY <1>1, <2>2, <2>4 DEF Settled, IsA
    <3> QED BY <2>1, <3>1, <3>2
  <2> QED BY <2>3, <2>4
<1>2. CASE op = "$max"
  BY <1>2, <1>a, <1>b DEF Settled, ApplyOperator, ApplyMax
<1>3. CASE op = "$min"
  BY <1>3, <1>a, <1>b DEF Settled, ApplyOperator, ApplyMin
<1>4. CASE op = "$pull"
  <2>1. ApplyOperator(d, op, k, v) = ApplyPull(d, k, v)
    BY <1>4 DEF ApplyOperator
  <2>2. CASE IsA("array", d, k)
    <3>1. d[k].value \in Seq(Scalars)
      BY <2>2, ValueShape DEF IsA, IsDoc, ScalarTypes
    <3> DEFINE s == Without(d[k].value, v)
               r == Put(d, k, Array(s))
    <3>2. s \in Seq(Scalars) /\ \A j \in 1..Len(s) : s[j] # v
      BY <3>1, WithoutFacts
    <3>3. ApplyPull(d, k, v) = r
      BY <2>2 DEF ApplyPull
    <3> HIDE DEF s
    <3>4. r[k] = Array(s) /\ Array(s).value = s
      BY <1>b, <3>2, ArrayIsJson
    <3> HIDE DEF r
    <3>5. Settled(op, r, k, v)
      BY <1>4, <3>2, <3>4 DEF Settled
    <3> QED BY <2>1, <3>3, <3>5
  <2>3. CASE ~IsA("array", d, k)
    BY <1>4, <2>1, <2>3 DEF ApplyPull, Settled, IsA
  <2> QED BY <2>2, <2>3
<1>5. CASE op = "$set"
  BY <1>5, <1>b DEF Settled, ApplyOperator, ApplySet
<1>6. CASE op = "$unset"
  BY <1>6, <1>b DEF Settled, ApplyOperator, ApplyUnset
<1> QED BY <1>1, <1>2, <1>3, <1>4, <1>5, <1>6 DEF Repeatable

\* An operator touches its own field only.
LEMMA OperatorIsLocal ==
    ASSUME NEW d, IsDoc(d), NEW op \in Repeatable, NEW k, NEW v, NEW j, j # k
    PROVE  LET e == ApplyOperator(d, op, k, v)
           IN (j \in DOMAIN e <=> j \in DOMAIN d) /\ (j \in DOMAIN d => e[j] = d[j])
<1> DEFINE Same(e) == (j \in DOMAIN e <=> j \in DOMAIN d) /\ (j \in DOMAIN d => e[j] = d[j])
<1>1. Same(d) /\ (\A x : Same(Put(d, k, x))) /\ Same(Erase(d, k))
  BY DEF Put, Erase
<1>2. \A x : Same(Put(Put(d, k, Array(<<>>)), k, x))
  BY DEF Put
<1> HIDE DEF Same
<1>3. CASE op = "$addToSet"
  <2>1. ApplyOperator(d, op, k, v) = ApplyAddToSet(d, k, v)
    BY <1>3 DEF ApplyOperator
  <2> DEFINE e == WithArray(d, k)
  <2>2. Same(e) /\ \A x : Same(Put(e, k, x))
    BY <1>1, <1>2 DEF WithArray
  <2> HIDE DEF e
  <2>3. Same(ApplyAddToSet(d, k, v))
    BY <2>2 DEF ApplyAddToSet, e
  <2> QED BY <2>1, <2>3 DEF Same
<1>4. CASE op # "$addToSet"
  <2>1. Same(ApplyOperator(d, op, k, v))
    BY <1>1, <1>4 DEF ApplyOperator, Repeatable, ApplyMax, ApplyMin, ApplyPull, ApplySet, ApplyUnset
  <2> QED BY <2>1 DEF Same
<1> QED BY <1>3, <1>4

\* Being settled is a matter of the field alone.
LEMMA SettledIsLocal ==
    ASSUME NEW d, NEW e, NEW op \in Repeatable, NEW k, NEW v,
           k \in DOMAIN e <=> k \in DOMAIN d, k \in DOMAIN d => e[k] = d[k], Settled(op, d, k, v)
    PROVE  Settled(op, e, k, v)
  BY DEF Settled, Repeatable

\* No operator comes twice.
LEMMA OperatorsDiffer ==
    \A i, j \in 1..Len(Operators) : i # j => Operators[i] # Operators[j]
<1>1. Len(Operators) = 12
  BY DEF Operators
<1>2. \A i, j \in 1..12 : i # j => Operators[i] # Operators[j]
  BY DEF Operators
<1> QED BY <1>1, <1>2

\* An update of operators that can be repeated, each on a field of its own.
IsRepeatable(u) ==
    DOMAIN u \subseteq Repeatable /\ \A op, other \in DOMAIN u : op # other => u[op].key # u[other].key

\* Once an operator has been applied its field stays settled to the end.
LEMMA StaysSettled ==
    ASSUME NEW d, IsDoc(d), NEW u \in Updates, IsRepeatable(u), NEW f, IsChain(f, d, u),
           NEW i \in 1..Len(Operators), Operators[i] \in DOMAIN u
    PROVE  Settled(Operators[i], f[Len(Operators)], u[Operators[i]].key, u[Operators[i]].operand)
<1> DEFINE op == Operators[i]
           k == u[op].key
           v == u[op].operand
           E == {n \in Nat : i <= n /\ n <= Len(Operators) => Settled(op, f[n], k, v)}
<1>0. Len(Operators) \in Nat
  BY DEF Operators
<1>1. op \in Repeatable /\ OperandOK(op, v)
  BY UpdateAssumption DEF IsRepeatable, OperandOK
<1>2. \A n \in 0..Len(Operators) : IsDoc(f[n])
  BY ChainDocs
<1>3. 0 \in E
  OBVIOUS
<1>4. ASSUME NEW n \in Nat, n \in E PROVE n + 1 \in E
  <2> SUFFICES ASSUME i <= n + 1, n + 1 <= Len(Operators) PROVE Settled(op, f[n + 1], k, v)
    OBVIOUS
  <2>1. n + 1 \in 1..Len(Operators) /\ (n + 1) - 1 = n /\ n \in 0..Len(Operators)
    BY <1>0
  <2>2. f[n + 1] = UpdateStep(u, n + 1, f[n]) /\ IsDoc(f[n])
    BY <1>2, <2>1 DEF IsChain
  <2>3. CASE i = n + 1
    <3>1. f[n + 1] = ApplyOperator(f[n], op, k, v)
      BY <2>2, <2>3 DEF UpdateStep
    <3> QED BY <1>1, <2>2, <3>1, OperatorSettles
  <2>4. CASE i # n + 1
    <3>1. Settled(op, f[n], k, v)
      BY <1>4, <2>4, <1>0
    <3> DEFINE other == Operators[n + 1]
    <3>2. CASE other \notin DOMAIN u
      BY <2>2, <3>1, <3>2 DEF UpdateStep
    <3>3. CASE other \in DOMAIN u
      <4>1. other # op
        BY <2>1, <2>4, OperatorsDiffer
      <4>2. other \in Repeatable /\ u[other].key # k
        BY <3>3, <4>1 DEF IsRepeatable
      <4>3. f[n + 1] = ApplyOperator(f[n], other, u[other].key, u[other].operand)
        BY <2>2, <3>3 DEF UpdateStep
      <4> HIDE DEF other, op, k, v, E
      <4>4. (k \in DOMAIN f[n + 1] <=> k \in DOMAIN f[n]) /\ (k \in DOMAIN f[n] => f[n + 1][k] = f[n][k])
        BY <2>2, <4>2, <4>3, OperatorIsLocal
      <4> QED BY <1>1, <3>1, <4>4, SettledIsLocal
    <3> QED BY <3>2, <3>3
  <2> QED BY <2>3, <2>4
<1> HIDE DEF E
<1>5. Nat \subseteq E
  BY <1>3, <1>4, SetInduction
<1> QED BY <1>0, <1>5 DEF E

\* A second time nothing is left to do.
LEMMA RetryHolds ==
    ASSUME IsDoc(doc)
    PROVE  RetryIsSafe
<1> SUFFICES ASSUME NEW u \in Updates, IsRepeatable(u)
             PROVE  ApplyUpdate(ApplyUpdate(doc, u), u) = ApplyUpdate(doc, u)
  BY DEF RetryIsSafe, IsRepeatable
<1> DEFINE e == ApplyUpdate(doc, u)
           n == Len(Operators)
<1>0. n \in Nat
  BY DEF Operators
<1>1. PICK f : IsChain(f, doc, u) /\ e = f[n]
  BY UpdateChain
<1>2. PICK g : IsChain(g, e, u) /\ ApplyUpdate(e, u) = g[n]
  BY UpdateChain
<1>3. IsDoc(e)
  BY UpdateDoc
<1> HIDE DEF e
<1>4. ASSUME NEW i \in 1..n PROVE UpdateStep(u, i, e) = e
  <2> DEFINE op == Operators[i]
  <2>1. CASE op \notin DOMAIN u
    BY <2>1 DEF UpdateStep
  <2>2. CASE op \in DOMAIN u
    <3>1. Settled(op, e, u[op].key, u[op].operand)
      BY <1>1, <2>2, StaysSettled
    <3>2. op \in Repeatable /\ OperandOK(op, u[op].operand)
      BY <2>2, UpdateAssumption DEF IsRepeatable, OperandOK
    <3> HIDE DEF op
    <3>3. ApplyOperator(e, op, u[op].key, u[op].operand) = e
      BY <1>3, <3>1, <3>2, SettledStays
    <3> QED BY <2>2, <3>3 DEF UpdateStep, op
  <2> QED BY <2>1, <2>2
<1> DEFINE E == {i \in Nat : i <= n => g[i] = e}
<1>5. 0 \in E
  BY <1>2 DEF IsChain
<1>6. ASSUME NEW i \in Nat, i \in E PROVE i + 1 \in E
  <2> SUFFICES ASSUME i + 1 <= n PROVE g[i + 1] = e
    OBVIOUS
  <2>1. i + 1 \in 1..n /\ (i + 1) - 1 = i /\ g[i] = e
    BY <1>0, <1>6
  <2>2. g[i + 1] = UpdateStep(u, i + 1, g[i])
    BY <1>2, <2>1 DEF IsChain
  <2> QED BY <1>4, <2>1, <2>2
<1> HIDE DEF E
<1>7. Nat \subseteq E
  BY <1>5, <1>6, SetInduction
<1>8. g[n] = e
  BY <1>0, <1>7 DEF E
<1> QED BY <1>2, <1>8 DEF e

\* The document stays one.
LEMMA DocInvariant == ServicesSpec => []IsDoc(doc)
<1>1. ServicesInit => IsDoc(doc)
  BY DEF ServicesInit, UpdateInit, IsDoc
<1>2. IsDoc(doc) /\ [ServicesNext]_servicesVars => IsDoc(doc)'
  <2> SUFFICES ASSUME IsDoc(doc), [ServicesNext]_servicesVars PROVE IsDoc(doc')
    BY DEF IsDoc
  <2>1. [\E u \in Updates : Update(u)]_doc
    BY ServicesAreApart
  <2>2. CASE \E u \in Updates : Update(u)
    BY <2>2, UpdateDoc DEF Update
  <2>3. CASE doc' = doc
    BY <2>3
  <2> QED BY <2>1, <2>2, <2>3
<1> QED
  BY <1>1, <1>2, PTL DEF ServicesSpec

\* Comparison is an order that filters agree on, and updates too except where
\* strings, arrays and objects meet, for documents and values of any size
\* (compareValues, matchesFilter, applyMin, applyMax).
THEOREM QueriesLawful == ServicesSpec => []QueriesAreLawful
<1>1. IsDoc(doc) => QueriesAreLawful
  BY QueryLawsHold, MinMaxHold DEF QueriesAreLawful
<1> QED BY <1>1, DocInvariant, PTL

\* An update made of repeatable operators, each on its own field, changes
\* nothing the second time, whatever the document (applyUpdate).
THEOREM RetriedUpdatesSafe == ServicesSpec => []RetriedUpdateIsSafe
<1>1. IsDoc(doc) => RetriedUpdateIsSafe
  BY RetryHolds DEF RetriedUpdateIsSafe
<1> QED BY <1>1, DocInvariant, PTL
=============================================================================
