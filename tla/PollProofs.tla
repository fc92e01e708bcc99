----------------------------- MODULE PollProofs -----------------------------
(***************************************************************************)
(* Votes, receipts and reports, for any jurisdictions, voters, ballots and *)
(* method.                                                                 *)
(***************************************************************************)
EXTENDS Poll, FiniteSetTheorems, WellFoundedInduction, TLAPS

\* The maps of every precinct, with finitely many voters: only then can a
\* result be said to speak of no more voters than have voted.
Kept ==
    /\ DOMAIN votes = Precincts /\ votes = [p \in Precincts |-> votes[p]]
    /\ receipts = [p \in Precincts |-> receipts[p]]
    /\ closed \in [Precincts -> BOOLEAN]
    /\ result = [p \in Precincts |-> result[p]]
    /\ \A p \in Precincts : IsFiniteSet(DOMAIN votes[p])

\* A subset of the voters who voted is not larger.
LEMMA FewerReceipts ==
    ASSUME NEW S, NEW T, S \subseteq T, IsFiniteSet(T)
    PROVE  Cardinality(S) <= Cardinality(T)
  BY FS_Subset

\* Poll::vote keeps the receipts among the votes.
LEMMA CastStep ==
    ASSUME Kept, PollInv, NEW p \in Precincts, NEW v \in Electorate[method][p],
           NEW b \in Offered[method], NEW signs \in BOOLEAN, Cast(p, v, b, signs)
    PROVE  Kept' /\ PollInv'
<1>1. /\ votes' = [votes EXCEPT ![p] = Store(votes[p], v, b)]
      /\ UNCHANGED <<method, closed, result>>
      /\ ~closed[p]
  BY DEF Cast
<1>2. /\ receipts' = [q \in Precincts |-> receipts'[q]]
      /\ \A q \in Precincts : q # p => receipts'[q] = receipts[q]
      /\ receipts'[p] \in {receipts[p], receipts[p] \cup {v}}
  BY DEF Cast, Kept
<1>3. \A q \in Precincts : votes'[q] = IF q = p THEN Store(votes[p], v, b) ELSE votes[q]
  BY <1>1 DEF Kept
<1>4. Kept'
  <2>1. DOMAIN votes'[p] = DOMAIN votes[p] \cup {v}
    BY <1>3 DEF Store
  <2>2. IsFiniteSet(DOMAIN votes'[p])
    BY <2>1, FS_AddElement DEF Kept
  <2> QED BY <1>1, <1>2, <1>3, <2>2 DEF Kept
<1>5. PollInv'
  <2> SUFFICES ASSUME NEW q \in Precincts
               PROVE  /\ receipts'[q] \subseteq DOMAIN votes'[q]
                      /\ DOMAIN votes'[q] \subseteq Electorate[method][q]
                      /\ \A w \in DOMAIN votes'[q] : votes'[q][w] \in Offered[method]
                      /\ result[q] # None => closed[q] /\ result[q].voterCount <= Cardinality(DOMAIN votes'[q])
    BY <1>1 DEF PollInv
  <2>1. CASE q # p
    BY <2>1, <1>2, <1>3 DEF PollInv
  <2>2. CASE q = p
    <3>1. result[p] = None
      BY <1>1 DEF PollInv
    <3>2. DOMAIN votes'[p] = DOMAIN votes[p] \cup {v}
      BY <1>3 DEF Store
    <3>3. \A w \in DOMAIN votes'[p] : votes'[p][w] \in Offered[method]
      <4>1. \A w \in DOMAIN votes[p] : votes[p][w] \in Offered[method]
        BY DEF PollInv
      <4>2. \A w \in DOMAIN votes[p] \cup {v} : votes'[p][w] = IF w = v THEN b ELSE votes[p][w]
        BY <1>3 DEF Store
      <4> QED BY <3>2, <4>1, <4>2
    <3>4. receipts'[p] \subseteq DOMAIN votes'[p] /\ DOMAIN votes'[p] \subseteq Electorate[method][p]
      BY <1>2, <3>2 DEF PollInv
    <3> QED BY <2>2, <3>1, <3>3, <3>4
  <2> QED BY <2>1, <2>2
<1> QED BY <1>4, <1>5

\* PollTallier::tally counts voters by their receipts.
LEMMA TallyStep ==
    ASSUME Kept, PollInv, NEW p \in Precincts, TallyPoll(p)
    PROVE  Kept' /\ PollInv'
<1>1. UNCHANGED <<method, votes, receipts, closed>> /\ closed[p]
  BY DEF TallyPoll
<1>2. PICK r : result' = [result EXCEPT ![p] =
                   [winners |-> r.winners, tallies |-> r.tallies, voterCount |-> Cardinality(receipts[p])]]
  BY DEF TallyPoll
<1>3. /\ result' = [q \in Precincts |-> result'[q]]
      /\ \A q \in Precincts : q # p => result'[q] = result[q]
      /\ result'[p].voterCount = Cardinality(receipts[p])
  BY <1>2 DEF Kept
<1>4. Cardinality(receipts[p]) <= Cardinality(DOMAIN votes[p])
  BY FewerReceipts DEF Kept, PollInv
<1>5. Kept'
  BY <1>1, <1>3 DEF Kept
<1>6. PollInv'
  BY <1>1, <1>3, <1>4 DEF PollInv
<1> QED BY <1>5, <1>6

\* Poll::close, and the reports to the aggregators, touch neither.
LEMMA OtherStep ==
    ASSUME Kept, PollInv,
           \/ \E p \in Precincts : Close(p)
           \/ \E c \in Jurisdictions : AddTally(c)
           \/ UNCHANGED vars
    PROVE  Kept' /\ PollInv'
<1>1. CASE \E p \in Precincts : Close(p)
  <2>1. PICK p \in Precincts : Close(p)
    BY <1>1
  <2>2. /\ UNCHANGED <<method, votes, receipts, result>>
        /\ closed' \in [Precincts -> BOOLEAN]
        /\ \A q \in Precincts : closed[q] => closed'[q]
    BY <2>1 DEF Close, Kept
  <2> QED BY <2>2 DEF Kept, PollInv
<1>2. CASE (\E c \in Jurisdictions : AddTally(c)) \/ UNCHANGED vars
  <2>1. UNCHANGED <<method, votes, receipts, closed, result>>
    BY <1>2 DEF AddTally, vars
  <2> QED BY <2>1 DEF Kept, PollInv
<1> QED BY <1>1, <1>2

\* Every step keeps both.
LEMMA PollStep ==
    ASSUME Kept, PollInv, [Next]_vars
    PROVE  Kept' /\ PollInv'
  BY CastStep, TallyStep, OtherStep DEF Next

\* PollInv is inductive together with Kept.
LEMMA PollInvariant == Spec => [](Kept /\ PollInv)
<1>1. Init => Kept /\ PollInv
  <2> SUFFICES ASSUME Init PROVE Kept /\ PollInv
    OBVIOUS
  <2>1. \A p \in Precincts : DOMAIN votes[p] = {} /\ receipts[p] = {} /\ result[p] = None
    BY DEF Init
  <2>2. Kept
    BY <2>1, FS_EmptySet DEF Init, Kept
  <2> QED BY <2>1, <2>2 DEF PollInv
<1>2. Kept /\ PollInv /\ [Next]_vars => (Kept /\ PollInv)'
  BY PollStep
<1> QED BY <1>1, <1>2, PTL DEF Spec

\* Every receipt stands for a vote that is counted, and a result speaks of no
\* more voters than have voted (Poll::vote, close, PollTallier::tally).
THEOREM PollSafe == Spec => []PollInv
  BY PollInvariant, PTL

\* What VoteIsFinal says of one step.
Final ==
    \A p \in Precincts :
        /\ receipts[p] \subseteq receipts'[p]
        /\ \A v \in receipts[p] : v \in DOMAIN votes'[p] /\ votes'[p][v] = votes[p][v]
        /\ closed[p] => closed'[p] /\ votes'[p] = votes[p] /\ receipts'[p] = receipts[p]

\* No step takes back a vote with a receipt or changes a closed poll.
LEMMA FinalStep ==
    ASSUME Kept, PollInv, [Next]_vars
    PROVE  Final
<1>1. ASSUME NEW p \in Precincts, NEW v, NEW b, NEW signs, Cast(p, v, b, signs)
      PROVE  Final
  <2>1. /\ \A q \in Precincts : votes'[q] = IF q = p THEN Store(votes[p], v, b) ELSE votes[q]
        /\ \A q \in Precincts : q # p => receipts'[q] = receipts[q]
        /\ receipts[p] \subseteq receipts'[p]
        /\ closed' = closed /\ ~closed[p] /\ v \notin receipts[p]
    BY <1>1 DEF Cast, Kept
  <2> SUFFICES ASSUME NEW q \in Precincts
               PROVE  /\ receipts[q] \subseteq receipts'[q]
                      /\ \A w \in receipts[q] : w \in DOMAIN votes'[q] /\ votes'[q][w] = votes[q][w]
                      /\ closed[q] => closed'[q] /\ votes'[q] = votes[q] /\ receipts'[q] = receipts[q]
    BY DEF Final
  <2>2. CASE q # p
    BY <2>1, <2>2 DEF PollInv
  <2>3. CASE q = p
    <3>1. \A w \in receipts[p] : w \in DOMAIN votes[p] /\ w # v
      BY <2>1 DEF PollInv
    <3> QED BY <2>1, <2>3, <3>1 DEF Store
  <2> QED BY <2>2, <2>3
<1>2. ASSUME NEW p \in Precincts, Close(p)
      PROVE  Final
  <2>1. UNCHANGED <<votes, receipts>> /\ \A q \in Precincts : closed[q] => closed'[q]
    BY <1>2 DEF Close, Kept
  <2> QED BY <2>1 DEF Final, PollInv
<1>3. CASE (\E p \in Precincts : TallyPoll(p)) \/ (\E c \in Jurisdictions : AddTally(c)) \/ UNCHANGED vars
  <2>1. UNCHANGED <<votes, receipts, closed>>
    BY <1>3 DEF TallyPoll, AddTally, vars
  <2> QED BY <2>1 DEF Final, PollInv
<1> QED BY <1>1, <1>2, <1>3 DEF Next

\* A vote with a receipt is never replaced or lost, and a closed poll does not
\* change, for any sequence of calls (Poll::vote, Poll::close).
THEOREM VotesAreFinal == Spec => VoteIsFinal
<1>1. Kept /\ PollInv /\ [Next]_vars => [Final]_vars
  BY FinalStep
<1> QED BY <1>1, PollInvariant, PTL DEF Spec, VoteIsFinal, Final

-----------------------------------------------------------------------------
(***************************************************************************)
(* NeverTwice.  A report is within what is below it, and getTally adds up  *)
(* reports of children, below which nobody is found twice.                 *)
(***************************************************************************)

\* Induction, for a set of numbers.
LEMMA SetInduction ==
    ASSUME NEW S, 0 \in S, \A n \in Nat : n \in S => n + 1 \in S
    PROVE  Nat \subseteq S
<1> DEFINE T == Nat \ S
           R == OpToRel(<, Nat)
<1>1. R = {ss \in Nat \X Nat : ss[1] < ss[2]}
  BY DEF OpToRel
<1>2. IsWellFoundedOn(R, Nat)
  BY NatLessThanWellFounded
<1> SUFFICES ASSUME T # {} PROVE FALSE
  OBVIOUS
<1>3. T \subseteq Nat
  OBVIOUS
<1> HIDE DEF T, R
<1>4. PICK x \in T : \A y \in T : ~(<<y, x>> \in R)
  BY <1>2, <1>3, WFMin
<1>5. x \in Nat /\ x # 0
  BY <1>4 DEF T
<1>6. x - 1 \in T
  BY <1>4, <1>5 DEF T
<1>7. <<x - 1, x>> \in R
  BY <1>1, <1>5
<1> QED
  BY <1>4, <1>6, <1>7

\* Induction over the subsets of a finite set: each is made from a smaller one.
LEMMA SubsetInduction ==
    ASSUME NEW D, IsFiniteSet(D), NEW F, {} \in F,
           \A T \in SUBSET D : T # {} /\ (\A x \in T : T \ {x} \in F) => T \in F
    PROVE  \A T \in SUBSET D : T \in F
<1> DEFINE E == {n \in Nat : \A T \in SUBSET D : Cardinality(T) = n => T \in F}
<1>1. \A T \in SUBSET D : IsFiniteSet(T) /\ Cardinality(T) \in Nat
  BY FS_Subset, FS_CardinalityType
<1>2. 0 \in E
  BY <1>1, FS_EmptySet
<1>3. ASSUME NEW n \in Nat, n \in E PROVE n + 1 \in E
  <2> SUFFICES ASSUME NEW T \in SUBSET D, Cardinality(T) = n + 1 PROVE T \in F
    OBVIOUS
  <2>1. T # {}
    <3>1. Cardinality({}) = 0
      BY FS_EmptySet
    <3> QED BY <3>1
  <2>2. ASSUME NEW x \in T PROVE T \ {x} \in F
    <3>1. Cardinality(T \ {x}) = n
      BY <1>1, FS_RemoveElement
    <3> QED BY <1>3, <3>1
  <2> QED BY <2>1, <2>2
<1> HIDE DEF E
<1>4. Nat \subseteq E
  BY <1>2, <1>3, SetInduction
<1> QED BY <1>1, <1>4 DEF E

\* std::map is in order: a finite set of ids has a last one.
LEMMA MaxExists ==
    ASSUME NEW D \in SUBSET Nat, IsFiniteSet(D)
    PROVE  \A T \in SUBSET D : T # {} => Max(T) \in T
<1> DEFINE F == {T \in SUBSET D : T # {} => \E x \in T : \A y \in T : x >= y}
<1>1. {} \in F
  OBVIOUS
<1>2. ASSUME NEW T \in SUBSET D, NEW x \in T, T \ {x} \in F PROVE T \in F
  <2>1. CASE T \ {x} = {}
    BY <2>1
  <2>2. CASE T \ {x} # {}
    <3>1. PICK m \in T \ {x} : \A y \in T \ {x} : m >= y
      BY <1>2, <2>2
    <3>2. CASE x >= m
      <4>1. \A y \in T : x >= y
        BY <3>1, <3>2
      <4> QED BY <4>1
    <3>3. CASE ~(x >= m)
      <4>1. \A y \in T : m >= y
        BY <3>1, <3>3
      <4> QED BY <4>1
    <3> QED BY <3>2, <3>3
  <2> QED BY <2>1, <2>2
<1> HIDE DEF F
<1>3. \A T \in SUBSET D : T \in F
  <2>1. \A T \in SUBSET D : T # {} /\ (\A x \in T : T \ {x} \in F) => T \in F
    BY <1>2
  <2> QED BY <1>1, <2>1, SubsetInduction
<1> SUFFICES ASSUME NEW T \in SUBSET D, T # {} PROVE Max(T) \in T
  OBVIOUS
<1>4. \E x \in T : \A y \in T : x >= y
  BY <1>3 DEF F
<1> QED BY <1>4 DEF Max

-----------------------------------------------------------------------------
(* Sums.                                                                   *)

\* What the loop that adds up the choices has after n of them.
Sums(u, n, t) == u \in [0..n -> Nat] /\ u[0] = 0 /\ \A i \in 1..n : u[i] = u[i - 1] + t[i]

\* There is such a loop.
LEMMA SumsExist ==
    ASSUME NEW t \in [Options -> Nat]
    PROVE  \E u : Sums(u, N, t)
<1> DEFINE E == {n \in Nat : n <= N => \E u : Sums(u, n, t)}
<1>1. 0 \in E
  <2>1. Sums([i \in 0..0 |-> 0], 0, t)
    BY DEF Sums
  <2> QED BY <2>1
<1>2. ASSUME NEW n \in Nat, n \in E PROVE n + 1 \in E
  <2> SUFFICES ASSUME n + 1 <= N PROVE \E u : Sums(u, n + 1, t)
    OBVIOUS
  <2>1. n <= N /\ N \in Nat /\ n + 1 \in Options
    BY EncoderAssumption DEF Options
  <2>2. PICK u : Sums(u, n, t)
    BY <1>2, <2>1
  <2>3. t[n + 1] \in Nat
    BY <2>1
  <2> DEFINE w == [i \in 0..(n + 1) |-> IF i = n + 1 THEN u[n] + t[n + 1] ELSE u[i]]
  <2>4. w \in [0..(n + 1) -> Nat] /\ w[0] = 0
    BY <2>2, <2>3 DEF Sums
  <2>5. ASSUME NEW i \in 1..(n + 1) PROVE w[i] = w[i - 1] + t[i]
    <3>1. CASE i = n + 1
      BY <3>1
    <3>2. CASE i # n + 1
      <4>1. i \in 1..n /\ w[i] = u[i] /\ w[i - 1] = u[i - 1]
        BY <3>2
      <4> QED BY <2>2, <4>1 DEF Sums
    <3> QED BY <3>1, <3>2
  <2>6. Sums(w, n + 1, t)
    BY <2>4, <2>5 DEF Sums
  <2> QED BY <2>6
<1> HIDE DEF E
<1>3. Nat \subseteq E
  BY <1>1, <1>2, SetInduction
<1>4. N \in Nat
  BY EncoderAssumption
<1>5. N \in E /\ N <= N
  BY <1>3, <1>4
<1> QED BY <1>5 DEF E

\* Total is the end of the loop.
LEMMA TotalDef ==
    ASSUME NEW t \in [Options -> Nat]
    PROVE  \E u : Sums(u, N, t) /\ Total(t) = u[N]
<1> DEFINE P(u) == u = [i \in 0..N |-> IF i = 0 THEN 0 ELSE u[i - 1] + t[i]]
           c == CHOOSE u : P(u)
<1>0. N \in Nat
  BY EncoderAssumption
<1>1. PICK u : Sums(u, N, t)
  BY SumsExist
<1>2. P(u)
  <2>1. \A i \in 0..N : u[i] = IF i = 0 THEN 0 ELSE u[i - 1] + t[i]
    BY <1>0, <1>1 DEF Sums
  <2>2. u = [i \in 0..N |-> u[i]]
    BY <1>1 DEF Sums
  <2> QED BY <2>1, <2>2
<1>3. P(c)
  BY <1>2
<1>4. Total(t) = c[N]
  BY DEF Total
<1> HIDE DEF c
<1>5. c[0] = 0 /\ DOMAIN c = 0..N /\ \A i \in 1..N : c[i] = c[i - 1] + t[i]
  BY <1>0, <1>3
<1>6. \A i \in 0..N : c[i] \in Nat
  <2> DEFINE E == {n \in Nat : n <= N => c[n] \in Nat}
  <2>1. 0 \in E
    BY <1>5
  <2>2. ASSUME NEW n \in Nat, n \in E PROVE n + 1 \in E
    <3> SUFFICES ASSUME n + 1 <= N PROVE c[n + 1] \in Nat
      OBVIOUS
    <3>1. c[n] \in Nat /\ n + 1 \in 1..N /\ (n + 1) - 1 = n
      BY <1>0, <2>2
    <3>2. t[n + 1] \in Nat
      BY <3>1 DEF Options
    <3> QED BY <1>5, <3>1, <3>2
  <2> HIDE DEF E
  <2>3. Nat \subseteq E
    BY <2>1, <2>2, SetInduction
  <2> QED BY <1>0, <2>3 DEF E
<1>7. c = [i \in 0..N |-> c[i]]
  BY <1>3
<1>8. Sums(c, N, t)
  BY <1>5, <1>6, <1>7 DEF Sums
<1> QED BY <1>4, <1>8

\* A total is a number.
LEMMA TotalNat ==
    ASSUME NEW t \in [Options -> Nat]
    PROVE  Total(t) \in Nat
<1>1. PICK u : Sums(u, N, t) /\ Total(t) = u[N]
  BY TotalDef
<1> QED BY <1>1, EncoderAssumption DEF Sums

\* Where no summand exceeds those of two others together, the total does not.
LEMMA TotalAdds ==
    ASSUME NEW t \in [Options -> Nat], NEW r \in [Options -> Nat], NEW s \in [Options -> Nat],
           \A i \in Options : t[i] <= r[i] + s[i]
    PROVE  Total(t) <= Total(r) + Total(s)
<1>1. PICK u : Sums(u, N, t) /\ Total(t) = u[N]
  BY TotalDef
<1>2. PICK v : Sums(v, N, r) /\ Total(r) = v[N]
  BY TotalDef
<1>3. PICK w : Sums(w, N, s) /\ Total(s) = w[N]
  BY TotalDef
<1>4. N \in Nat
  BY EncoderAssumption
<1> DEFINE E == {n \in Nat : n <= N => u[n] <= v[n] + w[n]}
<1>5. 0 \in E
  BY <1>1, <1>2, <1>3 DEF Sums
<1>6. ASSUME NEW n \in Nat, n \in E PROVE n + 1 \in E
  <2> SUFFICES ASSUME n + 1 <= N PROVE u[n + 1] <= v[n + 1] + w[n + 1]
    OBVIOUS
  <2>1. n \in 0..N /\ n + 1 \in 1..N /\ (n + 1) - 1 = n /\ n + 1 \in Options
    BY <1>4 DEF Options
  <2>2. u[n] \in Nat /\ v[n] \in Nat /\ w[n] \in Nat /\ u[n] <= v[n] + w[n]
    BY <1>1, <1>2, <1>3, <1>6, <2>1 DEF Sums
  <2>3. /\ u[n + 1] = u[n] + t[n + 1]
        /\ v[n + 1] = v[n] + r[n + 1]
        /\ w[n + 1] = w[n] + s[n + 1]
    BY <1>1, <1>2, <1>3, <2>1 DEF Sums
  <2>4. t[n + 1] \in Nat /\ r[n + 1] \in Nat /\ s[n + 1] \in Nat /\ t[n + 1] <= r[n + 1] + s[n + 1]
    BY <2>1
  <2> QED BY <2>2, <2>3, <2>4
<1> HIDE DEF E
<1>7. Nat \subseteq E
  BY <1>5, <1>6, SetInduction
<1>8. N \in E /\ N <= N
  BY <1>4, <1>7
<1>9. u[N] <= v[N] + w[N]
  BY <1>8 DEF E
<1> QED BY <1>1, <1>2, <1>3, <1>9

\* A total with at most one summand, of one.
LEMMA TotalOfOne ==
    ASSUME NEW t \in [Options -> Nat], NEW c, \A i \in Options : t[i] = IF i = c THEN 1 ELSE 0
    PROVE  Total(t) = IF c \in Options THEN 1 ELSE 0
<1>1. PICK u : Sums(u, N, t) /\ Total(t) = u[N]
  BY TotalDef
<1>2. N \in Nat
  BY EncoderAssumption
<1> DEFINE E == {n \in Nat : n <= N => u[n] = IF c \in 1..n THEN 1 ELSE 0}
<1>3. 0 \in E
  BY <1>1 DEF Sums
<1>4. ASSUME NEW n \in Nat, n \in E PROVE n + 1 \in E
  <2> SUFFICES ASSUME n + 1 <= N PROVE u[n + 1] = IF c \in 1..(n + 1) THEN 1 ELSE 0
    OBVIOUS
  <2>1. n \in 0..N /\ n + 1 \in 1..N /\ (n + 1) - 1 = n /\ n + 1 \in Options
    BY <1>2 DEF Options
  <2>2. u[n] = IF c \in 1..n THEN 1 ELSE 0
    BY <1>4, <2>1
  <2>3. u[n + 1] = u[n] + t[n + 1]
    BY <1>1, <2>1 DEF Sums
  <2>4. t[n + 1] = IF n + 1 = c THEN 1 ELSE 0
    BY <2>1
  <2>5. 1..(n + 1) = 1..n \cup {n + 1} /\ n + 1 \notin 1..n
    OBVIOUS
  <2> QED BY <2>2, <2>3, <2>4, <2>5
<1> HIDE DEF E
<1>5. Nat \subseteq E
  BY <1>3, <1>4, SetInduction
<1>6. N \in E /\ N <= N
  BY <1>2, <1>5
<1>7. u[N] = IF c \in Options THEN 1 ELSE 0
  BY <1>6 DEF E, Options
<1> QED BY <1>1, <1>7

-----------------------------------------------------------------------------
(* Ballots.                                                                *)

\* A number below Base is one byte.
LEMMA DigitsOfOne ==
    ASSUME NEW k \in {0, 1}
    PROVE  Digits(k) = <<k>>
<1> DEFINE P(d) == d = [m \in 0..k |-> IF m < Base THEN <<m>> ELSE <<m % Base>> \o d[m \div Base]]
           w == [m \in 0..k |-> <<m>>]
           c == CHOOSE d : P(d)
<1>1. \A m \in 0..k : m < Base
  BY EncoderAssumption
<1>2. P(w)
  <2>1. \A m \in 0..k : w[m] = IF m < Base THEN <<m>> ELSE <<m % Base>> \o w[m \div Base]
    BY <1>1
  <2> HIDE DEF w
  <2>2. w = [m \in 0..k |-> w[m]]
    BY DEF w
  <2> QED BY <2>1, <2>2
<1>3. P(c)
  BY <1>2
<1>4. Digits(k) = c[k]
  BY DEF Digits
<1> HIDE DEF c
<1>5. c[k] = <<k>>
  <2>1. k \in 0..k /\ k < Base
    BY <1>1
  <2> QED BY <1>3, <2>1
<1> QED BY <1>4, <1>5

\* One byte is the number it holds.
LEMMA ByteToBn ==
    ASSUME NEW b, NEW k \in Nat, b = <<k>>
    PROVE  BytesToBn(b) = k
<1> DEFINE P(f) == f = [i \in 1..(Len(b) + 1) |-> IF i > Len(b) THEN 0 ELSE b[i] + Base * f[i + 1]]
           w == [i \in 1..2 |-> IF i > 1 THEN 0 ELSE k]
           c == CHOOSE f : P(f)
<1>1. Len(b) = 1 /\ b[1] = k /\ Len(b) + 1 = 2
  OBVIOUS
<1>2. Base * 0 = 0
  BY EncoderAssumption
<1>3. P(w)
  <2>1. w[1] = k /\ w[2] = 0
    OBVIOUS
  <2> SUFFICES ASSUME NEW i \in 1..2 PROVE w[i] = IF i > 1 THEN 0 ELSE b[i] + Base * w[i + 1]
    BY <1>1
  <2>2. CASE i = 1
    <3>1. b[1] + Base * w[2] = k
      BY <1>1, <1>2, <2>1
    <3> HIDE DEF w
    <3> QED BY <2>1, <2>2, <3>1
  <2>3. CASE i = 2
    BY <2>1, <2>3
  <2> QED BY <2>2, <2>3
<1>4. P(c)
  BY <1>3
<1>5. BytesToBn(b) = c[1]
  BY DEF BytesToBn
<1> HIDE DEF c
<1>6. c[2] = 0
  BY <1>1, <1>4
<1>7. c[1] = b[1] + Base * c[2]
  BY <1>1, <1>4
<1> QED BY <1>1, <1>2, <1>5, <1>6, <1>7

\* 0 and 1 are encrypted as themselves (intToBytes, PaillierPublicKey::encrypt).
LEMMA NumberOfOne ==
    ASSUME NEW k \in {0, 1}
    PROVE  Number(k) = k
<1>1. IntToBytes(k) = <<k>>
  BY DigitsOfOne DEF IntToBytes
<1>2. Reversed(<<k>>) = <<k>>
  BY DEF Reversed
<1>3. BytesToBn(Reversed(<<k>>)) = k
  BY <1>2, ByteToBn
<1> QED BY <1>1, <1>3 DEF Number, Encrypt

\* A ballot of Plurality counts one at most (VoteEncoder::encodePlurality).
LEMMA OneVoteEach ==
    ASSUME NEW b \in Offered["Plurality"]
    PROVE  /\ \A i \in Options : b.encrypted[i] \in Nat
           /\ Total(Counted(b.encrypted)) <= 1
<1>1. b = EncodePlurality(b.choice)
  BY PollAssumption
<1>2. EncodePlurality(b.choice).encrypted = [i \in Options |-> Number(IF i = b.choice THEN 1 ELSE 0)]
  BY DEF EncodePlurality, Blank
<1>3. \A i \in Options : b.encrypted[i] = IF i = b.choice THEN 1 ELSE 0
  BY <1>1, <1>2, NumberOfOne
<1>4. /\ Counted(b.encrypted) \in [Options -> Nat]
      /\ \A i \in Options : Counted(b.encrypted)[i] = IF i = b.choice THEN 1 ELSE 0
  BY <1>3, PollAssumption DEF Counted
<1> QED BY <1>3, <1>4, TotalOfOne

-----------------------------------------------------------------------------
(* Jurisdictions.                                                          *)

\* A precinct is below itself, what is below a child is below its parent, and
\* no precinct is below two children of one parent.
LEMMA Hierarchy ==
    /\ \A p \in Precincts : PrecinctsOf(p) = {p}
    /\ \A c \in Jurisdictions : Parent[c] # None => PrecinctsOf(c) \subseteq PrecinctsOf(Parent[c])
    /\ \A c, d \in Jurisdictions :
          c # d /\ Parent[c] # None /\ Parent[c] = Parent[d] => PrecinctsOf(c) \cap PrecinctsOf(d) = {}
<1>1. PICK level \in [Jurisdictions -> 0..3] : \A j \in Jurisdictions :
          /\ j \in Precincts <=> level[j] = 0
          /\ Parent[j] # None => level[Parent[j]] = level[j] + 1
  BY PollAssumption
<1>2. \A j \in Jurisdictions : Parent[j] # None => Parent[j] \in Jurisdictions
  BY PollAssumption
<1>3. \A j \in Jurisdictions : level[j] \in 0..3
  BY <1>1
<1> DEFINE Reaches(p, j) ==
        \/ j = p
        \/ Parent[p] # None /\ j = Parent[p]
        \/ Parent[p] # None /\ Parent[Parent[p]] # None /\ j = Parent[Parent[p]]
        \/ /\ Parent[p] # None /\ Parent[Parent[p]] # None /\ Parent[Parent[Parent[p]]] # None
           /\ j = Parent[Parent[Parent[p]]]
<1>4. ASSUME NEW p \in Precincts, NEW j PROVE j \in Above(p) <=> Reaches(p, j)
  BY DEF Above, Up
<1>5. \A p \in Precincts : p \in Jurisdictions /\ level[p] = 0
  BY <1>1, PollAssumption
<1>6. ASSUME NEW p \in Precincts, NEW j, Reaches(p, j)
      PROVE  /\ j \in Jurisdictions
             /\ j = p => level[j] = 0
             /\ Parent[p] # None => level[Parent[p]] = 1
             /\ Parent[p] # None /\ Parent[Parent[p]] # None => level[Parent[Parent[p]]] = 2
             /\ Parent[p] # None /\ Parent[Parent[p]] # None /\ Parent[Parent[Parent[p]]] # None
                  => level[Parent[Parent[Parent[p]]]] = 3
  BY <1>1, <1>2, <1>5, <1>6
<1>7. ASSUME NEW p \in Precincts PROVE PrecinctsOf(p) = {p}
  <2> SUFFICES ASSUME NEW q \in Precincts PROVE p \in Above(q) <=> p = q
    BY DEF PrecinctsOf
  <2>1. Reaches(q, p) => p = q
    BY <1>5, <1>6
  <2> QED BY <1>4, <2>1
<1>8. ASSUME NEW c \in Jurisdictions, Parent[c] # None
      PROVE  PrecinctsOf(c) \subseteq PrecinctsOf(Parent[c])
  <2> SUFFICES ASSUME NEW p \in Precincts, Reaches(p, c) PROVE Reaches(p, Parent[c])
    BY <1>4 DEF PrecinctsOf
  <2>1. level[Parent[c]] \in 0..3 /\ level[Parent[c]] = level[c] + 1
    BY <1>1, <1>2, <1>3, <1>8
  <2> QED BY <1>6, <1>8, <2>1
<1>9. ASSUME NEW c \in Jurisdictions, NEW d \in Jurisdictions, c # d, Parent[c] # None,
             Parent[c] = Parent[d], NEW p \in PrecinctsOf(c) \cap PrecinctsOf(d)
      PROVE  FALSE
  <2>1. p \in Precincts /\ Reaches(p, c) /\ Reaches(p, d)
    BY <1>4 DEF PrecinctsOf
  <2>2. level[c] = level[d]
    <3>1. level[Parent[c]] = level[c] + 1 /\ level[Parent[d]] = level[d] + 1
      BY <1>1, <1>9
    <3> QED BY <1>3, <1>9, <3>1
  <2> QED BY <1>6, <1>9, <2>1, <2>2
<1> QED BY <1>7, <1>8, <1>9

\* Finitely many voters are below a jurisdiction.
LEMMA BelowIsFinite ==
    ASSUME NEW voters, \A p \in Precincts : IsFiniteSet(voters[p]), NEW j
    PROVE  IsFiniteSet(Below(j, voters)) /\ Cardinality(Below(j, voters)) \in Nat
<1> DEFINE U(T) == UNION {{p} \X voters[p] : p \in T}
           F == {T \in SUBSET Precincts : IsFiniteSet(U(T))}
<1>1. {} \in F
  BY FS_EmptySet
<1>2. ASSUME NEW T \in SUBSET Precincts, NEW p \in T, T \ {p} \in F PROVE T \in F
  <2>1. U(T) = U(T \ {p}) \cup ({p} \X voters[p])
    OBVIOUS
  <2>2. IsFiniteSet({p} \X voters[p])
    BY FS_Singleton, FS_Product
  <2>3. IsFiniteSet(U(T \ {p}))
    BY <1>2
  <2>4. IsFiniteSet(U(T \ {p}) \cup ({p} \X voters[p]))
    <3> HIDE DEF U
    <3> QED BY <2>2, <2>3, FS_Union
  <2>5. IsFiniteSet(U(T))
    BY <2>1, <2>4, Zenon
  <2> HIDE DEF U
  <2> QED BY <2>5
<1>3. IsFiniteSet(Precincts)
  BY PollAssumption, FS_Subset
<1> HIDE DEF F
<1>4. \A T \in SUBSET Precincts : T \in F
  <2>1. \A T \in SUBSET Precincts : T # {} /\ (\A x \in T : T \ {x} \in F) => T \in F
    BY <1>2
  <2> QED BY <1>1, <1>3, <2>1, SubsetInduction
<1>5. PrecinctsOf(j) \in F
  BY <1>4 DEF PrecinctsOf
<1>6. IsFiniteSet(Below(j, voters))
  BY <1>5 DEF F, Below
<1> QED BY <1>6, FS_CardinalityType

\* The voters below several jurisdictions.
BelowAll(S, voters) == UNION {Below(c, voters) : c \in S}

\* Those are finitely many too, nobody is below two children of one parent,
\* and whoever is below a child is below the parent.
LEMMA BelowChildren ==
    ASSUME NEW voters, \A p \in Precincts : IsFiniteSet(voters[p]), NEW j \in Jurisdictions, j # None,
           NEW D \in SUBSET Children(j)
    PROVE  /\ \A S \in SUBSET D : IsFiniteSet(BelowAll(S, voters)) /\ Cardinality(BelowAll(S, voters)) \in Nat
           /\ \A S \in SUBSET D : \A m \in S :
                 Cardinality(BelowAll(S, voters)) = Cardinality(BelowAll(S \ {m}, voters)) + Cardinality(Below(m, voters))
           /\ Cardinality(BelowAll(D, voters)) <= Cardinality(Below(j, voters))
<1>1. BelowAll(D, voters) \subseteq Below(j, voters)
  BY Hierarchy DEF BelowAll, Below, Children
<1>2. IsFiniteSet(Below(j, voters))
  BY BelowIsFinite
<1>3. ASSUME NEW S \in SUBSET D
      PROVE  IsFiniteSet(BelowAll(S, voters)) /\ Cardinality(BelowAll(S, voters)) \in Nat
  <2>1. BelowAll(S, voters) \subseteq Below(j, voters)
    BY <1>1 DEF BelowAll
  <2> QED BY <1>2, <2>1, FS_Subset, FS_CardinalityType
<1>4. ASSUME NEW S \in SUBSET D, NEW m \in S
      PROVE  Cardinality(BelowAll(S, voters)) = Cardinality(BelowAll(S \ {m}, voters)) + Cardinality(Below(m, voters))
  <2>1. BelowAll(S, voters) = BelowAll(S \ {m}, voters) \cup Below(m, voters)
    BY DEF BelowAll
  <2>2. \A c \in S \ {m} : PrecinctsOf(c) \cap PrecinctsOf(m) = {}
    BY Hierarchy DEF Children
  <2>3. BelowAll(S \ {m}, voters) \cap Below(m, voters) = {}
    <3> SUFFICES ASSUME NEW c \in S \ {m}, NEW x, x \in Below(c, voters), x \in Below(m, voters)
                 PROVE  FALSE
      BY DEF BelowAll
    <3>1. PICK p \in PrecinctsOf(c) : x \in {p} \X voters[p]
      BY DEF Below
    <3>2. PICK q \in PrecinctsOf(m) : x \in {q} \X voters[q]
      BY DEF Below
    <3>3. x[1] = p /\ x[1] = q
      BY <3>1, <3>2
    <3> QED BY <2>2, <3>3
  <2>4. IsFiniteSet(BelowAll(S \ {m}, voters)) /\ IsFiniteSet(Below(m, voters))
    BY <1>3, BelowIsFinite
  <2>5. Cardinality(BelowAll(S \ {m}, voters) \cap Below(m, voters)) = 0
    BY <2>3, FS_EmptySet
  <2>6. Cardinality(BelowAll(S \ {m}, voters)) \in Nat /\ Cardinality(Below(m, voters)) \in Nat
    BY <2>4, FS_CardinalityType
  <2>7. Cardinality(BelowAll(S, voters)) = Cardinality(BelowAll(S \ {m}, voters)) + Cardinality(Below(m, voters))
           - Cardinality(BelowAll(S \ {m}, voters) \cap Below(m, voters))
    BY <2>1, <2>4, FS_Union, Zenon
  <2> QED BY <2>5, <2>6, <2>7
<1>5. Cardinality(BelowAll(D, voters)) <= Cardinality(Below(j, voters))
  BY <1>1, <1>2, FS_Subset
<1> QED BY <1>3, <1>4, <1>5

-----------------------------------------------------------------------------
(* The tallies of aggregators.                                             *)

NoReport == [tallies |-> [i \in Options |-> Empty], voterCount |-> 0]

\* One round of the loop of getTally.
AddReport(before, new) ==
    [tallies |-> [i \in Options |-> IF before.tallies[i] = Empty THEN new.tallies[i]
                                    ELSE Addition(before.tallies[i], new.tallies[i])],
     voterCount |-> before.voterCount + new.voterCount]

\* The loop over the children in S.
Loop(f, K, tallies) ==
    /\ f = [S \in K |-> f[S]]
    /\ \A S \in K : f[S] = IF S = {} THEN NoReport ELSE AddReport(f[S \ {Max(S)}], tallies[Max(S)])

\* There is such a loop.
LEMMA LoopExists ==
    ASSUME NEW tallies, IsFiniteSet(DOMAIN tallies), DOMAIN tallies \subseteq Nat
    PROVE  \E f : Loop(f, SUBSET DOMAIN tallies, tallies)
<1> DEFINE D == DOMAIN tallies
           Small(n) == {S \in SUBSET D : Cardinality(S) <= n}
           E == {n \in Nat : \E f : Loop(f, Small(n), tallies)}
<1> HIDE DEF D
<1>1. \A S \in SUBSET D : IsFiniteSet(S) /\ Cardinality(S) \in Nat
  BY FS_Subset, FS_CardinalityType DEF D
<1>2. 0 \in E
  <2>1. \A S \in Small(0) : S = {}
    BY <1>1, FS_EmptySet
  <2>2. Loop([S \in Small(0) |-> NoReport], Small(0), tallies)
    <3> HIDE DEF Small
    <3> QED BY <2>1 DEF Loop
  <2> QED BY <2>2
<1>3. ASSUME NEW n \in Nat, n \in E PROVE n + 1 \in E
  <2>1. PICK f : Loop(f, Small(n), tallies)
    BY <1>3
  <2> DEFINE g == [S \in Small(n + 1) |-> IF S \in Small(n) THEN f[S] ELSE AddReport(f[S \ {Max(S)}], tallies[Max(S)])]
  <2>2. ASSUME NEW S \in Small(n + 1)
        PROVE  g[S] = IF S = {} THEN NoReport ELSE AddReport(g[S \ {Max(S)}], tallies[Max(S)])
    <3>1. CASE S = {}
      <4>1. {} \in Small(n)
        BY FS_EmptySet
      <4>2. f[{}] = NoReport
        BY <2>1, <4>1 DEF Loop
      <4> HIDE DEF Small
      <4> QED BY <3>1, <4>1, <4>2
    <3>2. CASE S # {}
      <4>1. Max(S) \in S
        BY <3>2, MaxExists DEF D
      <4>2. Cardinality(S \ {Max(S)}) = Cardinality(S) - 1
        BY <1>1, <4>1, FS_RemoveElement
      <4>3. S \ {Max(S)} \in Small(n) /\ S \ {Max(S)} \in Small(n + 1)
        BY <1>1, <4>2
      <4>4. S \in Small(n) => f[S] = AddReport(f[S \ {Max(S)}], tallies[Max(S)])
        BY <2>1, <3>2 DEF Loop
      <4> HIDE DEF Small
      <4>5. g[S \ {Max(S)}] = f[S \ {Max(S)}]
        BY <4>3
      <4>6. g[S] = IF S \in Small(n) THEN f[S] ELSE AddReport(f[S \ {Max(S)}], tallies[Max(S)])
        OBVIOUS
      <4> HIDE DEF g
      <4> QED BY <3>2, <4>4, <4>5, <4>6
    <3> QED BY <3>1, <3>2
  <2>3. Loop(g, Small(n + 1), tallies)
    <3> HIDE DEF Small
    <3>1. g = [S \in Small(n + 1) |-> g[S]]
      OBVIOUS
    <3> HIDE DEF g
    <3> QED BY <2>2, <3>1 DEF Loop
  <2>4. \E h : Loop(h, Small(n + 1), tallies)
    <3> HIDE DEF g, Small
    <3> QED BY <2>3
  <2> HIDE DEF g, Small
  <2> QED BY <2>4
<1>4. Nat \subseteq E
  <2> HIDE DEF E
  <2> QED BY <1>2, <1>3, SetInduction
<1>5. Cardinality(D) \in Nat
  BY <1>1
<1>6. Small(Cardinality(D)) = SUBSET D
  BY FS_Subset DEF D
<1>7. \E f : Loop(f, Small(Cardinality(D)), tallies)
  BY <1>4, <1>5
<1> HIDE DEF Small
<1> QED BY <1>6, <1>7 DEF D

\* GetTally is the end of the loop.
LEMMA GetTallyDef ==
    ASSUME NEW tallies, IsFiniteSet(DOMAIN tallies), DOMAIN tallies \subseteq Nat
    PROVE  \E f : Loop(f, SUBSET DOMAIN tallies, tallies) /\ GetTally(tallies) = f[DOMAIN tallies]
<1> DEFINE P(f) == f = [S \in SUBSET DOMAIN tallies |->
                IF S = {} THEN [tallies |-> [i \in Options |-> Empty], voterCount |-> 0]
                ELSE [tallies |-> [i \in Options |->
                         IF f[S \ {Max(S)}].tallies[i] = Empty THEN tallies[Max(S)].tallies[i]
                         ELSE Addition(f[S \ {Max(S)}].tallies[i], tallies[Max(S)].tallies[i])],
                      voterCount |-> f[S \ {Max(S)}].voterCount + tallies[Max(S)].voterCount]]
           Q(f) == f = [S \in SUBSET DOMAIN tallies |->
                IF S = {} THEN NoReport ELSE AddReport(f[S \ {Max(S)}], tallies[Max(S)])]
           c == CHOOSE f : P(f)
<1>1. \A f : P(f) <=> Q(f)
  BY Zenon DEF NoReport, AddReport
<1>2. GetTally(tallies) = c[DOMAIN tallies]
  BY DEF GetTally
<1>3. PICK f : Loop(f, SUBSET DOMAIN tallies, tallies)
  BY LoopExists
<1>4. Q(f)
  BY <1>3 DEF Loop
<1>5. P(f)
  BY <1>1, <1>4
<1>6. P(c)
  <2> HIDE DEF P
  <2> QED BY <1>5
<1>7. Q(c)
  BY <1>1, <1>6
<1> HIDE DEF c
<1>8. Loop(c, SUBSET DOMAIN tallies, tallies)
  BY <1>7 DEF Loop
<1> QED BY <1>2, <1>8

Voted == [p \in Precincts |-> DOMAIN votes[p]]

\* A report of no more voters than are given below S and, where a ballot
\* counts one, of no more votes.
Within(S, t, signed, cast, m) ==
    /\ t.voterCount \in Nat /\ t.voterCount <= Cardinality(BelowAll(S, signed))
    /\ m = "Plurality" =>
         /\ \A i \in Options : t.tallies[i] \in Nat \cup {Empty, Void}
         /\ Total(Counted(t.tallies)) <= Cardinality(BelowAll(S, cast))

\* The same of those who have receipts and those who have voted.
Reported(S, t) == Within(S, t, receipts, Voted, method)

\* What is counted is numbers.
LEMMA CountedType ==
    ASSUME NEW t, \A i \in Options : t[i] \in Nat \cup {Empty, Void}
    PROVE  Counted(t) \in [Options -> Nat] /\ Total(Counted(t)) \in Nat
<1>1. Counted(t) \in [Options -> Nat]
  BY DEF Counted
<1> QED BY <1>1, TotalNat

\* Adding a report counts nothing twice (PaillierPublicKey::addition).
LEMMA AddReportCounts ==
    ASSUME NEW before, NEW new,
           \A i \in Options : before.tallies[i] \in Nat \cup {Empty, Void},
           \A i \in Options : new.tallies[i] \in Nat \cup {Empty, Void}
    PROVE  LET t == AddReport(before, new).tallies
           IN /\ \A i \in Options : t[i] \in Nat \cup {Empty, Void}
              /\ Total(Counted(t)) <= Total(Counted(before.tallies)) + Total(Counted(new.tallies))
<1> DEFINE t == AddReport(before, new).tallies
<1>1. \A i \in Options : t[i] = IF before.tallies[i] = Empty THEN new.tallies[i]
                                ELSE Addition(before.tallies[i], new.tallies[i])
  BY DEF AddReport
<1> DEFINE a == before.tallies
           b == new.tallies
<1> HIDE DEF t, a, b
<1>2. \A i \in Options : a[i] \in Nat \cup {Empty, Void} /\ b[i] \in Nat \cup {Empty, Void}
  BY DEF a, b
<1>3. \A i \in Options : t[i] = IF a[i] = Empty THEN b[i]
                                ELSE IF Void \in {a[i], b[i]} \/ b[i] = Empty THEN Void ELSE a[i] + b[i]
  BY <1>1 DEF a, b, Addition
<1>4. \A i \in Options : t[i] \in Nat \cup {Empty, Void}
  BY <1>2, <1>3
<1>5. /\ Counted(t) \in [Options -> Nat] /\ Counted(a) \in [Options -> Nat]
      /\ Counted(b) \in [Options -> Nat]
  BY <1>2, <1>4, CountedType
<1>6. ASSUME NEW i \in Options PROVE Counted(t)[i] <= Counted(a)[i] + Counted(b)[i]
  <2>1. /\ Counted(t)[i] = IF t[i] \in {Empty, Void} THEN 0 ELSE t[i]
        /\ Counted(a)[i] = IF a[i] \in {Empty, Void} THEN 0 ELSE a[i]
        /\ Counted(b)[i] = IF b[i] \in {Empty, Void} THEN 0 ELSE b[i]
    BY DEF Counted
  <2>2. CASE a[i] = Empty
    BY <1>2, <1>3, <2>1, <2>2
  <2>3. CASE a[i] # Empty /\ (Void \in {a[i], b[i]} \/ b[i] = Empty)
    BY <1>2, <1>3, <1>5, <2>1, <2>3
  <2>4. CASE a[i] # Empty /\ ~(Void \in {a[i], b[i]} \/ b[i] = Empty)
    <3>1. a[i] \in Nat /\ b[i] \in Nat /\ t[i] = a[i] + b[i]
      BY <1>2, <1>3, <2>4
    <3>2. t[i] \notin {Empty, Void} /\ a[i] \notin {Empty, Void} /\ b[i] \notin {Empty, Void}
      BY <3>1, PollAssumption
    <3> QED BY <2>1, <3>1, <3>2
  <2> QED BY <2>2, <2>3, <2>4
<1>7. Total(Counted(t)) <= Total(Counted(a)) + Total(Counted(b))
  BY <1>5, <1>6, TotalAdds
<1> QED BY <1>4, <1>7 DEF t, a, b

\* getTally of a jurisdiction whose children reported no more than there is
\* reports no more than there is below them.
LEMMA GetTallyReports ==
    ASSUME Kept, PollInv, NEW j \in Jurisdictions, j # None, NEW tallies,
           DOMAIN tallies \subseteq Children(j),
           \A c \in DOMAIN tallies : Reported({c}, tallies[c])
    PROVE  Reported({j}, GetTally(tallies))
<1> DEFINE D == DOMAIN tallies
<1>1. IsFiniteSet(D) /\ D \subseteq Nat /\ D \in SUBSET Children(j)
  <2>1. D \subseteq Jurisdictions
    BY DEF Children
  <2> QED BY <2>1, PollAssumption, FS_Subset
<1>2. /\ \A p \in Precincts : IsFiniteSet(receipts[p])
      /\ \A p \in Precincts : IsFiniteSet(Voted[p])
  BY FS_Subset DEF Kept, PollInv, Voted
<1>3. PICK f : Loop(f, SUBSET D, tallies) /\ GetTally(tallies) = f[D]
  BY <1>1, GetTallyDef
<1> HIDE DEF D
<1> DEFINE F == {S \in SUBSET D : Reported(S, f[S])}
<1>4. {} \in F
  <2>1. f[{}] = NoReport
    BY <1>3 DEF Loop
  <2>2. BelowAll({}, receipts) = {} /\ BelowAll({}, Voted) = {}
    BY DEF BelowAll
  <2>3. Counted(NoReport.tallies) \in [Options -> Nat] /\ \A i \in Options : Counted(NoReport.tallies)[i] = 0
    BY DEF Counted, NoReport
  <2>4. Total(Counted(NoReport.tallies)) = 0
    <3> DEFINE z == Counted(NoReport.tallies)
    <3> HIDE DEF z
    <3>1. z \in [Options -> Nat] /\ \A i \in Options : z[i] = 0
      BY <2>3 DEF z
    <3>2. 0 \notin Options /\ \A i \in Options : z[i] = IF i = 0 THEN 1 ELSE 0
      BY <3>1 DEF Options
    <3>3. Total(z) = 0
      BY <3>1, <3>2, TotalOfOne
    <3> QED BY <3>3 DEF z
  <2>5. NoReport.voterCount = 0 /\ \A i \in Options : NoReport.tallies[i] = Empty
    BY DEF NoReport
  <2>6. Cardinality({}) = 0
    BY FS_EmptySet
  <2>7. Reported({}, NoReport)
    BY <2>2, <2>4, <2>5, <2>6 DEF Reported, Within
  <2> QED BY <2>1, <2>7
<1>5. ASSUME NEW S \in SUBSET D, S # {}, \A y \in S : S \ {y} \in F PROVE S \in F
  <2> DEFINE m == Max(S)
             T == S \ {m}
  <2>1. m \in S
    BY <1>1, <1>5, MaxExists
  <2>2. f[S] = AddReport(f[T], tallies[m])
    BY <1>3, <2>1 DEF Loop
  <2>3. Reported(T, f[T])
    BY <1>5, <2>1
  <2>4. Reported({m}, tallies[m])
    BY <2>1 DEF D
  <2>5. BelowAll({m}, receipts) = Below(m, receipts) /\ BelowAll({m}, Voted) = Below(m, Voted)
    BY DEF BelowAll
  <2>6. /\ Cardinality(BelowAll(S, receipts)) = Cardinality(BelowAll(T, receipts)) + Cardinality(Below(m, receipts))
        /\ Cardinality(BelowAll(T, receipts)) \in Nat
    BY <1>1, <1>2, <2>1, BelowChildren
  <2>7. /\ Cardinality(BelowAll(S, Voted)) = Cardinality(BelowAll(T, Voted)) + Cardinality(Below(m, Voted))
        /\ Cardinality(BelowAll(T, Voted)) \in Nat
    BY <1>1, <1>2, <2>1, BelowChildren
  <2>8. Cardinality(Below(m, receipts)) \in Nat /\ Cardinality(Below(m, Voted)) \in Nat
    BY <1>2, BelowIsFinite
  <2> HIDE DEF m, T
  <2>9. f[S].voterCount = f[T].voterCount + tallies[m].voterCount
    BY <2>2 DEF AddReport
  <2>10. f[S].voterCount \in Nat /\ f[S].voterCount <= Cardinality(BelowAll(S, receipts))
    <3>1. f[T].voterCount \in Nat /\ f[T].voterCount <= Cardinality(BelowAll(T, receipts))
      BY <2>3 DEF Reported, Within
    <3>2. tallies[m].voterCount \in Nat /\ tallies[m].voterCount <= Cardinality(Below(m, receipts))
      BY <2>4, <2>5 DEF Reported, Within
    <3> QED BY <2>6, <2>8, <2>9, <3>1, <3>2
  <2>11. ASSUME method = "Plurality"
         PROVE  /\ \A i \in Options : f[S].tallies[i] \in Nat \cup {Empty, Void}
                /\ Total(Counted(f[S].tallies)) <= Cardinality(BelowAll(S, Voted))
    <3>1. /\ \A i \in Options : f[T].tallies[i] \in Nat \cup {Empty, Void}
          /\ Total(Counted(f[T].tallies)) <= Cardinality(BelowAll(T, Voted))
      BY <2>3, <2>11 DEF Reported, Within
    <3>2. /\ \A i \in Options : tallies[m].tallies[i] \in Nat \cup {Empty, Void}
          /\ Total(Counted(tallies[m].tallies)) <= Cardinality(Below(m, Voted))
      BY <2>4, <2>5, <2>11 DEF Reported, Within
    <3>3. /\ \A i \in Options : f[S].tallies[i] \in Nat \cup {Empty, Void}
          /\ Total(Counted(f[S].tallies)) <= Total(Counted(f[T].tallies)) + Total(Counted(tallies[m].tallies))
      BY <2>2, <3>1, <3>2, AddReportCounts
    <3>4. /\ Total(Counted(f[S].tallies)) \in Nat /\ Total(Counted(f[T].tallies)) \in Nat
          /\ Total(Counted(tallies[m].tallies)) \in Nat
      BY <3>1, <3>2, <3>3, CountedType
    <3> QED BY <2>7, <2>8, <3>1, <3>2, <3>3, <3>4
  <2>12. Reported(S, f[S])
    BY <2>10, <2>11 DEF Reported, Within
  <2> QED BY <2>12
<1> HIDE DEF F
<1>6. D \in F
  <2>1. \A S \in SUBSET D : S # {} /\ (\A y \in S : S \ {y} \in F) => S \in F
    BY <1>5
  <2>2. \A S \in SUBSET D : S \in F
    BY <1>1, <1>4, <2>1, SubsetInduction
  <2> QED BY <2>2
<1>7. Reported(D, f[D])
  BY <1>6 DEF F
<1>8. /\ Cardinality(BelowAll(D, receipts)) <= Cardinality(Below(j, receipts))
      /\ Cardinality(BelowAll(D, Voted)) <= Cardinality(Below(j, Voted))
      /\ Cardinality(BelowAll(D, receipts)) \in Nat /\ Cardinality(BelowAll(D, Voted)) \in Nat
  BY <1>1, <1>2, BelowChildren
<1>9. BelowAll({j}, receipts) = Below(j, receipts) /\ BelowAll({j}, Voted) = Below(j, Voted)
  BY DEF BelowAll
<1>10. Cardinality(Below(j, receipts)) \in Nat /\ Cardinality(Below(j, Voted)) \in Nat
  BY <1>2, BelowIsFinite
<1>11. method = "Plurality" => Total(Counted(f[D].tallies)) \in Nat
  BY <1>7, CountedType DEF Reported, Within
<1>12. Reported({j}, f[D])
  BY <1>7, <1>8, <1>9, <1>10, <1>11 DEF Reported, Within
<1> QED BY <1>3, <1>12

\* A report stays true while voters are only added.
LEMMA ReportLasts ==
    ASSUME NEW c, NEW t, NEW m, NEW signed, NEW signed2, NEW cast, NEW cast2,
           \A p \in Precincts : signed[p] \subseteq signed2[p] /\ IsFiniteSet(signed2[p]),
           \A p \in Precincts : cast[p] \subseteq cast2[p] /\ IsFiniteSet(cast2[p]),
           Within({c}, t, signed, cast, m)
    PROVE  Within({c}, t, signed2, cast2, m)
<1>1. \A p \in Precincts : IsFiniteSet(signed[p]) /\ IsFiniteSet(cast[p])
  BY FS_Subset
<1>2. \A voters : BelowAll({c}, voters) = Below(c, voters)
  BY DEF BelowAll
<1>3. /\ Below(c, signed) \subseteq Below(c, signed2)
      /\ Below(c, cast) \subseteq Below(c, cast2)
  BY DEF Below, PrecinctsOf
<1>4. IsFiniteSet(Below(c, signed2)) /\ IsFiniteSet(Below(c, cast2))
  BY BelowIsFinite
<1>5. /\ Cardinality(Below(c, signed)) <= Cardinality(Below(c, signed2))
      /\ Cardinality(Below(c, cast)) <= Cardinality(Below(c, cast2))
  BY <1>3, <1>4, FS_Subset
<1>6. /\ Cardinality(Below(c, signed)) \in Nat /\ Cardinality(Below(c, signed2)) \in Nat
      /\ Cardinality(Below(c, cast)) \in Nat /\ Cardinality(Below(c, cast2)) \in Nat
  BY <1>1, BelowIsFinite
<1>7. m = "Plurality" => Total(Counted(t.tallies)) \in Nat
  BY CountedType DEF Within
<1> QED BY <1>2, <1>5, <1>6, <1>7 DEF Within

\* A precinct reports its receipts, and one of its ballots
\* (PrecinctAggregator::getTally).
LEMMA PrecinctReports ==
    ASSUME Kept, PollInv, method \in Methods, NEW p \in Precincts
    PROVE  Reported({p}, PrecinctTally(p))
<1> DEFINE t == PrecinctTally(p)
<1>1. BelowAll({p}, receipts) = {p} \X receipts[p] /\ BelowAll({p}, Voted) = {p} \X DOMAIN votes[p]
  <2>1. PrecinctsOf(p) = {p}
    BY Hierarchy
  <2>2. \A voters : Below(p, voters) = {p} \X voters[p]
    BY <2>1 DEF Below
  <2>3. \A voters : BelowAll({p}, voters) = Below(p, voters)
    BY DEF BelowAll
  <2>4. Voted[p] = DOMAIN votes[p]
    BY DEF Voted
  <2> QED BY <2>2, <2>3, <2>4, Zenon
<1>2. IsFiniteSet(receipts[p]) /\ IsFiniteSet(DOMAIN votes[p])
  BY FS_Subset DEF Kept, PollInv
<1>3. Cardinality(receipts[p]) \in Nat /\ Cardinality(DOMAIN votes[p]) \in Nat
  BY <1>2, FS_CardinalityType
<1>4. ASSUME NEW S, IsFiniteSet(S) PROVE Cardinality({p} \X S) = Cardinality(S)
  <2>1. IsFiniteSet({p}) /\ Cardinality({p}) = 1
    BY FS_Singleton
  <2>2. Cardinality({p} \X S) = Cardinality({p}) * Cardinality(S)
    BY <1>4, <2>1, FS_Product
  <2>3. Cardinality(S) \in Nat
    BY <1>4, FS_CardinalityType
  <2> QED BY <2>1, <2>2, <2>3
<1>5. /\ Cardinality(BelowAll({p}, receipts)) = Cardinality(receipts[p])
      /\ Cardinality(BelowAll({p}, Voted)) = Cardinality(DOMAIN votes[p])
  BY <1>1, <1>2, <1>4
<1>6. t.voterCount = Cardinality(receipts[p])
  BY DEF PrecinctTally
<1>7. ASSUME method = "Plurality"
      PROVE  /\ \A i \in Options : t.tallies[i] \in Nat \cup {Empty, Void}
             /\ Total(Counted(t.tallies)) <= Cardinality(DOMAIN votes[p])
  <2>1. CASE DOMAIN votes[p] = {}
    <3>1. \A i \in Options : t.tallies[i] = Empty
      BY <2>1 DEF PrecinctTally
    <3>2. /\ Counted(t.tallies) \in [Options -> Nat]
          /\ 0 \notin Options /\ \A i \in Options : Counted(t.tallies)[i] = IF i = 0 THEN 1 ELSE 0
      BY <3>1 DEF Counted, Options
    <3> HIDE DEF t
    <3>3. Total(Counted(t.tallies)) = 0
      BY <3>2, TotalOfOne
    <3> QED BY <1>3, <3>1, <3>3
  <2>2. CASE DOMAIN votes[p] # {}
    <3> DEFINE v == Max(DOMAIN votes[p])
    <3>1. DOMAIN votes[p] \subseteq Nat
      BY PollAssumption DEF PollInv
    <3>2. v \in DOMAIN votes[p]
      BY <1>2, <2>2, <3>1, MaxExists
    <3>3. votes[p][v] \in Offered["Plurality"]
      BY <1>7, <3>2 DEF PollInv
    <3>4. t.tallies = [i \in Options |-> votes[p][v].encrypted[i]]
      BY <2>2 DEF PrecinctTally
    <3>5. Counted(t.tallies) = Counted(votes[p][v].encrypted)
      BY <3>4 DEF Counted
    <3>6. Cardinality(DOMAIN votes[p]) >= 1
      <4>1. Cardinality(DOMAIN votes[p]) # 0
        BY <1>2, <2>2, FS_EmptySet
      <4> QED BY <1>3, <4>1
    <3> HIDE DEF t, v
    <3>7. /\ \A i \in Options : votes[p][v].encrypted[i] \in Nat
          /\ Total(Counted(votes[p][v].encrypted)) <= 1
      BY <3>3, OneVoteEach
    <3>8. Total(Counted(t.tallies)) \in Nat
      BY <3>4, <3>7, CountedType
    <3> QED BY <1>3, <3>4, <3>5, <3>6, <3>7, <3>8
  <2> QED BY <2>1, <2>2
<1> HIDE DEF t
<1>8. Reported({p}, t)
  BY <1>3, <1>5, <1>6, <1>7 DEF Reported, Within
<1> QED BY <1>8 DEF t

\* What is stored was reported by children and is no more than there is.
ReportsInv ==
    /\ method \in Methods
    /\ received = [j \in Jurisdictions |-> received[j]]
    /\ \A j \in Jurisdictions : \A c \in DOMAIN received[j] :
          j # None /\ c \in Children(j) /\ Reported({c}, received[j][c])

\* Receipts and votes are only added, and the method stays.
LEMMA VotersStay ==
    ASSUME Kept, PollInv, [Next]_vars
    PROVE  /\ method' = method
           /\ \A p \in Precincts : receipts[p] \subseteq receipts'[p] /\ DOMAIN votes[p] \subseteq DOMAIN votes'[p]
<1>1. \A p \in Precincts : receipts[p] \subseteq receipts'[p]
  BY FinalStep DEF Final
<1>2. ASSUME NEW p \in Precincts, NEW v, NEW b, NEW signs, Cast(p, v, b, signs)
      PROVE  method' = method /\ \A q \in Precincts : DOMAIN votes[q] \subseteq DOMAIN votes'[q]
  <2>1. method' = method /\ votes' = [votes EXCEPT ![p] = Store(votes[p], v, b)]
    BY <1>2 DEF Cast
  <2>2. \A q \in Precincts : votes'[q] = IF q = p THEN Store(votes[p], v, b) ELSE votes[q]
    BY <2>1 DEF Kept
  <2> QED BY <2>1, <2>2 DEF Store
<1>3. CASE (\E p \in Precincts : Close(p) \/ TallyPoll(p)) \/ (\E c \in Jurisdictions : AddTally(c)) \/ UNCHANGED vars
  BY <1>3 DEF Close, TallyPoll, AddTally, vars
<1> QED BY <1>1, <1>2, <1>3 DEF Next

\* Every step keeps ReportsInv.
LEMMA ReportsStep ==
    ASSUME Kept, PollInv, ReportsInv, [Next]_vars
    PROVE  ReportsInv'
<1>1. Kept' /\ PollInv'
  BY PollStep
<1>2. /\ method' = method
      /\ \A p \in Precincts : receipts[p] \subseteq receipts'[p] /\ DOMAIN votes[p] \subseteq DOMAIN votes'[p]
  BY VotersStay
<1>3. \A p \in Precincts : IsFiniteSet(receipts'[p]) /\ IsFiniteSet(DOMAIN votes'[p])
  BY <1>1, FS_Subset DEF Kept, PollInv
<1>4. Voted = [p \in Precincts |-> DOMAIN votes[p]] /\ Voted' = [p \in Precincts |-> DOMAIN votes'[p]]
  BY DEF Voted
<1>5. \A c, t : Within({c}, t, receipts, Voted, method) => Within({c}, t, receipts', Voted', method')
  <2>1. \A p \in Precincts : Voted[p] \subseteq Voted'[p] /\ IsFiniteSet(Voted'[p])
    BY <1>2, <1>3, <1>4
  <2> QED BY <1>2, <1>3, <2>1, ReportLasts
<1>6. CASE received' = received
  <2> SUFFICES ASSUME NEW j \in Jurisdictions, NEW c \in DOMAIN received[j]
               PROVE  Within({c}, received[j][c], receipts', Voted', method')
    BY <1>2, <1>6 DEF ReportsInv, Reported, Children
  <2> QED BY <1>5 DEF ReportsInv, Reported
<1>7. ASSUME NEW c \in Jurisdictions, AddTally(c) PROVE ReportsInv'
  <2> DEFINE p == Parent[c]
  <2>1. /\ p # None /\ (c \notin Precincts => DOMAIN received[c] # {})
        /\ received' = [received EXCEPT ![p] = Store(received[p], c, TallyOf(c))]
        /\ UNCHANGED <<votes, receipts>>
    BY <1>7 DEF AddTally
  <2>2. p \in Jurisdictions /\ c \in Children(p)
    BY <2>1, PollAssumption DEF Children
  <2>3. Reported({c}, TallyOf(c))
    <3>1. CASE c \in Precincts
      BY <3>1, PrecinctReports DEF ReportsInv, TallyOf
    <3>2. CASE c \notin Precincts
      <4>1. c # None
        BY <2>1, <3>2 DEF ReportsInv
      <4>2. Reported({c}, GetTally(received[c]))
        BY <4>1, GetTallyReports DEF ReportsInv
      <4> QED BY <3>2, <4>2 DEF TallyOf
    <3> QED BY <3>1, <3>2
  <2>4. /\ received' = [j \in Jurisdictions |-> received'[j]]
        /\ \A j \in Jurisdictions : received'[j] = IF j = p THEN Store(received[p], c, TallyOf(c)) ELSE received[j]
    BY <2>1, <2>2 DEF ReportsInv
  <2>5. Voted' = Voted
    BY <2>1 DEF Voted
  <2> HIDE DEF p
  <2>6. ASSUME NEW j \in Jurisdictions, NEW d \in DOMAIN received'[j]
        PROVE  j # None /\ d \in Children(j) /\ Within({d}, received'[j][d], receipts, Voted, method)
    <3>1. CASE j # p
      BY <2>4, <2>6, <3>1 DEF ReportsInv, Reported
    <3>2. CASE j = p /\ d = c
      BY <2>1, <2>2, <2>3, <2>4, <3>2 DEF Store, Reported
    <3>3. CASE j = p /\ d # c
      <4>1. d \in DOMAIN received[p] /\ received'[p][d] = received[p][d]
        BY <2>2, <2>4, <2>6, <3>3 DEF Store
      <4> QED BY <2>2, <3>3, <4>1 DEF ReportsInv, Reported
    <3> QED BY <3>1, <3>2, <3>3
  <2>7. \A j : Children(j)' = Children(j)
    BY DEF Children
  <2>8. ASSUME NEW j \in Jurisdictions, NEW d \in DOMAIN received'[j]
        PROVE  j # None /\ d \in Children(j) /\ Within({d}, received'[j][d], receipts', Voted', method')
    BY <1>2, <2>1, <2>5, <2>6
  <2> QED BY <1>2, <2>4, <2>8 DEF ReportsInv, Reported, Children
<1>8. received' = received \/ \E c \in Jurisdictions : AddTally(c)
  BY DEF Next, Cast, Close, TallyPoll, vars
<1> QED BY <1>6, <1>7, <1>8

\* However often and in whatever order tallies are reported, no total exceeds
\* the voters and the votes below it, for any precincts, counties and states
\* (CountyAggregator, StateAggregator, NationalAggregator).
THEOREM NothingCountsTwice == Spec => []NeverTwice
<1>1. Init => ReportsInv
  <2> SUFFICES ASSUME Init PROVE ReportsInv
    OBVIOUS
  <2>1. \A j \in Jurisdictions : DOMAIN received[j] = {}
    BY DEF Init
  <2> QED BY <2>1 DEF Init, ReportsInv
<1>2. ReportsInv /\ Kept /\ PollInv /\ [Next]_vars => ReportsInv'
  BY ReportsStep
<1>3. Spec => []ReportsInv
  BY <1>1, <1>2, PollInvariant, PTL DEF Spec
<1>4. Kept /\ PollInv /\ ReportsInv => NeverTwice
  <2> SUFFICES ASSUME Kept, PollInv, ReportsInv,
                      NEW j \in Jurisdictions \ Precincts, DOMAIN received[j] # {}
               PROVE  /\ GetTally(received[j]).voterCount <= Cardinality(Below(j, receipts))
                      /\ method = "Plurality" =>
                            Total(Counted(GetTally(received[j]).tallies)) <= Cardinality(Below(j, Voted))
    BY DEF NeverTwice, Voted
  <2>1. j # None /\ DOMAIN received[j] \subseteq Children(j) /\ \A c \in DOMAIN received[j] : Reported({c}, received[j][c])
    BY DEF ReportsInv
  <2>2. Reported({j}, GetTally(received[j]))
    BY <2>1, GetTallyReports
  <2>3. BelowAll({j}, receipts) = Below(j, receipts) /\ BelowAll({j}, Voted) = Below(j, Voted)
    BY DEF BelowAll
  <2> QED BY <2>2, <2>3 DEF Reported, Within
<1> QED BY <1>3, <1>4, PollInvariant, PTL
=============================================================================
