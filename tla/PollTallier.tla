---------------------------- MODULE PollTallier ----------------------------
(***************************************************************************)
(* Counting (poll_tallier.cpp).  votes maps each voter to the numbers of   *)
(* its ballot.  Where the code sorts, std::sort may leave equal choices in *)
(* either order, so that every rule gives the set of results it may reach. *)
(***************************************************************************)
EXTENDS VoteEncoder

CONSTANTS SeatLimit,   \* seats of an STV election, 3 in the code
          Agreement    \* per cent of the ballots that make a consensus, 95 in the code

Methods == {"Plurality", "Approval", "Weighted", "Borda", "Score", "YesNo", "YesNoAbstain",
            "Supermajority", "RankedChoice", "TwoRound", "STAR", "STV", "Quadratic",
            "Consensus", "ConsentBased"}

GetSecurityLevel(method) ==
    CASE method \in {"RankedChoice", "TwoRound", "STAR", "STV"} -> "MultiRound"
      [] method \in {"Quadratic", "Consensus", "ConsentBased"} -> "Insecure"
      [] OTHER -> "FullyHomomorphic"

Vote(votes, v, i) == Decrypt(votes[v][i])

\* addBigintBytes, and bytesToInt of what it gives: a sum below zero is written
\* with a sign byte and read without.
Add(a, b) == BytesToInt(IntToBytes(a + b))

\* The numbers of all voters, added in the order of their ids.
Sum(votes, Of(_)) ==
    LET upTo[S \in SUBSET DOMAIN votes] ==
            IF S = {} THEN 0 ELSE Add(upTo[S \ {Max(S)}], Of(Max(S)))
    IN upTo[DOMAIN votes]

Tallies(votes) == [i \in Options |-> Sum(votes, LAMBDA v : Vote(votes, v, i))]

Total(t) ==
    LET upTo[i \in 0..N] == IF i = 0 THEN 0 ELSE upTo[i - 1] + t[i]
    IN upTo[N]

Best(t) == {i \in Options : \A j \in Options : t[j] <= t[i]}

Result(winners, t) == [winners |-> winners, tallies |-> t]

\* tallyScored and tallyYesNo are the same.
TallyAdditive(votes) == {Result(Best(Tallies(votes)), Tallies(votes))}

TallyQuadratic(votes) ==
    LET t == [i \in Options |-> Sum(votes, LAMBDA v : Vote(votes, v, i) * Vote(votes, v, i))]
    IN {Result(Best(t), t)}

\* Rounded up.
Threshold(n) == (n * Agreement + 99) \div 100

TallyConsensus(votes) ==
    LET t == Tallies(votes)
    IN {Result({i \in Options : t[i] >= Threshold(Cardinality(DOMAIN votes))}, t)}

TallyConsentBased(votes) ==
    LET Voting(i) == {v \in DOMAIN votes : Vote(votes, v, i) > 0}
        Objecting(i) == {v \in DOMAIN votes : Vote(votes, v, i) < 0}
    IN {Result({i \in Options : Objecting(i) = {}}, [i \in Options |-> Cardinality(Voting(i))])}

\* decryptRankings: the choices that voter v ranked, the better ones first.
Ranked(votes, v) == {i \in Options : Vote(votes, v, i) > 0}

\* v's first choice among those that are left.
IsFirstChoice(votes, v, i, eliminated) ==
    /\ i \in Ranked(votes, v) \ eliminated
    /\ \A j \in Ranked(votes, v) \ eliminated : Vote(votes, v, i) <= Vote(votes, v, j)

CountFirstChoices(votes, eliminated) ==
    [i \in Options |-> Cardinality({v \in DOMAIN votes : IsFirstChoice(votes, v, i, eliminated)})]

\* Mutant: the strongest is eliminated.
EliminateStrongest(t, left) == Min({i \in left : \A j \in left : t[j] <= t[i]})

\* The weakest, the first of them when there are several.
ToEliminate(t, left) == Min({i \in left : \A j \in left : t[i] <= t[j]})

TallyRankedChoice(votes) ==
    LET round[eliminated \in SUBSET Options] ==
            LET t == CountFirstChoices(votes, eliminated)
                left == Options \ eliminated
                top == {i \in left : \A j \in left : t[j] <= t[i]}
            IN IF Cardinality(top) = 1 /\ \A i \in top : t[i] > Total(t) \div 2 THEN Result(top, t)
               ELSE IF Cardinality(left) = 1 THEN Result(left, t)
               ELSE round[eliminated \cup {ToEliminate(t, left)}]
    IN {round[{}]}

\* The first two after sorting by t.
TopTwo(t) ==
    {p \in Options \X Options :
        /\ p[1] # p[2] /\ p[1] \in Best(t)
        /\ \A j \in Options \ {p[1]} : t[j] <= t[p[2]]}

\* The second round has the tallies of the first: nobody votes again.
TallyTwoRound(votes) ==
    LET t == Tallies(votes)
    IN IF \E i \in Best(t) : t[i] > Total(t) \div 2
       THEN {Result({Min(Best(t))}, t)}
       ELSE {Result({p[1]}, [i \in Options |-> IF i \in {p[1], p[2]} THEN t[i] ELSE 0]) : p \in TopTwo(t)}

\* Equal in the runoff, the one with the lower score wins.
TallySTAR(votes) ==
    LET Prefer(a, b) == Cardinality({v \in DOMAIN votes : Vote(votes, v, a) > Vote(votes, v, b)})
        Runoff(a, b) == Result({IF Prefer(a, b) > Prefer(b, a) THEN a ELSE b},
                               [i \in Options |-> IF i = a THEN Prefer(a, b)
                                                  ELSE IF i = b THEN Prefer(b, a) ELSE 0])
    IN {Runoff(p[1], p[2]) : p \in TopTwo(Tallies(votes))}

Seats == IF SeatLimit < N THEN SeatLimit ELSE N

Quota(n) == n \div (Seats + 1) + 1

\* Whoever has the quota gets a seat; the ballots move on with all their weight.
TallySTV(votes) ==
    LET Outcome(winners) == Result(winners, [i \in Options |-> IF i \in winners THEN 1 ELSE 0])
        round[p \in (SUBSET Options) \X (SUBSET Options)] ==
            LET winners == p[1]
                eliminated == p[2]
                t == CountFirstChoices(votes, eliminated)
                left == Options \ eliminated
                meeting == {i \in left : t[i] >= Quota(Cardinality(DOMAIN votes))}
            IN IF Cardinality(winners) >= Seats \/ left = {} THEN {Outcome(winners)}
               ELSE IF meeting # {} THEN round[<<winners \cup meeting, eliminated \cup meeting>>]
               ELSE UNION {round[<<winners, eliminated \cup {i}>>] :
                              i \in {i \in left : \A j \in left : t[i] <= t[j]}}
    IN round[<<{}, {}>>]

Tally(method, votes) ==
    CASE method = "RankedChoice" -> TallyRankedChoice(votes)
      [] method = "TwoRound" -> TallyTwoRound(votes)
      [] method = "STAR" -> TallySTAR(votes)
      [] method = "STV" -> TallySTV(votes)
      [] method = "Quadratic" -> TallyQuadratic(votes)
      [] method = "Consensus" -> TallyConsensus(votes)
      [] method = "ConsentBased" -> TallyConsentBased(votes)
      [] OTHER -> TallyAdditive(votes)
=============================================================================
