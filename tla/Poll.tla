-------------------------------- MODULE Poll --------------------------------
(***************************************************************************)
(* An election (poll.cpp, hierarchical_aggregator.cpp): one poll in every  *)
(* precinct, counted by a PollTallier, and the tallies that travel up from *)
(* precincts to counties, states and the nation.  A voter is its id.       *)
(* votes_ keeps the numbers of a ballot only; the model keeps the ballot,  *)
(* whose other fields say what the voter meant.                            *)
(***************************************************************************)
EXTENDS PollTallier

CONSTANTS Precincts, Jurisdictions,  \* ids; precincts among them
          Parent,         \* [Jurisdictions -> Jurisdictions \cup {None}]
          Electorate,     \* [method -> [Precincts -> sets of voters]]
          Offered,        \* [method -> the EncryptedVotes given to vote()]
          Reporting,      \* the methods whose precincts report to a county
          MaxWeight,      \* maxWeight_, bytes or None
          AllowInsecure,
          MaxUnsigned,    \* bound on the votes of a poll that have no receipt
          Empty,          \* an empty string where a ciphertext should be
          Void            \* the ciphertext 0, which no encryption gives

\* A precinct reports to a county, a county to a state and a state to the
\* nation (JurisdictionLevel); under Plurality the ballots are the encoder's.
ASSUME PollAssumption ==
    /\ Precincts \subseteq Jurisdictions /\ Jurisdictions \subseteq Nat /\ IsFiniteSet(Jurisdictions)
    /\ Parent \in [Jurisdictions -> Jurisdictions \cup {None}]
    /\ \E level \in [Jurisdictions -> 0..3] : \A j \in Jurisdictions :
          /\ j \in Precincts <=> level[j] = 0
          /\ Parent[j] # None => level[Parent[j]] = level[j] + 1
    /\ \A m \in Methods, p \in Precincts : Electorate[m][p] \subseteq Nat
    /\ \A b \in Offered["Plurality"] : b = EncodePlurality(b.choice)
    /\ Empty \notin Nat /\ Void \notin Nat
    /\ AllowInsecure \in BOOLEAN /\ MaxUnsigned \in Nat

VARIABLES method,     \* method_
          votes,      \* votes_ of each precinct's poll
          receipts,   \* the keys of receipts_
          closed,     \* closedAt_ has a value
          result,     \* what tally() returned last
          received    \* precinctTallies_, countyTallies_ and stateTallies_

vars == <<method, votes, receipts, closed, result, received>>

Children(j) == {c \in Jurisdictions : Parent[c] = j}

-----------------------------------------------------------------------------
\* compareBigintBytes(a, b): the longer is the greater, highest byte first.
IsLess(a, b) ==
    \/ Len(a) < Len(b)
    \/ Len(a) = Len(b) /\ \E i \in 1..Len(a) : a[i] < b[i] /\ \A k \in 1..(i - 1) : a[k] = b[k]

ValidateVote(b) ==
    /\ method = "Plurality" => b.choice \in Options
    /\ method = "Approval" => b.choices # None /\ b.choices # {} /\ b.choices \subseteq Options
    /\ method = "Weighted" => /\ b.choice # None
                              /\ b.weight # None /\ b.weight # <<>>
                              /\ MaxWeight = None \/ ~IsLess(MaxWeight, b.weight)
    /\ method \in {"Borda", "RankedChoice"} =>
           /\ b.rankings # None /\ b.rankings # <<>>
           /\ \A i \in DOMAIN b.rankings : b.rankings[i] \in Options
           /\ \A i, k \in DOMAIN b.rankings : b.rankings[i] = b.rankings[k] => i = k
    /\ b.encrypted # <<>>

Store(f, k, x) == [m \in DOMAIN f \cup {k} |-> IF m = k THEN x ELSE f[m]]

\* The constructor refuses a method that is not secure unless told otherwise.
Init ==
    /\ method \in {m \in Methods : GetSecurityLevel(m) # "Insecure" \/ AllowInsecure}
    /\ votes = [p \in Precincts |-> [v \in {} |-> Blank]]
    /\ receipts = [p \in Precincts |-> {}]
    /\ closed = [p \in Precincts |-> FALSE]
    /\ result = [p \in Precincts |-> None]
    /\ received = [j \in Jurisdictions |-> [c \in {} |-> Empty]]

\* Mutant: whoever has voted may vote again.
CastAgain(p, v, b, signs) ==
    /\ ~closed[p]
    /\ ValidateVote(b)
    /\ votes' = [votes EXCEPT ![p] = Store(@, v, b)]
    /\ receipts' = IF signs THEN [receipts EXCEPT ![p] = @ \cup {v}] ELSE receipts
    /\ UNCHANGED <<method, closed, result, received>>

\* Mutant: the receipt is given before the vote is stored.
CastReceiptFirst(p, v, b, signs) ==
    /\ ~closed[p]
    /\ v \notin receipts[p]
    /\ ValidateVote(b)
    /\ receipts' = [receipts EXCEPT ![p] = @ \cup {v}]
    /\ votes' = IF signs THEN [votes EXCEPT ![p] = Store(@, v, b)] ELSE votes
    /\ UNCHANGED <<method, closed, result, received>>

\* Poll::vote.  The vote is stored; then the authority signs the receipt, or
\* throws because it has no private key.
Cast(p, v, b, signs) ==
    /\ ~closed[p]
    /\ v \notin receipts[p]
    /\ ValidateVote(b)
    /\ votes' = [votes EXCEPT ![p] = Store(@, v, b)]
    /\ receipts' = IF signs THEN [receipts EXCEPT ![p] = @ \cup {v}] ELSE receipts
    /\ UNCHANGED <<method, closed, result, received>>

Close(p) ==
    /\ ~closed[p]
    /\ closed' = [closed EXCEPT ![p] = TRUE]
    /\ UNCHANGED <<method, votes, receipts, result, received>>

GetEncryptedVotes(p) == [v \in DOMAIN votes[p] |-> votes[p][v].encrypted]

TallyPoll(p) ==
    /\ closed[p]
    /\ \E r \in Tally(method, GetEncryptedVotes(p)) :
          result' = [result EXCEPT ![p] = [winners |-> r.winners, tallies |-> r.tallies,
                                           voterCount |-> Cardinality(receipts[p])]]
    /\ UNCHANGED <<method, votes, receipts, closed, received>>

-----------------------------------------------------------------------------
\* PrecinctAggregator::getTally keeps the numbers of one ballot, that of the
\* voter who comes last in votes_.
PrecinctTally(p) ==
    [tallies |-> [i \in Options |-> IF DOMAIN votes[p] = {} THEN Empty
                                    ELSE votes[p][Max(DOMAIN votes[p])].encrypted[i]],
     voterCount |-> Cardinality(receipts[p])]

\* PaillierPublicKey::addition of two ciphertexts.
Addition(a, b) == IF Void \in {a, b} \/ b = Empty THEN Void ELSE a + b

\* getTally of a county, a state or the nation: the tallies of its children
\* in the order of their ids.
GetTally(tallies) ==
    LET from[S \in SUBSET DOMAIN tallies] ==   \* the sums over the first children
            IF S = {} THEN [tallies |-> [i \in Options |-> Empty], voterCount |-> 0]
            ELSE LET before == from[S \ {Max(S)}]
                     new == tallies[Max(S)]
                 IN [tallies |-> [i \in Options |->
                         IF before.tallies[i] = Empty THEN new.tallies[i]
                         ELSE Addition(before.tallies[i], new.tallies[i])],
                     voterCount |-> before.voterCount + new.voterCount]
    IN from[DOMAIN tallies]

TallyOf(c) == IF c \in Precincts THEN PrecinctTally(c) ELSE GetTally(received[c])

\* Mutant: the voters of a report are added to those of the one before.
AddTallyAgain(c) ==
    LET p == Parent[c] IN
    /\ p # None
    /\ c \notin Precincts => DOMAIN received[c] # {}
    /\ received' = [received EXCEPT ![p] =
           Store(@, c, IF c \in DOMAIN @ THEN [TallyOf(c) EXCEPT !.voterCount = @ + received[p][c].voterCount]
                       ELSE TallyOf(c))]
    /\ UNCHANGED <<method, votes, receipts, closed, result>>

\* A child's tally is taken and given to the parent; getTally throws when
\* the child has none.  The poll need not be closed.
AddTally(c) ==
    LET p == Parent[c] IN
    /\ p # None
    /\ c \notin Precincts => DOMAIN received[c] # {}
    /\ received' = [received EXCEPT ![p] = Store(@, c, TallyOf(c))]
    /\ UNCHANGED <<method, votes, receipts, closed, result>>

Next ==
    \/ \E p \in Precincts :
          \/ \E v \in Electorate[method][p], b \in Offered[method], signs \in BOOLEAN :
                /\ signs \/ Cardinality(DOMAIN votes[p] \ (receipts[p] \cup {v})) < MaxUnsigned
                /\ Cast(p, v, b, signs)
          \/ Electorate[method][p] # {} /\ Close(p)
          \/ Electorate[method][p] # {} /\ TallyPoll(p)
    \/ method \in Reporting /\ \E c \in Jurisdictions : AddTally(c)

Spec == Init /\ [][Next]_vars

-----------------------------------------------------------------------------
(* Properties.                                                             *)

\* Poll::vote, tally: every receipt stands for a vote that is counted, a poll
\* has a result only once it is closed, and the result speaks of no more
\* voters than have voted (of fewer, when a receipt could not be signed).
PollInv ==
    \A p \in Precincts :
        /\ receipts[p] \subseteq DOMAIN votes[p]
        /\ DOMAIN votes[p] \subseteq Electorate[method][p]
        /\ \A v \in DOMAIN votes[p] : votes[p][v] \in Offered[method]
        /\ result[p] # None => closed[p] /\ result[p].voterCount <= Cardinality(DOMAIN votes[p])

\* Poll::vote, Poll::close: a vote somebody holds a receipt for is never
\* replaced or lost, and after close nothing changes at all, whatever calls
\* follow in whatever order.
VoteIsFinal ==
    [][\A p \in Precincts :
          /\ receipts[p] \subseteq receipts'[p]
          /\ \A v \in receipts[p] : v \in DOMAIN votes'[p] /\ votes'[p][v] = votes[p][v]
          /\ closed[p] => closed'[p] /\ votes'[p] = votes[p] /\ receipts'[p] = receipts[p]]_vars

\* What the voters of p meant by their ballots.
Prefers(b, i, j) ==
    RankOf(b.rankings, i) # 0 /\ (RankOf(b.rankings, j) = 0 \/ RankOf(b.rankings, i) < RankOf(b.rankings, j))

Preferring(p, i, j) == Cardinality({v \in DOMAIN votes[p] : Prefers(votes[p][v], i, j)})

FirstChoices(p, i) == Cardinality({v \in DOMAIN votes[p] : votes[p][v].rankings[1] = i})

\* A negative weight, as the tests write it: all the bytes of an int64_t, the top
\* bit set.
Objects(b, i) == b.choice = i /\ Len(b.weight) = Width /\ 2 * b.weight[Width] >= Base

Meant(b, i) ==
    CASE method \in {"Plurality", "TwoRound", "Consensus", "YesNo", "YesNoAbstain", "Supermajority"} -> IF b.choice = i THEN 1 ELSE 0
      [] method = "Approval" -> IF i \in b.choices THEN 1 ELSE 0
      [] method \in {"Weighted", "Score"} -> IF b.choice = i THEN Head(b.weight) ELSE 0
      [] method = "Quadratic" -> IF b.choice = i THEN Head(b.weight) * Head(b.weight) ELSE 0
      [] method = "ConsentBased" -> IF b.choice = i /\ ~Objects(b, i) /\ b.weight # <<0>> THEN 1 ELSE 0
      [] OTHER -> IF RankOf(b.rankings, i) = 0 THEN 0 ELSE Len(b.rankings) + 1 - RankOf(b.rankings, i)

Wanted(p) == [i \in Options |-> MapThenSumSet(LAMBDA v : Meant(votes[p][v], i), DOMAIN votes[p])]

\* PollTallier::tally: the result is the one the ballots ask for, through
\* encoding, encryption, decryption and counting.  Additive rules give the
\* choices with most support (nothing is claimed of who wins a supermajority:
\* the code asks for none).  Ranked choice gives somebody who is not beaten
\* head to head by every other, who is not the first choice of fewer voters
\* than every other, and who is the first choice of more than half if one is.
\* STV seats whoever is first on a quota of the ballots.  The winner of two
\* rounds has most votes; that of STAR is not behind two others in points, and
\* at least as many prefer it to the other finalist.  Consensus takes the
\* agreed share of the ballots or more.  By consent wins whatever nobody objects
\* to.  (Weights of one byte, and objections in eight.)
ResultIsFair ==
    \A p \in Precincts : result[p] # None =>
        LET won == result[p].winners
            n == Cardinality(DOMAIN votes[p])
            w == Wanted(p)
        IN CASE GetSecurityLevel(method) = "FullyHomomorphic" \/ method = "Quadratic" ->
                    result[p].tallies = w /\ (method # "Supermajority" => won = Best(w))
             [] method = "RankedChoice" ->
                    /\ Cardinality(won) = 1
                    /\ \A i \in Options : 2 * FirstChoices(p, i) > n => won = {i}
                    /\ \A i \in won : /\ \E j \in Options \ {i} : Preferring(p, i, j) >= Preferring(p, j, i)
                                     /\ \E j \in Options \ {i} : FirstChoices(p, i) >= FirstChoices(p, j)
             [] method = "STV" ->
                    \A i \in Options : FirstChoices(p, i) * (Seats + 1) > n => i \in won
             [] method = "TwoRound" -> won \subseteq Best(w) /\ Cardinality(won) = 1
             [] method = "STAR" ->
                    \A i \in won : \E j \in Options \ {i} :
                        /\ \A k \in Options \ {i, j} : w[k] <= w[i] /\ w[k] <= w[j]
                        /\ Preferring(p, i, j) >= Preferring(p, j, i)
             [] method = "Consensus" -> n > 0 => won = {i \in Options : w[i] * 100 >= Agreement * n}
             [] method = "ConsentBased" ->
                    /\ won = {i \in Options : \A v \in DOMAIN votes[p] : ~Objects(votes[p][v], i)}
                    /\ result[p].tallies = w

\* The precinct itself, its county, its state and the nation.
Up(S) == {Parent[j] : j \in S} \ {None}
Above(p) == {p} \cup Up({p}) \cup Up(Up({p})) \cup Up(Up(Up({p})))

PrecinctsOf(j) == {p \in Precincts : j \in Above(p)}

\* Those of the voters that are below j, each with the precinct.
Below(j, voters) == UNION {{p} \X voters[p] : p \in PrecinctsOf(j)}

\* The number in a sum, nothing where there is none.
Counted(tallies) == [i \in Options |-> IF tallies[i] \in {Empty, Void} THEN 0 ELSE tallies[i]]

\* County-, State- and NationalAggregator: however often and in whatever order
\* tallies are reported, the totals of a jurisdiction never exceed the voters
\* and the votes of the precincts below it.
NeverTwice ==
    \A j \in Jurisdictions \ Precincts : DOMAIN received[j] # {} =>
        LET t == GetTally(received[j])
        IN /\ t.voterCount <= Cardinality(Below(j, receipts))
           /\ method = "Plurality" =>
                Total(Counted(t.tallies)) <= Cardinality(Below(j, [p \in Precincts |-> DOMAIN votes[p]]))
=============================================================================
