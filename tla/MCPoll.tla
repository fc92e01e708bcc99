------------------------------- MODULE MCPoll -------------------------------
(***************************************************************************)
(* Small elections, one for every voting method.  Two to four voters in    *)
(* one precinct, except under Plurality, where two precincts report to a       *)
(* county and the county to a state.                                       *)
(***************************************************************************)
EXTENDS Poll, TLC

MCPrecincts == {1, 2}
MCJurisdictions == 1..4
MCParent == [j \in MCJurisdictions |-> CASE j \in {1, 2} -> 3 [] j = 3 -> 4 [] OTHER -> None]

MCElectorate ==
    [m \in Methods |->
        IF m = "Plurality" THEN [p \in MCPrecincts |-> IF p = 1 THEN {1, 2} ELSE {3}]
        ELSE [p \in MCPrecincts |-> IF p = 2 THEN {} ELSE IF m = "STAR" THEN {1, 2}
                                    ELSE IF m \in {"RankedChoice", "Consensus"} THEN {1, 2, 3, 4} ELSE {1, 2, 3}]]

Rankings == {r \in UNION {[1..n -> 1..N] : n \in 1..N} : \A i, j \in DOMAIN r : r[i] = r[j] => i = j}
Weights == {<<1>>, <<3>>, <<1, 0>>}
MCMaxWeight == <<3>>
Duplicate == <<1, 1>>
\* -1 in an int64_t, and as intToBytes writes it.
AllOnes == [i \in 1..Width |-> Base - 1]
SignByte == IntToBytes(-1)

\* Some of them are refused.  Only the encoder's ballots are offered; the
\* methods it does not know get the ballots of a method of the same kind.
MCOffered ==
    [m \in Methods |->
        CASE m = "Plurality" -> {EncodePlurality(c) : c \in {1, 3, N + 1}}
          [] m = "Consensus" -> {EncodePlurality(c) : c \in {1, 3}}
          [] m \in {"TwoRound", "YesNo", "YesNoAbstain", "Supermajority"} ->
                {EncodePlurality(c) : c \in 1..N} \cup {EncodePlurality(N + 1)}
          [] m = "Approval" -> {Encode(m, None, S, None, None) : S \in SUBSET (1..N)}
          [] m = "Weighted" -> {Encode(m, c, None, None, w) : c \in 1..N, w \in Weights}
          [] m \in {"Quadratic", "Score"} -> {EncodeWeighted(c, w) : c \in 1..N, w \in {<<1>>, <<3>>}}
          [] m = "ConsentBased" -> {Encode(m, c, None, None, w) : c \in {1, 3}, w \in {None, AllOnes, SignByte, IntToBytes(0)}}
          [] m = "Borda" -> {EncodeBorda(r) : r \in {r \in Rankings : Len(r) < 3}}
          [] m = "STAR" -> {EncodeBorda(r) : r \in Rankings}
          [] m = "STV" -> {EncodeRankedChoice(r) : r \in {r \in Rankings : Len(r) # 2}}
          [] OTHER -> {EncodeRankedChoice(r) : r \in {r \in Rankings : Len(r) = 3 /\ r # <<3, 2, 1>>} \cup {<<2>>, Duplicate}}]
=============================================================================
