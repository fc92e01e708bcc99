-------------------------- MODULE MCGossipEngine ---------------------------
EXTENDS GossipEngine

CONSTANTS n1, n2, n3, u1, u2

MCNodes == {n1, n2, n3}
TwoNodes == {n1, n2}
MCNames == {"x", "p", "i", "q", "l", "m", "n", "f", "g", "h", "o", "key"}
MCUsers == {u1, u2}

\* Everybody with everybody; a line with n2 in the middle; two ways from n1 to n3.
Meshed == {[n \in Nodes |-> Nodes \ {n}]}
Line == [n \in Nodes |-> IF n = n2 THEN {n1, n3} ELSE {n2}]
Detour == [n \in Nodes |-> CASE n = n1 -> {n2, n3} [] n = n2 -> {n3} [] n = n3 -> {n1}]
LineOrDetour == {Line, Detour}

\* Where the users are: one at n2 and one at n3, or both at n2.
Apart == [n \in Nodes |-> CASE n = n2 -> {u1} [] n = n3 -> {u2} [] OTHER -> {}]
Together == [n \in Nodes |-> IF n = n2 THEN {u1, u2} ELSE {}]
AtEnd == [n \in Nodes |-> IF n = n3 THEN {u1} ELSE {}]

OneHop == [k \in Classes |-> 1]
Fanout1 == [k \in Classes |-> 1]
Fanout2 == [k \in Classes |-> 2]

Item(kind, name, origin) ==
    [kind |-> kind, name |-> name, key |-> "key", origin |-> origin, recipients |-> <<>>,
     ackRequired |-> FALSE, high |-> FALSE, proof |-> "none", complete |-> TRUE]
Message(name, origin, to, ack) ==
    [Item("message", name, origin) EXCEPT !.recipients = to, !.ackRequired = ack]
Update(name, origin, proof) == [Item("head_update", name, origin) EXCEPT !.proof = proof]

\* One of every kind, and one that is not valid.
AllKinds ==
    {Item("add", "x", n1), Item("remove", "x", n1), Item("pool_announce", "p", n1),
     Item("pool_deleted", "p", n1), Item("pool_remove", "p", n2), Item("cbl_index", "i", n2),
     Item("quorum_proposal", "q", n1), Item("quorum_vote", "q", n2),
     [Item("acl_update", "l", n1) EXCEPT !.complete = FALSE],
     Message("m", n1, <<u2, u1>>, TRUE), [Message("n", n2, <<u1>>, FALSE) EXCEPT !.high = TRUE],
     Update("h", n1, "good"), Update("g", n2, "bad"), Update("f", n1, "malformed"),
     Update("o", n2, "other")}

EndToEnd == {Item("quorum_proposal", "q", n1), Message("m", n1, <<u1>>, TRUE),
             Update("h", n1, "none"), Update("g", n1, "good")}
=============================================================================
