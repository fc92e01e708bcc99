----------------------------- MODULE MCServices -----------------------------
EXTENDS Services

CONSTANTS p1, p2, b1, b2

MCLatency == (p1 :> 1) @@ (p2 :> 2)
\* Some of the slots agree modulo the sizes of the filters.
MCDigest == (b1 :> (0 :> 3 @@ 1 :> 17 @@ 2 :> 9)) @@ (b2 :> (0 :> 7 @@ 1 :> 13 @@ 2 :> 22))
MCHoldings == {{}, {b1}, {b1, b2}}

MCValues ==
    {Null, Bool(FALSE), Bool(TRUE), Number(-1), Number(0), Number(1), String(1), String(2),
     Array(<<>>), Array(<<Number(1)>>), Array(<<Number(1), Null>>), Object(0), Object(1)}

One(op, key, v) == [o \in {op} |-> [key |-> key, operand |-> v]]
Two(op, key, v, op2, key2, v2) == One(op, key, v) @@ One(op2, key2, v2)

MCUpdates ==
    UNION {{One("$set", k, v), One("$min", k, v), One("$max", k, v)} : k \in Fields, v \in MCValues}
    \cup UNION {{One("$unset", k, Null), One("$currentDate", k, Null), One("$pop", k, Number(1)),
                 One("$pop", k, Number(-1)), One("$pop", k, Null), One("$rename", k, "a"), One("$rename", k, "b")} : k \in Fields}
    \cup UNION {{One(op, k, v) : op \in {"$inc", "$mul", "$push", "$pull", "$addToSet"}} :
                   k \in Fields, v \in {Number(1), Number(-1), Null, Object(0)}}
    \cup {Two("$addToSet", "a", Number(1), "$set", "b", Null), Two("$max", "a", Number(1), "$min", "b", Number(0)),
          Two("$pull", "a", Number(1), "$unset", "b", Null), Two("$inc", "a", Number(1), "$rename", "a", "b"),
          Two("$max", "a", Number(1), "$min", "a", Number(0)), Two("$mul", "b", Number(-1), "$push", "a", Null)}

MCTimestamp == String(3)

MCSecrets == {<<0, 0, 0, 0>>, <<0, 0, 1, 0>>, <<1, 1, 0, 1, 0, 1, 1, 1>>}

MCPrimePairs == {<<5, 7>>, <<11, 13>>}
\* 42799 passes the test for the witness 2 alone, 31621 for 3 alone.
MCCandidates == {n \in 39..199 : n % 2 = 1} \cup {59 * 59, 59 * 61, 61 * 67, 127 * 131, 31621, 42799, 46327, 46337, 3511}
=============================================================================
