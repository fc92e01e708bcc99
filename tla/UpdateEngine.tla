---------------------------- MODULE UpdateEngine ----------------------------
(***************************************************************************)
(* Updates of a document (update_engine.cpp).  An update is a function     *)
(* from operators to the fields each is applied to, and a field's operand. *)
(* nlohmann::json keeps keys in the order of their names, so the operators *)
(* are applied in alphabetical order whatever order they were written in.  *)
(***************************************************************************)
EXTENDS QueryEngine

CONSTANTS Fields, Values, Updates,
          Timestamp,           \* the string $currentDate writes
          MaxNumber, MaxLen    \* the bounds of numbers and of arrays

\* An array takes no arrays; the operand of $rename is a name.
ASSUME UpdateAssumption ==
    /\ Values \subseteq JsonValues /\ Timestamp \in JsonValues
    /\ \A k \in Fields, a, b \in Values : {{Test(k, "$eq", a)}, {Test(k, "$eq", b)}} # None
    /\ \A u \in Updates : \A op \in DOMAIN u \ {"$rename"} :
          u[op].operand \in IF op \in {"$push", "$addToSet"} THEN Scalars ELSE JsonValues

VARIABLE doc

Put(d, key, v) == [k \in DOMAIN d \cup {key} |-> IF k = key THEN v ELSE d[k]]
Erase(d, key) == [k \in DOMAIN d \ {key} |-> d[k]]
IsA(type, d, key) == key \in DOMAIN d /\ d[key].type = type

ApplySet(d, key, v) == Put(d, key, v)

ApplyUnset(d, key) == Erase(d, key)

ApplyInc(d, key, v) ==
    IF v.type # "number" THEN d
    ELSE Put(d, key, IF IsA("number", d, key) THEN Number(d[key].value + v.value) ELSE v)

ApplyMul(d, key, v) ==
    IF v.type # "number" THEN d
    ELSE Put(d, key, IF IsA("number", d, key) THEN Number(d[key].value * v.value) ELSE Number(0))

ApplyMin(d, key, v) == IF key \notin DOMAIN d \/ JsonLess(v, d[key]) THEN Put(d, key, v) ELSE d

ApplyMax(d, key, v) == IF key \notin DOMAIN d \/ JsonLess(d[key], v) THEN Put(d, key, v) ELSE d

\* The operand is the new name, which is written before the old one is erased,
\* even when they are the same.
ApplyRename(d, key, newName) ==
    IF key \in DOMAIN d THEN Erase(Put(d, newName, d[key]), key) ELSE d

ApplyCurrentDate(d, key) == Put(d, key, Timestamp)

\* The array a value is added to, empty when there is no field.
WithArray(d, key) == IF key \in DOMAIN d THEN d ELSE Put(d, key, Array(<<>>))

ApplyPush(d, key, v) ==
    LET e == WithArray(d, key)
    IN IF IsA("array", e, key) THEN Put(e, key, Array(Append(e[key].value, v))) ELSE e

\* newArr: the elements of s that differ from v.
Without(s, v) ==
    LET upTo[i \in 0..Len(s)] ==
            IF i = 0 THEN <<>> ELSE IF s[i] # v THEN Append(upTo[i - 1], s[i]) ELSE upTo[i - 1]
    IN upTo[Len(s)]

ApplyPull(d, key, v) ==
    IF IsA("array", d, key) THEN Put(d, key, Array(Without(d[key].value, v))) ELSE d

\* Mutant: added although it is there.
ApplyAddAlways(d, key, v) ==
    LET e == WithArray(d, key)
    IN IF IsA("array", e, key) THEN Put(e, key, Array(Append(e[key].value, v))) ELSE e

ApplyAddToSet(d, key, v) ==
    LET e == WithArray(d, key)
    IN IF IsA("array", e, key) /\ ~ \E i \in 1..Len(e[key].value) : e[key].value[i] = v
       THEN Put(e, key, Array(Append(e[key].value, v)))
       ELSE e

ApplyPop(d, key, v) ==
    IF ~IsA("array", d, key) \/ d[key].value = <<>> \/ v.type # "number" THEN d
    ELSE LET s == d[key].value
         IN CASE v.value = 1 -> Put(d, key, Array(SubSeq(s, 1, Len(s) - 1)))
              [] v.value = -1 -> Put(d, key, Array(Tail(s)))
              [] OTHER -> d

ApplyOperator(d, op, key, v) ==
    CASE op = "$addToSet" -> ApplyAddToSet(d, key, v)
      [] op = "$currentDate" -> ApplyCurrentDate(d, key)
      [] op = "$inc" -> ApplyInc(d, key, v)
      [] op = "$max" -> ApplyMax(d, key, v)
      [] op = "$min" -> ApplyMin(d, key, v)
      [] op = "$mul" -> ApplyMul(d, key, v)
      [] op = "$pop" -> ApplyPop(d, key, v)
      [] op = "$pull" -> ApplyPull(d, key, v)
      [] op = "$push" -> ApplyPush(d, key, v)
      [] op = "$rename" -> ApplyRename(d, key, v)
      [] op = "$set" -> ApplySet(d, key, v)
      [] op = "$unset" -> ApplyUnset(d, key)
      [] OTHER -> d

Operators == <<"$addToSet", "$currentDate", "$inc", "$max", "$min", "$mul", "$pop", "$pull", "$push",
               "$rename", "$set", "$unset">>

\* Each operator of the runs' updates has one field: [op -> [key, operand]].
ApplyUpdate(d, update) ==
    LET after[i \in 0..Len(Operators)] ==
            IF i = 0 THEN d
            ELSE IF Operators[i] \in DOMAIN update
                 THEN ApplyOperator(after[i - 1], Operators[i], update[Operators[i]].key, update[Operators[i]].operand)
                 ELSE after[i - 1]
    IN after[Len(Operators)]

UpdateInit == doc = [k \in {} |-> Null]

IsBounded(d) ==
    \A k \in DOMAIN d : CASE d[k].type = "number" -> d[k].value \in -MaxNumber..MaxNumber
                         [] d[k].type = "array" -> Len(d[k].value) <= MaxLen
                         [] OTHER -> TRUE

Update(u) ==
    /\ IsBounded(ApplyUpdate(doc, u))
    /\ doc' = ApplyUpdate(doc, u)

-----------------------------------------------------------------------------
(* Properties.                                                             *)

\* compareValues, matchesOperator, matchesFilter: on a field that is there the
\* comparisons exclude each other and are transitive, across types by their
\* rank (query_engine.hpp:50), $in is an $or of equalities, $gte with $lte is
\* equality and $nin is the opposite of $in; on a missing field only
\* $exists: false matches.
QueryLaws ==
    \A k \in Fields : \A a, b \in Values :
        LET m(op, v) == Matches(doc, k, op, v)
            either == [fields |-> {}, and |-> {}, or |-> {{Test(k, "$eq", a)}, {Test(k, "$eq", b)}}]
            both == [fields |-> {}, and |-> {{Test(k, "$gte", a)}, {Test(k, "$lte", a)}}, or |-> None]
            absent == OnField([key |-> k, exists |-> FALSE, tests |-> {}])
        IN IF k \notin DOMAIN doc
           THEN /\ MatchesFilter(doc, absent)
                /\ \A op \in {"$eq", "$ne", "$gt", "$gte", "$lt", "$lte"} : ~m(op, a)
           ELSE /\ ~MatchesFilter(doc, absent)
                /\ Cardinality({op \in {"$eq", "$gt", "$lt"} : m(op, a)}) = 1
                /\ m("$eq", a) = MatchesFilter(doc, both)
                /\ m("$ne", a) = ~m("$eq", a)
                /\ m("$lte", a) /\ CompareValues(a, b) <= 0 => m("$lte", b)
                /\ a.type # "array" /\ b.type # "array" =>
                      /\ m("$in", Array(<<a, b>>)) = MatchesFilter(doc, either)
                      /\ m("$nin", Array(<<a, b>>)) = ~MatchesFilter(doc, either)

Repeatable == {"$addToSet", "$max", "$min", "$pull", "$set", "$unset"}

\* applyUpdate: an update made of these operators, each on a field of its own,
\* may be applied a second time, as a retry of a write whose answer was lost
\* does, and changes nothing.
RetryIsSafe ==
    \A u \in Updates :
        DOMAIN u \subseteq Repeatable /\ (\A op, other \in DOMAIN u : op # other => u[op].key # u[other].key) =>
        ApplyUpdate(ApplyUpdate(doc, u), u) = ApplyUpdate(doc, u)

\* Strings, arrays and objects come in opposite orders in the two engines.
SameOrder(a, b) == a.type = b.type \/ ~({a.type, b.type} \subseteq {"string", "array", "object"})

\* applyMin, applyMax against matchesFilter: after $min a query finds the field
\* at most the operand, and after $max at least, although the two engines order
\* values of different types each in its own way; except where a string, an
\* array and an object meet, of which $min keeps what a query finds greater.
MinMaxAgreeWithQueries ==
    \A k \in Fields, v \in Values :
        (k \in DOMAIN doc => SameOrder(doc[k], v)) =>
            /\ Matches(ApplyMin(doc, k, v), k, "$lte", v)
            /\ Matches(ApplyMax(doc, k, v), k, "$gte", v)
=============================================================================
