----------------------------- MODULE QueryEngine -----------------------------
(***************************************************************************)
(* Queries on documents (query_engine.cpp).  A JSON value is a record of   *)
(* its type and its content; a string or an object is represented by a     *)
(* number that orders it among its like, an array holds anything else.  A  *)
(* document is a function from field names; dotted paths into objects are  *)
(* left out.                                                               *)
(***************************************************************************)
EXTENDS Integers, Sequences, FiniteSets

CONSTANT None   \* no $exists, no $or

ASSUME QueryAssumption == None \notin BOOLEAN

Null == [type |-> "null", value |-> 0]
Bool(b) == [type |-> "boolean", value |-> IF b THEN 1 ELSE 0]
Number(k) == [type |-> "number", value |-> k]
String(k) == [type |-> "string", value |-> k]
Object(k) == [type |-> "object", value |-> k]
Array(s) == [type |-> "array", value |-> s]

\* What is not an array.
Scalars == [type : {"null", "boolean", "number", "string", "object"}, value : Int]
JsonValues == Scalars \cup [type : {"array"}, value : Seq(Scalars)]

TypeRank(v) == CASE v.type = "null" -> 0 [] v.type = "boolean" -> 1 [] v.type = "number" -> 2
                 [] v.type = "string" -> 3 [] v.type = "array" -> 4 [] v.type = "object" -> 5

\* The order of nlohmann::json: an object before an array, a string after it.
JsonRank(v) == CASE v.type = "null" -> 0 [] v.type = "boolean" -> 1 [] v.type = "number" -> 2
                 [] v.type = "object" -> 3 [] v.type = "array" -> 4 [] v.type = "string" -> 5

ScalarLess(a, b) == JsonRank(a) < JsonRank(b) \/ (a.type = b.type /\ a.value < b.value)

\* operator< of nlohmann::json, lexicographic on arrays.
JsonLess(a, b) ==
    IF a.type = "array" /\ b.type = "array"
    THEN \E k \in 0..Len(a.value) :
            /\ k <= Len(b.value) /\ \A i \in 1..k : a.value[i] = b.value[i]
            /\ IF k = Len(a.value) THEN k < Len(b.value)
               ELSE k < Len(b.value) /\ ScalarLess(a.value[k + 1], b.value[k + 1])
    ELSE ScalarLess(a, b)

\* Mutant: values of different types count as equal.
CompareWithinTypes(a, b) ==
    IF TypeRank(a) # TypeRank(b) \/ a = b THEN 0 ELSE IF JsonLess(a, b) THEN -1 ELSE 1

CompareValues(a, b) ==
    IF TypeRank(a) # TypeRank(b) THEN TypeRank(a) - TypeRank(b)
    ELSE IF a = b THEN 0 ELSE IF JsonLess(a, b) THEN -1 ELSE 1

\* An exact match is written as the operator $eq.
MatchesOperator(v, op, operand) ==
    CASE op = "$eq" -> CompareValues(v, operand) = 0
      [] op = "$ne" -> CompareValues(v, operand) # 0
      [] op = "$gt" -> CompareValues(v, operand) > 0
      [] op = "$gte" -> CompareValues(v, operand) >= 0
      [] op = "$lt" -> CompareValues(v, operand) < 0
      [] op = "$lte" -> CompareValues(v, operand) <= 0
      [] op = "$in" -> operand.type = "array" /\ \E i \in 1..Len(operand.value) : CompareValues(v, operand.value[i]) = 0
      [] op = "$nin" -> operand.type = "array" => \A i \in 1..Len(operand.value) : CompareValues(v, operand.value[i]) # 0
      [] OTHER -> FALSE

\* One field of a filter: [key, exists, tests], tests a set of operators and
\* operands.  A field that is not there fails every test but $exists.
MatchesField(doc, clause) ==
    LET present == clause.key \in DOMAIN doc
        passes == \A t \in clause.tests : MatchesOperator(doc[clause.key], t.op, t.operand)
    IN IF clause.exists = None THEN present /\ passes
       ELSE present = clause.exists /\ (present => passes)

MatchesFields(doc, clauses) == \A clause \in clauses : MatchesField(doc, clause)

\* A filter: fields, the sets of fields under $and, and those under $or.
MatchesFilter(doc, filter) ==
    /\ MatchesFields(doc, filter.fields)
    /\ \A sub \in filter.and : MatchesFields(doc, sub)
    /\ filter.or # None => \E sub \in filter.or : MatchesFields(doc, sub)

-----------------------------------------------------------------------------
Test(key, op, operand) == [key |-> key, exists |-> None, tests |-> {[op |-> op, operand |-> operand]}]
OnField(clause) == [fields |-> {clause}, and |-> {}, or |-> None]
Matches(doc, key, op, operand) == MatchesFilter(doc, OnField(Test(key, op, operand)))
=============================================================================
