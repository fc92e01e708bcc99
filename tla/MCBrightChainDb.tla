-------------------------- MODULE MCBrightChainDb --------------------------
EXTENDS BrightChainDb, TLC

CONSTANTS p1, p2, c1, c2, a, b, x

Doc(i, v) == [id |-> i, val |-> v]

OneWriter == {p1}
TwoProcs == {p1, p2}
OneColl == {c1}
TwoColls == {c1, c2}
TwoIds == {a, b}
OneId == {a}
TwoVals == {1, 2}
OneVal == {1}
OneIndex == {x}
Nothing == {}

\* Queries: everything, and the documents with value 1.
MCFilters == {Docs, {d \in Docs : d.val = 1}}
AllDocs == {Docs}

\* Updates: of the value; of the value or the `_id`, which may also be removed.
SetVal(v) == [d \in Docs |-> [d EXCEPT !.val = v]]
SetId(i) == [d \in Docs |-> [d EXCEPT !.id = i]]
SetVals == {SetVal(v) : v \in Vals}
SetAny == {SetVal(2), SetId(b), SetId(NoId)}

\* One document; two; an empty insertMany.
MCBatches == {<<Doc(a, 1)>>, <<Doc(b, 1), Doc(a, 2)>>, <<>>}

\* One document, and a batch that repeats an id.
RepeatingBatches == {<<Doc(a, 1)>>, <<Doc(b, 2), Doc(b, 1)>>}

\* One document of each id.
SingleBatches == {<<Doc(i, 1)>> : i \in Ids}

\* Processes are alike, and so are collections.
Alike == Permutations(TwoProcs) \cup Permutations(TwoColls)
=============================================================================
