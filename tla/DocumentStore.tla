--------------------------- MODULE DocumentStore ---------------------------
(***************************************************************************)
(* What the database promises its users: each write operation takes one    *)
(* collection from its committed contents to the contents the operation    *)
(* produces from THEM, in one step, and touches no other collection.       *)
(***************************************************************************)
CONSTANTS Colls, Ids, NoDoc, IndexNames, Filters, Batches, Updates

VARIABLES docs,      \* committed documents of each collection: key -> document
          indexes    \* names of the indexes of each collection

Present(c) == {i \in Ids : docs[c][i] # NoDoc}
Matches(c, f) == {i \in Present(c) : docs[c][i] \in f}

Empty == [i \in Ids |-> NoDoc]

Init ==
    /\ docs = [c \in Colls |-> Empty]
    /\ indexes = [c \in Colls |-> {}]

Becomes(c, contents) == docs' = [docs EXCEPT ![c] = contents]

\* Exactly the documents of one batch are added, all with new ids.
Insert(c) == \E b \in Batches :
    /\ \A k \in DOMAIN b : b[k].id \notin Present(c)
    /\ \A j, k \in DOMAIN b : b[j].id = b[k].id => j = k
    /\ Becomes(c, [i \in Ids |-> IF \E k \in DOMAIN b : b[k].id = i
                                 THEN CHOOSE d \in {b[k] : k \in DOMAIN b} : d.id = i
                                 ELSE docs[c][i]])
    /\ UNCHANGED indexes

\* All documents that match, or one of them.
Chosen(c, S) == \E f \in Filters :
    S \subseteq Matches(c, f) /\ (S = Matches(c, f) \/ \E i \in Ids : S = {i})

Update(c) == \E S \in SUBSET Ids, u \in Updates :
    /\ Chosen(c, S)
    /\ Becomes(c, [i \in Ids |-> IF i \in S THEN u[docs[c][i]] ELSE docs[c][i]])
    /\ UNCHANGED indexes

Delete(c) == \E S \in SUBSET Ids :
    /\ Chosen(c, S)
    /\ Becomes(c, [i \in Ids |-> IF i \in S THEN NoDoc ELSE docs[c][i]])
    /\ UNCHANGED indexes

SetIndexes(c) == \E n \in IndexNames :
    /\ \/ indexes' = [indexes EXCEPT ![c] = @ \cup {n}]
       \/ indexes' = [indexes EXCEPT ![c] = @ \ {n}]
    /\ UNCHANGED docs

Drop(c) ==
    /\ Becomes(c, Empty)
    /\ indexes' = [indexes EXCEPT ![c] = {}]

Next == \E c \in Colls :
    Insert(c) \/ Update(c) \/ Delete(c) \/ SetIndexes(c) \/ Drop(c)

Spec == Init /\ [][Next]_<<docs, indexes>>
=============================================================================
