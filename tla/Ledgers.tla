------------------------------- MODULE Ledgers -------------------------------
(***************************************************************************)
(* The three ledgers of an election side by side.  They share the          *)
(* authority that signs and nothing else: the program that runs the        *)
(* election calls each of them.                                            *)
(***************************************************************************)
EXTENDS EventLogger

CONSTANT MaxCalls   \* bound on the calls that record something

ASSUME LedgersAssumption == MaxCalls \in Nat

VARIABLE calls

vars == <<auditVars, boardVars, eventVars, calls>>

Init == AuditInit /\ BoardInit /\ EventInit /\ calls = 0

Next ==
    /\ calls < MaxCalls
    /\ calls' = calls + 1
    /\ \/ AuditNext /\ UNCHANGED <<boardVars, eventVars>>
       \/ BoardNext /\ UNCHANGED <<auditVars, eventVars>>
       \/ EventNext /\ UNCHANGED <<auditVars, boardVars>>

Spec == Init /\ [][Next]_vars

-----------------------------------------------------------------------------
(* Properties.                                                             *)

\* appendEntry, publishVote, publishTally: whatever was recorded verifies,
\* also after signatures have failed (see AuditVerifies and BoardVerifies).
RecordsVerify == AuditVerifies /\ BoardVerifies

\* verifyChain, verifyEntry, verifyMerkleTree: what was changed, moved, left
\* out or repeated does not (see AuditTamperEvident and BoardTamperEvident).
TamperEvident == AuditTamperEvident /\ BoardTamperEvident
=============================================================================
