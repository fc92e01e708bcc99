----------------------------- MODULE StoreLock -----------------------------
(***************************************************************************)
(* The lock file that serializes the writers of one block store            *)
(* (store_lock.cpp).  A process takes the lock by creating the file with   *)
(* O_CREAT | O_EXCL, polls while the file exists, and after MaxRetries     *)
(* failed polls takes the file for the leftover of a crashed process:      *)
(* it removes it and tries once more.  Release removes the file by name.   *)
(*                                                                         *)
(* The file carries no owner, so removing it is only right when nobody     *)
(* holds it (no operation under the lock outlasted the waiter's timeout)   *)
(* and nobody else is about to remove it too.  The code checks neither;    *)
(* rash remembers whether it ever went wrong.                              *)
(***************************************************************************)
EXTENDS Naturals

CONSTANTS Procs,       \* processes (database handles) on one store
          None,        \* "no process"
          MaxRetries,  \* maxRetries_, 250 in the code
          MaxCrashes   \* bound on the crashes of a behaviour

ASSUME LockAssumption ==
    /\ MaxRetries \in Nat \ {0}
    /\ MaxCrashes \in Nat
    /\ None \notin Procs

VARIABLES lockFile,    \* the lock file exists
          pc,          \* where each process is in acquire/release
          tries,       \* failed polls of the acquire in progress
          crashes,     \* crashes so far
          rash         \* a recovery was begun on a file in use

vars == <<lockFile, pc, tries, crashes, rash>>

\* "held" is held_ = true; "stale" is past the retry loop and about to
\* remove the file, "retry" about to make the one further attempt.
PCs == {"idle", "try", "stale", "retry", "held", "down"}

Init ==
    /\ lockFile = FALSE
    /\ pc = [p \in Procs |-> "idle"]
    /\ tries = [p \in Procs |-> 0]
    /\ crashes = 0
    /\ rash = FALSE

Goto(p, l) == pc' = [pc EXCEPT ![p] = l]

Holder(p) == pc[p] = "held"
Recovering(p) == pc[p] \in {"stale", "retry"}

\* Guard::Guard calls acquire() when a write operation begins.
StartAcquire(p) ==
    /\ pc[p] = "idle"
    /\ Goto(p, "try")
    /\ tries' = [tries EXCEPT ![p] = 0]
    /\ UNCHANGED <<lockFile, crashes, rash>>

\* Mutant: the file is opened without O_EXCL.
PollOkNoExcl(p) ==
    /\ pc[p] = "try"
    /\ lockFile' = TRUE
    /\ Goto(p, "held")
    /\ UNCHANGED <<tries, crashes, rash>>

\* open(O_CREAT | O_EXCL) succeeds inside the retry loop.
PollOk(p) ==
    /\ pc[p] = "try"
    /\ ~lockFile
    /\ lockFile' = TRUE
    /\ Goto(p, "held")
    /\ UNCHANGED <<tries, crashes, rash>>

\* The file a last poll meets is a crashed process's, and nobody else's to
\* recover.
Orphan == \A q \in Procs : ~Holder(q) /\ ~Recovering(q)

\* Mutant: the retry loop never ends.
PollFailForever(p) ==
    /\ pc[p] = "try"
    /\ lockFile
    /\ tries' = [tries EXCEPT ![p] = IF @ + 1 < MaxRetries THEN @ + 1 ELSE @]
    /\ UNCHANGED <<lockFile, pc, crashes, rash>>

\* open fails because the file exists; the MaxRetries-th failure leaves
\* the loop for the stale-lock recovery.
PollFail(p) ==
    /\ pc[p] = "try"
    /\ lockFile
    /\ tries' = [tries EXCEPT ![p] = @ + 1]
    /\ \/ tries[p] + 1 < MaxRetries /\ UNCHANGED <<pc, rash>>
       \/ tries[p] + 1 = MaxRetries /\ Goto(p, "stale") /\ rash' = (rash \/ ~Orphan)
    /\ UNCHANGED <<lockFile, crashes>>

\* Mutant: recovery makes its last attempt without removing the file.
ForceRemoveForgotten(p) ==
    /\ pc[p] = "stale"
    /\ Goto(p, "retry")
    /\ UNCHANGED <<lockFile, tries, crashes, rash>>

\* Stale lock recovery, first half: std::filesystem::remove(lockPath_),
\* whoever created the file.
ForceRemove(p) ==
    /\ pc[p] = "stale"
    /\ lockFile' = FALSE
    /\ Goto(p, "retry")
    /\ UNCHANGED <<tries, crashes, rash>>

\* Mutant: the last attempt succeeds whether or not the file exists.
LastOpenNoExcl(p) ==
    /\ pc[p] = "retry"
    /\ lockFile' = TRUE
    /\ Goto(p, "held")
    /\ UNCHANGED <<tries, crashes, rash>>

\* Second half: one more open; if another process got in between, acquire
\* throws RegistryError and the operation fails.
LastOpen(p) ==
    /\ pc[p] = "retry"
    /\ IF lockFile THEN Goto(p, "idle") ELSE Goto(p, "held")
    /\ lockFile' = TRUE
    /\ UNCHANGED <<tries, crashes, rash>>

\* ~Guard calls release() on every exit path of the operation.
Release(p) ==
    /\ pc[p] = "held"
    /\ lockFile' = FALSE
    /\ Goto(p, "idle")
    /\ UNCHANGED <<tries, crashes, rash>>

\* The process dies; a lock file it created stays behind.
Crash(p) ==
    /\ pc[p] # "down"
    /\ crashes < MaxCrashes
    /\ crashes' = crashes + 1
    /\ Goto(p, "down")
    /\ UNCHANGED <<lockFile, tries, rash>>

Restart(p) ==
    /\ pc[p] = "down"
    /\ Goto(p, "idle")
    /\ UNCHANGED <<lockFile, tries, crashes, rash>>

Acquire(p) == PollOk(p) \/ PollFail(p) \/ ForceRemove(p) \/ LastOpen(p)

Next == \E p \in Procs :
    StartAcquire(p) \/ Acquire(p) \/ Release(p) \/ Crash(p) \/ Restart(p)

Spec == Init /\ [][Next]_vars

\* acquire() is a bounded loop in a running thread, and the RAII guard
\* releases on every exit path: both take their steps.  Nothing obliges a
\* process to begin an operation, to crash or to be restarted.
FairSpec == Spec /\ \A p \in Procs : WF_vars(Acquire(p)) /\ WF_vars(Release(p))

-----------------------------------------------------------------------------
TypeOK ==
    /\ lockFile \in BOOLEAN
    /\ pc \in [Procs -> PCs]
    /\ tries \in [Procs -> 0..MaxRetries]
    /\ crashes \in 0..MaxCrashes
    /\ rash \in BOOLEAN

\* The lock serializes write operations across processes: no two processes
\* are inside Guard scopes at once, through crashes, stale-lock recovery
\* and restarts (StoreLock::acquire/release).
MutualExclusion ==
    \A p, q \in Procs : Holder(p) /\ Holder(q) => p = q

\* A holder's lock file is there as long as it holds: no recovery by
\* another process and no release by another process removes it.
HolderHasFile == \A p \in Procs : Holder(p) => lockFile

\* The strengthening that makes the two inductive: a process about to
\* remove the file has met a file nobody holds, and is alone in doing so.
StaleIsOrphan ==
    /\ \A p \in Procs : pc[p] = "stale" => lockFile /\ \A q \in Procs : ~Holder(q)
    /\ \A p, q \in Procs : Recovering(p) /\ Recovering(q) => p = q

\* As long as every recovery was of a file left by a crash, and one at a time,
\* all three hold; crashes alone never break them.
LockInv == TypeOK /\ (~rash => MutualExclusion /\ HolderHasFile /\ StaleIsOrphan)

\* acquire() never blocks for good: the retry loop is bounded, so a waiter
\* gets the lock, fails with RegistryError, or dies.
AcquireTerminates ==
    \A p \in Procs : (pc[p] = "try") ~> (pc[p] \in {"held", "idle", "down"})

\* A lock file left behind by a crashed process does not stop the others
\* for good: a live waiter clears it.
Orphaned == lockFile /\ \A q \in Procs : ~Holder(q)
OrphanIsCleared ==
    \A p \in Procs : (Orphaned /\ pc[p] = "try") ~> (~Orphaned \/ pc[p] = "down")

\* The lock file implements the abstract lock, up to the first recovery of a
\* file in use; from there on the mapping has no owner.
Owner == IF ~rash /\ \E p \in Procs : Holder(p) THEN CHOOSE p \in Procs : Holder(p) ELSE None
Abstract == INSTANCE AbstractLock WITH owner <- Owner
AbstractSpec == Abstract!Spec
=============================================================================
