--------------------------- MODULE StoreLockProofs ---------------------------
(***************************************************************************)
(* The lock file keeps writers apart, for every set of processes and every *)
(* number of retries and crashes, as long as no process recovers a file in *)
(* use; and up to there it implements the abstract lock.                   *)
(***************************************************************************)
EXTENDS StoreLock, TLAPS

\* The initial state, with no lock file, satisfies the invariant.
LEMMA LockInit == Init => LockInv
<1> SUFFICES ASSUME Init PROVE LockInv
  OBVIOUS
<1>1. TypeOK
  <2>1. tries \in [Procs -> 0..MaxRetries]
    BY LockAssumption DEF Init
  <2>2. crashes \in 0..MaxCrashes
    BY LockAssumption DEF Init
  <2>3. pc \in [Procs -> PCs] /\ lockFile \in BOOLEAN /\ rash \in BOOLEAN
    BY DEF Init, PCs
  <2> QED BY <2>1, <2>2, <2>3 DEF TypeOK
<1>2. \A p \in Procs : pc[p] = "idle"
  BY DEF Init
<1> QED
  BY <1>1, <1>2
  DEF LockInv, MutualExclusion, HolderHasFile, StaleIsOrphan, Holder, Recovering

\* Every step of every process preserves the invariant.
LEMMA LockStep ==
  ASSUME LockInv, [Next]_vars
  PROVE  LockInv'
<1> USE LockAssumption
    DEF LockInv, TypeOK, MutualExclusion, HolderHasFile, StaleIsOrphan,
        Holder, Recovering, PCs, Goto
<1>1. ASSUME NEW p \in Procs, StartAcquire(p) PROVE LockInv'
  BY <1>1 DEF StartAcquire
<1>2. ASSUME NEW p \in Procs, PollOk(p) PROVE LockInv'
  BY <1>2 DEF PollOk
<1>3. ASSUME NEW p \in Procs, PollFail(p) PROVE LockInv'
  <2>1. CASE tries[p] + 1 < MaxRetries /\ UNCHANGED <<pc, rash>>
    BY <1>3, <2>1 DEF PollFail
  <2>2. CASE tries[p] + 1 = MaxRetries /\ Goto(p, "stale") /\ rash' = (rash \/ ~Orphan)
    <3>a. rash' \in BOOLEAN
      BY <2>2, Zenon
    <3>1. TypeOK'
      BY <1>3, <2>2, <3>a DEF PollFail
    <3>2. CASE rash'
      BY <3>1, <3>2
    <3>3. CASE ~rash'
      BY <1>3, <2>2, <3>1, <3>3 DEF PollFail, Orphan
    <3> QED BY <3>2, <3>3
  <2> QED BY <1>3, <2>1, <2>2 DEF PollFail
<1>4. ASSUME NEW p \in Procs, ForceRemove(p) PROVE LockInv'
  BY <1>4 DEF ForceRemove
<1>5. ASSUME NEW p \in Procs, LastOpen(p) PROVE LockInv'
  <2>1. CASE lockFile
    BY <1>5, <2>1 DEF LastOpen
  <2>2. CASE ~lockFile
    BY <1>5, <2>2 DEF LastOpen
  <2> QED BY <2>1, <2>2
<1>6. ASSUME NEW p \in Procs, Release(p) PROVE LockInv'
  BY <1>6 DEF Release
<1>7. ASSUME NEW p \in Procs, Crash(p) PROVE LockInv'
  BY <1>7 DEF Crash
<1>8. ASSUME NEW p \in Procs, Restart(p) PROVE LockInv'
  BY <1>8 DEF Restart
<1>9. CASE UNCHANGED vars
  BY <1>9 DEF vars
<1> QED
  BY <1>1, <1>2, <1>3, <1>4, <1>5, <1>6, <1>7, <1>8, <1>9 DEF Next, Acquire

\* Every reachable state satisfies the type invariant and, unless a recovery
\* was begun on a file in use, mutual exclusion of Guard scopes and "a holder's
\* file exists" (StoreLock::acquire, release).
THEOREM LockSafe == Spec => []LockInv
<1>1. LockInv /\ [Next]_vars => LockInv'
  BY LockStep
<1> QED BY <1>1, LockInit, PTL DEF Spec

\* In a state with one holder at most, Owner names it.
LEMMA OwnerIsHolder ==
  ASSUME ~rash, MutualExclusion, NEW p \in Procs, Holder(p)
  PROVE  Owner = p
  BY DEF MutualExclusion, Owner

\* In a state with no holder, or after a rash recovery, Owner is None.
LEMMA NoOwner ==
  ASSUME rash \/ \A q \in Procs : ~Holder(q)
  PROVE  Owner = None
  BY DEF Owner

\* The refinement step: each step of the lock-file protocol is a step of
\* the abstract lock or leaves its owner alone.
LEMMA RefineStep ==
  ASSUME LockInv, LockInv', [Next]_vars
  PROVE  [Abstract!Next]_Owner
<1> USE LockAssumption DEF LockInv, TypeOK, HolderHasFile, StaleIsOrphan, PCs
<1> DEFINE SameHolders == rash' = rash /\ \A q \in Procs : Holder(q)' <=> Holder(q)
<1>0. CASE rash
  <2>1. rash'
    BY <1>0 DEF Next, Acquire, vars, StartAcquire, PollOk, PollFail, ForceRemove,
                LastOpen, Release, Crash, Restart
  <2> QED BY <1>0, <2>1 DEF Owner
<1> SUFFICES ASSUME ~rash PROVE [Abstract!Next]_Owner
  BY <1>0
<1>1. ASSUME SameHolders PROVE Owner' = Owner
  BY <1>1 DEF Owner
<1>2. ASSUME NEW p \in Procs, ~rash', \A q \in Procs : ~Holder(q), Holder(p)'
      PROVE  Abstract!Take(p)
  <2>1. Owner = None
    BY <1>2, NoOwner
  <2>2. Owner' = p
    BY <1>2, OwnerIsHolder DEF MutualExclusion, Owner
  <2> QED BY <2>1, <2>2 DEF Abstract!Take
<1>3. ASSUME NEW p \in Procs, Holder(p), rash' \/ \A q \in Procs : ~Holder(q)'
      PROVE  Abstract!Yield(p)
  <2>1. Owner = p
    BY <1>3, OwnerIsHolder
  <2>2. Owner' = None
    BY <1>3 DEF Owner
  <2> QED BY <2>1, <2>2 DEF Abstract!Yield
<1>4. ASSUME NEW p \in Procs, StartAcquire(p) PROVE SameHolders
  BY <1>4 DEF StartAcquire, Goto, Holder
<1>5. ASSUME NEW p \in Procs, PollOk(p) PROVE Abstract!Take(p)
  <2>1. ~rash' /\ \A q \in Procs : ~Holder(q)
    BY <1>5 DEF PollOk
  <2>2. Holder(p)'
    BY <1>5 DEF PollOk, Goto, Holder
  <2> QED BY <1>2, <2>1, <2>2
<1>6. ASSUME NEW p \in Procs, PollFail(p)
      PROVE  SameHolders \/ Owner' = Owner \/ \E q \in Procs : Abstract!Yield(q)
  <2>1. \A q \in Procs : Holder(q)' <=> Holder(q)
    BY <1>6 DEF PollFail, Goto, Holder
  <2>2. CASE ~rash'
    BY <2>1, <2>2
  <2>3. CASE rash' /\ \E q \in Procs : Holder(q)
    BY <1>3, <2>3
  <2>4. CASE rash' /\ \A q \in Procs : ~Holder(q)
    BY <2>4 DEF Owner
  <2> QED BY <2>2, <2>3, <2>4
<1>7. ASSUME NEW p \in Procs, ForceRemove(p) PROVE SameHolders
  BY <1>7 DEF ForceRemove, Goto, Holder
<1>8. ASSUME NEW p \in Procs, LastOpen(p) PROVE SameHolders \/ Abstract!Take(p)
  <2>1. CASE lockFile
    BY <1>8, <2>1 DEF LastOpen, Goto, Holder
  <2>2. CASE ~lockFile
    <3>1. ~rash' /\ \A q \in Procs : ~Holder(q)
      BY <1>8, <2>2 DEF LastOpen
    <3>2. Holder(p)'
      BY <1>8, <2>2 DEF LastOpen, Goto, Holder
    <3> QED BY <1>2, <3>1, <3>2
  <2> QED BY <2>1, <2>2
<1>9. ASSUME NEW p \in Procs, Release(p) PROVE Abstract!Yield(p)
  <2>1. Holder(p) /\ \A q \in Procs : ~Holder(q)'
    BY <1>9 DEF Release, Goto, Holder, MutualExclusion
  <2> QED BY <1>3, <2>1
<1>10. ASSUME NEW p \in Procs, Crash(p) PROVE SameHolders \/ Abstract!Yield(p)
  <2>1. CASE Holder(p)
    <3>1. \A q \in Procs : ~Holder(q)'
      BY <1>10, <2>1 DEF Crash, Goto, Holder, MutualExclusion
    <3> QED BY <1>3, <2>1, <3>1
  <2>2. CASE ~Holder(p)
    BY <1>10, <2>2 DEF Crash, Goto, Holder
  <2> QED BY <2>1, <2>2
<1>11. ASSUME NEW p \in Procs, Restart(p) PROVE SameHolders
  BY <1>11 DEF Restart, Goto, Holder
<1>12. ASSUME UNCHANGED vars PROVE SameHolders
  BY <1>12 DEF vars, Holder
<1> QED
  BY <1>1, <1>4, <1>5, <1>6, <1>7, <1>8, <1>9, <1>10, <1>11, <1>12
  DEF Next, Acquire, Abstract!Next

\* The lock file implements the abstract lock: acquire, stale-lock recovery
\* and release never give the lock to a second process while one holds it,
\* as long as no file in use is recovered.
THEOREM LockRefinement == Spec => AbstractSpec
<1>1. Init => Abstract!Init
  BY NoOwner DEF Init, Holder, Abstract!Init
<1>2. LockInv /\ LockInv' /\ [Next]_vars => [Abstract!Next]_Owner
  BY RefineStep
<1>3. Spec => []LockInv
  BY LockSafe
<1> QED BY <1>1, <1>2, <1>3, PTL DEF Spec, AbstractSpec, Abstract!Spec
=============================================================================
