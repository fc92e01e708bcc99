---------------------------- MODULE AbstractLock ----------------------------
(***************************************************************************)
(* What the store-level lock promises to its users: at most one process    *)
(* at a time is inside a read-modify-write cycle.  A crash of the owner    *)
(* ends its ownership; nothing else takes the lock away from it.           *)
(***************************************************************************)
CONSTANTS Procs, None

VARIABLE owner

Init == owner = None

Take(p) == owner = None /\ owner' = p

\* Release, or the crash of the owner.
Yield(p) == owner = p /\ owner' = None

Next == \E p \in Procs : Take(p) \/ Yield(p)

Spec == Init /\ [][Next]_owner
=============================================================================
