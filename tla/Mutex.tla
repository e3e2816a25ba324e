------------------------------- MODULE Mutex -------------------------------
(***************************************************************************)
(* What the run lock of the trading runner promises: a trading run may     *)
(* enter its critical section (the work between acquire_lock and           *)
(* release_lock) only while nobody is in it.  How the promise is kept over  *)
(* an object store is the business of RunLock.                             *)
(***************************************************************************)
CONSTANT Runs

VARIABLE inside   \* the runs that are in the critical section

Init == inside = {}

Enter(r) == inside = {} /\ inside' = {r}

\* A run leaves by releasing the lock or by being killed.
Leave(r) == r \in inside /\ inside' = inside \ {r}

Next == \E r \in Runs : Enter(r) \/ Leave(r)

Spec == Init /\ [][Next]_inside
=============================================================================
