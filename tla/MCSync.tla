-------------------------------- MODULE MCSync --------------------------------
(***************************************************************************)
(* Small instances of the database and the synchronization engine for TLC. *)
(* The engine itself has no bound on the calls of forceSync, each of which *)
(* may raise the retry counts; here there is none once a count has reached *)
(* MaxRetryCount.                                                          *)
(***************************************************************************)
EXTENDS SyncProperties, TLC

CONSTANT MaxRetryCount  \* bound: no forceSync once a retry count is there

ASSUME BoundAssumption == MaxRetryCount \in Nat

CountsBounded == \A id \in DOMAIN queue : queue[id] < MaxRetryCount

BoundedNext == Proceed \/ \E r \in Runs : CountsBounded /\ ForceSync(r)

BoundedSpec == Init /\ [][BoundedNext]_vars

BoundedFairSpec == BoundedSpec /\ Fairness

\* Activations are interchangeable (safety runs only).
RunSymmetry == Permutations(Runs)
===============================================================================
