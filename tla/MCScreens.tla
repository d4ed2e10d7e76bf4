------------------------------- MODULE MCScreens -------------------------------
(***************************************************************************)
(* Small instances of the screens over the engine for TLC.  The user       *)
(* presses the button of the manual sync no more once a retry count has    *)
(* reached MaxRetryCount.                                                  *)
(***************************************************************************)
EXTENDS SyncScreens, TLC

CONSTANT MaxRetryCount  \* bound: no manual sync once a retry count is there

ASSUME BoundAssumption == MaxRetryCount \in Nat

CountsBounded == \A id \in DOMAIN queue : queue[id] < MaxRetryCount

BoundedScreenNext ==
  ScreenProceed \/ \E v \in Visits : CountsBounded /\ ManualSync(v)

BoundedScreenSpec == ScreenInit /\ [][BoundedScreenNext]_allVars

BoundedFairScreenSpec == BoundedScreenSpec /\ ScreenFairness

\* Activations and visits are interchangeable (safety runs only).
ScreenSymmetry == Permutations(Runs) \cup Permutations(Visits)
===============================================================================
