-------------------------------- MODULE MCRoster --------------------------------
(***************************************************************************)
(* A small instance of the roster for TLC.                                 *)
(***************************************************************************)
EXTENDS WorkerRoster, TLC

\* Names and scans are interchangeable.
RosterSymmetry == Permutations(Text) \cup Permutations(Scans)
===============================================================================
