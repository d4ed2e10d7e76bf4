-------------------------------- MODULE MCArrays --------------------------------
(***************************************************************************)
(* Small instances of the arrays for TLC.                                  *)
(***************************************************************************)
EXTENDS ArraysProperties

\* Filter, which is stated by what it keeps, is what SelectSeq computes.
ASSUME FilterIsSelectSeq ==
  \A length \in 0 .. 4 : \A array \in [1 .. length -> {"a", "b", "c"}] :
    \A passes \in SUBSET {"a", "b", "c"} :
      Filter(array, {i \in DOMAIN array : array[i] \in passes}) =
        SelectSeq(array, LAMBDA item : item \in passes)
===============================================================================
