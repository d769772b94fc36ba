--------------------------- MODULE MCSetCapacity ----------------------------
(***************************************************************************)
(* Values for the constants of SetCapacity.                                *)
(***************************************************************************)
EXTENDS SetCapacity, TLC

CONSTANTS s1, s2, t1, t2

TwoSerials == {s1, s2}
TwoStamps == {t1, t2}

\* Devices and stamps play the same part in every definition of SetCapacity.
RunSymmetry == Permutations(Serials) \cup Permutations(Stamps)
=============================================================================
