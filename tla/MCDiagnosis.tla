---------------------------- MODULE MCDiagnosis -----------------------------
(***************************************************************************)
(* Values for the constants of Diagnosis.                                  *)
(***************************************************************************)
EXTENDS Diagnosis

CONSTANTS s1, s2

OneSerial == {s1}
TwoSerials == {s1, s2}
OneDevice == {<<s1>>}
TwoDevices == {<<s1, s2>>}

\* Everything, nothing, or all but the remaining capacity.
SomeBodies == {Fields, {}, Fields \ {"remaining"}}
WholeBodies == {Fields, {}}
=============================================================================
