--------------------------- MODULE MCCommandTools ---------------------------
(***************************************************************************)
(* Values for the constants of CommandTools.                               *)
(***************************************************************************)
EXTENDS CommandTools, TLC

CONSTANTS s1, s2

TwoSerials == {s1, s2}
SerialSymmetry == Permutations(Serials)

\* One verb of each kind: with a default and no risk, with both, with a risk and no default.
SomeCommands ==
  [v \in {"telemetry.get", "regen.set", "timeDate.set"} |->
     [default |-> v # "timeDate.set", risk |-> v # "telemetry.get"]]
=============================================================================
