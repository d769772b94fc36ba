---------------------------- MODULE MCProbeCert -----------------------------
(***************************************************************************)
(* Values for the constants of ProbeCert.                                  *)
(***************************************************************************)
EXTENDS ProbeCert, TLC

CONSTANTS h1, h2

TwoHosts == {h1, h2}
HostSymmetry == Permutations(Hosts)
=============================================================================
