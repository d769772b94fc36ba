--------------------------- MODULE MCCaptureAddon ---------------------------
(***************************************************************************)
(* Values for the constants of CaptureAddon.                               *)
(***************************************************************************)
EXTENDS CaptureAddon, TLC

CONSTANTS cloud, lan, body

\* A host of the cloud, kept by its name, and a device kept for its address only.
BothEndpoints == {cloud, lan}
CloudEndpoint == {cloud}
=============================================================================
