------------------------- MODULE MCCaptureAndWatch --------------------------
(***************************************************************************)
(* Values for the constants of CaptureAndWatch.                            *)
(***************************************************************************)
EXTENDS CaptureAndWatch

CONSTANTS cloud, v1, v2

\* A host of the cloud: a flow to a local device is recorded in the same steps, and what it
\* changes besides is not for the watcher.
CloudEndpoint == {cloud}
TwoVerbs == {v1, v2}
AllBodies == Verbs \cup {NoVerb, NotObject, BadVerb}
=============================================================================
