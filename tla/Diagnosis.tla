------------------------------ MODULE Diagnosis ------------------------------
(***************************************************************************)
(* capacity_probe.py and diff_capture.py over the softeners of an account: *)
(* do the conclusions they print follow, in whatever order captures,       *)
(* writes, regenerations, midnights and the use of water come?             *)
(***************************************************************************)
EXTENDS DiffCapture, CapacityProbe

vars == <<softenerVars, diffVars, probe>>

Init == SoftenerInit /\ DiffInit /\ ProbeInit

\* The programs are run one after the other: what one prints replaces what was printed.
Next ==
  \/ SoftenerStep /\ UNCHANGED <<diffVars, probe>>
  \/ DiffStep /\ probe' = NoProbe
  \/ /\ before = NoFile
     /\ ProbeStep
     /\ diff' = NoFile
     /\ UNCHANGED <<files, before>>

Spec == Init /\ [][Next]_vars

-----------------------------------------------------------------------------
(***************************************************************************)
(* Safety.                                                                 *)
(***************************************************************************)

\* "If a regeneration has completed since the capture, the capacity figure the controller
\* uses did not change" (diff_capture.py:151): true unless the whole usable capacity was
\* drawn since that regeneration; and "POSITIVE -- the controller now has usable
\* capacity" (diff_capture.py:147) is a fact about the controller, not a datapoint.  Both are
\* about the device and the moment the second side of the comparison was read, live or from
\* a file, whatever the first side is of and whatever telemetry is missing; but not when a
\* write has landed on the remaining capacity since the last regeneration.
NumberDecides ==
  diff # NoFile /\ diff.device.source = "meter" =>
    LET d == diff.device IN
      /\ diff.says = "POSITIVE" => d.counts > Reserve
      /\ diff.says = "Still negative" /\ d.since < Capacity - Reserve => d.counts = 0

\* "Verify the arithmetic model, which is what makes this a measurement rather than an
\* inference" (capacity_probe.py:205): when the model is confirmed, the controller counts
\* from zero, however old the datapoint of the capacity is and wherever writes went, unless
\* about as much as the capacity was drawn or a write landed on the remaining capacity.
ConfirmedIsMeasured ==
  /\ probe # NoProbe /\ probe.model = "confirmed"
  /\ probe.device.source = "meter" /\ probe.device.since < Capacity - 5
  => probe.device.counts = 0

-----------------------------------------------------------------------------
(***************************************************************************)
(* What the programs say of themselves, and do not keep.                   *)
(***************************************************************************)

\* "confirm that nothing OTHER than the intended field moved" (diff_capture.py:6): when a live
\* report says that nothing moved, no write to the device of the capture went astray.
NothingMovedMeansNothing ==
  diff # NoFile /\ diff.live /\ diff.changed \cup diff.appeared \cup diff.vanished = {} =>
    diff.now = diff.then
=============================================================================
