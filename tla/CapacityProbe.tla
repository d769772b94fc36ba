---------------------------- MODULE CapacityProbe ----------------------------
(***************************************************************************)
(* capacity_probe.py: reads the first device of the account once, and says *)
(* whether it has any working capacity.                                    *)
(***************************************************************************)
EXTENDS Softener

CONSTANT NoProbe  \* no verdict yet

VARIABLE probe    \* the verdict, with the state of the device it is about

ProbeInit == probe = NoProbe

Distance(a, b) == IF a < b THEN b - a ELSE a - b

\* predicted = working - reserve - used, less what the device says remains
Drift(dp) == dp["working"] - dp["reserve"] - dp["used"] - dp["remaining"]

\* What the model check is made of.
Checked(dp) == {"reserve", "remaining", "used"} \subseteq DOMAIN dp

\* A faulty ModelCheck: the difference has a sign.
ModelCheckSigned(dp) ==
  IF ~ Checked(dp) THEN "unchecked" ELSE IF Drift(dp) <= 5 THEN "confirmed" ELSE "differs"

\* "Model check: capacity_remaining = ... - reserve - used", within 5 gallons.
ModelCheck(dp) ==
  IF ~ Checked(dp) THEN "unchecked"
  ELSE IF Distance(Drift(dp), 0) <= 5 THEN "confirmed" ELSE "differs"

\* verdict(dp): the model is checked only when there is no capacity.
Verdict(dp) ==
  IF "working" \notin DOMAIN dp THEN [capacity |-> "ABSENT", model |-> "unchecked"]
  ELSE IF dp["working"] > 0 THEN [capacity |-> "IS configured", model |-> "unchecked"]
  ELSE [capacity |-> "NO working capacity", model |-> ModelCheck(dp)]

\* main(): login, first_serial, datapoints, verdict; the body may lack datapoints.  A call
\* that fails is an error message.
Probe(body) ==
  /\ account # <<>>
  /\ LET s == Head(account)
         v == Verdict(Datapoints(s, body)) IN
       probe' = [capacity |-> v.capacity, model |-> v.model, serial |-> s, device |-> device[s]]
  /\ UNCHANGED softenerVars

ProbeStep == \E body \in Bodies : Probe(body)
=============================================================================
