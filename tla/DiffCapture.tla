----------------------------- MODULE DiffCapture -----------------------------
(***************************************************************************)
(* diff_capture.py: compares a file saved by set_capacity.py with the live *)
(* device, or with another file.                                           *)
(***************************************************************************)
EXTENDS Softener, FiniteSets

CONSTANTS
  MaxFiles,  \* bound on the captures
  NoFile     \* diff_capture.py is not running, or has printed no report

VARIABLES
  files,  \* the captures set_capacity.py has saved; one that was cut off is a traceback
  before, \* the capture that was loaded
  diff    \* the report, with the state of the device its second side was read from

diffVars == <<files, before, diff>>

\* Noise, not signal.
EXPECTED_DRIFT == {"used", "remaining"}

DiffInit == files = {} /\ before = NoFile /\ diff = NoFile

\* set_capacity.py saves what it read from device s, which was something.
SaveBefore(s, body) ==
  /\ Cardinality(files) < MaxFiles
  /\ body # {}
  /\ files' = files \cup {[serial |-> s, values |-> Datapoints(s, body), device |-> device[s]]}
  /\ UNCHANGED <<before, diff, softenerVars>>

\* before = load(args.before)
Load(f) ==
  /\ before = NoFile
  /\ before' = f
  /\ diff' = NoFile
  /\ UNCHANGED <<files, softenerVars>>

\* The fields report() lists under "changed".
Changed(old, new) ==
  {f \in DOMAIN old \cap DOMAIN new : old[f] # new[f]} \ EXPECTED_DRIFT

\* A faulty Deciding: the reserve counts as usable.
DecidingReserve(new) ==
  IF "remaining" \notin DOMAIN new THEN "nothing"
  ELSE IF new["remaining"] + Reserve >= 0 THEN "POSITIVE" ELSE "Still negative"

\* "the number that decides it"
Deciding(new) ==
  IF "remaining" \notin DOMAIN new THEN "nothing"
  ELSE IF new["remaining"] > 0 THEN "POSITIVE" ELSE "Still negative"

\* report(before, after) where after, new here, are datapoints of device s in state d; then
\* and now are what the stray field of the captured device was then, and is now.
Report(new, s, d, live) ==
  /\ diff' = [changed |-> Changed(before.values, new),
              appeared |-> DOMAIN new \ DOMAIN before.values,
              vanished |-> DOMAIN before.values \ DOMAIN new,
              says |-> Deciding(new), serial |-> s, device |-> d, live |-> live,
              of |-> before.serial, then |-> before.device.stray,
              now |-> device[before.serial].stray]
  /\ before' = NoFile
  /\ UNCHANGED <<files, softenerVars>>

\* fetch_live(): the first device of the account, whatever the file is of, and what
\* datapoints there are in a body of status 200, which may be none.
CompareLive(body) ==
  /\ before # NoFile
  /\ account # <<>>
  /\ LET s == Head(account) IN
       Report(Datapoints(s, body), s, device[s], TRUE)

\* Login or telemetry fails, or there are no devices (the status of the registry is
\* not looked at).
CompareFails ==
  /\ before # NoFile
  /\ before' = NoFile
  /\ UNCHANGED <<files, diff, softenerVars>>

\* --against: the second capture may be of any device.
CompareFiles(g) ==
  /\ before # NoFile
  /\ Report(g.values, g.serial, g.device, FALSE)

DiffStep ==
  \/ \E s \in Serials, body \in Bodies : SaveBefore(s, body)
  \/ \E f \in files : Load(f) \/ CompareFiles(f)
  \/ \E body \in Bodies : CompareLive(body)
  \/ CompareFails
=============================================================================
