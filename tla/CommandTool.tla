----------------------------- MODULE CommandTool -----------------------------
(***************************************************************************)
(* What each of the tools that can write to a device promises: nothing is  *)
(* sent without --apply, nothing is sent twice, and the device is the one  *)
(* the user named, or else the only one on the account.                    *)
(***************************************************************************)
CONSTANTS
  Jobs,      \* the runs of the tools
  Serials,   \* devices
  NoSerial   \* no --serial argument

VARIABLES
  order,     \* what the user of each run wants; {} when it is not under way
  posted,    \* the commands that were sent, with the run that sent them
  registry   \* the devices on the account

vars == <<order, posted, registry>>

Order == [apply : BOOLEAN, serial : Serials \cup {NoSerial}]

Init ==
  /\ order = [j \in Jobs |-> {}]
  /\ posted = {}
  /\ registry \in SUBSET Serials

\* The user starts a run.
Start(j, o) ==
  /\ order[j] = {}
  /\ order' = [order EXCEPT ![j] = {o}]
  /\ UNCHANGED <<posted, registry>>

\* The run sends its command to device s, which ends it or does not.
Post(j, s) ==
  /\ \E o \in order[j] :
       /\ o.apply
       /\ o.serial = s \/ (o.serial = NoSerial /\ registry = {s})
  /\ \A p \in posted : p.job # j
  /\ posted' = posted \cup {[job |-> j, serial |-> s]}
  /\ order' \in {order, [order EXCEPT ![j] = {}]}
  /\ UNCHANGED registry

\* The run ends.
Finish(j) ==
  /\ order' = [order EXCEPT ![j] = {}]
  /\ UNCHANGED <<posted, registry>>

Next ==
  \E j \in Jobs :
    \/ \E o \in Order : Start(j, o)
    \/ \E s \in Serials : Post(j, s)
    \/ Finish(j)

Spec == Init /\ [][Next]_vars
=============================================================================
