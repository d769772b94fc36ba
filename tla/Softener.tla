------------------------------ MODULE Softener -------------------------------
(***************************************************************************)
(* The water softeners on an account, as capacity_probe.py and             *)
(* diff_capture.py read them.  The devices are not in the repository; they *)
(* are modelled from the arithmetic in capacity_probe.py:19-30 and the     *)
(* remarks in diff_capture.py:4-14: a regeneration sets the remaining      *)
(* capacity to what the controller works with, less the reserve, and a     *)
(* write may reach the controller, only the datapoint, or another field,   *)
(* also one of those that move on their own.                               *)
(***************************************************************************)
EXTENDS Integers, Sequences

CONSTANTS
  Serials,   \* devices
  Accounts,  \* lists of devices as the registry may give them
  Capacity,  \* the capacity that is written, in gallons
  Reserve,   \* reserve_capacity_volume
  Draws,     \* how much water may be used at a time
  MaxEvents, \* bound on what happens to each device
  Bodies     \* which datapoints there may be in an answer

\* The datapoints; every other field of a device is not reported.
Fields == {"working", "reserve", "remaining", "used", "stray"}

ASSUME SoftenerAssumption ==
  /\ Accounts \subseteq Seq(Serials)
  /\ {Capacity, Reserve, MaxEvents} \subseteq Nat
  /\ Draws \subseteq Nat
  /\ Bodies \subseteq SUBSET Fields

VARIABLES
  account,   \* the registry's list of devices
  device     \* each device

softenerVars == <<account, device>>

\* capacity is what the controller works with and counts what it was at the last
\* regeneration; since is the water used since then.  The other fields are datapoints:
\* working is total_capacity_volume_tank_1, used total_water_usage_today_tank_1, and stray
\* one that a write may reach by mistake.  source tells where remaining comes from: what the
\* controller counts, or a write that went there.
Device ==
  [capacity : {0, Capacity}, counts : {0, Capacity}, since : Nat,
   working : {0, Capacity}, reserve : {Reserve}, remaining : Int, used : Nat, stray : 0 .. 1,
   source : {"meter", "write"}, events : 0 .. MaxEvents]

\* The datapoints of device s in a body of GET /api/v1/device/data, which may lack some.
Datapoints(s, body) == [f \in body |-> device[s][f]]

SoftenerInit ==
  /\ account \in Accounts
  /\ \E c \in [Serials -> {0, Capacity}] :
       device = [s \in Serials |->
                   [capacity |-> c[s], counts |-> c[s], since |-> 0, working |-> c[s],
                    reserve |-> Reserve, remaining |-> c[s] - Reserve, used |-> 0, stray |-> 0,
                    source |-> "meter", events |-> 0]]

\* The fields of device s that something changes.
Event(s, fields) ==
  /\ device[s].events < MaxEvents
  /\ device' = [device EXCEPT ![s] =
                  [f \in DOMAIN @ |-> IF f \in DOMAIN fields THEN fields[f]
                                      ELSE IF f = "events" THEN @.events + 1
                                      ELSE @[f]]]
  /\ UNCHANGED account

Use(s, water) ==
  LET d == device[s] IN
    Event(s, [since |-> d.since + water, used |-> d.used + water,
              remaining |-> d.remaining - water])

Midnight(s) == Event(s, [used |-> 0])

Regenerate(s) ==
  LET d == device[s] IN
    Event(s, [counts |-> d.capacity, since |-> 0, source |-> "meter",
              remaining |-> d.capacity - Reserve])

\* A property.set of Capacity is executed: it reaches the controller, whose datapoint may
\* not be reported yet, the datapoint alone, or another field: one that holds a setting, or one
\* that moves on its own.
Write(s) ==
  \/ Event(s, [capacity |-> Capacity, working |-> Capacity])
  \/ Event(s, [capacity |-> Capacity])
  \/ Event(s, [working |-> Capacity])
  \/ Event(s, [stray |-> 1])
  \/ Event(s, [used |-> Capacity])
  \/ Event(s, [remaining |-> Capacity, source |-> "write"])

SoftenerStep ==
  \E s \in Serials :
    (\E water \in Draws : Use(s, water)) \/ Midnight(s) \/ Regenerate(s) \/ Write(s)
=============================================================================
