----------------------------- MODULE DeviceCloud -----------------------------
(***************************************************************************)
(* The vendor's cloud and the devices on one account, as set_device_time.py *)
(* and send_command.py use them: none of it is in the repository.  A       *)
(* command is queued, and the device executes it at some time or ignores   *)
(* it: "it does not confirm the device applied it" (set_device_time.py:163). *)
(***************************************************************************)
EXTENDS Naturals, FiniteSets

CONSTANTS
  Serials,   \* devices the cloud knows
  NoSerial,  \* no --serial argument, or no device chosen yet
  MaxTime,   \* bound on the time, in minutes say
  Typed      \* times a user may type

ASSUME CloudAssumption == NoSerial \notin Serials /\ MaxTime \in Nat /\ Typed \subseteq 0 .. MaxTime

VARIABLES
  registry,  \* the devices on the account
  now,       \* the time it is
  inbox,     \* the commands queued in the cloud
  sent,      \* history: the commands that were posted
  clock      \* history: for each device, the last command that set its clock, and when

cloudVars == <<registry, now, inbox, sent, clock>>

Times == 0 .. MaxTime

\* Where the parameters of a command come from: the user, the table of defaults, or the
\* clock of this computer.
Params == {"typed", "default", "now"}

\* The answers of POST /api/v1/device/command, and whether the command was queued:  it may
\* have been when a gateway reports an error or the connection is lost.
Answer ==
  [queued : {TRUE}, response : {"success", "error", "none"}]
    \cup [queued : {FALSE}, response : {"error", "none"}]

\* Command c is posted, and queued or not.
Transmit(c, queued) ==
  /\ sent' = sent \cup {c}
  /\ inbox' = IF queued THEN inbox \cup {c} ELSE inbox
  /\ UNCHANGED <<registry, now, clock>>

CloudInit ==
  /\ registry \in SUBSET Serials
  /\ now = 0
  /\ inbox = {}
  /\ sent = {}
  /\ clock = [s \in Serials |-> {}]

Tick ==
  /\ now < MaxTime
  /\ now' = now + 1
  /\ UNCHANGED <<registry, inbox, sent, clock>>

\* A device executes a queued command; only the clock is of interest here.
Execute(c) ==
  /\ c \in inbox
  /\ inbox' = inbox \ {c}
  /\ clock' = IF c.verb = "timeDate.set"
              THEN [clock EXCEPT ![c.serial] = {[command |-> c, at |-> now]}]
              ELSE clock
  /\ UNCHANGED <<registry, now, sent>>

\* A device does not know the command, or the cloud drops it.
Ignore(c) ==
  /\ c \in inbox
  /\ inbox' = inbox \ {c}
  /\ UNCHANGED <<registry, now, sent, clock>>

Cloud == Tick \/ \E c \in inbox : Execute(c) \/ Ignore(c)
=============================================================================
