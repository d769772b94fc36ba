---------------------------- MODULE SetCapacity -----------------------------
(***************************************************************************)
(* set_capacity.py: writes the capacity of a water softener through the    *)
(* vendor's cloud, run again and again by its user.  Each run logs in,     *)
(* picks a device, saves its datapoints to a file, checks the value, sends *)
(* property.set, and reads the value back after 25 seconds.                *)
(*                                                                         *)
(* The cloud and the devices are not part of the repository.  They are     *)
(* modelled from how the tool uses them: the cloud keeps the last reading  *)
(* of each device and queues commands; "acceptance means QUEUED, not       *)
(* applied" (set_capacity.py:275).                                         *)
(***************************************************************************)
EXTENDS Naturals, FiniteSets

CONSTANTS
  Serials,    \* serial numbers of devices the cloud knows
  Values,     \* capacities in gallons, for --value and for the devices
  Resins,     \* readings of resin_tank_size; 0 also stands for none at all
  Hardnesses, \* readings of hardness_value, likewise
  Runs,       \* how often the tool is run
  Stamps,     \* local times, to the second
  MaxForeign, \* bound on the devices someone else sets
  NoSerial,   \* no --serial argument, or no device chosen yet
  NoReading   \* the field is absent, or there are no datapoints at all

ASSUME ValuesAssumption ==
  /\ Values \subseteq Nat
  /\ Resins \subseteq Nat
  /\ Hardnesses \subseteq Nat
  /\ Runs \in Nat
ASSUME SentinelAssumption == NoSerial \notin Serials /\ NoReading \notin Values

VARIABLES
  run,       \* number of the current run
  pc,        \* where main() is in it
  arg,       \* its command line
  serial,    \* the device it has chosen
  before,    \* the field in its first reading
  verdict,   \* what it printed last
  files,     \* the capacity-before-*.json files
  replaced,  \* history: the files that were opened again for another capture
  sent,      \* history: the commands that were posted
  registry,  \* external: the devices on the account
  tank,      \* external: resin_tank_size and hardness_value of each device
  device,    \* external: the capacity each controller works with
  telemetry, \* external: the field in the cloud's datapoints of each device
  inbox,     \* external: the commands queued in the cloud
  applied,   \* history: the commands a device has executed
  foreign,   \* history: the devices someone else has set
  original   \* history: the first telemetry of each device

disk == <<files, replaced>>
toolVars == <<run, arg, serial, before, disk>>
cloudVars == <<registry, tank, device, telemetry, applied, foreign, original>>
vars == <<toolVars, pc, verdict, sent, inbox, cloudVars>>

Readings == Values \cup {NoReading}
Arg == [apply : BOOLEAN, serial : Serials \cup {NoSerial}, value : Values]
Command == [run : 1 .. Runs, serial : Serials, value : Values]
File == [stamp : Stamps, serial : Serials, reading : Readings]
Verdict == {"none", "login failed", "registry failed", "no devices", "multiple devices",
            "refusing to write blind", "REFUSED", "DRY RUN", "REJECTED", "APPLIED",
            "NOT APPLIED", "traceback"}

TypeOK ==
  /\ run \in 0 .. Runs
  /\ pc \in {"idle", "login", "registry", "before", "save", "decide", "wait"}
  /\ pc # "idle" => run > 0
  /\ arg \in Arg
  /\ serial \in Serials \cup {NoSerial}
  /\ pc \in {"before", "save", "decide", "wait"} => serial \in Serials
  /\ before \in Readings
  /\ verdict \in Verdict
  /\ files \in SUBSET File
  /\ replaced \in SUBSET File
  /\ sent \in SUBSET Command
  /\ inbox \in SUBSET sent
  /\ applied \in SUBSET sent
  /\ registry \in SUBSET Serials
  /\ tank \in [Serials -> [resin : Resins, hardness : Hardnesses]]
  /\ device \in [Serials -> Readings]
  /\ telemetry \in [Serials -> Readings]
  /\ foreign \in SUBSET Serials
  /\ original \in [Serials -> Readings]

Init ==
  /\ run = 0
  /\ pc = "idle"
  /\ arg \in {a \in Arg : ~ a.apply /\ a.serial = NoSerial}
  /\ serial = NoSerial
  /\ before = NoReading
  /\ verdict = "none"
  /\ files = {}
  /\ replaced = {}
  /\ sent = {}
  /\ inbox = {}
  /\ applied = {}
  /\ registry \in SUBSET Serials
  /\ tank \in [Serials -> [resin : Resins, hardness : Hardnesses]]
  /\ device \in [Serials -> Readings]
  /\ telemetry = device
  /\ foreign = {}
  /\ original = telemetry

-----------------------------------------------------------------------------
(***************************************************************************)
(* main().                                                                 *)
(***************************************************************************)

\* The tool prints v and ends.
Stop(v) == pc' = "idle" /\ verdict' = v

\* The tool is started with the arguments a.
Begin(a) ==
  /\ pc = "idle"
  /\ run < Runs
  /\ run' = run + 1
  /\ arg' = a
  /\ serial' = NoSerial
  /\ before' = NoReading
  /\ pc' = "login"
  /\ verdict' = "none"
  /\ UNCHANGED <<disk, sent, inbox, cloudVars>>

\* login() returns a token.
Login ==
  /\ pc = "login"
  /\ pc' = "registry"
  /\ UNCHANGED <<toolVars, verdict, sent, inbox, cloudVars>>

\* login() gets another status than 200, or no success: SystemExit(1).
LoginFails ==
  /\ pc = "login"
  /\ Stop("login failed")
  /\ UNCHANGED <<toolVars, sent, inbox, cloudVars>>

\* list_devices() gets another status than 200: SystemExit(1).
RegistryFails ==
  /\ pc = "registry"
  /\ Stop("registry failed")
  /\ UNCHANGED <<toolVars, sent, inbox, cloudVars>>

\* There is no device, or more than one and no --serial to tell which.
NoDevice ==
  /\ pc = "registry"
  /\ \/ registry = {} /\ Stop("no devices")
     \/ Cardinality(registry) > 1 /\ arg.serial = NoSerial /\ Stop("multiple devices")
  /\ UNCHANGED <<toolVars, sent, inbox, cloudVars>>

\* A faulty ChooseDevice: the argument is taken as it is.
ChooseArgument(s) ==
  /\ pc = "registry"
  /\ registry # {}
  /\ serial' = arg.serial
  /\ pc' = "before"
  /\ UNCHANGED <<run, arg, before, disk, verdict, sent, inbox, cloudVars>>

\* The device is the one asked for, which need not be on the account, or the only
\* one on the account.
ChooseDevice(s) ==
  /\ pc = "registry"
  /\ registry # {}
  /\ s = arg.serial \/ (arg.serial = NoSerial /\ registry = {s})
  /\ serial' = s
  /\ pc' = "before"
  /\ UNCHANGED <<run, arg, before, disk, verdict, sent, inbox, cloudVars>>

\* before = datapoints(token, serial), with some datapoints in it.
ReadBefore ==
  /\ pc = "before"
  /\ before' = telemetry[serial]
  /\ pc' = "save"
  /\ UNCHANGED <<run, arg, serial, disk, verdict, sent, inbox, cloudVars>>

\* datapoints() gets another status than 200, or no datapoints.
NoDatapoints ==
  /\ pc = "before"
  /\ Stop("refusing to write blind")
  /\ UNCHANGED <<toolVars, sent, inbox, cloudVars>>

\* A faulty SaveBefore: one file for each device.
SaveOver(stamp) ==
  /\ pc = "save"
  /\ files' = {f \in files : f.serial # serial}
                \cup {[stamp |-> stamp, serial |-> serial, reading |-> before]}
  /\ pc' = "decide"
  /\ UNCHANGED <<run, arg, serial, before, replaced, verdict, sent, inbox, cloudVars>>

\* open(path, "w"), with the local time in the name of the file and nothing else: what
\* another run has saved in that second is gone.  The clock is set and goes back in autumn.
OpenFile(stamp) ==
  replaced' = replaced \cup {f \in files : f.stamp = stamp}

\* save_before(before, serial)
SaveBefore(stamp) ==
  /\ pc = "save"
  /\ OpenFile(stamp)
  /\ files' = {f \in files : f.stamp # stamp}
                \cup {[stamp |-> stamp, serial |-> serial, reading |-> before]}
  /\ pc' = "decide"
  /\ UNCHANGED <<run, arg, serial, before, verdict, sent, inbox, cloudVars>>

\* The disk is full, or Ctrl+C while the file is written: no file is left that can be read.
SaveFails(stamp) ==
  /\ pc = "save"
  /\ OpenFile(stamp)
  /\ files' = {f \in files : f.stamp # stamp}
  /\ Stop("traceback")
  /\ UNCHANGED <<run, arg, serial, before, sent, inbox, cloudVars>>

\* A faulty OutsideBand: the ends are not in the band.
OutsideOpenBand(t, value) ==
  /\ t.resin > 0
  /\ t.hardness > 0
  /\ \/ 3 * value * t.hardness <= 2 * 20000 * t.resin
     \/ 2 * value * t.hardness >= 3 * 30000 * t.resin

\* plausible_band(before) is a band, and value is outside it.  The band goes from
\* 20000 * resin / hardness / 1.5 to 30000 * resin / hardness * 1.5; there is none
\* when a reading is missing or not positive.
OutsideBand(t, value) ==
  /\ t.resin > 0
  /\ t.hardness > 0
  /\ \/ 3 * value * t.hardness < 2 * 20000 * t.resin
     \/ 2 * value * t.hardness > 3 * 30000 * t.resin

\* "REFUSED: ... is outside the plausible band"
Refuse ==
  /\ pc = "decide"
  /\ OutsideBand(tank[serial], arg.value)
  /\ Stop("REFUSED")
  /\ UNCHANGED <<toolVars, sent, inbox, cloudVars>>

\* "DRY RUN -- nothing sent."
DryRun ==
  /\ pc = "decide"
  /\ ~ OutsideBand(tank[serial], arg.value)
  /\ ~ arg.apply
  /\ Stop("DRY RUN")
  /\ UNCHANGED <<toolVars, sent, inbox, cloudVars>>

\* What comes back from POST /api/v1/device/command, and whether the cloud has
\* queued the command: it may have when a gateway in front of it reports an error,
\* or when the connection is lost before the answer.
Answer ==
  [queued : {TRUE}, response : {"success", "5xx", "none"}]
    \cup [queued : {FALSE}, response : {"refusal", "5xx", "unreachable", "none"}]

\* The command is posted.  An error in sending is status 0, another error of the
\* connection is a traceback; any status other than 200 and any body without
\* success is "REJECTED. Nothing was changed on the device."
Send(answer) ==
  /\ pc = "decide"
  /\ ~ OutsideBand(tank[serial], arg.value)
  /\ arg.apply
  /\ LET command == [run |-> run, serial |-> serial, value |-> arg.value] IN
       /\ sent' = sent \cup {command}
       /\ inbox' = IF answer.queued THEN inbox \cup {command} ELSE inbox
  /\ \/ answer.response = "success" /\ pc' = "wait" /\ UNCHANGED verdict
     \/ answer.response = "none" /\ Stop("traceback")
     \/ answer.response \notin {"success", "none"} /\ Stop("REJECTED")
  /\ UNCHANGED <<toolVars, cloudVars>>

\* A faulty ReadBack: acceptance is taken for success.
ReadBackAccepted(now) ==
  /\ pc = "wait"
  /\ Stop("APPLIED")
  /\ UNCHANGED <<toolVars, sent, inbox, cloudVars>>

\* After 25 seconds: now = _num(datapoints(token, serial), field), where a failed
\* call gives no datapoints.
ReadBack(now) ==
  /\ pc = "wait"
  /\ now \in {telemetry[serial], NoReading}
  /\ Stop(IF now = arg.value THEN "APPLIED" ELSE "NOT APPLIED")
  /\ UNCHANGED <<toolVars, sent, inbox, cloudVars>>

\* Ctrl+C, or an exception call() does not catch: a connection that is lost or times
\* out before the answer is complete, or a body of status 200 that is not JSON.
Abort ==
  /\ pc # "idle"
  /\ Stop("traceback")
  /\ UNCHANGED <<toolVars, sent, inbox, cloudVars>>

-----------------------------------------------------------------------------
(***************************************************************************)
(* The cloud, the devices and their other users, at any time.              *)
(***************************************************************************)

\* A device checks in and executes a queued command, or does not know it.
DeviceChecksIn(command, executes) ==
  /\ command \in inbox
  /\ inbox' = inbox \ {command}
  /\ IF executes THEN /\ device' = [device EXCEPT ![command.serial] = command.value]
                      /\ applied' = applied \cup {command}
                 ELSE UNCHANGED <<device, applied>>
  /\ UNCHANGED <<toolVars, pc, verdict, sent, registry, tank, telemetry, foreign, original>>

\* The cloud hears of the capacity of a device.
DeviceReports(s) ==
  /\ telemetry[s] # device[s]
  /\ telemetry' = [telemetry EXCEPT ![s] = device[s]]
  /\ UNCHANGED <<toolVars, pc, verdict, sent, inbox, registry, tank, device, applied,
                 foreign, original>>

\* The dealer or the app sets a device, any number of times.
SomeoneElseSets(s, value) ==
  /\ device[s] # value
  /\ Cardinality(foreign \cup {s}) <= MaxForeign
  /\ device' = [device EXCEPT ![s] = value]
  /\ foreign' = foreign \cup {s}
  /\ UNCHANGED <<toolVars, pc, verdict, sent, inbox, registry, tank, telemetry, applied,
                 original>>

-----------------------------------------------------------------------------
Tool ==
  \/ \E a \in Arg : Begin(a)
  \/ Login \/ LoginFails
  \/ RegistryFails \/ NoDevice
  \/ \E s \in Serials : ChooseDevice(s)
  \/ ReadBefore \/ NoDatapoints
  \/ \E stamp \in Stamps : SaveBefore(stamp) \/ SaveFails(stamp)
  \/ Refuse
  \/ DryRun
  \/ \E answer \in Answer : Send(answer)
  \/ \E now \in Readings : ReadBack(now)
  \/ Abort

World ==
  \/ \E command \in inbox, executes \in BOOLEAN : DeviceChecksIn(command, executes)
  \/ \E s \in Serials : DeviceReports(s)
  \/ \E s \in Serials, value \in Values : SomeoneElseSets(s, value)

Next == Tool \/ World

Spec == Init /\ [][Next]_vars

-----------------------------------------------------------------------------
(***************************************************************************)
(* Safety.                                                                 *)
(***************************************************************************)

\* "Captures the FULL datapoint set ... BEFORE writing, so the diagnostic evidence
\* survives regardless of outcome" (set_capacity.py:37): once a command for a device
\* has been sent, there is a file with the reading the device had before any of
\* them, however often the tool was run and whatever became of the runs; or there was
\* one, and another run has saved a capture in the same second of the local clock.
EvidenceSurvives ==
  \A c \in sent :
    c.serial \notin foreign =>
      \E f \in files \cup replaced : f.serial = c.serial /\ f.reading = original[c.serial]

\* 20 to 30 thousand grains for each cubic foot of resin, and half as much again either
\* way; whatever is asked for when the unit does not tell its resin or its hardness.
Plausible(t, value) ==
  t.resin > 0 /\ t.hardness > 0 =>
    /\ 40000 * t.resin <= 3 * value * t.hardness
    /\ 2 * value * t.hardness <= 90000 * t.resin

\* "Dry run by default" (set_capacity.py:36), "Refuses to guess which device to write
\* to" (set_capacity.py:41), "Refuses values outside a plausible band" (line 44): a
\* command is posted only by a run with --apply, with the value asked for, to the device
\* asked for or else the only one on the account, and with a value that is plausible for
\* that device; and only a value that is not is refused, the ends of the band included.
CommandDeliberate ==
  [][/\ \A c \in sent' \ sent :
          /\ arg.apply
          /\ c.value = arg.value
          /\ arg.serial = c.serial \/ (arg.serial = NoSerial /\ registry = {c.serial})
          /\ Plausible(tank[c.serial], c.value)
     /\ verdict # "REFUSED" /\ verdict' = "REFUSED" =>
          ~ Plausible(tank[serial], arg.value)]_vars

\* "APPLIED" is more than what the cloud accepted: unless the value was there before
\* or someone else set it, a device has executed a command with this value.
AppliedIsExecuted ==
  verdict = "APPLIED" /\ before # arg.value /\ serial \notin foreign =>
    \E c \in applied : c.serial = serial /\ c.value = arg.value
=============================================================================
