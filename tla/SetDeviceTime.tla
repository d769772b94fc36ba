---------------------------- MODULE SetDeviceTime ----------------------------
(***************************************************************************)
(* set_device_time.py: sets a device's clock.  A job is one run of it.     *)
(***************************************************************************)
EXTENDS DeviceCloud

CONSTANTS
  SetJobs,  \* runs of the tool
  NoTime    \* no --time argument

ASSUME SetAssumption == NoTime \notin Times

VARIABLES
  setPc,     \* where main() is
  setArg,    \* its command line
  setTime,   \* target: the time it will send
  setSerial, \* the device it has chosen
  setSays    \* what it printed last

setVars == <<setPc, setArg, setTime, setSerial, setSays>>

SetArg == [apply : BOOLEAN, serial : Serials \cup {NoSerial}, time : Typed \cup {NoTime}]

SetSays == {"none", "bad time", "login failed", "registry failed", "no devices",
            "multiple devices", "DRY RUN", "Accepted", "Rejected", "traceback"}

SetTypeOK ==
  /\ setPc \in [SetJobs -> {"start", "login", "registry", "data", "send", "done"}]
  /\ setArg \in [SetJobs -> SetArg]
  /\ setTime \in [SetJobs -> Times]
  /\ setSerial \in [SetJobs -> Serials \cup {NoSerial}]
  /\ \A j \in SetJobs : setPc[j] \in {"data", "send"} => setSerial[j] \in Serials
  /\ setSays \in [SetJobs -> SetSays]

SetInit ==
  /\ setPc = [j \in SetJobs |-> "start"]
  /\ setArg = [j \in SetJobs |-> [apply |-> FALSE, serial |-> NoSerial, time |-> NoTime]]
  /\ setTime = [j \in SetJobs |-> 0]
  /\ setSerial = [j \in SetJobs |-> NoSerial]
  /\ setSays = [j \in SetJobs |-> "none"]

SetGoto(j, step) == setPc' = [setPc EXCEPT ![j] = step]

\* The run prints v and ends.
SetStop(j, v) == SetGoto(j, "done") /\ setSays' = [setSays EXCEPT ![j] = v]

\* A faulty SetBegin: the seconds are rounded up.
SetBeginAhead(j, a) ==
  /\ setPc[j] = "start"
  /\ setArg' = [setArg EXCEPT ![j] = a]
  /\ setTime' = [setTime EXCEPT ![j] =
                   IF a.time # NoTime THEN a.time ELSE IF now < MaxTime THEN now + 1 ELSE now]
  /\ SetGoto(j, "login")
  /\ UNCHANGED <<setSerial, setSays, cloudVars>>

\* The target is what --time says, or the time it is now: before the password is typed.
SetBegin(j, a) ==
  /\ setPc[j] = "start"
  /\ setArg' = [setArg EXCEPT ![j] = a]
  /\ setTime' = [setTime EXCEPT ![j] = IF a.time # NoTime THEN a.time ELSE now]
  /\ SetGoto(j, "login")
  /\ UNCHANGED <<setSerial, setSays, cloudVars>>

\* strptime does not like --time.
SetBadTime(j) ==
  /\ setPc[j] = "start"
  /\ SetStop(j, "bad time")
  /\ UNCHANGED <<setArg, setTime, setSerial, cloudVars>>

\* login() returns a token, or exits.
SetLogin(j) ==
  /\ setPc[j] = "login"
  /\ \/ SetGoto(j, "registry") /\ UNCHANGED setSays
     \/ SetStop(j, "login failed")
  /\ UNCHANGED <<setArg, setTime, setSerial, cloudVars>>

\* list_devices() fails, there is no device, or more than one and no --serial.
SetNoDevice(j) ==
  /\ setPc[j] = "registry"
  /\ \/ SetStop(j, "registry failed")
     \/ registry = {} /\ SetStop(j, "no devices")
     \/ setArg[j].serial = NoSerial /\ Cardinality(registry) > 1 /\ SetStop(j, "multiple devices")
  /\ UNCHANGED <<setArg, setTime, setSerial, cloudVars>>

\* A faulty SetChoose: the argument is taken as it is.
SetChooseArgument(j, s) ==
  /\ setPc[j] = "registry"
  /\ registry # {}
  /\ setSerial' = [setSerial EXCEPT ![j] = setArg[j].serial]
  /\ SetGoto(j, "data")
  /\ UNCHANGED <<setArg, setTime, setSays, cloudVars>>

\* The device that was asked for, on the account or not, or the only one.
SetChoose(j, s) ==
  /\ setPc[j] = "registry"
  /\ registry # {}
  /\ setArg[j].serial = s \/ (setArg[j].serial = NoSerial /\ registry = {s})
  /\ setSerial' = [setSerial EXCEPT ![j] = s]
  /\ SetGoto(j, "data")
  /\ UNCHANGED <<setArg, setTime, setSays, cloudVars>>

\* GET /api/v1/device/data, for display only: its failure does not matter.
SetShow(j) ==
  /\ setPc[j] = "data"
  /\ SetGoto(j, "send")
  /\ UNCHANGED <<setArg, setTime, setSerial, setSays, cloudVars>>

SetDryRun(j) ==
  /\ setPc[j] = "send"
  /\ ~ setArg[j].apply
  /\ SetStop(j, "DRY RUN")
  /\ UNCHANGED <<setArg, setTime, setSerial, cloudVars>>

\* The command is posted.  Any status but 200, and any body without success, is
\* "Rejected"; call() does not catch an error of the connection.
SetPost(j, answer) ==
  /\ setPc[j] = "send"
  /\ setArg[j].apply
  /\ Transmit([job |-> j, verb |-> "timeDate.set", serial |-> setSerial[j],
               params |-> IF setArg[j].time = NoTime THEN "now" ELSE "typed",
               time |-> setTime[j]], answer.queued)
  /\ SetStop(j, CASE answer.response = "success" -> "Accepted"
                  [] answer.response = "error" -> "Rejected"
                  [] answer.response = "none" -> "traceback")
  /\ UNCHANGED <<setArg, setTime, setSerial>>

\* Ctrl+C, or an exception call() does not catch.
SetAbort(j) ==
  /\ setPc[j] \notin {"start", "done"}
  /\ SetStop(j, "traceback")
  /\ UNCHANGED <<setArg, setTime, setSerial, cloudVars>>

SetStep(j) ==
  \/ \E a \in SetArg : SetBegin(j, a)
  \/ SetBadTime(j)
  \/ SetLogin(j)
  \/ SetNoDevice(j)
  \/ \E s \in Serials : SetChoose(j, s)
  \/ SetShow(j)
  \/ SetDryRun(j)
  \/ \E answer \in Answer : SetPost(j, answer)
  \/ SetAbort(j)
=============================================================================
