----------------------------- MODULE SendCommand -----------------------------
(***************************************************************************)
(* send_command.py: sends any command there is.  A job is one run of it.   *)
(***************************************************************************)
EXTENDS DeviceCloud

CONSTANTS
  CmdJobs,   \* runs of the tool
  Commands,  \* the table: verb -> [default, risk : BOOLEAN]
  NoVerb,    \* no command argument
  BadVerb    \* a command that is not in the table

ASSUME CommandsAssumption ==
  /\ \A v \in DOMAIN Commands : Commands[v] \in [default : BOOLEAN, risk : BOOLEAN]
  /\ {NoVerb, BadVerb} \cap DOMAIN Commands = {}
  /\ NoVerb # BadVerb

VARIABLES
  cmdPc,      \* where main() is
  cmdArg,     \* its command line
  cmdParams,  \* what it will send
  cmdSerial,  \* the device it has chosen
  cmdShown,   \* history: whether the risk note was printed
  cmdSays     \* what it printed last

cmdVars == <<cmdPc, cmdArg, cmdParams, cmdSerial, cmdShown, cmdSays>>

\* --set and --params are absent, well-formed or not.
Given == {"no", "good", "bad"}

CmdArg == [verb : DOMAIN Commands \cup {NoVerb, BadVerb}, list : BOOLEAN, set : Given,
           json : Given, serial : Serials \cup {NoSerial}, apply : BOOLEAN]

\* A command is asked for, with parameters the tool accepts.
Plausible(a) ==
  /\ ~ a.list
  /\ a.verb \in DOMAIN Commands
  /\ \/ a.set = "good"
     \/ a.set = "no" /\ a.json = "good"
     \/ a.set = "no" /\ a.json = "no" /\ Commands[a.verb].default

CmdSays == {"none", "known commands", "unknown command", "bad --set", "bad --params",
            "no safe default", "login failed", "pass --serial", "DRY RUN", "HTTP", "traceback"}

CmdTypeOK ==
  /\ cmdPc \in [CmdJobs -> {"start", "login", "choose", "send", "done"}]
  /\ cmdArg \in [CmdJobs -> CmdArg]
  /\ \A j \in CmdJobs :
       cmdPc[j] \in {"login", "choose", "send"} => cmdArg[j].verb \in DOMAIN Commands
  /\ cmdParams \in [CmdJobs -> Params]
  /\ cmdSerial \in [CmdJobs -> Serials \cup {NoSerial}]
  /\ \A j \in CmdJobs : cmdPc[j] = "send" => cmdSerial[j] \in Serials
  /\ cmdShown \in [CmdJobs -> BOOLEAN]
  /\ cmdSays \in [CmdJobs -> CmdSays]

CmdInit ==
  /\ cmdPc = [j \in CmdJobs |-> "start"]
  /\ cmdArg = [j \in CmdJobs |-> [verb |-> NoVerb, list |-> FALSE, set |-> "no", json |-> "no",
                                  serial |-> NoSerial, apply |-> FALSE]]
  /\ cmdParams = [j \in CmdJobs |-> "default"]
  /\ cmdSerial = [j \in CmdJobs |-> NoSerial]
  /\ cmdShown = [j \in CmdJobs |-> FALSE]
  /\ cmdSays = [j \in CmdJobs |-> "none"]

CmdGoto(j, step) == cmdPc' = [cmdPc EXCEPT ![j] = step]

\* The run prints v and ends.
CmdStop(j, v) == CmdGoto(j, "done") /\ cmdSays' = [cmdSays EXCEPT ![j] = v]

\* The command line asks for the list, or is refused.
CmdRefuse(j, a) ==
  /\ cmdPc[j] = "start"
  /\ \/ (a.list \/ a.verb = NoVerb) /\ CmdStop(j, "known commands")
     \/ ~ a.list /\ a.verb = BadVerb /\ CmdStop(j, "unknown command")
     \/ /\ ~ a.list
        /\ a.verb \in DOMAIN Commands
        /\ \/ a.set = "bad" /\ CmdStop(j, "bad --set")
           \/ a.set = "no" /\ a.json = "bad" /\ CmdStop(j, "bad --params")
           \/ /\ a.set = "no"
              /\ a.json = "no"
              /\ ~ Commands[a.verb].default
              /\ CmdStop(j, "no safe default")
  /\ UNCHANGED <<cmdArg, cmdParams, cmdSerial, cmdShown, cloudVars>>

\* A faulty CmdBegin: the parameters of --params are overlooked.
CmdBeginDefault(j, a) ==
  /\ cmdPc[j] = "start"
  /\ Plausible(a)
  /\ cmdArg' = [cmdArg EXCEPT ![j] = a]
  /\ cmdParams' = [cmdParams EXCEPT ![j] = IF a.set = "good" THEN "typed" ELSE "default"]
  /\ cmdShown' = [cmdShown EXCEPT ![j] = Commands[a.verb].risk]
  /\ CmdGoto(j, "login")
  /\ UNCHANGED <<cmdSerial, cmdSays, cloudVars>>

\* --set goes before --params, which is not even looked at then, and both before the
\* default.  The risk is printed before the password is asked for.
CmdBegin(j, a) ==
  /\ cmdPc[j] = "start"
  /\ Plausible(a)
  /\ cmdArg' = [cmdArg EXCEPT ![j] = a]
  /\ cmdParams' = [cmdParams EXCEPT ![j] =
                     IF "good" \in {a.set, a.json} THEN "typed" ELSE "default"]
  /\ cmdShown' = [cmdShown EXCEPT ![j] = Commands[a.verb].risk]
  /\ CmdGoto(j, "login")
  /\ UNCHANGED <<cmdSerial, cmdSays, cloudVars>>

CmdLogin(j) ==
  /\ cmdPc[j] = "login"
  /\ \/ CmdGoto(j, "choose") /\ UNCHANGED cmdSays
     \/ CmdStop(j, "login failed")
  /\ UNCHANGED <<cmdArg, cmdParams, cmdSerial, cmdShown, cloudVars>>

\* No --serial, and the registry fails or has not exactly one device.
CmdNoDevice(j) ==
  /\ cmdPc[j] = "choose"
  /\ cmdArg[j].serial = NoSerial
  /\ CmdStop(j, "pass --serial")
  /\ UNCHANGED <<cmdArg, cmdParams, cmdSerial, cmdShown, cloudVars>>

\* A faulty CmdChoose: the first device will do.
CmdChooseFirst(j, s) ==
  /\ cmdPc[j] = "choose"
  /\ cmdArg[j].serial = s \/ (cmdArg[j].serial = NoSerial /\ s \in registry)
  /\ cmdSerial' = [cmdSerial EXCEPT ![j] = s]
  /\ CmdGoto(j, "send")
  /\ UNCHANGED <<cmdArg, cmdParams, cmdShown, cmdSays, cloudVars>>

\* The device is the argument, without a look at the registry, or the only one in it.
CmdChoose(j, s) ==
  /\ cmdPc[j] = "choose"
  /\ cmdArg[j].serial = s \/ (cmdArg[j].serial = NoSerial /\ registry = {s})
  /\ cmdSerial' = [cmdSerial EXCEPT ![j] = s]
  /\ CmdGoto(j, "send")
  /\ UNCHANGED <<cmdArg, cmdParams, cmdShown, cmdSays, cloudVars>>

CmdDryRun(j) ==
  /\ cmdPc[j] = "send"
  /\ ~ cmdArg[j].apply
  /\ CmdStop(j, "DRY RUN")
  /\ UNCHANGED <<cmdArg, cmdParams, cmdSerial, cmdShown, cloudVars>>

\* The command is posted.  A time among the parameters is one the user typed.
CmdPost(j, time, answer) ==
  /\ cmdPc[j] = "send"
  /\ cmdArg[j].apply
  /\ time = 0 \/ cmdArg[j].verb = "timeDate.set"
  /\ Transmit([job |-> j, verb |-> cmdArg[j].verb, serial |-> cmdSerial[j],
               params |-> cmdParams[j], time |-> time], answer.queued)
  /\ CmdStop(j, IF answer.response = "none" THEN "traceback" ELSE "HTTP")
  /\ UNCHANGED <<cmdArg, cmdParams, cmdSerial, cmdShown>>

\* Ctrl+C, or an exception call() does not catch.
CmdAbort(j) ==
  /\ cmdPc[j] \notin {"start", "done"}
  /\ CmdStop(j, "traceback")
  /\ UNCHANGED <<cmdArg, cmdParams, cmdSerial, cmdShown, cloudVars>>

CmdStep(j) ==
  \/ \E a \in CmdArg : CmdRefuse(j, a) \/ CmdBegin(j, a)
  \/ CmdLogin(j)
  \/ CmdNoDevice(j)
  \/ \E s \in Serials : CmdChoose(j, s)
  \/ CmdDryRun(j)
  \/ \E time \in Typed \cup {0}, answer \in Answer : CmdPost(j, time, answer)
  \/ CmdAbort(j)
=============================================================================
