---------------------------- MODULE CommandTools -----------------------------
(***************************************************************************)
(* set_device_time.py and send_command.py, each in a terminal of its own,  *)
(* over one account.                                                       *)
(***************************************************************************)
EXTENDS SetDeviceTime, SendCommand

vars == <<cloudVars, setVars, cmdVars>>

Jobs == SetJobs \cup CmdJobs

ASSUME JobsAssumption == SetJobs \cap CmdJobs = {}

Command ==
  [job : Jobs, verb : DOMAIN Commands \cup {"timeDate.set"}, serial : Serials, params : Params,
   time : Times]

TypeOK ==
  /\ SetTypeOK
  /\ CmdTypeOK
  /\ registry \in SUBSET Serials
  /\ now \in Times
  /\ sent \in SUBSET Command
  /\ inbox \in SUBSET sent
  /\ clock \in [Serials -> SUBSET [command : sent, at : Times]]

Init == CloudInit /\ SetInit /\ CmdInit

Next ==
  \/ \E j \in SetJobs : SetStep(j) /\ UNCHANGED cmdVars
  \/ \E j \in CmdJobs : CmdStep(j) /\ UNCHANGED setVars
  \/ Cloud /\ UNCHANGED <<setVars, cmdVars>>

Spec == Init /\ [][Next]_vars

-----------------------------------------------------------------------------
(***************************************************************************)
(* The abstract specification the two tools implement.                     *)
(***************************************************************************)

SetOrder(j) ==
  IF setPc[j] \in {"start", "done"} THEN {}
  ELSE {[apply |-> setArg[j].apply, serial |-> setArg[j].serial]}

CmdOrder(j) ==
  IF cmdPc[j] \in {"start", "done"} THEN {}
  ELSE {[apply |-> cmdArg[j].apply, serial |-> cmdArg[j].serial]}

Tool == INSTANCE CommandTool WITH
  order <- [j \in Jobs |-> IF j \in SetJobs THEN SetOrder(j) ELSE CmdOrder(j)],
  posted <- {[job |-> c.job, serial |-> c.serial] : c \in sent}

\* Dry run by default, one command for each run, and never a guess at the device, whatever
\* the other tool and the cloud do meanwhile.
ImplementsCommandTool == Tool!Spec

-----------------------------------------------------------------------------
(***************************************************************************)
(* Safety.                                                                 *)
(***************************************************************************)

\* "Risk notes are shown before --apply" (send_command.py:31), "no safe default; pass
\* --params explicitly" (send_command.py:124): a risky command is posted only when its risk
\* was printed, one without a safe default only with parameters of the user's, and
\* parameters the user typed are never replaced by the default.
SentAsAsked ==
  \A c \in sent : c.job \in CmdJobs =>
    LET a == cmdArg[c.job] IN
      /\ c.verb = a.verb
      /\ Commands[c.verb].risk => cmdShown[c.job]
      /\ c.params = "default" => /\ Commands[c.verb].default
                                 /\ {a.set, a.json} = {"no"}

\* The target is computed before the password is typed (set_device_time.py:99) and executed
\* whenever the device hears of it: a clock that was set to "now" is behind by the time in
\* between, and never ahead.
NeverAhead ==
  \A s \in Serials : \A set \in clock[s] :
    set.command.params = "now" => set.command.time <= set.at
=============================================================================
