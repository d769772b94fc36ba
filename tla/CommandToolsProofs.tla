------------------------- MODULE CommandToolsProofs -------------------------
(***************************************************************************)
(* Proofs about CommandTools, for any devices, commands and times, and any *)
(* number of runs of the two tools at once.                                *)
(***************************************************************************)
EXTENDS CommandTools, TLAPS

-----------------------------------------------------------------------------
(***************************************************************************)
(* Types.                                                                  *)
(***************************************************************************)

CloudTypeOK ==
  /\ registry \in SUBSET Serials
  /\ now \in Times
  /\ sent \in SUBSET Command
  /\ inbox \in SUBSET sent
  /\ clock \in [Serials -> SUBSET [command : sent, at : Times]]

\* A step of set_device_time.py keeps its variables in their types.
LEMMA SetTypes ==
  ASSUME TypeOK, NEW j \in SetJobs, SetStep(j)
  PROVE  SetTypeOK'
<1> USE DEF TypeOK, SetTypeOK, SetGoto, SetStop, SetSays
<1>1. ASSUME NEW a \in SetArg, SetBegin(j, a)
      PROVE  SetTypeOK'
  <2>1. (IF a.time # NoTime THEN a.time ELSE now) \in Times
    BY CloudAssumption, SetAssumption DEF SetArg, Times
  <2>2. QED
    BY <1>1, <2>1 DEF SetBegin
<1>2. CASE SetBadTime(j) \/ SetLogin(j) \/ SetNoDevice(j) \/ SetDryRun(j) \/ SetAbort(j)
  BY <1>2 DEF SetBadTime, SetLogin, SetNoDevice, SetDryRun, SetAbort
<1>3. ASSUME NEW s \in Serials, SetChoose(j, s)
      PROVE  SetTypeOK'
  BY <1>3 DEF SetChoose
<1>4. CASE SetShow(j)
  BY <1>4 DEF SetShow
<1>5. ASSUME NEW answer \in Answer, SetPost(j, answer)
      PROVE  SetTypeOK'
  BY <1>5 DEF SetPost, Answer
<1>6. QED
  BY <1>1, <1>2, <1>3, <1>4, <1>5 DEF SetStep

\* Likewise for send_command.py.
LEMMA CmdTypes ==
  ASSUME TypeOK, NEW j \in CmdJobs, CmdStep(j)
  PROVE  CmdTypeOK'
<1> USE DEF TypeOK, CmdTypeOK, CmdGoto, CmdStop, CmdSays
<1>1. ASSUME NEW a \in CmdArg, CmdRefuse(j, a)
      PROVE  CmdTypeOK'
  BY <1>1 DEF CmdRefuse
<1>2. ASSUME NEW a \in CmdArg, CmdBegin(j, a)
      PROVE  CmdTypeOK'
  <2>1. a.verb \in DOMAIN Commands
    BY <1>2 DEF CmdBegin, Plausible
  <2>2. Commands[a.verb].risk \in BOOLEAN
    BY <2>1, CommandsAssumption
  <2>3. QED
    BY <1>2, <2>1, <2>2 DEF CmdBegin, Params
<1>3. CASE CmdLogin(j) \/ CmdNoDevice(j) \/ CmdDryRun(j) \/ CmdAbort(j)
  BY <1>3 DEF CmdLogin, CmdNoDevice, CmdDryRun, CmdAbort
<1>4. ASSUME NEW s \in Serials, CmdChoose(j, s)
      PROVE  CmdTypeOK'
  BY <1>4 DEF CmdChoose
<1>5. ASSUME NEW time, NEW answer, CmdPost(j, time, answer)
      PROVE  CmdTypeOK'
  BY <1>5 DEF CmdPost
<1>6. QED
  BY <1>1, <1>2, <1>3, <1>4, <1>5 DEF CmdStep

\* A command that is posted, queued or not, leaves the cloud in its type.
LEMMA TransmitTypes ==
  ASSUME CloudTypeOK, NEW c \in Command, NEW queued, Transmit(c, queued)
  PROVE  CloudTypeOK'
  BY DEF CloudTypeOK, Transmit

\* So does whatever the cloud and the devices do.
LEMMA CloudTypes ==
  ASSUME CloudTypeOK, Cloud
  PROVE  CloudTypeOK'
<1> USE DEF CloudTypeOK
<1>1. CASE Tick
  BY <1>1, CloudAssumption DEF Tick, Times
<1>2. ASSUME NEW c \in inbox, Execute(c)
      PROVE  CloudTypeOK'
  <2>1. [command |-> c, at |-> now] \in [command : sent, at : Times]
    OBVIOUS
  <2>2. QED
    BY <1>2, <2>1 DEF Execute
<1>3. ASSUME NEW c \in inbox, Ignore(c)
      PROVE  CloudTypeOK'
  BY <1>3 DEF Ignore
<1>4. QED
  BY <1>1, <1>2, <1>3 DEF Cloud

\* What set_device_time.py posts is a command.
LEMMA SetPostsCommand ==
  ASSUME TypeOK, NEW j \in SetJobs, setPc[j] = "send"
  PROVE  [job |-> j, verb |-> "timeDate.set", serial |-> setSerial[j],
          params |-> IF setArg[j].time = NoTime THEN "now" ELSE "typed",
          time |-> setTime[j]] \in Command
  BY DEF TypeOK, SetTypeOK, Command, Jobs, Params

\* So is what send_command.py posts.
LEMMA CmdPostsCommand ==
  ASSUME TypeOK, NEW j \in CmdJobs, cmdPc[j] = "send", NEW time \in Typed \cup {0}
  PROVE  [job |-> j, verb |-> cmdArg[j].verb, serial |-> cmdSerial[j],
          params |-> cmdParams[j], time |-> time] \in Command
  BY CloudAssumption DEF TypeOK, CmdTypeOK, Command, Jobs, Times

\* Every variable of the tools and the cloud keeps its type, whatever the users ask for and
\* the cloud answers.
THEOREM TypeCorrect == Spec => []TypeOK
<1>1. Init => TypeOK
  <2>1. CloudInit => CloudTypeOK
    BY CloudAssumption DEF CloudInit, CloudTypeOK, Times
  <2>2. SetInit => SetTypeOK
    BY CloudAssumption DEF SetInit, SetTypeOK, SetArg, SetSays, Times
  <2>3. CmdInit => CmdTypeOK
    BY DEF CmdInit, CmdTypeOK, CmdArg, Given, Params, CmdSays
  <2>4. QED
    BY <2>1, <2>2, <2>3 DEF Init, TypeOK, CloudTypeOK
<1>2. TypeOK /\ [Next]_vars => TypeOK'
  <2> SUFFICES ASSUME TypeOK, [Next]_vars
      PROVE  TypeOK'
    OBVIOUS
  <2>1. ASSUME NEW j \in SetJobs, SetStep(j), UNCHANGED cmdVars
        PROVE  TypeOK'
    <3>1. CloudTypeOK'
      <4>1. CASE UNCHANGED cloudVars
        BY <4>1 DEF TypeOK, CloudTypeOK, cloudVars
      <4>2. ASSUME NEW answer \in Answer, SetPost(j, answer)
            PROVE  CloudTypeOK'
        BY <4>2, SetPostsCommand, TransmitTypes DEF SetPost, TypeOK, CloudTypeOK
      <4>3. QED
        BY <2>1, <4>1, <4>2 DEF SetStep, SetBegin, SetBadTime, SetLogin, SetNoDevice,
                                SetChoose, SetShow, SetDryRun, SetAbort
    <3>2. SetTypeOK'
      BY <2>1, SetTypes
    <3>3. CmdTypeOK'
      BY <2>1 DEF TypeOK, CmdTypeOK, cmdVars
    <3>4. QED
      BY <3>1, <3>2, <3>3 DEF TypeOK, CloudTypeOK
  <2>2. ASSUME NEW j \in CmdJobs, CmdStep(j), UNCHANGED setVars
        PROVE  TypeOK'
    <3>1. CloudTypeOK'
      <4>1. CASE UNCHANGED cloudVars
        BY <4>1 DEF TypeOK, CloudTypeOK, cloudVars
      <4>2. ASSUME NEW time \in Typed \cup {0}, NEW answer \in Answer, CmdPost(j, time, answer)
            PROVE  CloudTypeOK'
        BY <4>2, CmdPostsCommand, TransmitTypes DEF CmdPost, TypeOK, CloudTypeOK
      <4>3. QED
        BY <2>2, <4>1, <4>2 DEF CmdStep, CmdRefuse, CmdBegin, CmdLogin, CmdNoDevice,
                                CmdChoose, CmdDryRun, CmdAbort
    <3>2. CmdTypeOK'
      BY <2>2, CmdTypes
    <3>3. SetTypeOK'
      BY <2>2 DEF TypeOK, SetTypeOK, setVars
    <3>4. QED
      BY <3>1, <3>2, <3>3 DEF TypeOK, CloudTypeOK
  <2>3. CASE Cloud /\ UNCHANGED <<setVars, cmdVars>>
    <3>1. CloudTypeOK'
      BY <2>3, CloudTypes DEF TypeOK, CloudTypeOK
    <3>2. SetTypeOK' /\ CmdTypeOK'
      BY <2>3 DEF TypeOK, SetTypeOK, CmdTypeOK, setVars, cmdVars
    <3>3. QED
      BY <3>1, <3>2 DEF TypeOK, CloudTypeOK
  <2>4. CASE UNCHANGED vars
    BY <2>4 DEF vars, TypeOK, SetTypeOK, CmdTypeOK, setVars, cmdVars, cloudVars
  <2>5. QED
    BY <2>1, <2>2, <2>3, <2>4 DEF Next
<1>3. QED
  BY <1>1, <1>2, PTL DEF Spec

-----------------------------------------------------------------------------
(***************************************************************************)
(* One command for each run: a run that has sent is over.                  *)
(***************************************************************************)

SentDone ==
  \A c \in sent : /\ c.job \in SetJobs => setPc[c.job] = "done"
                  /\ c.job \in CmdJobs => cmdPc[c.job] = "done"

LEMMA SentDoneInductive == TypeOK /\ SentDone /\ [Next]_vars => SentDone'
<1> SUFFICES ASSUME TypeOK, SentDone, [Next]_vars
    PROVE  SentDone'
  OBVIOUS
<1>1. ASSUME NEW j \in SetJobs, SetStep(j), UNCHANGED cmdVars
      PROVE  SentDone'
  <2>1. setPc[j] # "done" /\ \A k \in SetJobs : k # j => setPc'[k] = setPc[k]
    BY <1>1 DEF TypeOK, SetTypeOK, SetStep, SetBegin, SetBadTime, SetLogin, SetNoDevice,
                SetChoose, SetShow, SetDryRun, SetPost, SetAbort, SetGoto, SetStop
  <2>2. CASE sent' = sent
    BY <1>1, <2>1, <2>2 DEF SentDone, cmdVars
  <2>3. ASSUME NEW answer \in Answer, SetPost(j, answer)
        PROVE  SentDone'
    <3>1. setPc'[j] = "done" /\ \A c \in sent' \ sent : c.job = j
      BY <2>3 DEF SetPost, SetStop, SetGoto, Transmit, TypeOK, SetTypeOK
    <3>2. j \notin CmdJobs
      BY JobsAssumption
    <3>3. QED
      BY <1>1, <2>1, <3>1, <3>2 DEF SentDone, cmdVars
  <2>4. QED
    BY <1>1, <2>2, <2>3 DEF SetStep, SetBegin, SetBadTime, SetLogin, SetNoDevice, SetChoose,
                            SetShow, SetDryRun, SetAbort, cloudVars
<1>2. ASSUME NEW j \in CmdJobs, CmdStep(j), UNCHANGED setVars
      PROVE  SentDone'
  <2>1. cmdPc[j] # "done" /\ \A k \in CmdJobs : k # j => cmdPc'[k] = cmdPc[k]
    BY <1>2 DEF TypeOK, CmdTypeOK, CmdStep, CmdRefuse, CmdBegin, CmdLogin, CmdNoDevice,
                CmdChoose, CmdDryRun, CmdPost, CmdAbort, CmdGoto, CmdStop
  <2>2. CASE sent' = sent
    BY <1>2, <2>1, <2>2 DEF SentDone, setVars
  <2>3. ASSUME NEW time, NEW answer, CmdPost(j, time, answer)
        PROVE  SentDone'
    <3>1. cmdPc'[j] = "done" /\ \A c \in sent' \ sent : c.job = j
      BY <2>3 DEF CmdPost, CmdStop, CmdGoto, Transmit, TypeOK, CmdTypeOK
    <3>2. j \notin SetJobs
      BY JobsAssumption
    <3>3. QED
      BY <1>2, <2>1, <3>1, <3>2 DEF SentDone, setVars
  <2>4. QED
    BY <1>2, <2>2, <2>3 DEF CmdStep, CmdRefuse, CmdBegin, CmdLogin, CmdNoDevice, CmdChoose,
                            CmdDryRun, CmdAbort, cloudVars
<1>3. CASE Cloud /\ UNCHANGED <<setVars, cmdVars>>
  BY <1>3 DEF SentDone, Cloud, Tick, Execute, Ignore, setVars, cmdVars
<1>4. CASE UNCHANGED vars
  BY <1>4 DEF SentDone, vars, cloudVars, setVars, cmdVars
<1>5. QED
  BY <1>1, <1>2, <1>3, <1>4 DEF Next

LEMMA SentDoneInvariant == Spec => []SentDone
<1>1. Init => SentDone
  BY DEF Init, CloudInit, SentDone
<1>2. QED
  BY <1>1, SentDoneInductive, TypeCorrect, PTL DEF Spec

-----------------------------------------------------------------------------
(***************************************************************************)
(* What send_command.py sends.                                             *)
(***************************************************************************)

\* The parameters a run is about to send with command line a.
Meant(a, params, shown) ==
  /\ Commands[a.verb].risk => shown
  /\ params = "default" => Commands[a.verb].default /\ {a.set, a.json} = {"no"}

Asked ==
  \A j \in CmdJobs : cmdPc[j] \in {"login", "choose", "send"} =>
    Meant(cmdArg[j], cmdParams[j], cmdShown[j])

LEMMA AskedInductive ==
  TypeOK /\ SentDone /\ Asked /\ SentAsAsked /\ [Next]_vars => Asked' /\ SentAsAsked'
<1> SUFFICES ASSUME TypeOK, SentDone, Asked, SentAsAsked, [Next]_vars
    PROVE  Asked' /\ SentAsAsked'
  OBVIOUS
\* A step that keeps the run and sends none of its commands.
<1>1. CASE /\ UNCHANGED cmdVars
           /\ \A c \in sent' \ sent : c.job \notin CmdJobs
  BY <1>1 DEF Asked, SentAsAsked, cmdVars
<1>2. ASSUME NEW j \in CmdJobs, NEW a \in CmdArg, CmdBegin(j, a)
      PROVE  Asked' /\ SentAsAsked'
  <2>1. Meant(a, IF "good" \in {a.set, a.json} THEN "typed" ELSE "default",
              Commands[a.verb].risk)
    BY <1>2 DEF CmdBegin, Plausible, Meant
  <2>2. /\ cmdArg' = [cmdArg EXCEPT ![j] = a]
        /\ cmdParams' = [cmdParams EXCEPT
                           ![j] = IF "good" \in {a.set, a.json} THEN "typed" ELSE "default"]
        /\ cmdShown' = [cmdShown EXCEPT ![j] = Commands[a.verb].risk]
        /\ cmdPc' = [cmdPc EXCEPT ![j] = "login"]
        /\ sent' = sent
    BY <1>2 DEF CmdBegin, CmdGoto, cloudVars
  <2>3. Asked'
    BY <2>1, <2>2 DEF Asked, Meant, TypeOK, CmdTypeOK
  <2>4. \A c \in sent : c.job # j
    BY <1>2 DEF SentDone, CmdBegin
  <2>5. QED
    BY <2>2, <2>3, <2>4 DEF SentAsAsked, TypeOK, CmdTypeOK
\* The rest of a run keeps what it is about to send.
<1>3. ASSUME NEW j \in CmdJobs, UNCHANGED <<cmdArg, cmdParams, cmdShown, sent>>,
             \A k \in CmdJobs : cmdPc'[k] \in {"login", "choose", "send"} =>
                                  cmdPc[k] \in {"login", "choose", "send"}
      PROVE  Asked' /\ SentAsAsked'
  BY <1>3 DEF Asked, SentAsAsked
<1>4. ASSUME NEW j \in CmdJobs, NEW time, NEW answer, CmdPost(j, time, answer)
      PROVE  Asked' /\ SentAsAsked'
  <2>1. sent' = sent \cup {[job |-> j, verb |-> cmdArg[j].verb, serial |-> cmdSerial[j],
                            params |-> cmdParams[j], time |-> time]}
    BY <1>4 DEF CmdPost, Transmit
  <2>2. Meant(cmdArg[j], cmdParams[j], cmdShown[j])
    BY <1>4 DEF CmdPost, Asked
  <2>3. UNCHANGED <<cmdArg, cmdParams, cmdShown>> /\ cmdPc' = [cmdPc EXCEPT ![j] = "done"]
    BY <1>4 DEF CmdPost, CmdStop, CmdGoto
  <2>4. Asked'
    BY <2>3 DEF Asked, TypeOK, CmdTypeOK
  <2>5. SentAsAsked'
    BY <2>1, <2>2, <2>3 DEF SentAsAsked, Meant
  <2>6. QED
    BY <2>4, <2>5
<1>5. ASSUME NEW j \in CmdJobs, CmdStep(j)
      PROVE  Asked' /\ SentAsAsked'
  <2>1. CASE \/ \E a \in CmdArg : CmdRefuse(j, a)
             \/ CmdLogin(j) \/ CmdNoDevice(j) \/ CmdDryRun(j) \/ CmdAbort(j)
             \/ \E s \in Serials : CmdChoose(j, s)
    <3>1. UNCHANGED <<cmdArg, cmdParams, cmdShown, sent>>
      BY <2>1 DEF CmdRefuse, CmdLogin, CmdNoDevice, CmdDryRun, CmdAbort, CmdChoose, cloudVars
    <3>2. \A k \in CmdJobs : cmdPc'[k] \in {"login", "choose", "send"} =>
                               cmdPc[k] \in {"login", "choose", "send"}
      BY <2>1 DEF CmdRefuse, CmdLogin, CmdNoDevice, CmdDryRun, CmdAbort, CmdChoose, CmdStop,
                  CmdGoto, TypeOK, CmdTypeOK
    <3>3. QED
      BY <1>3, <3>1, <3>2
  <2>2. QED
    BY <1>2, <1>4, <1>5, <2>1 DEF CmdStep
<1>6. ASSUME NEW j \in SetJobs, SetStep(j), UNCHANGED cmdVars
      PROVE  Asked' /\ SentAsAsked'
  <2>1. \A c \in sent' \ sent : c.job = j
    <3>1. CASE \E answer \in Answer : SetPost(j, answer)
      BY <3>1 DEF SetPost, Transmit
    <3>2. QED
      BY <1>6, <3>1 DEF SetStep, SetBegin, SetBadTime, SetLogin, SetNoDevice, SetChoose,
                        SetShow, SetDryRun, SetAbort, cloudVars
  <2>2. QED
    BY <1>1, <1>6, <2>1, JobsAssumption
<1>7. CASE Cloud /\ UNCHANGED <<setVars, cmdVars>>
  BY <1>1, <1>7 DEF Cloud, Tick, Execute, Ignore
<1>8. CASE UNCHANGED vars
  BY <1>1, <1>8 DEF vars, cloudVars
<1>9. QED
  BY <1>5, <1>6, <1>7, <1>8 DEF Next

\* A risky command is sent only after its risk was shown, and no default replaces
\* parameters the user gave or makes up for those a command has no safe default of.
THEOREM CommandsAsAsked == Spec => []SentAsAsked
<1>1. Init => Asked /\ SentAsAsked
  BY DEF Init, CloudInit, CmdInit, Asked, SentAsAsked
<1>2. QED
  BY <1>1, AskedInductive, TypeCorrect, SentDoneInvariant, PTL DEF Spec

-----------------------------------------------------------------------------
(***************************************************************************)
(* The clock.                                                              *)
(***************************************************************************)

\* A target that was computed is in the past, wherever it is on its way to the device.
Past ==
  /\ \A j \in SetJobs : setPc[j] \notin {"start", "done"} /\ setArg[j].time = NoTime =>
                          setTime[j] <= now
  /\ \A j \in CmdJobs : cmdParams[j] # "now"
  /\ \A c \in sent : c.params = "now" => c.time <= now

LEMMA PastInductive == TypeOK /\ Past /\ NeverAhead /\ [Next]_vars => Past' /\ NeverAhead'
<1> SUFFICES ASSUME TypeOK, Past, NeverAhead, [Next]_vars
    PROVE  Past' /\ NeverAhead'
  OBVIOUS
<1> USE DEF Past, NeverAhead
<1>1. now \in Nat /\ \A j \in SetJobs : setTime[j] \in Nat
  BY CloudAssumption DEF TypeOK, SetTypeOK, Times
<1>2. ASSUME NEW j \in SetJobs, SetStep(j), UNCHANGED cmdVars
      PROVE  Past' /\ NeverAhead'
  <2>1. ASSUME NEW a \in SetArg, SetBegin(j, a)
        PROVE  Past' /\ NeverAhead'
    BY <1>1, <1>2, <2>1 DEF SetBegin, SetGoto, cloudVars, cmdVars, TypeOK, SetTypeOK
  <2>2. ASSUME NEW answer \in Answer, SetPost(j, answer)
        PROVE  Past' /\ NeverAhead'
    <3>1. \A c \in sent' \ sent : c.params = "now" => c.time <= now
      BY <2>2 DEF SetPost, Transmit
    <3>2. setPc' = [setPc EXCEPT ![j] = "done"] /\ UNCHANGED <<setArg, setTime, now, clock>>
      BY <2>2 DEF SetPost, SetStop, SetGoto, Transmit
    <3>3. QED
      BY <1>2, <3>1, <3>2 DEF cmdVars, TypeOK, SetTypeOK
  <2>3. CASE \/ SetBadTime(j) \/ SetLogin(j) \/ SetNoDevice(j) \/ SetShow(j)
             \/ SetDryRun(j) \/ SetAbort(j)
             \/ \E s \in Serials : SetChoose(j, s)
    <3>1. UNCHANGED <<setArg, setTime, cloudVars>>
      BY <2>3 DEF SetBadTime, SetLogin, SetNoDevice, SetShow, SetDryRun, SetAbort, SetChoose
    <3>2. \A k \in SetJobs : setPc'[k] \notin {"start", "done"} =>
                               setPc[k] \notin {"start", "done"}
      BY <2>3 DEF SetBadTime, SetLogin, SetNoDevice, SetShow, SetDryRun, SetAbort, SetChoose,
                  SetStop, SetGoto, TypeOK, SetTypeOK
    <3>3. QED
      BY <1>2, <3>1, <3>2 DEF cloudVars, cmdVars
  <2>4. QED
    BY <1>2, <2>1, <2>2, <2>3 DEF SetStep
<1>3. ASSUME NEW j \in CmdJobs, CmdStep(j), UNCHANGED setVars
      PROVE  Past' /\ NeverAhead'
  <2>1. UNCHANGED <<now, clock>> /\ \A k \in CmdJobs : cmdParams'[k] # "now"
    <3>1. CASE \E time \in Typed \cup {0}, answer \in Answer : CmdPost(j, time, answer)
      BY <3>1 DEF CmdPost, Transmit
    <3>2. QED
      BY <1>3, <3>1 DEF CmdStep, CmdRefuse, CmdBegin, CmdLogin, CmdNoDevice, CmdChoose,
                        CmdDryRun, CmdAbort, cloudVars, TypeOK, CmdTypeOK
  <2>2. \A c \in sent' \ sent : c.params # "now"
    <3>1. CASE \E time \in Typed \cup {0}, answer \in Answer : CmdPost(j, time, answer)
      BY <3>1 DEF CmdPost, Transmit
    <3>2. QED
      BY <1>3, <3>1 DEF CmdStep, CmdRefuse, CmdBegin, CmdLogin, CmdNoDevice, CmdChoose,
                        CmdDryRun, CmdAbort, cloudVars
  <2>3. QED
    BY <1>3, <2>1, <2>2 DEF setVars
<1>4. CASE Cloud /\ UNCHANGED <<setVars, cmdVars>>
  <2>1. CASE Tick
    <3>1. \A c \in sent : c.time \in Nat
      BY CloudAssumption DEF TypeOK, Command, Times
    <3>2. QED
      BY <1>1, <1>4, <2>1, <3>1 DEF Tick, setVars, cmdVars
  <2>2. ASSUME NEW c \in inbox, Execute(c)
        PROVE  Past' /\ NeverAhead'
    <3>1. c \in sent /\ c.serial \in Serials
      BY DEF TypeOK, Command
    <3>2. NeverAhead'
      BY <2>2, <3>1 DEF Execute, TypeOK
    <3>3. QED
      BY <1>4, <2>2, <3>2 DEF Execute, setVars, cmdVars
  <2>3. ASSUME NEW c \in inbox, Ignore(c)
        PROVE  Past' /\ NeverAhead'
    BY <1>4, <2>3 DEF Ignore, setVars, cmdVars
  <2>4. QED
    BY <1>4, <2>1, <2>2, <2>3 DEF Cloud
<1>5. CASE UNCHANGED vars
  BY <1>5 DEF vars, cloudVars, setVars, cmdVars
<1>6. QED
  BY <1>2, <1>3, <1>4, <1>5 DEF Next

\* A clock set to "now" is never ahead, however long the password, the cloud and the device
\* take.
THEOREM ClockNeverAhead == Spec => []NeverAhead
<1>1. Init => Past /\ NeverAhead
  BY DEF Init, CloudInit, SetInit, CmdInit, Past, NeverAhead
<1>2. QED
  BY <1>1, PastInductive, TypeCorrect, PTL DEF Spec

-----------------------------------------------------------------------------
(***************************************************************************)
(* The two tools implement CommandTool.  A step of a run is an abstract    *)
(* Start, Post or Finish of that run, or a stutter; what a Post needs is   *)
(* that the device was chosen as the user wanted, and that the run has not *)
(* sent before.                                                            *)
(***************************************************************************)

\* The device a run works on was asked for, or is the only one on the account.
Wanted(argument, s) == argument = s \/ (argument = NoSerial /\ registry = {s})

Chosen ==
  /\ \A j \in SetJobs : setPc[j] \in {"data", "send"} => Wanted(setArg[j].serial, setSerial[j])
  /\ \A j \in CmdJobs : cmdPc[j] = "send" => Wanted(cmdArg[j].serial, cmdSerial[j])

\* Nothing changes the account.
LEMMA RegistryKept == [Next]_vars => UNCHANGED registry
<1> SUFFICES ASSUME [Next]_vars PROVE UNCHANGED registry
  OBVIOUS
<1>1. ASSUME NEW j \in SetJobs, SetStep(j) PROVE UNCHANGED registry
  <2>1. CASE \E answer \in Answer : SetPost(j, answer)
    BY <2>1 DEF SetPost, Transmit
  <2>2. QED
    BY <1>1, <2>1 DEF SetStep, SetBegin, SetBadTime, SetLogin, SetNoDevice, SetChoose,
                      SetShow, SetDryRun, SetAbort, cloudVars
<1>2. ASSUME NEW j \in CmdJobs, CmdStep(j) PROVE UNCHANGED registry
  <2>1. CASE \E time \in Typed \cup {0}, answer \in Answer : CmdPost(j, time, answer)
    BY <2>1 DEF CmdPost, Transmit
  <2>2. QED
    BY <1>2, <2>1 DEF CmdStep, CmdRefuse, CmdBegin, CmdLogin, CmdNoDevice, CmdChoose,
                      CmdDryRun, CmdAbort, cloudVars
<1>3. QED
  BY <1>1, <1>2 DEF Next, Cloud, Tick, Execute, Ignore, vars, cloudVars

LEMMA ChosenInductive == TypeOK /\ Chosen /\ [Next]_vars => Chosen'
<1> SUFFICES ASSUME TypeOK, Chosen, [Next]_vars
    PROVE  Chosen'
  OBVIOUS
<1>1. UNCHANGED registry
  BY RegistryKept
<1>2. ASSUME NEW j \in SetJobs, SetStep(j), UNCHANGED cmdVars
      PROVE  Chosen'
  <2>1. \A k \in SetJobs : setPc'[k] \in {"data", "send"} =>
                             Wanted(setArg'[k].serial, setSerial'[k])
    BY <1>2 DEF SetStep, SetBegin, SetBadTime, SetLogin, SetNoDevice, SetChoose, SetShow,
                SetDryRun, SetPost, SetAbort, SetStop, SetGoto, Chosen, Wanted, TypeOK,
                SetTypeOK
  <2>2. QED
    BY <1>1, <1>2, <2>1 DEF Chosen, Wanted, cmdVars
<1>3. ASSUME NEW j \in CmdJobs, CmdStep(j), UNCHANGED setVars
      PROVE  Chosen'
  <2>1. \A k \in CmdJobs : cmdPc'[k] = "send" => Wanted(cmdArg'[k].serial, cmdSerial'[k])
    BY <1>3 DEF CmdStep, CmdRefuse, CmdBegin, CmdLogin, CmdNoDevice, CmdChoose, CmdDryRun,
                CmdPost, CmdAbort, CmdStop, CmdGoto, Chosen, Wanted, TypeOK, CmdTypeOK
  <2>2. QED
    BY <1>1, <1>3, <2>1 DEF Chosen, Wanted, setVars
<1>4. CASE UNCHANGED <<setVars, cmdVars>>
  BY <1>1, <1>4 DEF Chosen, Wanted, setVars, cmdVars
<1>5. QED
  BY <1>2, <1>3, <1>4 DEF Next, vars

LEMMA ChosenInvariant == Spec => []Chosen
<1>1. Init => Chosen
  BY DEF Init, SetInit, CmdInit, Chosen
<1>2. QED
  BY <1>1, ChosenInductive, TypeCorrect, PTL DEF Spec

-----------------------------------------------------------------------------
\* The order of a run, and what it has sent, as CommandTool sees them.
OrderOf == [j \in Jobs |-> IF j \in SetJobs THEN SetOrder(j) ELSE CmdOrder(j)]
PostedOf == {[job |-> c.job, serial |-> c.serial] : c \in sent}

\* The three kinds of steps, in the terms of this module.
Starts(j) ==
  \E o \in [apply : BOOLEAN, serial : Serials \cup {NoSerial}] :
    OrderOf[j] = {} /\ OrderOf' = [OrderOf EXCEPT ![j] = {o}] /\ PostedOf' = PostedOf
Posts(j) ==
  \E s \in Serials :
    /\ \E o \in OrderOf[j] : o.apply /\ Wanted(o.serial, s)
    /\ \A p \in PostedOf : p.job # j
    /\ PostedOf' = PostedOf \cup {[job |-> j, serial |-> s]}
    /\ OrderOf' = [OrderOf EXCEPT ![j] = {}]
Finishes(j) == OrderOf' = [OrderOf EXCEPT ![j] = {}] /\ PostedOf' = PostedOf
Stutters == OrderOf' = OrderOf /\ PostedOf' = PostedOf
Abstract(j) == Starts(j) \/ Posts(j) \/ Finishes(j) \/ Stutters

\* A step of set_device_time.py.
LEMMA SetSimulates ==
  ASSUME TypeOK, Chosen, SentDone, NEW j \in SetJobs, SetStep(j), UNCHANGED cmdVars
  PROVE  Abstract(j)
<1>1. j \in Jobs /\ OrderOf[j] = SetOrder(j)
  BY DEF OrderOf, Jobs
<1>2. \A k \in Jobs : k # j => OrderOf'[k] = OrderOf[k]
  <2>1. \A k \in SetJobs : k # j => setPc'[k] = setPc[k] /\ setArg'[k] = setArg[k]
    BY DEF SetStep, SetBegin, SetBadTime, SetLogin, SetNoDevice, SetChoose, SetShow,
           SetDryRun, SetPost, SetAbort, SetStop, SetGoto, TypeOK, SetTypeOK
  <2>2. QED
    BY <2>1 DEF OrderOf, SetOrder, CmdOrder, cmdVars
<1>3. OrderOf' = [OrderOf EXCEPT ![j] = SetOrder(j)']
  BY <1>1, <1>2 DEF OrderOf
<1>4. ASSUME NEW a \in SetArg, SetBegin(j, a)
      PROVE  Starts(j)
  <2>1. SetOrder(j) = {} /\ SetOrder(j)' = {[apply |-> a.apply, serial |-> a.serial]}
    BY <1>4 DEF SetBegin, SetGoto, SetOrder, TypeOK, SetTypeOK
  <2>2. [apply |-> a.apply, serial |-> a.serial]
          \in [apply : BOOLEAN, serial : Serials \cup {NoSerial}]
    BY DEF SetArg
  <2>3. PostedOf' = PostedOf
    BY <1>4 DEF SetBegin, cloudVars, PostedOf
  <2>4. QED
    BY <1>1, <1>3, <2>1, <2>2, <2>3 DEF Starts
<1>5. ASSUME setPc'[j] = "done", UNCHANGED cloudVars
      PROVE  Finishes(j)
  BY <1>3, <1>5 DEF SetOrder, Finishes, PostedOf, cloudVars
<1>6. ASSUME setPc[j] \notin {"start", "done"}, setPc'[j] \notin {"start", "done"},
             UNCHANGED <<setArg, cloudVars>>
      PROVE  Stutters
  <2>1. SetOrder(j)' = SetOrder(j)
    BY <1>6 DEF SetOrder
  <2>2. OrderOf' = OrderOf
    BY <1>1, <1>3, <2>1 DEF OrderOf
  <2>3. QED
    BY <1>6, <2>2 DEF Stutters, PostedOf, cloudVars
<1>7. ASSUME NEW answer \in Answer, SetPost(j, answer)
      PROVE  Posts(j)
  <2>1. setSerial[j] \in Serials /\ Wanted(setArg[j].serial, setSerial[j]) /\ setArg[j].apply
    BY <1>7 DEF SetPost, Chosen, TypeOK, SetTypeOK
  <2>2. OrderOf[j] = {[apply |-> setArg[j].apply, serial |-> setArg[j].serial]}
    BY <1>1, <1>7 DEF SetPost, SetOrder
  <2>3. \A p \in PostedOf : p.job # j
    BY <1>7 DEF SetPost, SentDone, PostedOf
  <2>4. PostedOf' = PostedOf \cup {[job |-> j, serial |-> setSerial[j]]}
    <3> DEFINE c == [job |-> j, verb |-> "timeDate.set", serial |-> setSerial[j],
                     params |-> IF setArg[j].time = NoTime THEN "now" ELSE "typed",
                     time |-> setTime[j]]
    <3>1. sent' = sent \cup {c} /\ c.job = j /\ c.serial = setSerial[j]
      BY <1>7 DEF SetPost, Transmit
    <3> HIDE DEF c
    <3>2. QED
      BY <3>1 DEF PostedOf
  <2>5. SetOrder(j)' = {}
    BY <1>7 DEF SetPost, SetStop, SetGoto, SetOrder, TypeOK, SetTypeOK
  <2>6. QED
    BY <1>3, <2>1, <2>2, <2>3, <2>4, <2>5 DEF Posts
<1>8. CASE SetBadTime(j) \/ SetNoDevice(j) \/ SetDryRun(j) \/ SetAbort(j)
  BY <1>5, <1>8 DEF SetBadTime, SetNoDevice, SetDryRun, SetAbort, SetStop, SetGoto, TypeOK,
                    SetTypeOK, Abstract
<1>9. CASE SetLogin(j)
  BY <1>5, <1>6, <1>9 DEF SetLogin, SetStop, SetGoto, TypeOK, SetTypeOK, Abstract
<1>10. CASE SetShow(j) \/ \E s \in Serials : SetChoose(j, s)
  BY <1>6, <1>10 DEF SetShow, SetChoose, SetGoto, TypeOK, SetTypeOK, Abstract
<1>11. QED
  BY <1>4, <1>7, <1>8, <1>9, <1>10 DEF SetStep, Abstract

\* A step of send_command.py.
LEMMA CmdSimulates ==
  ASSUME TypeOK, Chosen, SentDone, NEW j \in CmdJobs, CmdStep(j), UNCHANGED setVars
  PROVE  Abstract(j)
<1>1. j \in Jobs /\ OrderOf[j] = CmdOrder(j)
  BY JobsAssumption DEF OrderOf, Jobs
<1>2. \A k \in Jobs : k # j => OrderOf'[k] = OrderOf[k]
  <2>1. \A k \in CmdJobs : k # j => cmdPc'[k] = cmdPc[k] /\ cmdArg'[k] = cmdArg[k]
    BY DEF CmdStep, CmdRefuse, CmdBegin, CmdLogin, CmdNoDevice, CmdChoose, CmdDryRun, CmdPost,
           CmdAbort, CmdStop, CmdGoto, TypeOK, CmdTypeOK
  <2>2. QED
    BY <2>1 DEF OrderOf, SetOrder, CmdOrder, setVars, Jobs
<1>3. OrderOf' = [OrderOf EXCEPT ![j] = CmdOrder(j)']
  BY <1>1, <1>2, JobsAssumption DEF OrderOf
<1>4. ASSUME NEW a \in CmdArg, CmdBegin(j, a)
      PROVE  Starts(j)
  <2>1. CmdOrder(j) = {} /\ CmdOrder(j)' = {[apply |-> a.apply, serial |-> a.serial]}
    BY <1>4 DEF CmdBegin, CmdGoto, CmdOrder, TypeOK, CmdTypeOK
  <2>2. [apply |-> a.apply, serial |-> a.serial]
          \in [apply : BOOLEAN, serial : Serials \cup {NoSerial}]
    BY DEF CmdArg
  <2>3. PostedOf' = PostedOf
    BY <1>4 DEF CmdBegin, cloudVars, PostedOf
  <2>4. QED
    BY <1>1, <1>3, <2>1, <2>2, <2>3 DEF Starts
<1>5. ASSUME cmdPc'[j] = "done", UNCHANGED cloudVars
      PROVE  Finishes(j)
  BY <1>3, <1>5 DEF CmdOrder, Finishes, PostedOf, cloudVars
<1>6. ASSUME cmdPc[j] \notin {"start", "done"}, cmdPc'[j] \notin {"start", "done"},
             UNCHANGED <<cmdArg, cloudVars>>
      PROVE  Stutters
  <2>1. CmdOrder(j)' = CmdOrder(j)
    BY <1>6 DEF CmdOrder
  <2>2. OrderOf' = OrderOf
    BY <1>1, <1>3, <2>1 DEF OrderOf
  <2>3. QED
    BY <1>6, <2>2 DEF Stutters, PostedOf, cloudVars
<1>7. ASSUME NEW time, NEW answer, CmdPost(j, time, answer)
      PROVE  Posts(j)
  <2>1. cmdSerial[j] \in Serials /\ Wanted(cmdArg[j].serial, cmdSerial[j]) /\ cmdArg[j].apply
    BY <1>7 DEF CmdPost, Chosen, TypeOK, CmdTypeOK
  <2>2. OrderOf[j] = {[apply |-> cmdArg[j].apply, serial |-> cmdArg[j].serial]}
    BY <1>1, <1>7 DEF CmdPost, CmdOrder
  <2>3. \A p \in PostedOf : p.job # j
    BY <1>7 DEF CmdPost, SentDone, PostedOf
  <2>4. PostedOf' = PostedOf \cup {[job |-> j, serial |-> cmdSerial[j]]}
    <3> DEFINE c == [job |-> j, verb |-> cmdArg[j].verb, serial |-> cmdSerial[j],
                     params |-> cmdParams[j], time |-> time]
    <3>1. sent' = sent \cup {c} /\ c.job = j /\ c.serial = cmdSerial[j]
      BY <1>7 DEF CmdPost, Transmit
    <3> HIDE DEF c
    <3>2. QED
      BY <3>1 DEF PostedOf
  <2>5. CmdOrder(j)' = {}
    BY <1>7 DEF CmdPost, CmdStop, CmdGoto, CmdOrder, TypeOK, CmdTypeOK
  <2>6. QED
    BY <1>3, <2>1, <2>2, <2>3, <2>4, <2>5 DEF Posts
<1>8. CASE CmdNoDevice(j) \/ CmdDryRun(j) \/ CmdAbort(j) \/ \E a \in CmdArg : CmdRefuse(j, a)
  BY <1>5, <1>8 DEF CmdRefuse, CmdNoDevice, CmdDryRun, CmdAbort, CmdStop, CmdGoto, TypeOK,
                    CmdTypeOK, Abstract
<1>9. CASE CmdLogin(j)
  BY <1>5, <1>6, <1>9 DEF CmdLogin, CmdStop, CmdGoto, TypeOK, CmdTypeOK, Abstract
<1>10. CASE \E s \in Serials : CmdChoose(j, s)
  BY <1>6, <1>10 DEF CmdChoose, CmdGoto, TypeOK, CmdTypeOK, Abstract
<1>11. QED
  BY <1>4, <1>7, <1>8, <1>9, <1>10 DEF CmdStep, Abstract

\* "Dry run by default", one command for each run, and never a guess at the device, for any
\* number of runs of the two tools at once.
THEOREM ToolsImplementCommandTool == Spec => ImplementsCommandTool
<1>1. Init => Tool!Init
  <2> SUFFICES ASSUME Init PROVE Tool!Init
    OBVIOUS
  <2>1. \A j \in Jobs : (IF j \in SetJobs THEN SetOrder(j) ELSE CmdOrder(j)) = {}
    BY DEF Init, SetInit, CmdInit, SetOrder, CmdOrder, Jobs
  <2>2. QED
    BY <2>1 DEF Tool!Init, Init, CloudInit
<1>2. TypeOK /\ Chosen /\ SentDone /\ [Next]_vars => [Tool!Next]_(Tool!vars)
  <2> SUFFICES ASSUME TypeOK, Chosen, SentDone, [Next]_vars
      PROVE  [Tool!Next]_(Tool!vars)
    OBVIOUS
  <2>1. UNCHANGED registry
    BY RegistryKept
  <2>2. ASSUME NEW j \in Jobs, Abstract(j)
        PROVE  [Tool!Next]_(Tool!vars)
    <3>1. CASE Starts(j)
      BY <2>1, <3>1 DEF Starts, OrderOf, PostedOf, Tool!Next, Tool!Start, Tool!Order
    <3>2. CASE Posts(j)
      BY <2>1, <3>2 DEF Posts, Wanted, OrderOf, PostedOf, Tool!Next, Tool!Post
    <3>3. CASE Finishes(j)
      BY <2>1, <3>3 DEF Finishes, OrderOf, PostedOf, Tool!Next, Tool!Finish
    <3>4. CASE Stutters
      BY <2>1, <3>4 DEF Stutters, OrderOf, PostedOf, Tool!vars
    <3>5. QED
      BY <2>2, <3>1, <3>2, <3>3, <3>4 DEF Abstract
  <2>3. CASE UNCHANGED <<setVars, cmdVars, sent>>
    <3>1. OrderOf' = OrderOf /\ PostedOf' = PostedOf
      BY <2>3 DEF OrderOf, SetOrder, CmdOrder, PostedOf, setVars, cmdVars
    <3>2. QED
      BY <2>1, <3>1 DEF OrderOf, PostedOf, Tool!vars
  <2>4. ASSUME NEW j \in SetJobs, SetStep(j), UNCHANGED cmdVars
        PROVE  [Tool!Next]_(Tool!vars)
    BY <2>2, <2>4, SetSimulates DEF Jobs
  <2>5. ASSUME NEW j \in CmdJobs, CmdStep(j), UNCHANGED setVars
        PROVE  [Tool!Next]_(Tool!vars)
    BY <2>2, <2>5, CmdSimulates DEF Jobs
  <2>6. QED
    BY <2>3, <2>4, <2>5 DEF Next, Cloud, Tick, Execute, Ignore, vars, cloudVars
<1>3. QED
  BY <1>1, <1>2, TypeCorrect, ChosenInvariant, SentDoneInvariant, PTL
     DEF Spec, ImplementsCommandTool, Tool!Spec
=============================================================================
