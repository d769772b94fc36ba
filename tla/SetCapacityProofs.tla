------------------------- MODULE SetCapacityProofs --------------------------
(***************************************************************************)
(* Proofs about SetCapacity, for any devices, values and readings, and any *)
(* number of runs.                                                         *)
(***************************************************************************)
EXTENDS SetCapacity, TLAPS

\* Every variable of the tool, the cloud and the devices keeps its type, whatever the
\* user asks for and the cloud answers.
THEOREM TypeCorrect == Spec => []TypeOK
<1>1. Init => TypeOK
  BY ValuesAssumption, SentinelAssumption DEF Init, TypeOK, Arg, Readings, Verdict, Command
<1>2. TypeOK /\ [Next]_vars => TypeOK'
  <2> SUFFICES ASSUME TypeOK, [Next]_vars
      PROVE  TypeOK'
    OBVIOUS
  <2> USE DEF TypeOK, toolVars, disk, cloudVars
  <2>1. CASE \E a \in Arg : Begin(a)
    <3>1. run' \in 0 .. Runs /\ run' > 0
      BY <2>1, ValuesAssumption DEF Begin
    <3>2. arg' \in Arg /\ before' \in Readings /\ verdict' \in Verdict
      BY <2>1 DEF Begin, Readings, Verdict
    <3>3. pc' = "login" /\ serial' = NoSerial /\ UNCHANGED <<disk, sent, inbox, cloudVars>>
      BY <2>1 DEF Begin
    <3>4. QED
      BY <3>1, <3>2, <3>3
  <2>2. CASE Login \/ LoginFails \/ RegistryFails \/ NoDevice \/ NoDatapoints \/ Refuse
             \/ DryRun \/ Abort \/ \E now \in Readings : ReadBack(now)
    BY <2>2 DEF Login, LoginFails, RegistryFails, NoDevice, NoDatapoints, Refuse, DryRun,
                Abort, ReadBack, Stop, Verdict
  <2>3. CASE \E s \in Serials : ChooseDevice(s)
    BY <2>3 DEF ChooseDevice
  <2>4. CASE ReadBefore
    BY <2>4 DEF ReadBefore
  <2>5. ASSUME NEW stamp \in Stamps, SaveBefore(stamp) \/ SaveFails(stamp)
        PROVE  TypeOK'
    <3> DEFINE file == [stamp |-> stamp, serial |-> serial, reading |-> before]
    <3>1. file \in File
      BY <2>5 DEF SaveBefore, SaveFails, File
    <3>2. files' \in SUBSET (files \cup {file}) /\ replaced' \in SUBSET (files \cup replaced)
      BY <2>5 DEF SaveBefore, SaveFails, OpenFile
    <3> HIDE DEF file
    <3>3. files' \in SUBSET File /\ replaced' \in SUBSET File
      BY <3>1, <3>2
    <3>4. /\ pc' \in {"decide", "idle"} /\ verdict' \in Verdict /\ pc = "save"
          /\ UNCHANGED <<run, arg, serial, before, sent, inbox, cloudVars>>
      BY <2>5 DEF SaveBefore, SaveFails, Stop, Verdict
    <3>5. QED
      BY <3>3, <3>4
  <2>6. ASSUME NEW answer \in Answer, Send(answer)
        PROVE  TypeOK'
    <3> DEFINE command == [run |-> run, serial |-> serial, value |-> arg.value]
    <3>1. command \in Command
      BY <2>6, ValuesAssumption DEF Send, Command, Arg
    <3>2. sent' = sent \cup {command} /\ inbox' \in SUBSET (inbox \cup {command})
      BY <2>6 DEF Send
    <3>3. pc' \in {"wait", "idle"} /\ verdict' \in Verdict
      BY <2>6 DEF Send, Stop, Verdict
    <3> HIDE DEF command
    <3>4. UNCHANGED <<toolVars, cloudVars>> /\ pc = "decide"
      BY <2>6 DEF Send
    <3>5. QED
      BY <3>1, <3>2, <3>3, <3>4
  <2>7. ASSUME NEW command \in inbox, NEW executes \in BOOLEAN,
               DeviceChecksIn(command, executes)
        PROVE  TypeOK'
    <3>1. command \in sent /\ command.serial \in Serials /\ command.value \in Readings
      BY DEF Command, Readings
    <3>2. QED
      BY <2>7, <3>1 DEF DeviceChecksIn
  <2>8. CASE \E s \in Serials : DeviceReports(s)
    BY <2>8 DEF DeviceReports
  <2>9. CASE \E s \in Serials, value \in Values : SomeoneElseSets(s, value)
    BY <2>9 DEF SomeoneElseSets, Readings
  <2>10. CASE UNCHANGED vars
    BY <2>10 DEF vars
  <2>11. QED
    BY <2>1, <2>2, <2>3, <2>4, <2>5, <2>6, <2>7, <2>8, <2>9, <2>10 DEF Next, Tool, World
<1>3. QED
  BY <1>1, <1>2, PTL DEF Spec

-----------------------------------------------------------------------------

\* The device a run works on was asked for, or is the only one on the account.
Chosen ==
  pc \in {"before", "save", "decide", "wait"} =>
    serial = arg.serial \/ (arg.serial = NoSerial /\ registry = {serial})

LEMMA ChosenInvariant == Spec => []Chosen
<1>1. Init => Chosen
  BY DEF Init, Chosen
<1>2. Chosen /\ [Next]_vars => Chosen'
  BY DEF Chosen, Next, Tool, World, vars, toolVars, cloudVars, Begin, Login, LoginFails,
         RegistryFails, NoDevice, ChooseDevice, ReadBefore, NoDatapoints, SaveBefore, SaveFails,
         Refuse, DryRun, Send, ReadBack, Abort, Stop, DeviceChecksIn, DeviceReports, SomeoneElseSets
<1>3. QED
  BY <1>1, <1>2, PTL DEF Spec

\* A command is posted with --apply only, with the value asked for, if it is plausible for
\* the device, and to the device asked for or the only one there is; and what is refused
\* is not plausible.
THEOREM Deliberate == Spec => CommandDeliberate
<1> DEFINE Meant(c) == /\ arg.apply
                       /\ c.value = arg.value
                       /\ arg.serial = c.serial \/ (arg.serial = NoSerial /\ registry = {c.serial})
                       /\ Plausible(tank[c.serial], c.value)
<1>1. ASSUME TypeOK, NEW s \in Serials
      PROVE  Plausible(tank[s], arg.value) <=> ~ OutsideBand(tank[s], arg.value)
  <2>1. tank[s].resin \in Nat /\ tank[s].hardness \in Nat /\ arg.value \in Nat
    BY <1>1, ValuesAssumption DEF TypeOK, Arg
  <2>2. arg.value * tank[s].hardness \in Nat
    BY <2>1
  <2>3. 3 * arg.value * tank[s].hardness = 3 * (arg.value * tank[s].hardness)
        /\ 2 * arg.value * tank[s].hardness = 2 * (arg.value * tank[s].hardness)
    BY <2>1
  <2>4. QED
    BY <2>1, <2>2, <2>3 DEF Plausible, OutsideBand
<1>2. TypeOK /\ Chosen /\ Next => \A c \in sent' \ sent : Meant(c)
  <2> SUFFICES ASSUME TypeOK, Chosen, Next, NEW c \in sent' \ sent
      PROVE  Meant(c)
    OBVIOUS
  <2>1. PICK answer \in Answer : Send(answer)
    BY DEF Next, Tool, World, toolVars, cloudVars, Begin, Login, LoginFails, RegistryFails,
           NoDevice, ChooseDevice, ReadBefore, NoDatapoints, SaveBefore, SaveFails, Refuse,
           DryRun, ReadBack, Abort, DeviceChecksIn, DeviceReports, SomeoneElseSets
  <2>2. c.serial = serial /\ c.value = arg.value /\ serial \in Serials
    BY <2>1 DEF Send, TypeOK
  <2>3. Plausible(tank[serial], arg.value)
    BY <1>1, <2>1, <2>2 DEF Send
  <2>4. QED
    BY <2>1, <2>2, <2>3 DEF Send, Chosen
<1>3. TypeOK /\ Next /\ verdict # "REFUSED" /\ verdict' = "REFUSED" =>
        ~ Plausible(tank[serial], arg.value)
  <2> SUFFICES ASSUME TypeOK, Next, verdict # "REFUSED", verdict' = "REFUSED"
      PROVE  ~ Plausible(tank[serial], arg.value)
    OBVIOUS
  <2>1. Refuse
    BY DEF Next, Tool, World, toolVars, cloudVars, Begin, Login, LoginFails, RegistryFails,
           NoDevice, ChooseDevice, ReadBefore, NoDatapoints, SaveBefore, SaveFails, DryRun, Send,
           ReadBack, Abort, Stop, DeviceChecksIn, DeviceReports, SomeoneElseSets
  <2>2. serial \in Serials
    BY <2>1 DEF Refuse, TypeOK
  <2>3. QED
    BY <1>1, <2>1, <2>2 DEF Refuse
<1>4. TypeOK /\ Chosen /\ [Next]_vars =>
        [/\ \A c \in sent' \ sent : Meant(c)
         /\ verdict # "REFUSED" /\ verdict' = "REFUSED" =>
              ~ Plausible(tank[serial], arg.value)]_vars
  BY <1>2, <1>3
<1>5. QED
  BY <1>4, TypeCorrect, ChosenInvariant, PTL DEF Spec, CommandDeliberate

-----------------------------------------------------------------------------
(***************************************************************************)
(* The evidence.  EvidenceSurvives speaks of commands that were sent; it   *)
(* is inductive together with what the run at hand has read and saved, and *)
(* with the readings of the devices nobody has touched so far.             *)
(***************************************************************************)

Untouched(s) == s \notin foreign /\ \A c \in sent : c.serial # s

\* The first reading of s is on file, or was until another run opened that file.
OnFile(s) == \E f \in files \cup replaced : f.serial = s /\ f.reading = original[s]

\* A device without commands, and without other users, is as it was.
UntouchedAsBefore ==
  \A s \in Serials : Untouched(s) => device[s] = original[s] /\ telemetry[s] = original[s]

\* What the run is about to save is the first reading, unless the device has been
\* written before; and what it has saved is.
ReadingKept == pc = "save" /\ Untouched(serial) => before = original[serial]
SavedFirst == pc = "decide" /\ serial \notin foreign => OnFile(serial)

Evidence == UntouchedAsBefore /\ ReadingKept /\ SavedFirst /\ EvidenceSurvives

LEMMA EvidenceInductive == TypeOK /\ Evidence /\ [Next]_vars => Evidence'
<1> SUFFICES ASSUME TypeOK, Evidence, [Next]_vars
    PROVE  Evidence'
  OBVIOUS
<1> USE DEF Untouched, OnFile, disk
\* A step that sends nothing, keeps the files, and enters neither "save" nor "decide".
<1>1. ASSUME UNCHANGED <<disk, sent, device, telemetry, foreign, original>>,
             pc' \notin {"save", "decide"}
      PROVE  Evidence'
  BY <1>1 DEF Evidence, UntouchedAsBefore, ReadingKept, SavedFirst, EvidenceSurvives
<1>2. CASE \/ \E a \in Arg : Begin(a)
           \/ Login \/ LoginFails \/ RegistryFails \/ NoDevice \/ NoDatapoints \/ Refuse
           \/ DryRun \/ Abort
           \/ \E s \in Serials : ChooseDevice(s)
           \/ \E now \in Readings : ReadBack(now)
  BY <1>1, <1>2 DEF Begin, Login, LoginFails, RegistryFails, NoDevice, NoDatapoints, Refuse,
                    DryRun, Abort, ChooseDevice, ReadBack, Stop, toolVars, cloudVars
<1>3. CASE ReadBefore
  BY <1>3 DEF ReadBefore, cloudVars, TypeOK, Evidence, UntouchedAsBefore, ReadingKept,
              SavedFirst, EvidenceSurvives
<1>4. ASSUME NEW stamp \in Stamps, SaveBefore(stamp)
      PROVE  Evidence'
  <2> DEFINE file == [stamp |-> stamp, serial |-> serial, reading |-> before]
  <2>1. /\ pc = "save" /\ pc' = "decide" /\ serial \in Serials
        /\ files' \cup replaced' = files \cup replaced \cup {file}
        /\ UNCHANGED <<serial, sent, device, telemetry, foreign, original>>
    BY <1>4 DEF SaveBefore, OpenFile, cloudVars, TypeOK
  <2>2. file.serial = serial /\ file.reading = before
    OBVIOUS
  <2> HIDE DEF file
  <2>3. ASSUME NEW s, OnFile(s)
        PROVE  OnFile(s)'
    BY <2>1, <2>3
  <2>4. serial \notin foreign => OnFile(serial)'
    <3>1. CASE Untouched(serial)
      BY <3>1, <2>1, <2>2 DEF Evidence, ReadingKept
    <3>2. CASE \E c \in sent : c.serial = serial
      BY <3>2, <2>1, <2>3 DEF Evidence, EvidenceSurvives
    <3>3. QED
      BY <3>1, <3>2
  <2>5. EvidenceSurvives'
    BY <2>1, <2>3 DEF Evidence, EvidenceSurvives
  <2>6. QED
    BY <2>1, <2>4, <2>5 DEF Evidence, UntouchedAsBefore, ReadingKept, SavedFirst
<1>5. ASSUME NEW answer \in Answer, Send(answer)
      PROVE  Evidence'
  <2> DEFINE command == [run |-> run, serial |-> serial, value |-> arg.value]
  <2>1. /\ pc = "decide" /\ pc' \in {"wait", "idle"}
        /\ sent' = sent \cup {command}
        /\ UNCHANGED <<serial, disk, device, telemetry, foreign, original>>
    BY <1>5 DEF Send, Stop, toolVars, cloudVars
  <2>2. command.serial = serial
    OBVIOUS
  <2> HIDE DEF command
  <2>3. EvidenceSurvives'
    BY <2>1, <2>2 DEF Evidence, SavedFirst, EvidenceSurvives
  <2>4. QED
    BY <2>1, <2>3 DEF Evidence, UntouchedAsBefore, ReadingKept, SavedFirst
\* What the world does changes no reading of an untouched device.
<1>6. ASSUME UNCHANGED <<pc, serial, before, disk, sent, original>>,
             foreign \subseteq foreign',
             UntouchedAsBefore'
      PROVE  Evidence'
  BY <1>6 DEF Evidence, ReadingKept, SavedFirst, EvidenceSurvives
<1>7. ASSUME NEW c \in inbox, NEW executes \in BOOLEAN, DeviceChecksIn(c, executes)
      PROVE  Evidence'
  <2>1. c \in sent
    BY DEF TypeOK
  <2>2. UntouchedAsBefore'
    BY <1>7, <2>1 DEF DeviceChecksIn, toolVars, TypeOK, Evidence, UntouchedAsBefore
  <2>3. QED
    BY <1>6, <1>7, <2>2 DEF DeviceChecksIn, toolVars
<1>8. ASSUME NEW s \in Serials, DeviceReports(s)
      PROVE  Evidence'
  <2>1. UntouchedAsBefore'
    BY <1>8 DEF DeviceReports, toolVars, TypeOK, Evidence, UntouchedAsBefore
  <2>2. QED
    BY <1>6, <1>8, <2>1 DEF DeviceReports, toolVars
<1>9. ASSUME NEW s \in Serials, NEW value \in Values, SomeoneElseSets(s, value)
      PROVE  Evidence'
  <2>1. UntouchedAsBefore'
    BY <1>9 DEF SomeoneElseSets, toolVars, TypeOK, Evidence, UntouchedAsBefore
  <2>2. QED
    BY <1>6, <1>9, <2>1 DEF SomeoneElseSets, toolVars
<1>10. CASE UNCHANGED vars
  BY <1>10 DEF vars, toolVars, cloudVars, Evidence, UntouchedAsBefore, ReadingKept, SavedFirst,
               EvidenceSurvives
<1>11. ASSUME NEW stamp \in Stamps, SaveFails(stamp)
       PROVE  Evidence'
  <2>1. /\ pc' = "idle"
        /\ files' \cup replaced' = files \cup replaced
        /\ UNCHANGED <<serial, sent, device, telemetry, foreign, original>>
    BY <1>11 DEF SaveFails, OpenFile, Stop, cloudVars
  <2>2. QED
    BY <2>1 DEF Evidence, UntouchedAsBefore, ReadingKept, SavedFirst, EvidenceSurvives
<1>12. QED
  BY <1>2, <1>3, <1>4, <1>5, <1>7, <1>8, <1>9, <1>10, <1>11 DEF Next, Tool,
     World

\* Once a command for a device was sent, the reading from before any of them is on file, or
\* was until a run in the same second of the local clock, however often the tool is run and
\* however its runs end.
THEOREM EvidenceKept == Spec => []EvidenceSurvives
<1>1. Init => Evidence
  BY DEF Init, Evidence, UntouchedAsBefore, ReadingKept, SavedFirst, EvidenceSurvives, Untouched
<1>2. Evidence => EvidenceSurvives
  BY DEF Evidence
<1>3. QED
  BY <1>1, <1>2, EvidenceInductive, TypeCorrect, PTL DEF Spec

-----------------------------------------------------------------------------
(***************************************************************************)
(* APPLIED.  The read-back compares with the value asked for; the verdict  *)
(* is right if the reading could not have come about without a command.    *)
(***************************************************************************)

\* A device has executed a command that sets s to value.
Executed(s, value) == \E c \in applied : c.serial = s /\ c.value = value

\* The capacity of a device without other users comes from the last command it executed,
\* or else it is the first one; what the cloud knows may be the first reading longer.
DeviceExplained ==
  \A s \in Serials \ foreign :
    \/ Executed(s, device[s])
    \/ device[s] = original[s] /\ \A c \in applied : c.serial # s
TelemetryExplained ==
  \A s \in Serials \ foreign : telemetry[s] = original[s] \/ Executed(s, telemetry[s])

\* If the run has read another value than the first, so will every later reading.
ReadingExplained ==
  pc \in {"save", "decide", "wait"} /\ serial \notin foreign =>
    before = original[serial] \/ Executed(serial, telemetry[serial])

\* A run that goes on has not printed its verdict.
NoVerdictYet == pc # "idle" => verdict = "none"

Readback ==
  DeviceExplained /\ TelemetryExplained /\ ReadingExplained /\ NoVerdictYet /\ AppliedIsExecuted

LEMMA ReadbackInductive == TypeOK /\ Readback /\ [Next]_vars => Readback'
<1> SUFFICES ASSUME TypeOK, Readback, [Next]_vars
    PROVE  Readback'
  OBVIOUS
<1> USE DEF Executed
<1> DEFINE Quiet == UNCHANGED <<device, telemetry, applied, foreign, original>>
\* A step of the tool that prints no APPLIED and does not enter the part after the reading.
<1>1. ASSUME Quiet, pc' = "idle" \/ verdict' = "none", verdict' # "APPLIED",
             pc' \in {"save", "decide", "wait"} =>
               pc \in {"save", "decide", "wait"} /\ UNCHANGED <<serial, before>>
      PROVE  Readback'
  BY <1>1 DEF Readback, DeviceExplained, TelemetryExplained, ReadingExplained, NoVerdictYet,
              AppliedIsExecuted
<1>2. CASE \/ \E a \in Arg : Begin(a)
           \/ Login \/ LoginFails \/ RegistryFails \/ NoDevice \/ NoDatapoints \/ Refuse
           \/ DryRun \/ Abort \/ \E stamp \in Stamps : SaveBefore(stamp) \/ SaveFails(stamp)
           \/ \E s \in Serials : ChooseDevice(s)
           \/ \E answer \in Answer : Send(answer)
  <2>1. pc # "idle" => verdict = "none"
    BY DEF Readback, NoVerdictYet
  <2>2. QED
    BY <1>1, <1>2, <2>1
       DEF Begin, Login, LoginFails, RegistryFails, NoDevice, NoDatapoints, Refuse, DryRun,
           Abort, SaveBefore, SaveFails, ChooseDevice, Send, Stop, toolVars, cloudVars
<1>3. CASE ReadBefore
  <2>1. Quiet /\ pc = "before" /\ pc' = "save" /\ before' = telemetry[serial]
          /\ UNCHANGED <<serial, verdict>> /\ serial \in Serials /\ verdict = "none"
    BY <1>3 DEF ReadBefore, cloudVars, TypeOK, Readback, NoVerdictYet
  <2>2. QED
    BY <2>1 DEF Readback, DeviceExplained, TelemetryExplained, ReadingExplained, NoVerdictYet,
                AppliedIsExecuted
<1>4. ASSUME NEW now \in Readings, ReadBack(now)
      PROVE  Readback'
  <2>1. /\ Quiet /\ pc = "wait" /\ pc' = "idle" /\ serial \in Serials
        /\ UNCHANGED <<arg, serial, before>>
        /\ verdict' = "APPLIED" => now = arg.value
    BY <1>4 DEF ReadBack, Stop, toolVars, cloudVars, TypeOK
  <2>2. now = arg.value => telemetry[serial] = arg.value
    BY <1>4, SentinelAssumption DEF ReadBack, TypeOK, Arg
  <2>3. AppliedIsExecuted'
    BY <2>1, <2>2 DEF Readback, TelemetryExplained, ReadingExplained, AppliedIsExecuted
  <2>4. QED
    BY <2>1, <2>3 DEF Readback, DeviceExplained, TelemetryExplained, ReadingExplained,
                      NoVerdictYet
\* What the devices and their users do leaves the tool alone, and takes no execution back.
<1>5. ASSUME UNCHANGED <<pc, arg, serial, before, verdict, original>>,
             telemetry' = telemetry, applied \subseteq applied', foreign \subseteq foreign',
             DeviceExplained', TelemetryExplained'
      PROVE  Readback'
  BY <1>5 DEF Readback, ReadingExplained, NoVerdictYet, AppliedIsExecuted, TypeOK
<1>6. ASSUME NEW c \in inbox, NEW executes \in BOOLEAN, DeviceChecksIn(c, executes)
      PROVE  Readback'
  <2>1. c.serial \in Serials
    BY DEF TypeOK, Command
  <2>2. DeviceExplained'
    BY <1>6, <2>1 DEF DeviceChecksIn, TypeOK, Readback, DeviceExplained
  <2>3. TelemetryExplained'
    BY <1>6 DEF DeviceChecksIn, Readback, TelemetryExplained
  <2>4. QED
    BY <1>5, <1>6, <2>2, <2>3 DEF DeviceChecksIn, toolVars
<1>7. ASSUME NEW s \in Serials, DeviceReports(s)
      PROVE  Readback'
  <2>1. /\ telemetry' = [telemetry EXCEPT ![s] = device[s]]
        /\ telemetry \in [Serials -> Readings]
        /\ UNCHANGED <<pc, arg, serial, before, verdict, device, applied, foreign, original>>
    BY <1>7 DEF DeviceReports, toolVars, TypeOK
  <2>2. DeviceExplained' /\ TelemetryExplained'
    BY <2>1 DEF Readback, DeviceExplained, TelemetryExplained
  <2>3. ASSUME s \notin foreign, Executed(s, telemetry[s])
        PROVE  Executed(s, device[s])
    BY <2>3 DEF Readback, DeviceExplained
  <2>4. ReadingExplained'
    BY <2>1, <2>3 DEF Readback, ReadingExplained, TypeOK
  <2>5. QED
    BY <2>1, <2>2, <2>4 DEF Readback, NoVerdictYet, AppliedIsExecuted
<1>8. ASSUME NEW s \in Serials, NEW value \in Values, SomeoneElseSets(s, value)
      PROVE  Readback'
  <2>1. DeviceExplained' /\ TelemetryExplained'
    BY <1>8 DEF SomeoneElseSets, TypeOK, Readback, DeviceExplained, TelemetryExplained
  <2>2. QED
    BY <1>5, <1>8, <2>1 DEF SomeoneElseSets, toolVars
<1>9. CASE UNCHANGED vars
  BY <1>9 DEF vars, toolVars, cloudVars, Readback, DeviceExplained, TelemetryExplained,
              ReadingExplained, NoVerdictYet, AppliedIsExecuted
<1>10. QED
  BY <1>2, <1>3, <1>4, <1>6, <1>7, <1>8, <1>9 DEF Next, Tool, World

\* APPLIED means that a device has executed a command with this value, unless the value
\* was there before or someone else could have set it.
THEOREM AppliedExecuted == Spec => []AppliedIsExecuted
<1>1. Init => Readback
  BY DEF Init, Readback, DeviceExplained, TelemetryExplained, ReadingExplained, NoVerdictYet,
         AppliedIsExecuted, Executed
<1>2. Readback => AppliedIsExecuted
  BY DEF Readback
<1>3. QED
  BY <1>1, <1>2, ReadbackInductive, TypeCorrect, PTL DEF Spec

-----------------------------------------------------------------------------
(***************************************************************************)
(* The tool implements CommandTool, as set_device_time.py and              *)
(* send_command.py do.                                                     *)
(***************************************************************************)

Jobs == 1 .. Runs
OrderOf ==
  [j \in Jobs |->
     IF j = run /\ pc # "idle" THEN {[apply |-> arg.apply, serial |-> arg.serial]} ELSE {}]
PostedOf == {[job |-> c.run, serial |-> c.serial] : c \in sent}

CT == INSTANCE CommandTool WITH order <- OrderOf, posted <- PostedOf

\* No command is of a run to come, and a run that has sent one is waiting or over.
SentOnce == \A c \in sent : c.run <= run /\ (c.run = run => pc \in {"wait", "idle"})

LEMMA SentOnceInductive == TypeOK /\ SentOnce /\ [Next]_vars => SentOnce'
<1> SUFFICES ASSUME TypeOK, SentOnce, [Next]_vars
    PROVE  SentOnce'
  OBVIOUS
<1> USE DEF SentOnce, toolVars, cloudVars
<1>1. run \in Nat /\ \A c \in sent : c.run \in Nat
  BY ValuesAssumption DEF TypeOK, Command
<1>2. CASE \E a \in Arg : Begin(a)
  BY <1>1, <1>2 DEF Begin
<1>3. CASE \E answer \in Answer : Send(answer)
  BY <1>1, <1>3 DEF Send, Stop
<1>4. CASE World
  BY <1>4 DEF World, DeviceChecksIn, DeviceReports, SomeoneElseSets
<1>5. CASE \/ Login \/ LoginFails \/ RegistryFails \/ NoDevice \/ ReadBefore \/ NoDatapoints
           \/ Refuse \/ DryRun \/ Abort
           \/ \E stamp \in Stamps : SaveBefore(stamp) \/ SaveFails(stamp)
           \/ \E s \in Serials : ChooseDevice(s)
           \/ \E now \in Readings : ReadBack(now)
  BY <1>5 DEF Login, LoginFails, RegistryFails, NoDevice, ReadBefore, NoDatapoints,
              SaveBefore, SaveFails, Refuse, DryRun, Abort, ChooseDevice, ReadBack, Stop
<1>6. CASE UNCHANGED vars
  BY <1>6 DEF vars
<1>7. QED
  BY <1>2, <1>3, <1>4, <1>5, <1>6 DEF Next, Tool

LEMMA SentOnceInvariant == Spec => []SentOnce
<1>1. Init => SentOnce
  BY DEF Init, SentOnce
<1>2. QED
  BY <1>1, SentOnceInductive, TypeCorrect, PTL DEF Spec

\* A step that ends a run, or keeps it, and sends nothing.
LEMMA QuietStep ==
  ASSUME TypeOK, UNCHANGED <<run, arg, sent, registry>>,
         pc' = "idle" \/ (pc # "idle" /\ pc' # "idle") \/ pc' = pc
  PROVE  [CT!Next]_(CT!vars)
<1>1. PostedOf' = PostedOf
  BY DEF PostedOf
<1>2. CASE pc' = "idle" /\ run \in Jobs
  <2>1. OrderOf' = [OrderOf EXCEPT ![run] = {}]
    BY <1>2 DEF OrderOf
  <2>2. CT!Finish(run)
    BY <1>1, <2>1 DEF CT!Finish
  <2>3. QED
    BY <1>2, <2>2 DEF CT!Next
<1>3. CASE ~ (pc' = "idle" /\ run \in Jobs)
  <2>1. OrderOf' = OrderOf
    BY <1>3 DEF OrderOf
  <2>2. QED
    BY <1>1, <2>1 DEF CT!vars
<1>4. QED
  BY <1>2, <1>3

\* Dry run by default, one command for each run, and never a guess at the device.
THEOREM ImplementsCommandTool == Spec => CT!Spec
<1>1. Init => CT!Init
  BY DEF Init, CT!Init, OrderOf, PostedOf, Jobs
<1>2. TypeOK /\ Chosen /\ SentOnce /\ [Next]_vars => [CT!Next]_(CT!vars)
  <2> SUFFICES ASSUME TypeOK, Chosen, SentOnce, [Next]_vars
      PROVE  [CT!Next]_(CT!vars)
    OBVIOUS
  <2>1. ASSUME NEW a \in Arg, Begin(a)
        PROVE  CT!Next
    <3>1. run + 1 \in Jobs /\ run' = run + 1 /\ run \in Nat
      BY <2>1, ValuesAssumption DEF Begin, TypeOK, Jobs
    <3>2. OrderOf = [j \in Jobs |-> {}] /\ PostedOf' = PostedOf
      BY <2>1 DEF Begin, OrderOf, PostedOf
    <3>3. OrderOf' = [j \in Jobs |-> IF j = run + 1
                                     THEN {[apply |-> a.apply, serial |-> a.serial]} ELSE {}]
      BY <2>1 DEF Begin, OrderOf
    <3>4. OrderOf' = [OrderOf EXCEPT ![run + 1] = {[apply |-> a.apply, serial |-> a.serial]}]
      BY <3>1, <3>2, <3>3
    <3>5. [apply |-> a.apply, serial |-> a.serial] \in CT!Order
      BY DEF Arg, CT!Order
    <3>6. CT!Start(run + 1, [apply |-> a.apply, serial |-> a.serial])
      BY <2>1, <3>1, <3>2, <3>4 DEF CT!Start, Begin, cloudVars
    <3>7. QED
      BY <3>1, <3>5, <3>6 DEF CT!Next
  <2>2. ASSUME NEW answer \in Answer, Send(answer)
        PROVE  CT!Next
    <3>1. run \in Jobs /\ serial \in Serials /\ arg.apply
      BY <2>2, ValuesAssumption DEF Send, TypeOK, Jobs
    <3>2. OrderOf[run] = {[apply |-> arg.apply, serial |-> arg.serial]}
      BY <2>2, <3>1 DEF Send, OrderOf
    <3>3. arg.serial = serial \/ (arg.serial = NoSerial /\ registry = {serial})
      BY <2>2 DEF Send, Chosen
    <3>4. \A p \in PostedOf : p.job # run
      BY <2>2 DEF Send, SentOnce, PostedOf
    <3>5. PostedOf' = PostedOf \cup {[job |-> run, serial |-> serial]}
      <4> DEFINE c == [run |-> run, serial |-> serial, value |-> arg.value]
      <4>1. sent' = sent \cup {c} /\ c.run = run /\ c.serial = serial
        BY <2>2 DEF Send
      <4> HIDE DEF c
      <4>2. QED
        BY <4>1 DEF PostedOf
    <3>6. OrderOf' \in {OrderOf, [OrderOf EXCEPT ![run] = {}]}
      <4>1. CASE pc' = "idle"
        BY <2>2, <4>1 DEF Send, OrderOf, toolVars
      <4>2. CASE pc' # "idle"
        BY <2>2, <4>2 DEF Send, OrderOf, toolVars
      <4>3. QED
        BY <4>1, <4>2
    <3>7. CT!Post(run, serial)
      BY <2>2, <3>1, <3>2, <3>3, <3>4, <3>5, <3>6 DEF CT!Post, Send, cloudVars
    <3>8. QED
      BY <3>1, <3>7 DEF CT!Next
  <2>3. CASE \/ Login \/ LoginFails \/ RegistryFails \/ NoDevice \/ ReadBefore
             \/ NoDatapoints \/ Refuse \/ DryRun \/ Abort
             \/ \E stamp \in Stamps : SaveBefore(stamp) \/ SaveFails(stamp)
             \/ \E s \in Serials : ChooseDevice(s)
             \/ \E now \in Readings : ReadBack(now)
    <3>1. UNCHANGED <<run, arg, sent, registry>> /\ pc # "idle"
      BY <2>3 DEF Login, LoginFails, RegistryFails, NoDevice, ReadBefore, NoDatapoints,
                  SaveBefore, SaveFails, Refuse, DryRun, Abort, ChooseDevice, ReadBack, Stop,
                  toolVars, cloudVars
    <3>2. QED
      BY <3>1, QuietStep
  <2>4. CASE World \/ UNCHANGED vars
    <3>1. UNCHANGED <<run, arg, sent, registry, pc>>
      BY <2>4 DEF World, DeviceChecksIn, DeviceReports, SomeoneElseSets, vars, toolVars,
                  cloudVars
    <3>2. QED
      BY <3>1, QuietStep
  <2>5. QED
    BY <2>1, <2>2, <2>3, <2>4 DEF Next, Tool
<1>3. QED
  BY <1>1, <1>2, TypeCorrect, ChosenInvariant, SentOnceInvariant, PTL DEF Spec, CT!Spec
=============================================================================
