-------------------------- MODULE ProbeCertProofs ---------------------------
(***************************************************************************)
(* Proofs about ProbeCert, for any host names and any number of runs.      *)
(***************************************************************************)
EXTENDS ProbeCert, TLAPS

Crt == [state : FileState, made : 0 .. Runs, names : SUBSET Hosts]
Key == [state : FileState, made : 0 .. Runs]

\* The files are named after a host name, which is one of those of the certificate.
LEMMA FileNameListed ==
  ASSUME NEW l \in HostLists
  PROVE  FileName(l) \in Hosts /\ FileName(l) \in Range(l) /\ Range(l) \subseteq Hosts
  BY DEF HostLists, FileName, Range

\* What a generator makes has the type of the files.
LEMMA NewFiles ==
  ASSUME TypeOK
  PROVE  NewCrt \in Crt /\ NewKey \in Key /\ FileName(hosts) \in Hosts
  BY FileNameListed DEF TypeOK, NewCrt, NewKey, Crt, Key, FileState

\* A file that is opened, or cut off, is partial.
LEMMA PartialFiles ==
  ASSUME TypeOK
  PROVE  /\ [crt EXCEPT ![FileName(hosts)].state = "partial"] \in [Hosts -> Crt]
         /\ [key EXCEPT ![FileName(hosts)].state = "partial"] \in [Hosts -> Key]
<1> DEFINE f == FileName(hosts)
<1>1. f \in Hosts
  BY FileNameListed DEF TypeOK
<1>2. crt \in [Hosts -> Crt] /\ key \in [Hosts -> Key]
  BY DEF TypeOK, Crt, Key
<1> HIDE DEF f
<1>3. [crt[f] EXCEPT !.state = "partial"] \in Crt
  BY <1>1, <1>2 DEF Crt, FileState
<1>4. [key[f] EXCEPT !.state = "partial"] \in Key
  BY <1>1, <1>2 DEF Key, FileState
<1>5. [crt EXCEPT ![f].state = "partial"] \in [Hosts -> Crt]
  BY <1>1, <1>2, <1>3
<1>6. [key EXCEPT ![f].state = "partial"] \in [Hosts -> Key]
  BY <1>1, <1>2, <1>4
<1>7. QED
  BY <1>5, <1>6 DEF f

\* No other file is touched.
LEMMA PartialElsewhere ==
  ASSUME TypeOK, NEW h \in Hosts
  PROVE  LET c == [crt EXCEPT ![FileName(hosts)].state = "partial"] IN
           c[h].state = "partial" \/ c[h] = crt[h]
<1>1. crt \in [Hosts -> Crt]
  BY DEF TypeOK, Crt
<1>2. CASE h = FileName(hosts)
  <2>1. crt[h] \in Crt
    BY <1>1
  <2>2. [crt[h] EXCEPT !.state = "partial"].state = "partial"
    BY <2>1 DEF Crt
  <2>3. QED
    BY <1>1, <1>2, <2>2
<1>3. CASE h # FileName(hosts)
  BY <1>1, <1>3
<1>4. QED
  BY <1>2, <1>3

\* A file that is cut off keeps its type, and the other files are as they were.
LEMMA HalfDoneTypes ==
  ASSUME TypeOK, CutOff
  PROVE  crt' \in [Hosts -> Crt] /\ key' \in [Hosts -> Key]
<1>1. crt \in [Hosts -> Crt] /\ key \in [Hosts -> Key]
  BY DEF TypeOK, Crt, Key
<1>2. [crt EXCEPT ![FileName(hosts)].state = "partial"] \in [Hosts -> Crt]
  BY <1>1, PartialFiles
<1>3. [key EXCEPT ![FileName(hosts)].state = "partial"] \in [Hosts -> Key]
  BY <1>1, PartialFiles
<1>4. QED
  BY <1>1, <1>2, <1>3 DEF CutOff, HalfDone

\* Every variable of the probe and its files keeps its type.
THEOREM TypeCorrect == Spec => []TypeOK
<1>1. Init => TypeOK
  <2> SUFFICES ASSUME Init PROVE TypeOK
    OBVIOUS
  <2>1. 0 \in 0 .. Runs
    BY RunsAssumption
  <2>2. [state |-> "absent", made |-> 0, names |-> {}] \in Crt
    BY <2>1 DEF Crt, FileState
  <2>3. [state |-> "absent", made |-> 0] \in Key
    BY <2>1 DEF Key, FileState
  <2>4. crt \in [Hosts -> Crt] /\ key \in [Hosts -> Key]
    BY <2>2, <2>3 DEF Init
  <2>5. QED
    BY <2>1, <2>4 DEF Init, TypeOK, Crt, Key
<1>2. TypeOK /\ [Next]_vars => TypeOK'
  <2> SUFFICES ASSUME TypeOK, [Next]_vars
      PROVE  TypeOK'
    OBVIOUS
  <2>1. ASSUME NEW l \in HostLists, Begin(l)
        PROVE  TypeOK'
    BY <2>1, RunsAssumption DEF TypeOK, Begin
  <2>2. CASE ChooseGenerator
    BY <2>2 DEF TypeOK, ChooseGenerator
  <2>3. CASE OpenCrt \/ OpenKey
    BY <2>3, PartialFiles DEF TypeOK, OpenCrt, OpenKey, Crt, Key
  <2>4. CASE WriteCrt \/ OpensslCrt
    <3>1. crt' \in [Hosts -> Crt]
      BY <2>4, NewFiles DEF TypeOK, WriteCrt, OpensslCrt, Crt
    <3>2. QED
      BY <2>4, <3>1 DEF TypeOK, WriteCrt, OpensslCrt, Crt
  <2>5. CASE WriteKey \/ OpensslKey
    <3>1. key' \in [Hosts -> Key]
      BY <2>5, NewFiles DEF TypeOK, WriteKey, OpensslKey, Key
    <3>2. QED
      BY <2>5, <3>1 DEF TypeOK, WriteKey, OpensslKey, Key
  <2>6. CASE CutOff
    <3>1. FileName(hosts) \in Hosts
      BY FileNameListed DEF TypeOK
    <3>2. cut' \in SUBSET Hosts
      BY <2>6, <3>1 DEF TypeOK, CutOff
    <3>3. QED
      BY <2>6, <3>2, HalfDoneTypes DEF TypeOK, CutOff, Crt, Key
  <2>7. CASE Load
    <3>1. unloaded' \in SUBSET Hosts
      BY <2>7, FileNameListed DEF TypeOK, Load
    <3>2. QED
      BY <2>7, <3>1 DEF TypeOK, Load
  <2>8. CASE Stop
    BY <2>8 DEF TypeOK, Stop
  <2>9. CASE UNCHANGED vars
    BY <2>9 DEF TypeOK, vars
  <2>10. QED
    BY <2>1, <2>2, <2>3, <2>4, <2>5, <2>6, <2>7, <2>8, <2>9 DEF Next, OpensslFails, Kill
<1>3. QED
  BY <1>1, <1>2, PTL DEF Spec

-----------------------------------------------------------------------------
\* A whole certificate has the name its file has; and what is served is whole.
Covered ==
  /\ \A h \in Hosts : crt[h].state = "whole" => h \in crt[h].names
  /\ pc = "serving" => crt[FileName(hosts)].state = "whole"

LEMMA CoveredInductive == TypeOK /\ Covered /\ [Next]_vars => Covered'
<1> SUFFICES ASSUME TypeOK, Covered, [Next]_vars
    PROVE  Covered'
  OBVIOUS
<1>1. FileName(hosts) \in Hosts /\ FileName(hosts) \in Range(hosts)
  BY FileNameListed DEF TypeOK
<1> USE DEF Covered
<1>2. CASE WriteCrt \/ OpensslCrt
  <2>1. crt' = [crt EXCEPT ![FileName(hosts)] = NewCrt] /\ pc' # "serving"
    BY <1>2 DEF WriteCrt, OpensslCrt
  <2>2. NewCrt.names = Range(hosts)
    BY DEF NewCrt
  <2>3. QED
    BY <1>1, <2>1, <2>2 DEF TypeOK
<1>3. CASE OpenCrt
  BY <1>3, PartialElsewhere DEF OpenCrt
<1>4. CASE CutOff
  <2>1. \A h \in Hosts : crt'[h].state = "whole" => crt'[h] = crt[h]
    BY <1>4, PartialElsewhere DEF CutOff, HalfDone
  <2>2. QED
    BY <1>4, <2>1 DEF CutOff
<1>5. CASE Load
  BY <1>5 DEF Load, Loads
<1>6. CASE ChooseGenerator \/ OpenKey \/ WriteKey \/ OpensslKey \/ Stop
             \/ \E l \in HostLists : Begin(l)
  BY <1>6 DEF ChooseGenerator, OpenKey, WriteKey, OpensslKey, Stop, Begin
<1>7. CASE UNCHANGED vars
  BY <1>7 DEF vars
<1>8. QED
  BY <1>2, <1>3, <1>4, <1>5, <1>6, <1>7 DEF Next, OpensslFails, Kill

\* The certificate that is served names the first host, whatever runs came before.
THEOREM FirstHostIsCovered == Spec => []FirstHostCovered
<1>1. Init => Covered
  BY DEF Init, Covered
<1>2. TypeOK /\ Covered => FirstHostCovered
  BY FileNameListed DEF TypeOK, Covered, FirstHostCovered, FileName
<1>3. QED
  BY <1>1, <1>2, CoveredInductive, TypeCorrect, PTL DEF Spec

-----------------------------------------------------------------------------
(***************************************************************************)
(* Unless they were cut off, the two files of a name are a pair or do not  *)
(* exist, but for the name whose files are being written: of those the     *)
(* first is whole, and of this run.                                        *)
(***************************************************************************)

Paired(h) ==
  \/ crt[h].state = "absent" /\ key[h].state = "absent"
  \/ crt[h].state = "whole" /\ key[h].state = "whole" /\ crt[h].made = key[h].made

WritingSteps == {"crt text", "key", "key text", "openssl crt"}

Consistent ==
  /\ \A h \in Hosts \ cut : Paired(h) \/ (h = FileName(hosts) /\ pc \in WritingSteps)
  /\ pc \in {"key", "key text"} =>
       crt[FileName(hosts)].state = "whole" /\ crt[FileName(hosts)].made = run
  /\ pc = "openssl crt" =>
       key[FileName(hosts)].state = "whole" /\ key[FileName(hosts)].made = run
  /\ pc = "load" => Loads \/ FileName(hosts) \in cut
  /\ unloaded \subseteq cut

LEMMA ConsistentInductive == TypeOK /\ Consistent /\ [Next]_vars => Consistent'
<1> SUFFICES ASSUME TypeOK, Consistent, [Next]_vars
    PROVE  Consistent'
  OBVIOUS
<1> USE DEF Consistent, Paired, WritingSteps, Loads
<1>1. FileName(hosts) \in Hosts
  BY FileNameListed DEF TypeOK
<1>3. ASSUME NEW l \in HostLists, Begin(l)
      PROVE  Consistent'
  <2>1. FileName(l) \in Hosts /\ pc = "idle"
    BY <1>3, FileNameListed DEF Begin
  <2>2. UNCHANGED <<crt, key, cut, unloaded>> /\ hosts' = l /\ pc' \in {"load", "generate"}
    BY <1>3 DEF Begin
  <2>3. pc' = "load" => crt[FileName(l)].state # "absent"
    BY <1>3 DEF Begin
  <2>4. \A h \in Hosts \ cut : Paired(h)
    BY <2>1
  <2>5. Loads' <=> /\ crt[FileName(l)].state = "whole" /\ key[FileName(l)].state = "whole"
                   /\ crt[FileName(l)].made = key[FileName(l)].made
    BY <2>2
  <2>6. QED
    BY <2>1, <2>2, <2>3, <2>4, <2>5
<1>4. CASE ChooseGenerator \/ Load \/ Stop
  <2>1. UNCHANGED <<hosts, crt, key, cut>> /\ pc \notin WritingSteps
    BY <1>4 DEF ChooseGenerator, Load, Stop
  <2>2. pc' \in {"crt", "openssl key", "idle", "serving"}
    BY <1>4 DEF ChooseGenerator, Load, Stop
  <2>3. unloaded' \subseteq cut
    <3>1. CASE Load
      <4>1. pc = "load" /\ unloaded' = IF Loads THEN unloaded ELSE unloaded \cup {FileName(hosts)}
        BY <3>1 DEF Load
      <4>2. QED
        BY <4>1
    <3>2. QED
      BY <1>4, <3>1 DEF ChooseGenerator, Stop
  <2>4. QED
    BY <2>1, <2>2, <2>3
\* The generators work on the files of one name, and change nothing else.
<1>5. ASSUME NEW step \in WritingSteps \cup {"load"}, pc' = step,
             UNCHANGED <<run, hosts, cut, unloaded>>,
             \A h \in Hosts : h # FileName(hosts) => crt'[h] = crt[h] /\ key'[h] = key[h],
             step \in {"key", "key text"} =>
               crt'[FileName(hosts)].state = "whole" /\ crt'[FileName(hosts)].made = run,
             step = "openssl crt" =>
               key'[FileName(hosts)].state = "whole" /\ key'[FileName(hosts)].made = run,
             step = "load" =>
               /\ crt'[FileName(hosts)].state = "whole" /\ key'[FileName(hosts)].state = "whole"
               /\ crt'[FileName(hosts)].made = run /\ key'[FileName(hosts)].made = run
      PROVE  Consistent'
  <2> DEFINE f == FileName(hosts)
  <2>1. FileName(hosts)' = f /\ f \in Hosts
    BY <1>1, <1>5 DEF FileName
  <2>2. \A h \in Hosts \ cut : h # f => Paired(h)'
    BY <1>5 DEF Consistent
  <2>3. Paired(f)' \/ pc' \in WritingSteps
    BY <1>5, <2>1
  <2>4. pc' = "load" => Loads'
    BY <1>5, <2>1
  <2>5. QED
    BY <1>5, <2>1, <2>2, <2>3, <2>4
<1>6. ASSUME TypeOK
      PROVE  /\ crt \in [Hosts -> Crt] /\ key \in [Hosts -> Key]
             /\ NewCrt.state = "whole" /\ NewCrt.made = run
             /\ NewKey.state = "whole" /\ NewKey.made = run
  BY DEF TypeOK, Crt, Key, NewCrt, NewKey
<1>7. CASE OpenCrt
  <2>1. pc' = "crt text" /\ UNCHANGED <<run, hosts, cut, unloaded>>
    BY <1>7 DEF OpenCrt
  <2>2. \A h \in Hosts : h # FileName(hosts) => crt'[h] = crt[h] /\ key'[h] = key[h]
    BY <1>6, <1>7 DEF OpenCrt
  <2>3. QED
    BY <1>5, <2>1, <2>2
<1>8. CASE WriteCrt
  <2>1. /\ pc' = "key" /\ UNCHANGED <<run, hosts, cut, unloaded>>
        /\ crt' = [crt EXCEPT ![FileName(hosts)] = NewCrt] /\ key' = key
    BY <1>8 DEF WriteCrt
  <2>2. QED
    BY <1>1, <1>5, <1>6, <2>1
<1>9. CASE OpenKey
  <2>1. pc = "key" /\ pc' = "key text" /\ UNCHANGED <<run, hosts, cut, unloaded, crt>>
    BY <1>9 DEF OpenKey
  <2>2. \A h \in Hosts : h # FileName(hosts) => key'[h] = key[h]
    BY <1>6, <1>9 DEF OpenKey
  <2>3. QED
    BY <1>5, <2>1, <2>2
<1>10. CASE WriteKey
  <2>1. /\ pc = "key text" /\ pc' = "load" /\ UNCHANGED <<run, hosts, cut, unloaded, crt>>
        /\ key' = [key EXCEPT ![FileName(hosts)] = NewKey]
    BY <1>10 DEF WriteKey
  <2>2. QED
    BY <1>1, <1>5, <1>6, <2>1
<1>11. CASE OpensslKey
  <2>1. /\ pc' = "openssl crt" /\ UNCHANGED <<run, hosts, cut, unloaded, crt>>
        /\ key' = [key EXCEPT ![FileName(hosts)] = NewKey]
    BY <1>11 DEF OpensslKey
  <2>2. QED
    BY <1>1, <1>5, <1>6, <2>1
<1>12. CASE OpensslCrt
  <2>1. /\ pc = "openssl crt" /\ pc' = "load" /\ UNCHANGED <<run, hosts, cut, unloaded, key>>
        /\ crt' = [crt EXCEPT ![FileName(hosts)] = NewCrt]
    BY <1>12 DEF OpensslCrt
  <2>2. QED
    BY <1>1, <1>5, <1>6, <2>1
\* A run that is cut off before its first file, or between its last one and serving, leaves
\* all files as they are.
<1>13. CASE CutOff
  <2>1. /\ pc' = "idle" /\ UNCHANGED <<run, hosts, unloaded>>
        /\ cut' = IF Writing \/ key' # key THEN cut \cup {FileName(hosts)} ELSE cut
    BY <1>13 DEF CutOff
  <2>2. \A h \in Hosts : h # FileName(hosts) => crt'[h] = crt[h] /\ key'[h] = key[h]
    BY <1>6, <1>13 DEF CutOff, HalfDone
  <2>3. pc \notin WritingSteps => crt' = crt
    BY <1>13 DEF CutOff, HalfDone
  <2>4. ASSUME NEW h \in Hosts \ cut'
        PROVE  Paired(h)'
    <3>1. CASE h = FileName(hosts)
      BY <2>1, <2>3, <2>4, <3>1 DEF Writing
    <3>2. CASE h # FileName(hosts)
      <4>1. h \notin cut /\ Paired(h)
        BY <2>1, <2>4, <3>2
      <4>2. QED
        BY <2>2, <3>2, <4>1
    <3>3. QED
      BY <3>1, <3>2
  <2>5. unloaded' \subseteq cut'
    BY <2>1
  <2>6. QED
    BY <2>1, <2>4, <2>5
<1>14. CASE UNCHANGED vars
  BY <1>14 DEF vars
<1>15. QED
  BY <1>3, <1>4, <1>7, <1>8, <1>9, <1>10, <1>11, <1>12, <1>13, <1>14
     DEF Next, OpensslFails, Kill

\* Files of a name that do not load were left half written by a run for that name.
THEOREM UnloadableIfCut == Spec => []UnloadableOnlyIfCut
<1>1. Init => Consistent
  BY DEF Init, Consistent, Paired
<1>2. Consistent => UnloadableOnlyIfCut
  BY DEF Consistent, UnloadableOnlyIfCut
<1>3. QED
  BY <1>1, <1>2, ConsistentInductive, TypeCorrect, PTL DEF Spec
=============================================================================
