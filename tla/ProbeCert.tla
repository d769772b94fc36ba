----------------------------- MODULE ProbeCert ------------------------------
(***************************************************************************)
(* The certificate of tlsprobe.py: ensure_cert() makes a certificate and a *)
(* key for the --host names and keeps them in two files, which later runs  *)
(* find there; make_context() loads them.  The probe may be killed between *)
(* any two operations on the files.                                        *)
(***************************************************************************)
EXTENDS Naturals, Sequences, SequencesExt

CONSTANTS
  Hosts,  \* host names
  Runs    \* bound: how often the probe is run

ASSUME RunsAssumption == Runs \in Nat

VARIABLES
  run,      \* number of the current run
  pc,       \* where ensure_cert() or make_context() is
  hosts,    \* the --host names
  crt,      \* the .crt file of each host name
  key,      \* the .key file of each host name
  cut,      \* history: the host names whose files a run has left half written
  unloaded  \* history: the host names whose files a run could not load

vars == <<run, pc, hosts, crt, key, cut, unloaded>>

\* One or more --host names, none twice.
HostLists == {l \in [1 .. 1 -> Hosts] \cup [1 .. 2 -> Hosts] : IsInjective(l)}

FileState == {"absent", "partial", "whole"}

\* made is the run that has generated the pair; names is the subjectAltName.
TypeOK ==
  /\ run \in 0 .. Runs
  /\ pc \in {"idle", "generate", "crt", "crt text", "key", "key text",
             "openssl key", "openssl crt", "load", "serving"}
  /\ hosts \in HostLists
  /\ crt \in [Hosts -> [state : FileState, made : 0 .. Runs, names : SUBSET Hosts]]
  /\ key \in [Hosts -> [state : FileState, made : 0 .. Runs]]
  /\ cut \in SUBSET Hosts
  /\ unloaded \in SUBSET Hosts

Init ==
  /\ run = 0
  /\ pc = "idle"
  /\ hosts \in {l \in HostLists : Len(l) = 1}
  /\ crt = [h \in Hosts |-> [state |-> "absent", made |-> 0, names |-> {}]]
  /\ key = [h \in Hosts |-> [state |-> "absent", made |-> 0]]
  /\ cut = {}
  /\ unloaded = {}

\* A faulty FileName: the files are named after the last host name.
LastName(l) == l[Len(l)]

\* hostname = hostnames[0], after which both files are named.
FileName(l) == l[1]

NewCrt == [state |-> "whole", made |-> run, names |-> Range(hosts)]
NewKey == [state |-> "whole", made |-> run]

-----------------------------------------------------------------------------
\* tlsprobe.py is started with the names l; ensure_cert() looks for the two files.
Begin(l) ==
  /\ pc = "idle"
  /\ run < Runs
  /\ run' = run + 1
  /\ hosts' = l
  /\ pc' = IF crt[FileName(l)].state # "absent" /\ key[FileName(l)].state # "absent"
           THEN "load" ELSE "generate"
  /\ UNCHANGED <<crt, key, cut, unloaded>>

\* The cryptography package is used, or else, or with --force-openssl, the openssl
\* program; without either, SystemExit(2).
ChooseGenerator ==
  /\ pc = "generate"
  /\ pc' \in {"crt", "openssl key", "idle"}
  /\ UNCHANGED <<run, hosts, crt, key, cut, unloaded>>

\* open(crt_path, "wb")
OpenCrt ==
  /\ pc = "crt"
  /\ crt' = [crt EXCEPT ![FileName(hosts)].state = "partial"]
  /\ pc' = "crt text"
  /\ UNCHANGED <<run, hosts, key, cut, unloaded>>

\* A faulty WriteCrt: the whole list of names is put into the certificate as one name.
WriteCrtList ==
  /\ pc = "crt text"
  /\ crt' = [crt EXCEPT ![FileName(hosts)] = [state |-> "whole", made |-> run, names |-> {hosts}]]
  /\ pc' = "key"
  /\ UNCHANGED <<run, hosts, key, cut, unloaded>>

\* The certificate is written, for all host names.
WriteCrt ==
  /\ pc = "crt text"
  /\ crt' = [crt EXCEPT ![FileName(hosts)] = NewCrt]
  /\ pc' = "key"
  /\ UNCHANGED <<run, hosts, key, cut, unloaded>>

\* open(key_path, "wb")
OpenKey ==
  /\ pc = "key"
  /\ key' = [key EXCEPT ![FileName(hosts)].state = "partial"]
  /\ pc' = "key text"
  /\ UNCHANGED <<run, hosts, crt, cut, unloaded>>

\* A faulty WriteKey: another key than the one that signed the certificate.
WriteOtherKey ==
  /\ pc = "key text"
  /\ key' = [key EXCEPT ![FileName(hosts)] = [state |-> "whole", made |-> 0]]
  /\ pc' = "load"
  /\ UNCHANGED <<run, hosts, crt, cut, unloaded>>

\* The key is written.
WriteKey ==
  /\ pc = "key text"
  /\ key' = [key EXCEPT ![FileName(hosts)] = NewKey]
  /\ pc' = "load"
  /\ UNCHANGED <<run, hosts, crt, cut, unloaded>>

\* _cert_via_openssl(): the openssl program writes the key first.
OpensslKey ==
  /\ pc = "openssl key"
  /\ key' = [key EXCEPT ![FileName(hosts)] = NewKey]
  /\ pc' = "openssl crt"
  /\ UNCHANGED <<run, hosts, crt, cut, unloaded>>

\* Then it writes the certificate, and both files are there.
OpensslCrt ==
  /\ pc = "openssl crt"
  /\ crt' = [crt EXCEPT ![FileName(hosts)] = NewCrt]
  /\ pc' = "load"
  /\ UNCHANGED <<run, hosts, key, cut, unloaded>>

\* A file as a program that is cut off while it writes it may leave it.
HalfDone(files, writing) ==
  {files} \cup (IF pc = writing THEN {[files EXCEPT ![FileName(hosts)].state = "partial"]} ELSE {})

\* One of the two files has been opened, and the other one is still to come.
Writing == pc \in {"crt text", "key", "key text", "openssl crt"}

CutOff ==
  /\ pc' = "idle"
  /\ crt' \in HalfDone(crt, "openssl crt")
  /\ key' \in HalfDone(key, "openssl key")
  /\ cut' = IF Writing \/ key' # key THEN cut \cup {FileName(hosts)} ELSE cut
  /\ UNCHANGED <<run, hosts, unloaded>>

\* openssl cannot be run, fails, or is stopped after 90 seconds: SystemExit(2).
OpensslFails == pc \in {"openssl key", "openssl crt"} /\ CutOff

\* ctx.load_cert_chain(crt, key) raises unless they are a pair.
Loads == /\ crt[FileName(hosts)].state = "whole" /\ key[FileName(hosts)].state = "whole"
         /\ crt[FileName(hosts)].made = key[FileName(hosts)].made

Load ==
  /\ pc = "load"
  /\ pc' = IF Loads THEN "serving" ELSE "idle"
  /\ unloaded' = IF Loads THEN unloaded ELSE unloaded \cup {FileName(hosts)}
  /\ UNCHANGED <<run, hosts, crt, key, cut>>

\* Ctrl+C while the probe serves.
Stop ==
  /\ pc = "serving"
  /\ pc' = "idle"
  /\ UNCHANGED <<run, hosts, crt, key, cut, unloaded>>

\* The probe is killed before that.
Kill == pc \notin {"idle", "serving"} /\ CutOff

Next ==
  \/ \E l \in HostLists : Begin(l)
  \/ ChooseGenerator
  \/ OpenCrt \/ WriteCrt \/ OpenKey \/ WriteKey
  \/ OpensslKey \/ OpensslCrt \/ OpensslFails
  \/ Load
  \/ Stop
  \/ Kill

Spec == Init /\ [][Next]_vars

-----------------------------------------------------------------------------
(***************************************************************************)
(* Safety.                                                                 *)
(***************************************************************************)

\* The first --host is a name of the certificate the probe serves, whatever runs
\* with whatever names came before: the files of one name are never another's.
FirstHostCovered == pc = "serving" => hosts[1] \in crt[FileName(hosts)].names

\* The files of a host name that do not load were always left half written by a run that
\* was killed, or whose openssl failed, at that very name: neither the two generators nor
\* runs for other names spoil them, nor does a run that ends elsewhere.
UnloadableOnlyIfCut == unloaded \subseteq cut
=============================================================================
