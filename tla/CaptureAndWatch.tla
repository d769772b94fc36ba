--------------------------- MODULE CaptureAndWatch --------------------------
(***************************************************************************)
(* The addon writes flows.jsonl while watch_commands.py reads it: two      *)
(* processes that share nothing but the file.                              *)
(***************************************************************************)
EXTENDS CaptureAddon

CONSTANTS Verbs, NoVerb, NotObject, BadVerb

ASSUME BodiesAssumption == Bodies = Verbs \cup {NoVerb, NotObject, BadVerb}
ASSUME LineAssumption == /\ NoVerb \notin Verbs
                         /\ NotObject \notin Verbs \cup {NoVerb}
                         /\ BadVerb \notin Verbs \cup {NoVerb, NotObject}

VARIABLES
  at, known, batch, news, expired, listed,
  captured     \* history: the verbs that have been on file

W == INSTANCE WatchCommands

watcherVars == <<at, known, batch, news, expired, listed>>
systemVars == <<vars, watcherVars, captured>>

\* What the watcher has no access to.
addonOnlyVars ==
  <<step, closing, flow, memory, buffer, tail, recorded, reports, session, flows, faults>>

SystemInit == Init /\ W!WatchInit /\ captured = {}

SystemNext ==
  /\ \/ Next /\ UNCHANGED watcherVars
     \/ W!WatchNext /\ UNCHANGED addonOnlyVars
  /\ captured' = captured \cup W!VerbsOnFile'

SystemSpec == SystemInit /\ [][SystemNext]_systemVars

\* The watcher runs on; its sleep ends after 10 seconds.  No fairness for the proxy
\* and its traffic, nor for the deadline.
FairSystemSpec == SystemSpec /\ WF_systemVars(W!Watching /\ UNCHANGED <<addonOnlyVars, captured>>)

SystemTypeOK == TypeOK /\ W!WatchTypeOK /\ captured \in SUBSET Verbs

-----------------------------------------------------------------------------
(***************************************************************************)
(* The system implements VerbReport.                                       *)
(***************************************************************************)

Report == INSTANCE VerbReport WITH
  onFile  <- W!VerbsOnFile,
  greeted <- at \notin {"start", "failed"}

\* The watcher reports each verb once, and none that was not captured, however its
\* reads of flows.jsonl interleave with the writes, the deaths and the restarts of
\* the addon (watch_commands.py:69-77).
ReportsEachVerbOnce == Report!Spec

\* "print everything seen so far and exit" (watch_commands.py:7): of what an earlier listing
\* had, and of the verbs that the watch has reported, a later listing lacks one at most for each
\* time the addon was killed or failed to write; a process that comes after it can spoil no more.
ListingLossBounded ==
  [][W!Once =>
       /\ Cardinality(UNION {listed[v] \ listed'[v] : v \in Verbs}) <= kills + fails
       /\ Cardinality({v \in known : listed'[v] = {}}) <= kills + fails]_systemVars

-----------------------------------------------------------------------------
(***************************************************************************)
(* Liveness.                                                               *)
(***************************************************************************)

\* "prints new verbs as they appear" (watch_commands.py:6): a verb on file is reported
\* unless it is lost first, the deadline passes, or a scan raises an exception.
VerbsAppear ==
  \A v \in Verbs :
    v \in W!VerbsOnFile ~> \/ v \in known
                           \/ v \notin W!VerbsOnFile
                           \/ at \in {"elapsed", "crashed", "failed"}
=============================================================================
