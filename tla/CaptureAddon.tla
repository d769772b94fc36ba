---------------------------- MODULE CaptureAddon ----------------------------
(***************************************************************************)
(* The mitmproxy addon of mitm/culligan_addon.py.  response() runs on the  *)
(* proxy's event loop, one flow after the other: it appends a record to    *)
(* flows.jsonl, updates the inventory it keeps in memory, and now and then *)
(* rewrites two reports.  A write may fail, and the process may be killed  *)
(* between any two operations on a file and started again over the files.  *)
(***************************************************************************)
EXTENDS Naturals, Sequences, FiniteSets

CONSTANTS
  Endpoints,    \* (method, host, normalised path) keys
  Interesting,  \* those whose host matches INTERESTING_HOST
  Locality,     \* what is_private_host() may say of a host
  Bodies,       \* request bodies, as far as readers of flows.jsonl tell them apart
  Garbage,      \* a line of flows.jsonl that is not JSON
  FlushEvery,   \* flows between two rewrites of the reports: 5 in the code
  MaxFlows,     \* bound: flows the proxy sees
  MaxKills,     \* bound: how often the proxy is killed
  MaxFails      \* bound: how often response() fails to write flows.jsonl; done() may fail once more

ASSUME InterestingAssumption == Interesting \subseteq Endpoints
ASSUME LocalityAssumption == Locality \subseteq BOOLEAN
ASSUME GarbageAssumption == Garbage \notin Bodies
ASSUME BoundAssumption == /\ FlushEvery \in Nat \ {0}
                          /\ MaxFlows \in Nat
                          /\ MaxKills \in Nat
                          /\ MaxFails \in Nat

VARIABLES
  step,        \* where response(), done() or _flush_reports() is
  closing,     \* done() has been called
  flow,        \* the flow response() works on
  count,       \* self.count
  hits,        \* "hits" of each endpoint, 0 for one not in self.endpoints
  private,     \* the endpoints whose "private" is set
  localHits,   \* the endpoints of self.local_hits, in order
  buffer,      \* the records self.flows_fp holds that are not in flows.jsonl to the end
  file,        \* flows.jsonl: one element for each line
  tail,        \* how far the last line of flows.jsonl has got
  summary,     \* api-summary.md
  hitsFile,    \* LOCAL-HITS.txt
  failed,      \* history: an exception came after the reports were last written
  session,     \* history: the number of this process
  flows,       \* history: flows kept so far, by all processes
  recorded,    \* history: records written completely, by all processes
  kills,       \* history: how often the proxy was killed
  fails        \* history: how often a write to flows.jsonl failed

memory == <<count, hits, private, localHits>>
reports == <<summary, hitsFile, failed>>
log == <<buffer, file, tail, recorded>>
faults == <<kills, fails>>
vars == <<step, closing, flow, memory, log, reports, session, flows, faults>>

\* local is what is_private_host() says of the host, at that moment.
Flow == [endpoint : Endpoints, local : Locality]

Up == step # "down"

\* The last line has its newline; or it is a piece of the record at the head of the buffer, or
\* all of it but its newline; or it is a whole record, left so by a writer that is not going on
\* with it; or it cannot become a record any more.
LineState == {"newline", "piece", "whole", "left", "spoiled"}

\* "absent", "truncated" by open(path, "w"), or "whole".
FileState == {"absent", "truncated", "whole"}

TypeOK ==
  /\ step \in {"down", "idle", "flush", "inventory",
               "summary", "summary text", "hits", "hits text", "close"}
  /\ closing \in BOOLEAN
  /\ flow \in Flow
  /\ count \in 0 .. MaxFlows
  /\ hits \in [Endpoints -> 0 .. MaxFlows]
  /\ private \in SUBSET Endpoints
  /\ localHits \in Seq(Endpoints)
  /\ file \in Seq(Bodies \cup {Garbage})
  /\ tail \in LineState
  /\ buffer \in Seq(Bodies)
  /\ summary \in [state : FileState, session : Nat, count : 0 .. MaxFlows,
                  listed : SUBSET Endpoints, flagged : SUBSET Endpoints]
  /\ hitsFile \in [state : FileState, session : Nat, hits : Seq(Endpoints)]
  /\ failed \in BOOLEAN
  /\ session \in Nat
  /\ flows \in 0 .. MaxFlows
  /\ recorded \in 0 .. MaxFlows
  /\ kills \in 0 .. MaxKills
  /\ fails \in 0 .. MaxFails + 1

Init ==
  /\ step = "down"
  /\ closing = FALSE
  /\ flow \in Flow
  /\ count = 0
  /\ hits = [e \in Endpoints |-> 0]
  /\ private = {}
  /\ localHits = <<>>
  /\ file = <<>>
  /\ tail = "newline"
  /\ buffer = <<>>
  /\ summary = [state |-> "absent", session |-> 0, count |-> 0, listed |-> {}, flagged |-> {}]
  /\ hitsFile = [state |-> "absent", session |-> 0, hits |-> <<>>]
  /\ failed = FALSE
  /\ session = 0
  /\ flows = 0
  /\ recorded = 0
  /\ kills = 0
  /\ fails = 0

-----------------------------------------------------------------------------
(***************************************************************************)
(* Start and end of the process.                                           *)
(***************************************************************************)

\* A faulty Start: flows.jsonl is opened for writing.
StartOver ==
  /\ step = "down"
  /\ session <= MaxKills
  /\ step' = "idle"
  /\ closing' = FALSE
  /\ count' = 0
  /\ hits' = [e \in Endpoints |-> 0]
  /\ private' = {}
  /\ localHits' = <<>>
  /\ session' = session + 1
  /\ failed' = FALSE
  /\ file' = <<>>
  /\ tail' = "newline"
  /\ UNCHANGED <<flow, buffer, recorded, summary, hitsFile, flows, faults>>

\* CulliganCapture(): flows.jsonl is opened for appending, the memory is empty.
Start ==
  /\ step = "down"
  /\ session <= MaxKills
  /\ step' = "idle"
  /\ closing' = FALSE
  /\ count' = 0
  /\ hits' = [e \in Endpoints |-> 0]
  /\ private' = {}
  /\ localHits' = <<>>
  /\ session' = session + 1
  /\ failed' = FALSE
  /\ UNCHANGED <<flow, log, summary, hitsFile, flows, faults>>

\* What the last line becomes when its writer does not go on with it.
Abandoned == IF tail = "piece" THEN "spoiled" ELSE IF tail = "whole" THEN "left" ELSE tail

\* mitmdump is killed: it "does not reliably run done()".  A record on its way to the file
\* gets no further, and its newline may be all that it lacks.
Kill ==
  /\ Up
  /\ kills < MaxKills
  /\ kills' = kills + 1
  /\ buffer' = <<>>
  /\ tail' = Abandoned
  /\ step' = "down"
  /\ UNCHANGED <<closing, flow, memory, file, recorded, reports, session, flows, fails>>

\* done() is called; it flushes the reports, then closes flows.jsonl.
Done ==
  /\ step = "idle"
  /\ ~ closing
  /\ closing' = TRUE
  /\ step' = "summary"
  /\ UNCHANGED <<flow, memory, log, reports, session, flows, faults>>

\* Where _flush_reports() returns to.
Return == step' = IF closing THEN "close" ELSE "idle"

-----------------------------------------------------------------------------
(***************************************************************************)
(* response(flow)                                                          *)
(***************************************************************************)

\* A flow that is kept: "anything Culligan-shaped, plus all local traffic".  write() puts its
\* record, with the request's body, into the buffer of the file.
Response(f, body) ==
  /\ step = "idle"
  /\ flows < MaxFlows
  /\ f.endpoint \in Interesting \/ f.local
  /\ flow' = f
  /\ count' = count + 1
  /\ flows' = flows + 1
  /\ buffer' = Append(buffer, body)
  /\ step' = "flush"
  /\ UNCHANGED <<closing, hits, private, localHits, file, tail, recorded, reports, session, faults>>

\* flush() or close() is at work on the records of the buffer.
Flushing == step \in {"flush", "close"} /\ buffer # <<>>

\* The first bytes of a record reach the file, on a line of its own.
BeginLine ==
  /\ Flushing
  /\ tail = "newline"
  /\ file' = Append(file, Garbage)
  /\ tail' = "piece"
  /\ UNCHANGED <<step, closing, flow, memory, buffer, recorded, reports, session, flows, faults>>

\* They follow a record that was left without its newline, and spoil it.
SpoilLine ==
  /\ Flushing
  /\ tail = "left"
  /\ file' = [file EXCEPT ![Len(file)] = Garbage]
  /\ tail' = "spoiled"
  /\ UNCHANGED <<step, closing, flow, memory, buffer, recorded, reports, session, flows, faults>>

\* The JSON of a record is complete.
EndText ==
  /\ Flushing
  /\ tail = "piece"
  /\ file' = [file EXCEPT ![Len(file)] = Head(buffer)]
  /\ tail' = "whole"
  /\ UNCHANGED <<step, closing, flow, memory, buffer, recorded, reports, session, flows, faults>>

\* The newline of a record is written, whatever it stands behind.
EndLine ==
  /\ Flushing
  /\ tail \in {"whole", "spoiled"}
  /\ tail' = "newline"
  /\ buffer' = Tail(buffer)
  /\ recorded' = recorded + 1
  /\ UNCHANGED <<step, closing, flow, memory, file, reports, session, flows, faults>>

\* flush() returns to response(), or close() to done().
Flushed ==
  /\ step \in {"flush", "close"}
  /\ buffer = <<>>
  /\ step' = IF step = "flush" THEN "inventory" ELSE "down"
  /\ UNCHANGED <<closing, flow, memory, log, reports, session, flows, faults>>

\* write() or flush() raises an OSError, which mitmproxy logs: the flow is counted, but the
\* rest of response() is skipped.  Python keeps the first n records in the buffer, for the
\* next flush(), and gives up the others.
WriteFails(n) ==
  /\ step = "flush" /\ buffer # <<>>
  /\ fails < MaxFails
  /\ fails' = fails + 1
  /\ buffer' = SubSeq(buffer, 1, n)
  /\ tail' = IF n = 0 THEN Abandoned ELSE tail
  /\ failed' = TRUE
  /\ step' = "idle"
  /\ UNCHANGED <<closing, flow, memory, file, recorded, summary, hitsFile, session, flows, kills>>

\* close() raises, which done() passes over.
CloseFails ==
  /\ step = "close" /\ buffer # <<>>
  /\ fails <= MaxFails
  /\ fails' = fails + 1
  /\ buffer' = <<>>
  /\ tail' = Abandoned
  /\ step' = "down"
  /\ UNCHANGED <<closing, flow, memory, file, recorded, reports, session, flows, kills>>

\* A faulty Inventory: the reports are due every sixth time.
InventoryLate ==
  /\ step = "inventory"
  /\ localHits' = IF flow.local THEN Append(localHits, flow.endpoint) ELSE localHits
  /\ hits' = [hits EXCEPT ![flow.endpoint] = @ + 1]
  /\ private' = IF hits[flow.endpoint] = 0 /\ flow.local THEN private \cup {flow.endpoint}
                ELSE private
  /\ step' = IF flow.local \/ count % (FlushEvery + 1) = 0 THEN "summary" ELSE "idle"
  /\ UNCHANGED <<closing, flow, count, log, reports, session, flows, faults>>

\* self.local_hits and self.endpoints; an endpoint keeps the "private" of its first
\* flow.  Then the reports are due if the flow is local, or every fifth time.
Inventory ==
  /\ step = "inventory"
  /\ localHits' = IF flow.local THEN Append(localHits, flow.endpoint) ELSE localHits
  /\ hits' = [hits EXCEPT ![flow.endpoint] = @ + 1]
  /\ private' = IF hits[flow.endpoint] = 0 /\ flow.local THEN private \cup {flow.endpoint}
                ELSE private
  /\ step' = IF flow.local \/ count % FlushEvery = 0 THEN "summary" ELSE "idle"
  /\ UNCHANGED <<closing, flow, count, log, reports, session, flows, faults>>

-----------------------------------------------------------------------------
(***************************************************************************)
(* _flush_reports(), _write_summary(), _write_local_hits()                 *)
(***************************************************************************)

\* open(api-summary.md, "w") empties the file.
OpenSummary ==
  /\ step = "summary"
  /\ summary' = [summary EXCEPT !.state = "truncated"]
  /\ step' = "summary text"
  /\ UNCHANGED <<closing, flow, memory, log, hitsFile, failed, session, flows, faults>>

Listed == {e \in Endpoints : hits[e] > 0}

\* The text is written; LOCAL-HITS.txt follows if there were local hits.
WriteSummary ==
  /\ step = "summary text"
  /\ summary' = [state |-> "whole", session |-> session, count |-> count,
                 listed |-> Listed, flagged |-> private]
  /\ IF localHits = <<>> THEN Return /\ failed' = FALSE
     ELSE step' = "hits" /\ UNCHANGED failed
  /\ UNCHANGED <<closing, flow, memory, log, hitsFile, session, flows, faults>>

\* open(LOCAL-HITS.txt, "w") empties the file.
OpenHits ==
  /\ step = "hits"
  /\ hitsFile' = [hitsFile EXCEPT !.state = "truncated"]
  /\ step' = "hits text"
  /\ UNCHANGED <<closing, flow, memory, log, summary, failed, session, flows, faults>>

\* A faulty WriteHits: only the hit at hand is written.
WriteLastHit ==
  /\ step = "hits text"
  /\ hitsFile' = [state |-> "whole", session |-> session,
                  hits |-> <<localHits[Len(localHits)]>>]
  /\ failed' = FALSE
  /\ Return
  /\ UNCHANGED <<closing, flow, memory, log, summary, session, flows, faults>>

\* All local hits of this process are written.
WriteHits ==
  /\ step = "hits text"
  /\ hitsFile' = [state |-> "whole", session |-> session, hits |-> localHits]
  /\ failed' = FALSE
  /\ Return
  /\ UNCHANGED <<closing, flow, memory, log, summary, session, flows, faults>>

\* "never let reporting kill the capture": whichever file operation fails, the rest
\* of the flush is skipped.
FlushFails ==
  /\ step \in {"summary", "summary text", "hits", "hits text"}
  /\ failed' = TRUE
  /\ Return
  /\ UNCHANGED <<closing, flow, memory, log, summary, hitsFile, session, flows, faults>>

-----------------------------------------------------------------------------
Process == Start \/ Kill \/ Done

Capture ==
  \/ \E f \in Flow, body \in Bodies : Response(f, body)
  \/ BeginLine \/ SpoilLine \/ EndText \/ EndLine
  \/ Flushed
  \/ \E n \in 0 .. Len(buffer) : WriteFails(n)
  \/ CloseFails
  \/ Inventory

FlushReports == OpenSummary \/ WriteSummary \/ OpenHits \/ WriteHits \/ FlushFails

Next == Process \/ Capture \/ FlushReports

Spec == Init /\ [][Next]_vars

-----------------------------------------------------------------------------
(***************************************************************************)
(* Safety.                                                                 *)
(***************************************************************************)

\* The lines a reader of flows.jsonl can parse.
Readable == {i \in DOMAIN file : file[i] # Garbage}

\* flows.jsonl loses a record only where a process was killed or a write failed, and one for each
\* of them: what was left without its newline swallows the next record and perhaps itself, and
\* nothing else is ever lost.
RecordsSurvive == recorded - Cardinality(Readable) <= kills + fails

\* "Reports are rewritten as we go" (culligan_addon.py:229): between two flows
\* api-summary.md is whole, of this process, and lags fewer than five flows behind,
\* unless something failed since it was last written.
SummaryCurrent ==
  step = "idle" /\ ~ failed /\ count >= FlushEvery =>
    /\ summary.state = "whole"
    /\ summary.session = session
    /\ count - summary.count < FlushEvery

\* "the one thing that actually matters" (culligan_addon.py:6): between two flows
\* LOCAL-HITS.txt has every local flow of this process, and with it every endpoint
\* that api-summary.md flags as [LOCAL], unless something failed since they were written.
LocalHitsOnDisk ==
  step = "idle" /\ ~ failed /\ localHits # <<>> =>
    /\ hitsFile = [state |-> "whole", session |-> session, hits |-> localHits]
    /\ summary.flagged \subseteq {hitsFile.hits[i] : i \in DOMAIN hitsFile.hits}
=============================================================================
