---------------------------- MODULE CaptureProofs ----------------------------
(***************************************************************************)
(* Proofs about CaptureAddon, for any endpoints and bodies, any period of  *)
(* the reports, and any numbers of flows, kills and failing writes; and    *)
(* about CaptureAndWatch, for any verbs besides.                           *)
(***************************************************************************)
EXTENDS CaptureAndWatch, FiniteSetTheorems, TLAPS

Steps == {"down", "idle", "flush", "inventory",
          "summary", "summary text", "hits", "hits text", "close"}

Summaries == [state : FileState, session : Nat, count : Nat,
              listed : SUBSET Endpoints, flagged : SUBSET Endpoints]

\* TypeOK without the bounds of the runs.
Kinds ==
  /\ step \in Steps
  /\ flow \in Flow
  /\ count \in Nat
  /\ private \in SUBSET Endpoints
  /\ localHits \in Seq(Endpoints)
  /\ file \in Seq(Bodies \cup {Garbage})
  /\ buffer \in Seq(Bodies)
  /\ tail \in LineState
  /\ summary \in Summaries
  /\ session \in Nat
  /\ recorded \in Nat
  /\ kills \in Nat
  /\ fails \in Nat

\* What stands on the last line.
LineOpen ==
  /\ tail = "piece" => file # <<>> /\ file[Len(file)] = Garbage
  /\ tail \in {"whole", "left"} => file # <<>> /\ file[Len(file)] \in Bodies

\* A line that is readable before its record counts, and what the record behind a line that was
\* left will cost.
Debt == IF tail = "left" THEN 2 ELSE IF tail \in {"whole", "spoiled"} THEN 1 ELSE 0

RecordsCounted ==
  /\ IsFiniteSet(Readable)
  /\ recorded + Debt <= kills + fails + Cardinality(Readable)

\* The flows of this process that api-summary.md covers.
Covered == IF summary.state = "whole" /\ summary.session = session THEN summary.count ELSE 0

\* The last flush went well, as far as the reports are not being written.
Quiet == step \in {"idle", "flush", "inventory"} /\ ~ failed

\* The reports lag behind by no more than what has come since the last multiple of FlushEvery.
SummaryLag ==
  /\ summary.session <= session
  /\ step \in {"flush", "inventory"} => count > 0
  /\ step = "idle" /\ ~ failed => count - Covered <= count % FlushEvery
  /\ step \in {"flush", "inventory"} /\ ~ failed =>
       (count - 1) - Covered <= (count - 1) % FlushEvery
  /\ step \in {"hits", "hits text"} => Covered = count

HitEndpoints == {localHits[i] : i \in DOMAIN localHits}

\* LOCAL-HITS.txt has all the local hits, and those are the endpoints that are flagged.
HitsListed ==
  /\ private \subseteq HitEndpoints
  /\ step \in {"hits", "hits text"} => summary.flagged \subseteq HitEndpoints
  /\ Quiet /\ localHits # <<>> =>
       /\ hitsFile = [state |-> "whole", session |-> session, hits |-> localHits]
       /\ summary.flagged \subseteq HitEndpoints

IInv == Kinds /\ LineOpen /\ RecordsCounted /\ SummaryLag /\ HitsListed

-----------------------------------------------------------------------------
(***************************************************************************)
(* The records in flows.jsonl.                                             *)
(***************************************************************************)

\* A line that is not JSON does not make the file any more readable.
LEMMA GarbageAppended ==
  ASSUME Kinds, file' = Append(file, Garbage)
  PROVE  Readable' = Readable /\ file' # <<>> /\ file'[Len(file')] = Garbage
<1>1. /\ Len(file) \in Nat /\ DOMAIN file = 1 .. Len(file)
      /\ Len(file') = Len(file) + 1 /\ DOMAIN file' = 1 .. (Len(file) + 1)
      /\ \A i \in 1 .. Len(file) : file'[i] = file[i]
      /\ file'[Len(file) + 1] = Garbage
  BY DEF Kinds
<1>2. Readable' = Readable
  BY <1>1 DEF Readable
<1>3. QED
  BY <1>1, <1>2

\* What is put in place of the last line leaves the others readable as they were.
LEMMA LastReplaced ==
  ASSUME Kinds, file # <<>>, NEW line, file' = [file EXCEPT ![Len(file)] = line]
  PROVE  /\ Len(file) \in DOMAIN file
         /\ DOMAIN file' = DOMAIN file
         /\ \A i \in DOMAIN file : file'[i] = IF i = Len(file) THEN line ELSE file[i]
BY DEF Kinds

\* The text of a record is a readable line more.
LEMMA TextEnded ==
  ASSUME Kinds, LineOpen, EndText
  PROVE  /\ Readable' = Readable \cup {Len(file)} /\ Len(file) \notin Readable
         /\ file' # <<>> /\ file'[Len(file')] \in Bodies
<1>1. /\ file # <<>> /\ file[Len(file)] = Garbage
      /\ file' = [file EXCEPT ![Len(file)] = Head(buffer)]
      /\ Head(buffer) \in Bodies /\ Head(buffer) # Garbage
  BY GarbageAssumption DEF EndText, Flushing, LineOpen, Kinds
<1>2. /\ Len(file) \in DOMAIN file /\ DOMAIN file' = DOMAIN file
      /\ \A i \in DOMAIN file : file'[i] = IF i = Len(file) THEN Head(buffer) ELSE file[i]
  BY <1>1, LastReplaced
<1>3. Len(file') = Len(file) /\ file' # <<>>
  BY <1>1 DEF Kinds
<1>4. QED
  BY <1>1, <1>2, <1>3 DEF Readable

\* Bytes behind a record that was left without its newline make it unreadable.
LEMMA LineSpoiled ==
  ASSUME Kinds, LineOpen, SpoilLine
  PROVE  Readable' = Readable \ {Len(file)} /\ Len(file) \in Readable
<1>1. /\ file # <<>> /\ file[Len(file)] # Garbage
      /\ file' = [file EXCEPT ![Len(file)] = Garbage]
  BY GarbageAssumption DEF SpoilLine, LineOpen
<1>2. /\ Len(file) \in DOMAIN file /\ DOMAIN file' = DOMAIN file
      /\ \A i \in DOMAIN file : file'[i] = IF i = Len(file) THEN Garbage ELSE file[i]
  BY <1>1, LastReplaced
<1>3. QED
  BY <1>1, <1>2 DEF Readable

\* Where a writer gives up, what it leaves costs a record at most, or two where one is gained.
LEMMA GivenUp ==
  ASSUME Kinds, LineOpen, RecordsCounted, UNCHANGED <<file, recorded>>,
         tail' \in {tail, Abandoned}, kills' + fails' = kills + fails + 1,
         kills' \in Nat, fails' \in Nat
  PROVE  LineOpen' /\ RecordsCounted'
<1>1. Debt' <= Debt + 1 /\ Debt \in Nat /\ Debt' \in Nat
  BY DEF Debt, Abandoned, Kinds, LineState
<1>2. Readable' = Readable /\ Cardinality(Readable) \in Nat
  BY FS_CardinalityType DEF Readable, RecordsCounted
<1>3. RecordsCounted'
  <2>1. /\ recorded \in Nat /\ kills + fails \in Nat
        /\ recorded + Debt <= kills + fails + Cardinality(Readable)
    BY DEF RecordsCounted, Kinds
  <2>2. recorded' + Debt' <= kills' + fails' + Cardinality(Readable')
    BY <1>1, <1>2, <2>1
  <2>3. QED
    BY <1>2, <2>2 DEF RecordsCounted
<1>4. LineOpen'
  BY DEF LineOpen, Abandoned, Kinds, LineState
<1>5. QED
  BY <1>3, <1>4

\* Only what is written, a kill and a write that fails matter.
LEMMA RecordsKept ==
  ASSUME Kinds, LineOpen, RecordsCounted, Next
  PROVE  LineOpen' /\ RecordsCounted'
<1>1. CASE Kill \/ (\E n \in 0 .. Len(buffer) : WriteFails(n)) \/ CloseFails
  <2>1. /\ UNCHANGED <<file, recorded>> /\ tail' \in {tail, Abandoned}
        /\ \/ kills' = kills + 1 /\ fails' = fails
           \/ kills' = kills /\ fails' = fails + 1
    BY <1>1 DEF Kill, WriteFails, CloseFails
  <2>2. QED
    BY <2>1, GivenUp DEF Kinds
<1>2. CASE BeginLine
  <2>1. tail = "newline" /\ tail' = "piece" /\ file' = Append(file, Garbage)
        /\ UNCHANGED <<recorded, kills, fails>>
    BY <1>2 DEF BeginLine, faults
  <2>2. Readable' = Readable /\ file' # <<>> /\ file'[Len(file')] = Garbage
    BY <2>1, GarbageAppended
  <2>3. QED
    BY <2>1, <2>2 DEF LineOpen, RecordsCounted, Debt
<1>3. CASE SpoilLine
  <2>1. tail = "left" /\ tail' = "spoiled" /\ UNCHANGED <<recorded, kills, fails>>
    BY <1>3 DEF SpoilLine, faults
  <2>2. /\ IsFiniteSet(Readable') /\ Cardinality(Readable') = Cardinality(Readable) - 1
        /\ Cardinality(Readable) \in Nat
    BY <1>3, LineSpoiled, FS_RemoveElement, FS_CardinalityType DEF RecordsCounted
  <2>3. recorded + 2 <= kills + fails + Cardinality(Readable)
    BY <2>1 DEF RecordsCounted, Debt
  <2>4. QED
    BY <2>1, <2>2, <2>3 DEF LineOpen, RecordsCounted, Debt, Kinds
<1>4. CASE EndText
  <2>1. tail = "piece" /\ tail' = "whole" /\ UNCHANGED <<recorded, kills, fails>>
    BY <1>4 DEF EndText, faults
  <2>2. /\ IsFiniteSet(Readable') /\ Cardinality(Readable') = Cardinality(Readable) + 1
        /\ Cardinality(Readable) \in Nat
    BY <1>4, TextEnded, FS_AddElement, FS_CardinalityType DEF RecordsCounted
  <2>3. recorded <= kills + fails + Cardinality(Readable)
    BY <2>1 DEF RecordsCounted, Debt, Kinds
  <2>4. QED
    BY <1>4, <2>1, <2>2, <2>3, TextEnded DEF LineOpen, RecordsCounted, Debt, Kinds
<1>5. CASE EndLine
  <2>1. /\ tail \in {"whole", "spoiled"} /\ tail' = "newline" /\ recorded' = recorded + 1
        /\ UNCHANGED <<file, kills, fails>>
    BY <1>5 DEF EndLine, faults
  <2>2. Readable' = Readable
    BY <2>1 DEF Readable
  <2>3. QED
    BY <2>1, <2>2 DEF LineOpen, RecordsCounted, Debt, Kinds
<1>6. CASE Process \/ Capture \/ FlushReports
  <2> SUFFICES ASSUME ~ (Kill \/ (\E n \in 0 .. Len(buffer) : WriteFails(n)) \/ CloseFails),
                      ~ (BeginLine \/ SpoilLine \/ EndText \/ EndLine)
      PROVE  LineOpen' /\ RecordsCounted'
    BY <1>1, <1>2, <1>3, <1>4, <1>5
  <2>1. UNCHANGED <<file, tail, recorded, kills, fails>>
    BY <1>6 DEF Process, Capture, FlushReports, Start, Done, Response, Flushed, Inventory,
                OpenSummary, WriteSummary, OpenHits, WriteHits, FlushFails, log, faults
  <2>2. QED
    BY <2>1 DEF LineOpen, RecordsCounted, Debt, Readable
<1>7. QED
  BY <1>6 DEF Next

-----------------------------------------------------------------------------
(***************************************************************************)
(* The reports.                                                            *)
(***************************************************************************)

\* The steps that write to flows.jsonl.
Writes == BeginLine \/ SpoilLine \/ EndText \/ EndLine

LEMMA KindsKept == ASSUME Kinds, LineOpen, Next PROVE Kinds'
<1>1. step' \in Steps
  BY DEF Next, Process, Capture, FlushReports, Start, Kill, Done, Response, BeginLine, SpoilLine,
         EndText, EndLine, Flushed, WriteFails, CloseFails, Flushing, Inventory, OpenSummary,
         WriteSummary, OpenHits, WriteHits, FlushFails, Return, Steps
<1>2. count' \in Nat /\ flow' \in Flow
  <2>1. count \in Nat /\ flow \in Flow
    BY DEF Kinds
  <2>2. CASE Process
    BY <2>1, <2>2 DEF Process, Start, Kill, Done, memory
  <2>3. CASE Capture
    BY <2>1, <2>3 DEF Capture, Response, BeginLine, SpoilLine, EndText, EndLine, Flushed,
                      WriteFails, CloseFails, Inventory, memory
  <2>4. CASE FlushReports
    BY <2>1, <2>4 DEF FlushReports, OpenSummary, WriteSummary, OpenHits, WriteHits, FlushFails,
       memory
  <2>5. QED
    BY <2>2, <2>3, <2>4 DEF Next
<1>3. session' \in Nat /\ recorded' \in Nat /\ kills' \in Nat /\ fails' \in Nat
  <2>1. session \in Nat /\ recorded \in Nat /\ kills \in Nat /\ fails \in Nat
    BY DEF Kinds
  <2>2. CASE Process
    BY <2>1, <2>2 DEF Process, Start, Kill, Done, log, faults
  <2>3. CASE Capture
    BY <2>1, <2>3 DEF Capture, Response, BeginLine, SpoilLine, EndText, EndLine, Flushed,
                      WriteFails, CloseFails, Inventory, log, faults
  <2>4. CASE FlushReports
    BY <2>1, <2>4 DEF FlushReports, OpenSummary, WriteSummary, OpenHits, WriteHits, FlushFails,
                      log, faults
  <2>5. QED
    BY <2>2, <2>3, <2>4 DEF Next
<1>4. private' \in SUBSET Endpoints /\ localHits' \in Seq(Endpoints)
  <2>1. private \in SUBSET Endpoints /\ localHits \in Seq(Endpoints)
    BY DEF Kinds
  <2>2. CASE Inventory
    <3>1. flow.endpoint \in Endpoints
      BY DEF Kinds, Flow
    <3>2. QED
      BY <2>1, <2>2, <3>1 DEF Inventory
  <2>3. CASE Start
    BY <2>3 DEF Start
  <2>4. CASE ~ Inventory /\ ~ Start
    BY <2>1, <2>4 DEF Next, Process, Capture, FlushReports, Kill, Done, Response, BeginLine,
                SpoilLine, EndText, EndLine, Flushed, WriteFails, CloseFails, OpenSummary,
                WriteSummary, OpenHits, WriteHits, FlushFails, memory
  <2>5. QED
    BY <2>2, <2>3, <2>4
<1>5. file' \in Seq(Bodies \cup {Garbage})
  <2>1. file \in Seq(Bodies \cup {Garbage})
    BY DEF Kinds
  <2>2. CASE BeginLine
    BY <2>1, <2>2 DEF BeginLine
  <2>3. CASE SpoilLine \/ EndText
    <3>1. file # <<>> /\ Len(file) \in 1 .. Len(file)
      BY <2>1, <2>3 DEF SpoilLine, EndText, LineOpen
    <3>2. Head(buffer) \in Bodies \/ SpoilLine
      BY <2>3 DEF EndText, Flushing, Kinds
    <3>3. \E line \in Bodies \cup {Garbage} : file' = [file EXCEPT ![Len(file)] = line]
      BY <2>3, <3>2 DEF SpoilLine, EndText
    <3>4. QED
      BY <2>1, <3>1, <3>3
  <2>4. CASE ~ BeginLine /\ ~ SpoilLine /\ ~ EndText
    BY <2>1, <2>4 DEF Next, Process, Capture, FlushReports, Start, Kill, Done, Response, EndLine,
                Flushed, WriteFails, CloseFails, Inventory, OpenSummary, WriteSummary, OpenHits,
                WriteHits, FlushFails, log
  <2>5. QED
    BY <2>2, <2>3, <2>4
<1>6. summary' \in Summaries
  <2>1. summary \in Summaries
    BY DEF Kinds
  <2>2. CASE OpenSummary
    <3>1. summary' = [summary EXCEPT !.state = "truncated"]
      BY <2>2 DEF OpenSummary
    <3>2. QED
      BY <2>1, <3>1 DEF Summaries, FileState
  <2>3. CASE WriteSummary
    <3>1. summary' = [state |-> "whole", session |-> session, count |-> count,
                      listed |-> Listed, flagged |-> private]
      BY <2>3 DEF WriteSummary
    <3>2. session \in Nat /\ count \in Nat /\ Listed \subseteq Endpoints
          /\ private \subseteq Endpoints
      BY DEF Kinds, Listed
    <3>3. QED
      BY <3>1, <3>2 DEF Summaries, FileState
  <2>4. CASE ~ OpenSummary /\ ~ WriteSummary
    BY <2>1, <2>4 DEF Next, Process, Capture, FlushReports, Start, Kill, Done, Response,
                BeginLine, SpoilLine, EndText, EndLine, Flushed, WriteFails, CloseFails,
                Inventory, OpenHits, WriteHits, FlushFails, reports
  <2>5. QED
    BY <2>2, <2>3, <2>4
<1>7. tail' \in LineState
  <2>1. tail \in LineState /\ Abandoned \in LineState
    BY DEF Kinds, LineState, Abandoned
  <2>2. CASE Process
    BY <2>1, <2>2 DEF Process, Start, Kill, Done, log
  <2>3. CASE Capture
    BY <2>1, <2>3 DEF Capture, Response, BeginLine, SpoilLine, EndText, EndLine, Flushed,
                      WriteFails, CloseFails, Inventory, LineState, log
  <2>4. CASE FlushReports
    BY <2>1, <2>4 DEF FlushReports, OpenSummary, WriteSummary, OpenHits, WriteHits, FlushFails,
       log
  <2>5. QED
    BY <2>2, <2>3, <2>4 DEF Next
<1>8. buffer' \in Seq(Bodies)
  <2>1. buffer \in Seq(Bodies)
    BY DEF Kinds
  <2>2. CASE \E f \in Flow, body \in Bodies : Response(f, body)
    BY <2>1, <2>2 DEF Response
  <2>3. CASE EndLine
    BY <2>1, <2>3 DEF EndLine, Flushing
  <2>4. CASE \E n \in 0 .. Len(buffer) : WriteFails(n)
    <3>1. PICK n \in 0 .. Len(buffer) : buffer' = SubSeq(buffer, 1, n)
      BY <2>4 DEF WriteFails
    <3>2. \A i \in 1 .. n : buffer[i] \in Bodies
      BY <2>1
    <3>3. QED
      BY <2>1, <3>1, <3>2
  <2>5. CASE Kill \/ CloseFails
    <3>1. buffer' = <<>>
      BY <2>5 DEF Kill, CloseFails
    <3>2. QED
      BY <3>1
  <2>6. CASE Next /\ ~ (Kill \/ CloseFails \/ EndLine)
                  /\ ~ (\E n \in 0 .. Len(buffer) : WriteFails(n))
                  /\ ~ (\E f \in Flow, body \in Bodies : Response(f, body))
    BY <2>1, <2>6 DEF Next, Process, Capture, FlushReports, Start, Done, BeginLine, SpoilLine,
                EndText, Flushed, Inventory, OpenSummary, WriteSummary, OpenHits, WriteHits,
                FlushFails, log
  <2>7. QED
    BY <2>2, <2>3, <2>4, <2>5, <2>6
<1>9. QED
  BY <1>1, <1>2, <1>3, <1>4, <1>5, <1>6, <1>7, <1>8 DEF Kinds

\* The count is one further from the last multiple of k, or is one.
LEMMA Remainder ==
  ASSUME NEW k \in Nat \ {0}, NEW c \in Nat, (c + 1) % k # 0
  PROVE  (c + 1) % k = (c % k) + 1
<1> DEFINE q == c \div k
           r == c % k
<1>1. r = c - k * q /\ q \in Int /\ r \in 0 .. k - 1
  BY Z3
<1> HIDE DEF q, r
<1>2. c = k * q + r
  BY <1>1
<1>3. ASSUME NEW p \in Int, NEW s \in 0 .. k - 1
      PROVE  (k * p + s) % k = s
  OBVIOUS
<1>4. CASE r = k - 1
  <2>1. c + 1 = k * (q + 1) + 0
    BY <1>1, <1>2, <1>4
  <2>2. (c + 1) % k = 0
    BY <1>1, <1>3, <2>1
  <2>3. QED
    BY <2>2
<1>5. CASE r # k - 1
  <2>1. c + 1 = k * q + (r + 1) /\ r + 1 \in 0 .. k - 1
    BY <1>1, <1>2, <1>5
  <2>2. QED
    BY <1>1, <1>3, <2>1 DEF r
<1>6. QED
  BY <1>4, <1>5

LEMMA RemainderBounds ==
  ASSUME NEW c \in Nat
  PROVE  c % FlushEvery \in 0 .. FlushEvery - 1 /\ (c < FlushEvery => c % FlushEvery = c)
BY BoundAssumption

LEMMA CoveredNatural == ASSUME Kinds PROVE Covered \in Nat
BY DEF Kinds, Covered, Summaries

\* The memory is written to api-summary.md no later than at the next multiple of FlushEvery.
LEMMA LagKept == ASSUME Kinds, SummaryLag, Next PROVE SummaryLag'
<1>1. CASE Start
  <2>1. count' = 0 /\ session' = session + 1 /\ step' = "idle" /\ UNCHANGED summary
    BY <1>1 DEF Start
  <2>2. summary.session \in Nat /\ session \in Nat /\ summary.session <= session
    BY DEF Kinds, SummaryLag, Summaries
  <2>3. summary'.session <= session' /\ Covered' = 0
    BY <2>1, <2>2 DEF Covered
  <2>4. 0 - 0 <= 0 % FlushEvery
    BY BoundAssumption
  <2>5. QED
    BY <2>1, <2>3, <2>4 DEF SummaryLag
<1>2. CASE Kill \/ Done
  <2>1. UNCHANGED <<count, summary, session, failed>> /\ step' \in {"down", "summary"}
    BY <1>2 DEF Kill, Done, memory, reports
  <2>2. QED
    BY <2>1 DEF SummaryLag
<1>3. CASE \E f \in Flow, body \in Bodies : Response(f, body)
  <2>1. /\ step = "idle" /\ step' = "flush" /\ count' = count + 1
        /\ UNCHANGED <<summary, session, failed>>
    BY <1>3 DEF Response, reports
  <2>2. count' > 0 /\ count' - 1 = count /\ Covered' = Covered
    BY <2>1 DEF Kinds, Covered
  <2>3. QED
    BY <2>1, <2>2 DEF SummaryLag
<1>4. CASE Writes \/ Flushed
  <2>1. /\ step \in {"flush", "close"} /\ UNCHANGED <<count, summary, session, failed>>
        /\ step' = step \/ step' = IF step = "flush" THEN "inventory" ELSE "down"
    BY <1>4 DEF Writes, BeginLine, SpoilLine, EndText, EndLine, Flushed, Flushing, memory, reports
  <2>2. Covered' = Covered
    BY <2>1 DEF Covered
  <2>3. QED
    BY <2>1, <2>2 DEF SummaryLag
<1>10. CASE (\E n \in 0 .. Len(buffer) : WriteFails(n)) \/ CloseFails
  <2>1. /\ UNCHANGED <<count, summary, session>>
        /\ (step' = "idle" /\ failed') \/ step' = "down"
    BY <1>10 DEF WriteFails, CloseFails, memory, reports
  <2>2. QED
    BY <2>1 DEF SummaryLag
<1>5. CASE Inventory
  <2>1. /\ step = "inventory" /\ UNCHANGED <<count, summary, session, failed>>
        /\ step' = IF flow.local \/ count % FlushEvery = 0 THEN "summary" ELSE "idle"
    BY <1>5 DEF Inventory, reports
  <2>2. Covered' = Covered
    BY <2>1 DEF Covered
  <2>3. CASE step' = "idle" /\ ~ failed
    <3>1. count % FlushEvery # 0 /\ count > 0
      BY <2>1, <2>3 DEF SummaryLag
    <3>2. (count - 1) - Covered <= (count - 1) % FlushEvery
      BY <2>1, <2>3 DEF SummaryLag
    <3>3. count - 1 \in Nat /\ (count - 1) + 1 = count
      BY <3>1 DEF Kinds
    <3>4. count % FlushEvery = ((count - 1) % FlushEvery) + 1
      BY <3>1, <3>3, Remainder, BoundAssumption
    <3>5. (count - 1) % FlushEvery \in Nat
      BY <3>3, RemainderBounds
    <3>6. count - Covered <= count % FlushEvery
      BY <3>2, <3>3, <3>4, <3>5, CoveredNatural
    <3>7. QED
      BY <2>1, <2>2, <2>3, <3>6 DEF SummaryLag
  <2>4. CASE step' = "summary" \/ failed
    BY <2>1, <2>2, <2>4 DEF SummaryLag
  <2>5. QED
    BY <2>1, <2>3, <2>4
<1>6. CASE OpenSummary \/ FlushFails
  <2>1. UNCHANGED <<count, session>> /\ (step' = "summary text" \/ failed')
    BY <1>6 DEF OpenSummary, FlushFails, memory
  <2>2. summary'.session = summary.session
    BY <1>6 DEF OpenSummary, FlushFails, Kinds, Summaries
  <2>3. step' \in {"summary text", "idle", "close"}
    BY <1>6 DEF OpenSummary, FlushFails, Return
  <2>4. QED
    BY <2>1, <2>2, <2>3 DEF SummaryLag
<1>7. CASE WriteSummary
  <2>1. /\ UNCHANGED <<count, session>> /\ step' \in {"idle", "close", "hits"}
        /\ summary'.state = "whole" /\ summary'.session = session /\ summary'.count = count
    BY <1>7 DEF WriteSummary, Return, memory
  <2>2. Covered' = count
    BY <2>1 DEF Covered
  <2>3. count - count <= count % FlushEvery /\ session <= session
    BY RemainderBounds DEF Kinds
  <2>4. QED
    BY <2>1, <2>2, <2>3 DEF SummaryLag
<1>8. CASE OpenHits \/ WriteHits
  <2>1. /\ UNCHANGED <<count, summary, session>> /\ step \in {"hits", "hits text"}
        /\ step' \in {"hits text", "idle", "close"}
    BY <1>8 DEF OpenHits, WriteHits, Return, memory
  <2>2. Covered' = count /\ Covered = count
    BY <2>1 DEF SummaryLag, Covered
  <2>3. count - count <= count % FlushEvery /\ session <= session
    BY RemainderBounds DEF Kinds
  <2>4. QED
    BY <2>1, <2>2, <2>3 DEF SummaryLag
<1>9. QED
  BY <1>1, <1>2, <1>3, <1>4, <1>5, <1>6, <1>7, <1>8, <1>10
  DEF Next, Process, Capture, FlushReports, Writes

\* No local hit is on its way past LOCAL-HITS.txt.
LEMMA HitsKept == ASSUME Kinds, HitsListed, Next PROVE HitsListed'
<1>1. CASE Start
  BY <1>1 DEF Start, HitsListed, HitEndpoints
<1>2. CASE Kill \/ Done
  <2>1. UNCHANGED <<private, localHits, summary, hitsFile>> /\ step' \in {"down", "summary"}
    BY <1>2 DEF Kill, Done, memory, reports
  <2>2. QED
    BY <2>1 DEF HitsListed, HitEndpoints, Quiet
<1>3. CASE (\E f \in Flow, body \in Bodies : Response(f, body)) \/ Writes \/ Flushed
  <2>1. /\ UNCHANGED <<private, localHits, summary, hitsFile, session, failed>>
        /\ \/ step \in {"idle", "flush"} /\ step' \in {"flush", "inventory"}
           \/ step = "close" /\ step' \in {"close", "down"}
    BY <1>3 DEF Response, Writes, BeginLine, SpoilLine, EndText, EndLine, Flushed, Flushing,
                memory, reports
  <2>2. QED
    BY <2>1 DEF HitsListed, HitEndpoints, Quiet
<1>11. CASE (\E n \in 0 .. Len(buffer) : WriteFails(n)) \/ CloseFails
  <2>1. /\ UNCHANGED <<private, localHits>> /\ step' \in {"idle", "down"}
        /\ failed' \/ step' = "down"
    BY <1>11 DEF WriteFails, CloseFails, memory
  <2>2. QED
    BY <2>1 DEF HitsListed, HitEndpoints, Quiet
<1>4. CASE Inventory
  <2>1. /\ step = "inventory" /\ UNCHANGED <<summary, hitsFile, session, failed>>
        /\ step' \in {"summary", "idle"} /\ (flow.local => step' = "summary")
        /\ localHits' = IF flow.local THEN Append(localHits, flow.endpoint) ELSE localHits
        /\ private' \in {private, IF flow.local THEN private \cup {flow.endpoint} ELSE private}
    BY <1>4 DEF Inventory, reports
  <2>2. CASE flow.local
    <3>1. HitEndpoints' = HitEndpoints \cup {flow.endpoint}
      <4>1. localHits \in Seq(Endpoints) /\ flow.endpoint \in Endpoints
        BY DEF Kinds, Flow
      <4>2. /\ DOMAIN localHits = 1 .. Len(localHits) /\ Len(localHits) \in Nat
            /\ DOMAIN localHits' = 1 .. (Len(localHits) + 1)
            /\ \A i \in 1 .. Len(localHits) : localHits'[i] = localHits[i]
            /\ localHits'[Len(localHits) + 1] = flow.endpoint
        BY <2>1, <2>2, <4>1
      <4>3. QED
        BY <4>2 DEF HitEndpoints
    <3>2. QED
      BY <2>1, <2>2, <3>1 DEF HitsListed, Quiet
  <2>3. CASE ~ flow.local
    BY <2>1, <2>3 DEF HitsListed, HitEndpoints, Quiet
  <2>4. QED
    BY <2>2, <2>3
<1>5. CASE OpenSummary
  <2>1. UNCHANGED <<private, localHits>> /\ step' = "summary text"
    BY <1>5 DEF OpenSummary, memory
  <2>2. QED
    BY <2>1 DEF HitsListed, HitEndpoints, Quiet
<1>6. CASE WriteSummary
  <2>1. /\ UNCHANGED <<private, localHits>> /\ summary'.flagged = private
        /\ step' = "hits" \/ localHits = <<>>
        /\ step' \in {"hits", "idle", "close"}
    BY <1>6 DEF WriteSummary, Return, memory
  <2>2. QED
    BY <2>1 DEF HitsListed, HitEndpoints, Quiet
<1>7. CASE OpenHits
  <2>1. UNCHANGED <<private, localHits, summary>> /\ step = "hits" /\ step' = "hits text"
    BY <1>7 DEF OpenHits, memory
  <2>2. QED
    BY <2>1 DEF HitsListed, HitEndpoints, Quiet
<1>8. CASE WriteHits
  <2>1. /\ UNCHANGED <<private, localHits, summary, session>>
        /\ step = "hits text" /\ step' \in {"idle", "close"}
        /\ hitsFile' = [state |-> "whole", session |-> session, hits |-> localHits]
    BY <1>8 DEF WriteHits, Return, memory
  <2>2. QED
    BY <2>1 DEF HitsListed, HitEndpoints, Quiet
<1>9. CASE FlushFails
  <2>1. UNCHANGED <<private, localHits>> /\ failed' /\ step' \in {"idle", "close"}
    BY <1>9 DEF FlushFails, Return, memory
  <2>2. QED
    BY <2>1 DEF HitsListed, HitEndpoints, Quiet
<1>10. QED
  BY <1>1, <1>2, <1>3, <1>4, <1>5, <1>6, <1>7, <1>8, <1>9, <1>11
  DEF Next, Process, Capture, FlushReports, Writes

-----------------------------------------------------------------------------
LEMMA Initially == Init => IInv
<1> SUFFICES ASSUME Init
    PROVE  IInv
  OBVIOUS
<1>1. Kinds
  <2>1. summary \in Summaries
    BY DEF Init, Summaries, FileState
  <2>2. flow \in Flow /\ step \in Steps
    BY DEF Init, Steps
  <2>3. /\ count \in Nat /\ session \in Nat /\ recorded \in Nat /\ kills \in Nat /\ fails \in Nat
        /\ localHits \in Seq(Endpoints) /\ file \in Seq(Bodies \cup {Garbage})
        /\ buffer \in Seq(Bodies) /\ tail \in LineState
    BY DEF Init, LineState
  <2>4. private \in SUBSET Endpoints
    BY DEF Init
  <2>5. QED
    BY <2>1, <2>2, <2>3, <2>4 DEF Kinds
<1>2. Readable = {} /\ Debt = 0
  BY DEF Init, Readable, Debt
<1>3. LineOpen /\ RecordsCounted
  BY <1>2, FS_EmptySet DEF Init, LineOpen, RecordsCounted
<1>4. SummaryLag /\ HitsListed
  BY DEF Init, SummaryLag, HitsListed, Quiet
<1>5. QED
  BY <1>1, <1>3, <1>4 DEF IInv

LEMMA Stuttering == IInv /\ UNCHANGED vars => IInv'
<1> SUFFICES ASSUME IInv, UNCHANGED vars
    PROVE  IInv'
  OBVIOUS
<1>1. /\ UNCHANGED <<step, flow, count, private, localHits, file, tail, buffer, summary>>
      /\ UNCHANGED <<hitsFile, failed, session, recorded, kills, fails>>
  BY DEF vars, memory, reports, log, faults
<1>2. Kinds' /\ LineOpen'
  BY <1>1 DEF IInv, Kinds, LineOpen
<1>3. RecordsCounted'
  BY <1>1 DEF IInv, RecordsCounted, Readable, Debt
<1>4. SummaryLag'
  BY <1>1 DEF IInv, SummaryLag, Covered
<1>5. HitsListed'
  BY <1>1 DEF IInv, HitsListed, HitEndpoints, Quiet
<1>6. QED
  BY <1>2, <1>3, <1>4, <1>5 DEF IInv

LEMMA Invariant == Spec => []IInv
<1>1. IInv /\ Next => IInv'
  BY KindsKept, RecordsKept, LagKept, HitsKept DEF IInv
<1>2. IInv /\ [Next]_vars => IInv'
  BY <1>1, Stuttering
<1>3. QED
  BY <1>2, Initially, PTL DEF Spec

\* flows.jsonl loses at most one record for each time a process was killed or a write failed,
\* whether that left a piece of a record or a whole one without its newline.
THEOREM RecordsFaultsOnly == Spec => []RecordsSurvive
<1>1. IInv => RecordsSurvive
  <2> SUFFICES ASSUME IInv
      PROVE  RecordsSurvive
    OBVIOUS
  <2>1. Cardinality(Readable) \in Nat /\ Debt \in 0 .. 2
    BY FS_CardinalityType DEF IInv, RecordsCounted, Debt
  <2>2. QED
    BY <2>1 DEF IInv, Kinds, RecordsCounted, RecordsSurvive
<1>2. QED
  BY <1>1, Invariant, PTL

\* Whatever was killed or failed before, a summary whose last attempt went well is of this
\* process and misses fewer flows than the period of the reports.
THEOREM SummaryKeepsUp == Spec => []SummaryCurrent
<1>1. IInv => SummaryCurrent
  <2> SUFFICES ASSUME IInv, step = "idle", ~ failed, count >= FlushEvery
      PROVE  /\ summary.state = "whole"
             /\ summary.session = session
             /\ count - summary.count < FlushEvery
    BY DEF SummaryCurrent
  <2>1. count - Covered <= count % FlushEvery
    BY DEF IInv, SummaryLag
  <2>2. count \in Nat /\ count % FlushEvery \in 0 .. FlushEvery - 1 /\ FlushEvery \in Nat \ {0}
    BY RemainderBounds, BoundAssumption DEF IInv, Kinds
  <2>3. Covered # 0
    BY <2>1, <2>2
  <2>4. /\ summary.state = "whole" /\ summary.session = session
        /\ Covered = summary.count
    BY <2>3 DEF Covered
  <2>5. QED
    BY <2>1, <2>2, <2>4, CoveredNatural DEF IInv
<1>2. QED
  BY <1>1, Invariant, PTL

\* Between two flows every local hit of this process is in LOCAL-HITS.txt, unless the last
\* attempt to write it failed.
THEOREM LocalHitsReachDisk == Spec => []LocalHitsOnDisk
<1>1. IInv => LocalHitsOnDisk
  <2> SUFFICES ASSUME IInv, step = "idle", ~ failed, localHits # <<>>
      PROVE  /\ hitsFile = [state |-> "whole", session |-> session, hits |-> localHits]
             /\ summary.flagged \subseteq {hitsFile.hits[i] : i \in DOMAIN hitsFile.hits}
    BY DEF LocalHitsOnDisk
  <2>1. hitsFile = [state |-> "whole", session |-> session, hits |-> localHits]
    BY DEF IInv, HitsListed, Quiet
  <2>2. hitsFile.hits = localHits
    BY <2>1
  <2>3. QED
    BY <2>1, <2>2 DEF IInv, HitsListed, HitEndpoints, Quiet
<1>2. QED
  BY <1>1, Invariant, PTL

-----------------------------------------------------------------------------
(***************************************************************************)
(* The watcher beside the addon.                                           *)
(***************************************************************************)

\* Where verb v stands in flows.jsonl.
Places(v) == {i \in DOMAIN file : file[i] = v}

\* What the watcher has read and reported is, or was, on file.
WatchOnFile ==
  /\ IsFiniteSet(captured) /\ captured \subseteq Verbs
  /\ W!VerbsOnFile \subseteq captured
  /\ batch \in Seq(Bodies \cup {Garbage})
  /\ \A i \in DOMAIN batch : batch[i] \in Verbs => batch[i] \in captured
  /\ known \subseteq captured

\* The lines that the last listing had as commands and that are none any more.
LinesLost == {i \in DOMAIN file : \E v \in Verbs : i \in listed[v] /\ file[i] # v}

\* The verbs that are no longer on file.
VerbsLost == captured \ W!VerbsOnFile

\* A record without its newline may be lost yet.
AtRisk == IF tail = "left" THEN 1 ELSE 0

LossesCounted ==
  /\ \A v \in Verbs : listed[v] \subseteq DOMAIN file
  /\ IsFiniteSet(LinesLost) /\ Cardinality(LinesLost) + AtRisk <= kills + fails
  /\ IsFiniteSet(VerbsLost) /\ Cardinality(VerbsLost) + AtRisk <= kills + fails

SystemInv == IInv /\ WatchOnFile /\ LossesCounted

LEMMA WatchStutters ==
  ASSUME W!WatchNext, UNCHANGED addonOnlyVars
  PROVE  UNCHANGED vars
<1>1. UNCHANGED file
  BY DEF W!WatchNext, W!Watching, W!WatchStart, W!StartFails, W!Loop, W!Scan, W!ScanFails,
         W!TellNext, W!TellFails, W!Sleep, W!WakeUp, W!Expire, W!Once, W!OnceFails
<1>2. QED
  BY <1>1 DEF vars, addonOnlyVars, memory, log, reports

\* Reading the file does not disturb the addon.
THEOREM SystemRunsAddon == SystemSpec => Spec
<1>1. SystemInit => Init
  BY DEF SystemInit
<1>2. [SystemNext]_systemVars => [Next]_vars
  BY WatchStutters DEF SystemNext, systemVars
<1>3. QED
  BY <1>1, <1>2, PTL DEF SystemSpec, Spec

\* The addon adds a command to the file, or none; or it spoils the last line.
LEMMA FileSteps ==
  ASSUME Kinds, LineOpen, Next
  PROVE  /\ DOMAIN file \subseteq DOMAIN file'
         /\ \/ /\ ~ SpoilLine
               /\ \A v \in Verbs : Places(v) \subseteq Places(v)'
               /\ \/ W!VerbsOnFile' = W!VerbsOnFile
                  \/ \E v \in Verbs : W!VerbsOnFile' = W!VerbsOnFile \cup {v}
            \/ /\ SpoilLine
               /\ \A v \in Verbs : Places(v) \ {Len(file)} \subseteq Places(v)'
               /\ \/ W!VerbsOnFile' = W!VerbsOnFile
                  \/ \E v \in Verbs : W!VerbsOnFile' = W!VerbsOnFile \ {v}
<1>0. Garbage \notin Verbs
  BY GarbageAssumption, BodiesAssumption
<1>1. CASE BeginLine
  <2>1. file' = Append(file, Garbage) /\ tail = "newline"
    BY <1>1 DEF BeginLine
  <2>2. /\ Len(file) \in Nat /\ DOMAIN file = 1 .. Len(file)
        /\ DOMAIN file' = 1 .. (Len(file) + 1)
        /\ \A i \in 1 .. Len(file) : file'[i] = file[i]
        /\ file'[Len(file) + 1] = Garbage
    BY <2>1 DEF Kinds
  <2>3. ~ SpoilLine
    BY <2>1 DEF SpoilLine
  <2>4. QED
    BY <1>0, <2>2, <2>3 DEF Places, W!VerbsOnFile
<1>2. CASE EndText
  <2>1. file' = [file EXCEPT ![Len(file)] = Head(buffer)] /\ tail = "piece"
    BY <1>2 DEF EndText
  <2>2. file # <<>> /\ file[Len(file)] = Garbage /\ ~ SpoilLine
    BY <2>1 DEF LineOpen, SpoilLine
  <2>3. /\ Len(file) \in DOMAIN file /\ DOMAIN file' = DOMAIN file
        /\ \A i \in DOMAIN file : file'[i] = IF i = Len(file) THEN Head(buffer) ELSE file[i]
    BY <2>1, <2>2, LastReplaced
  <2>4. \A v \in Verbs : Places(v) \subseteq Places(v)'
    BY <1>0, <2>2, <2>3 DEF Places
  <2>5. W!VerbsOnFile' = W!VerbsOnFile \cup ({Head(buffer)} \cap Verbs)
    BY <1>0, <2>2, <2>3 DEF W!VerbsOnFile
  <2>6. QED
    BY <2>2, <2>3, <2>4, <2>5
<1>3. CASE SpoilLine
  <2>1. file' = [file EXCEPT ![Len(file)] = Garbage] /\ file # <<>>
    BY <1>3 DEF SpoilLine, LineOpen
  <2>2. /\ Len(file) \in DOMAIN file /\ DOMAIN file' = DOMAIN file
        /\ \A i \in DOMAIN file : file'[i] = IF i = Len(file) THEN Garbage ELSE file[i]
    BY <2>1, LastReplaced
  <2>3. \A v \in Verbs : Places(v) \ {Len(file)} \subseteq Places(v)'
    BY <2>2 DEF Places
  <2>4. /\ W!VerbsOnFile' \subseteq W!VerbsOnFile
        /\ W!VerbsOnFile \ {file[Len(file)]} \subseteq W!VerbsOnFile'
    BY <1>0, <2>2 DEF W!VerbsOnFile
  <2>5. \/ W!VerbsOnFile' = W!VerbsOnFile
        \/ /\ file[Len(file)] \in Verbs
           /\ W!VerbsOnFile' = W!VerbsOnFile \ {file[Len(file)]}
    <3>1. W!VerbsOnFile \subseteq Verbs
      BY DEF W!VerbsOnFile
    <3>2. QED
      BY <2>4, <3>1
  <2>6. QED
    BY <1>3, <2>2, <2>3, <2>5
<1>4. CASE Next /\ ~ (BeginLine \/ EndText \/ SpoilLine)
  <2>1. UNCHANGED file
    BY <1>4 DEF Next, Process, Capture, FlushReports, Start, Kill, Done, Response, EndLine,
                Flushed, WriteFails, CloseFails, Inventory, OpenSummary, WriteSummary, OpenHits,
                WriteHits, FlushFails, log
  <2>2. QED
    BY <1>4, <2>1 DEF Places, W!VerbsOnFile
<1>5. QED
  BY <1>1, <1>2, <1>3, <1>4

\* A line is only put at risk by a kill or a write that fails.
LEMMA RiskPaid ==
  ASSUME Kinds, Next
  PROVE  /\ kills' + fails' \in Nat /\ kills + fails \in Nat
         /\ AtRisk \in 0 .. 1 /\ AtRisk' \in 0 .. 1
         /\ kills + fails <= kills' + fails'
         /\ ~ SpoilLine => AtRisk' <= AtRisk + (kills' + fails') - (kills + fails)
         /\ SpoilLine => AtRisk = 1 /\ AtRisk' = 0
<1>1. kills \in Nat /\ fails \in Nat
  BY DEF Kinds
<1>2. CASE Kill \/ (\E n \in 0 .. Len(buffer) : WriteFails(n)) \/ CloseFails
  <2>1. /\ \/ kills' = kills + 1 /\ fails' = fails
           \/ kills' = kills /\ fails' = fails + 1
        /\ UNCHANGED file /\ step' # step
    BY <1>2 DEF Kill, WriteFails, CloseFails, Up, Flushing
  <2>2. ~ SpoilLine
    BY <2>1 DEF SpoilLine
  <2>3. QED
    BY <1>1, <2>1, <2>2 DEF AtRisk
<1>3. CASE Writes
  <2>1. UNCHANGED <<kills, fails>>
    BY <1>3 DEF Writes, BeginLine, SpoilLine, EndText, EndLine, faults
  <2>2. tail' # "left" /\ (SpoilLine => tail = "left")
    BY <1>3 DEF Writes, BeginLine, SpoilLine, EndText, EndLine
  <2>3. QED
    BY <1>1, <2>1, <2>2 DEF AtRisk
<1>4. CASE Process \/ Capture \/ FlushReports
  <2> SUFFICES ASSUME ~ (Kill \/ (\E n \in 0 .. Len(buffer) : WriteFails(n)) \/ CloseFails),
                      ~ Writes
      PROVE  UNCHANGED <<tail, kills, fails>> /\ ~ SpoilLine
    BY <1>1, <1>2, <1>3 DEF AtRisk
  <2>1. QED
    BY <1>4 DEF Process, Capture, FlushReports, Writes, Start, Done, Response, Flushed, Inventory,
                OpenSummary, WriteSummary, OpenHits, WriteHits, FlushFails, log, faults
<1>5. QED
  BY <1>4 DEF Next

\* A set that gains no more than one element.
LEMMA OneMore ==
  ASSUME NEW S, IsFiniteSet(S), NEW x, NEW T, T \subseteq S \cup {x}
  PROVE  IsFiniteSet(T) /\ Cardinality(T) <= Cardinality(S) + 1
<1>1. /\ IsFiniteSet(S \cup {x})
      /\ Cardinality(S \cup {x}) = Cardinality(S) \/ Cardinality(S \cup {x}) = Cardinality(S) + 1
  BY FS_AddElement
<1>2. IsFiniteSet(T) /\ Cardinality(T) <= Cardinality(S \cup {x})
  BY <1>1, FS_Subset
<1>3. Cardinality(S) \in Nat /\ Cardinality(T) \in Nat
  BY <1>2, FS_CardinalityType
<1>4. QED
  BY <1>1, <1>2, <1>3

LEMMA AddonKeeps ==
  ASSUME SystemInv, Next, UNCHANGED watcherVars, captured' = captured \cup W!VerbsOnFile'
  PROVE  SystemInv'
<1>1. IInv'
  BY KindsKept, RecordsKept, LagKept, HitsKept DEF SystemInv, IInv
<1>2. UNCHANGED <<batch, known, listed>>
  BY DEF watcherVars
<1>3. WatchOnFile'
  <2>1. captured' = captured \/ \E v \in Verbs : captured' = captured \cup {v}
    BY FileSteps DEF SystemInv, IInv, WatchOnFile
  <2>2. IsFiniteSet(captured')
    BY <2>1, FS_AddElement DEF SystemInv, WatchOnFile
  <2>3. captured \subseteq captured' /\ captured' \subseteq Verbs
    BY <2>1 DEF SystemInv, WatchOnFile
  <2>4. QED
    BY <1>2, <2>2, <2>3 DEF SystemInv, WatchOnFile
<1>4. /\ kills' + fails' \in Nat /\ kills + fails \in Nat
      /\ AtRisk \in 0 .. 1 /\ AtRisk' \in 0 .. 1
      /\ kills + fails <= kills' + fails'
      /\ ~ SpoilLine => AtRisk' <= AtRisk + (kills' + fails') - (kills + fails)
      /\ SpoilLine => AtRisk = 1 /\ AtRisk' = 0
  BY RiskPaid DEF SystemInv, IInv
<1>5. \A v \in Verbs : listed'[v] \subseteq DOMAIN file'
  BY <1>2, FileSteps DEF SystemInv, IInv, LossesCounted
<1>6. /\ IsFiniteSet(LinesLost) /\ Cardinality(LinesLost) + AtRisk <= kills + fails
      /\ IsFiniteSet(VerbsLost) /\ Cardinality(VerbsLost) + AtRisk <= kills + fails
      /\ Cardinality(LinesLost) \in Nat /\ Cardinality(VerbsLost) \in Nat
  BY FS_CardinalityType DEF SystemInv, LossesCounted
<1>7. CASE ~ SpoilLine
  <2>1. LinesLost' \subseteq LinesLost
    <3> SUFFICES ASSUME NEW i \in DOMAIN file', NEW v \in Verbs, i \in listed[v], file'[i] # v
        PROVE  i \in LinesLost
      BY <1>2 DEF LinesLost
    <3>1. i \in DOMAIN file
      BY DEF SystemInv, LossesCounted
    <3>2. i \notin Places(v)'
      BY DEF Places
    <3>3. i \notin Places(v)
      BY <1>7, <3>2, FileSteps DEF SystemInv, IInv
    <3>4. QED
      BY <3>1, <3>3 DEF LinesLost, Places
  <2>2. VerbsLost' \subseteq VerbsLost
    BY <1>7, FileSteps DEF VerbsLost, SystemInv, IInv
  <2>3. /\ IsFiniteSet(LinesLost') /\ Cardinality(LinesLost') <= Cardinality(LinesLost)
        /\ IsFiniteSet(VerbsLost') /\ Cardinality(VerbsLost') <= Cardinality(VerbsLost)
        /\ Cardinality(LinesLost') \in Nat /\ Cardinality(VerbsLost') \in Nat
    BY <1>6, <2>1, <2>2, FS_Subset, FS_CardinalityType
  <2>4. /\ Cardinality(LinesLost') + AtRisk' <= kills' + fails'
        /\ Cardinality(VerbsLost') + AtRisk' <= kills' + fails'
    BY <1>4, <1>6, <1>7, <2>3
  <2>5. QED
    BY <1>1, <1>3, <1>5, <2>3, <2>4 DEF SystemInv, LossesCounted
<1>8. CASE SpoilLine
  <2>1. LinesLost' \subseteq LinesLost \cup {Len(file)}
    <3> SUFFICES ASSUME NEW i \in DOMAIN file', NEW v \in Verbs, i \in listed[v], file'[i] # v,
                        i # Len(file)
        PROVE  i \in LinesLost
      BY <1>2 DEF LinesLost
    <3>1. i \in DOMAIN file
      BY DEF SystemInv, LossesCounted
    <3>2. i \notin Places(v)'
      BY DEF Places
    <3>3. i \notin Places(v)
      BY <1>8, <3>2, FileSteps DEF SystemInv, IInv
    <3>4. QED
      BY <3>1, <3>3 DEF LinesLost, Places
  <2>2. \E v : VerbsLost' \subseteq VerbsLost \cup {v}
    <3>1. W!VerbsOnFile' = W!VerbsOnFile \/ \E v \in Verbs : W!VerbsOnFile' = W!VerbsOnFile \ {v}
      BY <1>8, FileSteps DEF SystemInv, IInv
    <3>2. captured' = captured
      BY <3>1 DEF SystemInv, WatchOnFile
    <3>3. QED
      BY <3>1, <3>2 DEF VerbsLost
  <2>3. /\ IsFiniteSet(LinesLost') /\ Cardinality(LinesLost') <= Cardinality(LinesLost) + 1
        /\ IsFiniteSet(VerbsLost') /\ Cardinality(VerbsLost') <= Cardinality(VerbsLost) + 1
    BY <1>6, <2>1, <2>2, OneMore
  <2>4. Cardinality(LinesLost') \in Nat /\ Cardinality(VerbsLost') \in Nat
    BY <2>3, FS_CardinalityType
  <2>5. /\ Cardinality(LinesLost') + AtRisk' <= kills' + fails'
        /\ Cardinality(VerbsLost') + AtRisk' <= kills' + fails'
    BY <1>4, <1>6, <1>8, <2>3, <2>4
  <2>6. QED
    BY <1>1, <1>3, <1>5, <2>3, <2>5 DEF SystemInv, LossesCounted
<1>9. QED
  BY <1>7, <1>8

LEMMA WatchKeeps ==
  ASSUME SystemInv, W!WatchNext, UNCHANGED addonOnlyVars,
         captured' = captured \cup W!VerbsOnFile'
  PROVE  SystemInv'
<1>1. UNCHANGED vars
  BY WatchStutters
<1>2. IInv' /\ UNCHANGED <<file, tail, kills, fails>>
  BY <1>1, Stuttering DEF SystemInv, vars, log, faults
<1>3. W!VerbsOnFile' = W!VerbsOnFile /\ \A v : Places(v)' = Places(v)
  BY <1>2 DEF W!VerbsOnFile, Places
<1>4. captured' = captured
  BY <1>3 DEF SystemInv, WatchOnFile
<1>5. WatchOnFile'
  <2>1. CASE W!WatchStart
    BY <1>3, <1>4, <2>1 DEF W!WatchStart, SystemInv, WatchOnFile
  <2>2. CASE W!Scan
    <3>1. batch' = file /\ known' = known
      BY <2>2 DEF W!Scan
    <3>2. file \in Seq(Bodies \cup {Garbage})
      BY DEF SystemInv, IInv, Kinds
    <3>3. \A i \in DOMAIN file : file[i] \in Verbs => file[i] \in captured
      BY DEF W!VerbsOnFile, SystemInv, WatchOnFile
    <3>4. QED
      BY <1>3, <1>4, <3>1, <3>2, <3>3 DEF SystemInv, WatchOnFile
  <2>3. CASE W!TellNext
    <3>1. batch # <<>> /\ batch' = Tail(batch) /\ batch \in Seq(Bodies \cup {Garbage})
      BY <2>3 DEF W!TellNext, SystemInv, WatchOnFile
    <3>2. /\ batch' \in Seq(Bodies \cup {Garbage})
          /\ Len(batch) \in Nat /\ DOMAIN batch = 1 .. Len(batch) /\ 1 \in DOMAIN batch
          /\ DOMAIN batch' = 1 .. (Len(batch) - 1)
          /\ \A i \in DOMAIN batch' : batch'[i] = batch[i + 1] /\ i + 1 \in DOMAIN batch
          /\ Head(batch) = batch[1]
      <4>1. /\ Len(batch) \in Nat /\ DOMAIN batch = 1 .. Len(batch) /\ Len(batch) # 0
            /\ Head(batch) = batch[1]
        BY <3>1
      <4>2. /\ batch' \in Seq(Bodies \cup {Garbage}) /\ Len(batch') = Len(batch) - 1
            /\ \A i \in 1 .. Len(batch) - 1 : batch'[i] = batch[i + 1]
        BY <3>1, <4>1
      <4>3. DOMAIN batch' = 1 .. (Len(batch) - 1)
        BY <4>2
      <4>4. QED
        BY <4>1, <4>2, <4>3
    <3>3. \A i \in DOMAIN batch' : batch'[i] \in Verbs => batch'[i] \in captured
      BY <3>2 DEF SystemInv, WatchOnFile
    <3>4. known' \subseteq known \cup ({Head(batch)} \cap Verbs)
      BY <2>3 DEF W!TellNext
    <3>5. known' \subseteq captured
      BY <3>2, <3>4 DEF SystemInv, WatchOnFile
    <3>6. QED
      BY <1>3, <1>4, <3>2, <3>3, <3>5 DEF SystemInv, WatchOnFile
  <2>4. CASE W!WatchNext /\ ~ (W!WatchStart \/ W!Scan \/ W!TellNext)
    <3>1. UNCHANGED <<batch, known>>
      BY <2>4 DEF W!WatchNext, W!Watching, W!StartFails, W!Loop, W!ScanFails, W!TellFails,
                  W!Sleep, W!WakeUp, W!Expire, W!Once, W!OnceFails
    <3>2. QED
      BY <1>3, <1>4, <3>1 DEF SystemInv, WatchOnFile
  <2>5. QED
    BY <2>1, <2>2, <2>3, <2>4
<1>6. VerbsLost' = VerbsLost /\ AtRisk' = AtRisk
  BY <1>2, <1>3, <1>4 DEF VerbsLost, AtRisk
<1>7. LossesCounted'
  <2>1. CASE W!Once \/ W!OnceFails
    <3>1. \A v \in Verbs : listed'[v] \subseteq Places(v)
      BY <2>1 DEF W!Once, W!OnceFails, Places
    <3>2. LinesLost' = {} /\ \A v \in Verbs : listed'[v] \subseteq DOMAIN file'
      BY <1>2, <3>1 DEF LinesLost, Places
    <3>3. AtRisk <= kills + fails
      <4>1. /\ Cardinality(LinesLost) \in Nat /\ AtRisk \in 0 .. 1
            /\ Cardinality(LinesLost) + AtRisk <= kills + fails
        BY FS_CardinalityType DEF SystemInv, LossesCounted, AtRisk
      <4>2. QED
        BY <4>1 DEF SystemInv, IInv, Kinds
    <3>4. IsFiniteSet(LinesLost') /\ Cardinality(LinesLost') = 0
      BY <3>2, FS_EmptySet
    <3>5. 0 + AtRisk' <= kills' + fails'
      BY <1>2, <1>6, <3>3 DEF AtRisk
    <3>6. QED
      BY <1>2, <1>6, <3>2, <3>4, <3>5 DEF SystemInv, LossesCounted
  <2>2. CASE W!WatchNext /\ ~ (W!Once \/ W!OnceFails)
    <3>1. UNCHANGED listed
      BY <2>2 DEF W!WatchNext, W!Watching, W!WatchStart, W!StartFails, W!Loop, W!Scan,
                  W!ScanFails, W!TellNext, W!TellFails, W!Sleep, W!WakeUp, W!Expire
    <3>2. LinesLost' = LinesLost
      BY <1>2, <3>1 DEF LinesLost
    <3>3. QED
      BY <1>2, <1>6, <3>1, <3>2 DEF SystemInv, LossesCounted
  <2>3. QED
    BY <2>1, <2>2
<1>8. QED
  BY <1>2, <1>5, <1>7 DEF SystemInv

LEMMA SystemInvariant == SystemSpec => []SystemInv
<1>1. SystemInit => SystemInv
  <2> SUFFICES ASSUME SystemInit
      PROVE  SystemInv
    OBVIOUS
  <2>1. IInv
    BY Initially DEF SystemInit
  <2>2. /\ file = <<>> /\ batch = <<>> /\ known = {} /\ captured = {}
        /\ tail = "newline" /\ kills = 0 /\ fails = 0 /\ listed = [v \in Verbs |-> {}]
    BY DEF SystemInit, Init, W!WatchInit
  <2>3. W!VerbsOnFile = {} /\ VerbsLost = {} /\ LinesLost = {}
    BY <2>2 DEF W!VerbsOnFile, VerbsLost, LinesLost
  <2>4. WatchOnFile
    BY <2>2, <2>3, FS_EmptySet DEF WatchOnFile
  <2>5. LossesCounted
    BY <2>2, <2>3, FS_EmptySet DEF LossesCounted, AtRisk
  <2>6. QED
    BY <2>1, <2>4, <2>5 DEF SystemInv
<1>2. SystemInv /\ UNCHANGED systemVars => SystemInv'
  <2> SUFFICES ASSUME SystemInv, UNCHANGED systemVars
      PROVE  SystemInv'
    OBVIOUS
  <2>1. UNCHANGED vars /\ UNCHANGED watcherVars /\ captured' = captured
    BY DEF systemVars
  <2>2. IInv' /\ UNCHANGED <<file, tail, kills, fails>>
    BY <2>1, Stuttering DEF SystemInv, vars, log, faults
  <2>3. UNCHANGED <<batch, known, listed>>
    BY <2>1 DEF watcherVars
  <2>4. W!VerbsOnFile' = W!VerbsOnFile
    BY <2>2 DEF W!VerbsOnFile
  <2>5. VerbsLost' = VerbsLost /\ LinesLost' = LinesLost /\ AtRisk' = AtRisk
    BY <2>1, <2>2, <2>3, <2>4 DEF VerbsLost, LinesLost, AtRisk
  <2>6. QED
    BY <2>1, <2>2, <2>3, <2>4, <2>5 DEF SystemInv, WatchOnFile, LossesCounted
<1>3. SystemInv /\ [SystemNext]_systemVars => SystemInv'
  BY <1>2, AddonKeeps, WatchKeeps DEF SystemNext
<1>4. QED
  BY <1>1, <1>3, PTL DEF SystemSpec

\* However reads interleave with the writes, the deaths and the restarts of the addon, the watch
\* reports each verb once and none that was not captured.
THEOREM SystemReportsOnce == SystemSpec => ReportsEachVerbOnce
<1>1. SystemInit => Report!Init
  BY DEF SystemInit, Init, W!WatchInit, Report!Init, W!VerbsOnFile
<1>2. ASSUME SystemInv, Next, UNCHANGED watcherVars, captured' = captured \cup W!VerbsOnFile'
      PROVE  [Report!Next]_(Report!vars)
  <2>1. UNCHANGED <<at, known, news>>
    BY <1>2 DEF watcherVars
  <2>2. W!VerbsOnFile \subseteq captured
    BY <1>2 DEF SystemInv, WatchOnFile
  <2>3. CASE W!VerbsOnFile' = W!VerbsOnFile
    BY <1>2, <2>1, <2>2, <2>3 DEF Report!vars
  <2>4. CASE \E v \in Verbs : W!VerbsOnFile' = W!VerbsOnFile \cup {v}
    <3>1. PICK v \in Verbs : W!VerbsOnFile' = W!VerbsOnFile \cup {v}
      BY <2>4
    <3>2. captured' = captured \cup {v}
      BY <1>2, <2>2, <3>1
    <3>3. Report!Capture(v)
      BY <2>1, <3>1, <3>2 DEF Report!Capture
    <3>4. QED
      BY <3>3 DEF Report!Next
  <2>5. CASE \E v \in Verbs : W!VerbsOnFile' = W!VerbsOnFile \ {v}
    <3>1. PICK v \in Verbs : W!VerbsOnFile' = W!VerbsOnFile \ {v}
      BY <2>5
    <3>2. captured' = captured
      BY <1>2, <2>2, <3>1
    <3>3. Report!Lose(v)
      BY <2>1, <3>1, <3>2 DEF Report!Lose
    <3>4. QED
      BY <3>3 DEF Report!Next
  <2>6. QED
    BY <1>2, <2>3, <2>4, <2>5, FileSteps DEF SystemInv, IInv
<1>3. ASSUME SystemInv, W!WatchNext, UNCHANGED addonOnlyVars,
             captured' = captured \cup W!VerbsOnFile'
      PROVE  [Report!Next]_(Report!vars)
  <2>1. W!VerbsOnFile' = W!VerbsOnFile /\ captured' = captured
    <3>1. UNCHANGED file
      BY <1>3, WatchStutters DEF vars, log
    <3>2. QED
      BY <1>3, <3>1 DEF W!VerbsOnFile, SystemInv, WatchOnFile
  <2>2. CASE W!WatchStart
    BY <2>1, <2>2 DEF W!WatchStart, Report!Next, Report!Greet
  <2>3. CASE W!TellNext
    <3>1. batch # <<>> => 1 \in DOMAIN batch /\ Head(batch) = batch[1]
      BY <1>3 DEF SystemInv, WatchOnFile
    <3>2. Head(batch) \in Verbs => Head(batch) \in captured
      BY <1>3, <2>3, <3>1 DEF W!TellNext, SystemInv, WatchOnFile
    <3>3. QED
      BY <2>1, <2>3, <3>2 DEF W!TellNext, Report!Next, Report!Tell, Report!vars
  <2>4. CASE W!WatchNext /\ ~ (W!WatchStart \/ W!TellNext)
    <3>1. UNCHANGED <<known, news>>
          /\ (at \notin {"start", "failed"}) = (at' \notin {"start", "failed"})
      BY <2>4 DEF W!WatchNext, W!Watching, W!StartFails, W!Loop, W!Scan, W!ScanFails,
                  W!TellFails, W!Sleep, W!WakeUp, W!Expire, W!Once, W!OnceFails
    <3>2. QED
      BY <2>1, <3>1 DEF Report!vars
  <2>5. QED
    BY <1>3, <2>2, <2>3, <2>4
<1>4. ASSUME UNCHANGED systemVars
      PROVE  UNCHANGED Report!vars
  BY <1>4 DEF systemVars, vars, log, watcherVars, Report!vars, W!VerbsOnFile
<1>5. SystemInv /\ [SystemNext]_systemVars => [Report!Next]_(Report!vars)
  BY <1>2, <1>3, <1>4 DEF SystemNext
<1>6. QED
  BY <1>1, <1>5, SystemInvariant, PTL DEF SystemSpec, ReportsEachVerbOnce, Report!Spec

\* Whatever is torn, killed, started again or fails, a later listing lacks no more commands of
\* an earlier one, and no more of the verbs that were reported, than there were faults.
THEOREM ListingsLoseLittle == SystemSpec => ListingLossBounded
<1>1. ASSUME SystemInv, W!Once
      PROVE  /\ Cardinality(UNION {listed[v] \ listed'[v] : v \in Verbs}) <= kills + fails
             /\ Cardinality({v \in known : listed'[v] = {}}) <= kills + fails
  <2>1. \A v \in Verbs : listed'[v] = Places(v)
    BY <1>1 DEF W!Once, Places
  <2>2. UNION {listed[v] \ listed'[v] : v \in Verbs} \subseteq LinesLost
    BY <1>1, <2>1 DEF LinesLost, Places, SystemInv, LossesCounted
  <2>3. {v \in known : listed'[v] = {}} \subseteq VerbsLost
    BY <1>1, <2>1 DEF VerbsLost, Places, W!VerbsOnFile, SystemInv, WatchOnFile
  <2>4. /\ IsFiniteSet(LinesLost) /\ IsFiniteSet(VerbsLost)
        /\ Cardinality(LinesLost) + AtRisk <= kills + fails
        /\ Cardinality(VerbsLost) + AtRisk <= kills + fails
        /\ AtRisk \in 0 .. 1 /\ kills + fails \in Nat
    BY <1>1 DEF SystemInv, IInv, Kinds, LossesCounted, AtRisk
  <2>5. /\ Cardinality(LinesLost) \in Nat /\ Cardinality(VerbsLost) \in Nat
        /\ \A T \in SUBSET LinesLost :
             Cardinality(T) \in Nat /\ Cardinality(T) <= Cardinality(LinesLost)
        /\ \A T \in SUBSET VerbsLost :
             Cardinality(T) \in Nat /\ Cardinality(T) <= Cardinality(VerbsLost)
    BY <2>4, FS_Subset, FS_CardinalityType
  <2>6. Cardinality(UNION {listed[v] \ listed'[v] : v \in Verbs}) <= kills + fails
    BY <2>2, <2>4, <2>5
  <2>7. Cardinality({v \in known : listed'[v] = {}}) <= kills + fails
    BY <2>3, <2>4, <2>5
  <2>8. QED
    BY <2>6, <2>7
<1>2. SystemInv =>
        (W!Once => /\ Cardinality(UNION {listed[v] \ listed'[v] : v \in Verbs}) <= kills + fails
                   /\ Cardinality({v \in known : listed'[v] = {}}) <= kills + fails)
  BY <1>1
<1>3. QED
  BY <1>2, SystemInvariant, PTL DEF ListingLossBounded

-----------------------------------------------------------------------------
(***************************************************************************)
(* The types of the system, within the bounds of the runs.                 *)
(***************************************************************************)

\* A flow is counted before its record is written, and its endpoint after that.
AtHand == IF step \in {"flush", "inventory"} THEN 1 ELSE 0

HitsFiles == [state : FileState, session : Nat, hits : Seq(Endpoints)]

\* What Kinds leaves out.
OtherKinds ==
  /\ closing \in BOOLEAN
  /\ failed \in BOOLEAN
  /\ hits \in [Endpoints -> Nat]
  /\ hitsFile \in HitsFiles
  /\ flows \in 0 .. MaxFlows
  /\ kills \in 0 .. MaxKills
  /\ fails \in 0 .. MaxFails + 1

\* No counter is ahead of the flows that were kept.
CountersBounded ==
  /\ \A e \in Endpoints : hits[e] + AtHand <= count
  /\ count <= flows
  /\ summary.count <= flows
  /\ recorded + Len(buffer) <= flows

Bounded == OtherKinds /\ CountersBounded

LEMMA OtherKindsKept == ASSUME Kinds, OtherKinds, Next PROVE OtherKinds'
<1>1. closing' \in BOOLEAN
  <2>1. closing \in BOOLEAN
    BY DEF OtherKinds
  <2>2. closing' = closing \/ closing' = TRUE \/ closing' = FALSE
    BY Zenon DEF Next, Process, Capture, FlushReports, Start, Kill, Done, Response, BeginLine,
       SpoilLine, EndText, EndLine, Flushed, WriteFails, CloseFails, Inventory, OpenSummary,
       WriteSummary, OpenHits, WriteHits, FlushFails
  <2>3. QED
    BY <2>1, <2>2
<1>2. failed' \in BOOLEAN
  <2>1. failed \in BOOLEAN
    BY DEF OtherKinds
  <2>2. failed' = failed \/ failed' = TRUE \/ failed' = FALSE
    BY Zenon DEF Next, Process, Capture, FlushReports, Start, Kill, Done, Response, BeginLine,
       SpoilLine, EndText, EndLine, Flushed, WriteFails, CloseFails, Inventory, OpenSummary,
       WriteSummary, OpenHits, WriteHits, FlushFails, reports
  <2>3. QED
    BY <2>1, <2>2
<1>3. hits' \in [Endpoints -> Nat]
  <2>1. hits \in [Endpoints -> Nat]
    BY DEF OtherKinds
  <2>2. CASE Start
    BY <2>2 DEF Start
  <2>3. CASE Inventory
    <3>1. hits' = [hits EXCEPT ![flow.endpoint] = @ + 1]
      BY <2>3 DEF Inventory
    <3>2. flow.endpoint \in Endpoints
      BY DEF Kinds, Flow
    <3>3. hits[flow.endpoint] + 1 \in Nat
      BY <2>1, <3>2
    <3>4. QED
      BY <2>1, <3>1, <3>3
  <2>4. CASE ~ Start /\ ~ Inventory
    BY <2>1, <2>4 DEF Next, Process, Capture, FlushReports, Kill, Done, Response, BeginLine,
       SpoilLine, EndText, EndLine, Flushed, WriteFails, CloseFails, OpenSummary, WriteSummary,
       OpenHits, WriteHits, FlushFails, memory
  <2>5. QED
    BY <2>2, <2>3, <2>4
<1>4. hitsFile' \in HitsFiles
  <2>1. hitsFile \in HitsFiles
    BY DEF OtherKinds
  <2>2. CASE OpenHits
    <3>1. hitsFile' = [hitsFile EXCEPT !.state = "truncated"]
      BY <2>2 DEF OpenHits
    <3>2. QED
      BY <2>1, <3>1 DEF HitsFiles, FileState
  <2>3. CASE WriteHits
    <3>1. hitsFile' = [state |-> "whole", session |-> session, hits |-> localHits]
      BY <2>3 DEF WriteHits
    <3>2. session \in Nat /\ localHits \in Seq(Endpoints)
      BY DEF Kinds
    <3>3. QED
      BY <3>1, <3>2 DEF HitsFiles, FileState
  <2>4. CASE ~ OpenHits /\ ~ WriteHits
    BY <2>1, <2>4 DEF Next, Process, Capture, FlushReports, Start, Kill, Done, Response,
       BeginLine, SpoilLine, EndText, EndLine, Flushed, WriteFails, CloseFails, Inventory,
       OpenSummary, WriteSummary, FlushFails, reports
  <2>5. QED
    BY <2>2, <2>3, <2>4
<1>5. flows' \in 0 .. MaxFlows
  <2>1. flows \in 0 .. MaxFlows /\ MaxFlows \in Nat
    BY BoundAssumption DEF OtherKinds
  <2>2. CASE \E f \in Flow, body \in Bodies : Response(f, body)
    BY <2>1, <2>2 DEF Response
  <2>3. CASE ~ \E f \in Flow, body \in Bodies : Response(f, body)
    BY <2>1, <2>3 DEF Next, Process, Capture, FlushReports, Start, Kill, Done, BeginLine,
       SpoilLine, EndText, EndLine, Flushed, WriteFails, CloseFails, Inventory, OpenSummary,
       WriteSummary, OpenHits, WriteHits, FlushFails
  <2>4. QED
    BY <2>2, <2>3
<1>6. kills' \in 0 .. MaxKills /\ fails' \in 0 .. MaxFails + 1
  <2>1. /\ kills \in 0 .. MaxKills /\ MaxKills \in Nat
        /\ fails \in 0 .. MaxFails + 1 /\ MaxFails \in Nat
    BY BoundAssumption DEF OtherKinds
  <2>2. CASE Kill \/ (\E n \in 0 .. Len(buffer) : WriteFails(n)) \/ CloseFails
    BY <2>1, <2>2 DEF Kill, WriteFails, CloseFails
  <2>3. CASE ~ (Kill \/ (\E n \in 0 .. Len(buffer) : WriteFails(n)) \/ CloseFails)
    BY <2>1, <2>3 DEF Next, Process, Capture, FlushReports, Start, Done, Response, BeginLine,
       SpoilLine, EndText, EndLine, Flushed, Inventory, OpenSummary, WriteSummary, OpenHits,
       WriteHits, FlushFails, faults
  <2>4. QED
    BY <2>2, <2>3
<1>7. QED
  BY <1>1, <1>2, <1>3, <1>4, <1>5, <1>6 DEF OtherKinds

LEMMA CountersBoundedKept == ASSUME Kinds, OtherKinds, CountersBounded,
Next PROVE CountersBounded'
<1>0. /\ count \in Nat /\ flows \in Nat /\ recorded \in Nat /\ summary.count \in Nat
      /\ \A e \in Endpoints : hits[e] \in Nat
      /\ AtHand \in 0 .. 1 /\ buffer \in Seq(Bodies) /\ Len(buffer) \in Nat
  BY BoundAssumption DEF Kinds, OtherKinds, Summaries, AtHand
<1>1. CASE Start
  <2>1. /\ step' = "idle" /\ count' = 0 /\ hits' = [e \in Endpoints |-> 0]
        /\ UNCHANGED <<summary, flows, recorded, buffer>>
    BY <1>1 DEF Start, log
  <2>2. QED
    BY <1>0, <2>1 DEF CountersBounded, AtHand
<1>2. CASE Done \/ OpenSummary \/ OpenHits \/ WriteHits \/ FlushFails
  <2>1. /\ step' \notin {"flush", "inventory"}
        /\ UNCHANGED <<count, hits, flows, recorded, buffer>>
    BY <1>2 DEF Done, OpenSummary, OpenHits, WriteHits, FlushFails, memory, log, Return
  <2>2. summary'.count = summary.count
    <3>1. summary' \in {summary, [summary EXCEPT !.state = "truncated"]}
      BY <1>2 DEF Done, OpenSummary, OpenHits, WriteHits, FlushFails, reports
    <3>2. QED
      BY <3>1 DEF Kinds, Summaries
  <2>3. QED
    BY <1>0, <2>1, <2>2 DEF CountersBounded, AtHand
<1>3. CASE \E f \in Flow, body \in Bodies : Response(f, body)
  <2>1. PICK f \in Flow, body \in Bodies : Response(f, body)
    BY <1>3
  <2>2. /\ step = "idle" /\ step' = "flush" /\ count' = count + 1 /\ flows' = flows + 1
        /\ UNCHANGED <<hits, summary, recorded>> /\ buffer' = Append(buffer, body)
    BY <2>1 DEF Response, reports
  <2>3. Len(buffer') = Len(buffer) + 1
    BY <1>0, <2>2
  <2>4. QED
    BY <1>0, <2>2, <2>3 DEF CountersBounded, AtHand
<1>4. CASE BeginLine \/ SpoilLine \/ EndText
  <2>1. UNCHANGED <<step, count, hits, flows, summary, recorded, buffer>>
    BY <1>4 DEF BeginLine, SpoilLine, EndText, memory, reports
  <2>2. QED
    BY <2>1 DEF CountersBounded, AtHand
<1>5. CASE EndLine
  <2>1. /\ UNCHANGED <<step, count, hits, flows, summary>> /\ recorded' = recorded + 1
        /\ buffer # <<>> /\ buffer' = Tail(buffer)
    BY <1>5 DEF EndLine, Flushing, memory, reports
  <2>2. Len(buffer') = Len(buffer) - 1
    BY <1>0, <2>1
  <2>3. QED
    BY <1>0, <2>1, <2>2 DEF CountersBounded, AtHand
<1>6. CASE Inventory
  <2>1. /\ step = "inventory" /\ step' \in {"summary", "idle"}
        /\ hits' = [hits EXCEPT ![flow.endpoint] = @ + 1]
        /\ UNCHANGED <<count, flows, summary, recorded, buffer>>
    BY <1>6 DEF Inventory, reports, log
  <2>2. AtHand = 1 /\ AtHand' = 0
    BY <2>1 DEF AtHand
  <2>3. \A e \in Endpoints : hits'[e] = hits[e] \/ hits'[e] = hits[e] + 1
    BY <2>1 DEF OtherKinds
  <2>4. QED
    BY <1>0, <2>1, <2>2, <2>3 DEF CountersBounded
<1>7. CASE WriteSummary
  <2>1. /\ step' \in {"idle", "close", "hits"} /\ summary'.count = count
        /\ UNCHANGED <<count, hits, flows, recorded, buffer>>
    BY <1>7 DEF WriteSummary, Return, memory, log
  <2>2. QED
    BY <1>0, <2>1 DEF CountersBounded, AtHand
<1>8. CASE Kill \/ (\E n \in 0 .. Len(buffer) : WriteFails(n)) \/ CloseFails
  <2>1. /\ step' \in {"down", "idle"} /\ UNCHANGED <<count, hits, flows, summary, recorded>>
    BY <1>8 DEF Kill, WriteFails, CloseFails, memory, reports
  <2>2. Len(buffer') \in Nat /\ Len(buffer') <= Len(buffer)
    <3>1. CASE Kill \/ CloseFails
      <4>1. buffer' = <<>>
        BY <3>1 DEF Kill, CloseFails
      <4>2. QED
        BY <1>0, <4>1
    <3>2. CASE \E n \in 0 .. Len(buffer) : WriteFails(n)
      <4>1. PICK n \in 0 .. Len(buffer) : buffer' = SubSeq(buffer, 1, n)
        BY <3>2 DEF WriteFails
      <4>2. Len(buffer') = n
        BY <1>0, <4>1
      <4>3. QED
        BY <1>0, <4>2
    <3>3. QED
      BY <1>8, <3>1, <3>2
  <2>3. QED
    BY <1>0, <2>1, <2>2 DEF CountersBounded, AtHand
<1>9. CASE Flushed
  <2>1. /\ step' \in {"inventory", "down"} /\ (step' = "inventory" => step = "flush")
        /\ UNCHANGED <<count, hits, flows, summary, recorded, buffer>>
    BY <1>9 DEF Flushed, memory, reports, log
  <2>2. QED
    BY <1>0, <2>1 DEF CountersBounded, AtHand
<1>10. QED
  BY <1>1, <1>2, <1>3, <1>4, <1>5, <1>6, <1>7, <1>8, <1>9 DEF Next, Process, Capture, FlushReports

LEMMA BoundedAlways == Spec => []Bounded
<1>1. Init => Bounded
  <2> SUFFICES ASSUME Init
      PROVE  Bounded
    OBVIOUS
  <2>1. closing \in BOOLEAN /\ failed \in BOOLEAN
    BY Zenon DEF Init
  <2>2. hits \in [Endpoints -> Nat] /\ hitsFile \in HitsFiles
    BY DEF Init, HitsFiles, FileState
  <2>3. flows \in 0 .. MaxFlows /\ kills \in 0 .. MaxKills /\ fails \in 0 .. MaxFails + 1
    BY BoundAssumption DEF Init
  <2>4. CountersBounded
    BY DEF Init, CountersBounded, AtHand
  <2>5. QED
    BY <2>1, <2>2, <2>3, <2>4 DEF Bounded, OtherKinds
<1>2. ASSUME IInv, Bounded, UNCHANGED vars
      PROVE  Bounded'
  <2>1. /\ UNCHANGED <<step, closing, count, hits, recorded, buffer, summary, hitsFile>>
        /\ UNCHANGED <<failed, flows, kills, fails>>
    BY <1>2 DEF vars, memory, reports, log, faults
  <2>2. OtherKinds'
    BY <1>2, <2>1, Zenon DEF Bounded, OtherKinds
  <2>3. CountersBounded'
    BY <1>2, <2>1 DEF Bounded, CountersBounded, AtHand
  <2>4. QED
    BY <2>2, <2>3 DEF Bounded
<1>3. IInv /\ Bounded /\ [Next]_vars => Bounded'
  BY <1>2, OtherKindsKept, CountersBoundedKept DEF Bounded, IInv
<1>4. QED
  BY <1>1, <1>3, Invariant, PTL DEF Spec

\* The addon's counters keep to the flows that were kept.
LEMMA WithinBounds == ASSUME IInv, Bounded PROVE TypeOK
<1>1. /\ step \in Steps /\ flow \in Flow /\ private \in SUBSET Endpoints
      /\ localHits \in Seq(Endpoints) /\ file \in Seq(Bodies \cup {Garbage})
      /\ session \in Nat /\ buffer \in Seq(Bodies) /\ tail \in LineState
  BY DEF IInv, Kinds
<1>2. closing \in BOOLEAN /\ failed \in BOOLEAN
  BY DEF Bounded, OtherKinds
<1>3. /\ count \in Nat /\ recorded \in Nat /\ flows \in Nat /\ MaxFlows \in Nat
      /\ flows <= MaxFlows /\ kills \in 0 .. MaxKills /\ fails \in 0 .. MaxFails + 1
      /\ AtHand \in Nat /\ Len(buffer) \in Nat
  BY BoundAssumption DEF IInv, Kinds, Bounded, OtherKinds, AtHand
<1>4. count \in 0 .. MaxFlows /\ recorded \in 0 .. MaxFlows /\ flows \in 0 .. MaxFlows
  BY <1>3 DEF Bounded, CountersBounded
<1>5. hits \in [Endpoints -> 0 .. MaxFlows]
  <2>1. hits \in [Endpoints -> Nat]
    BY DEF Bounded, OtherKinds
  <2>2. \A e \in Endpoints : hits[e] \in 0 .. MaxFlows
    BY <1>3, <1>4, <2>1 DEF Bounded, CountersBounded
  <2>3. QED
    BY <2>1, <2>2
<1>6. summary \in [state : FileState, session : Nat, count : 0 .. MaxFlows,
                   listed : SUBSET Endpoints, flagged : SUBSET Endpoints]
  <2>1. summary \in Summaries
    BY DEF IInv, Kinds
  <2>2. summary.count \in 0 .. MaxFlows
    BY <1>3, <2>1 DEF Bounded, CountersBounded, Summaries
  <2>3. QED
    BY <2>1, <2>2 DEF Summaries
<1>7. hitsFile \in [state : FileState, session : Nat, hits : Seq(Endpoints)]
  BY DEF Bounded, OtherKinds, HitsFiles
<1>8. QED
  BY <1>1, <1>2, <1>3, <1>4, <1>5, <1>6, <1>7, Zenon DEF TypeOK, Steps

\* The watcher's own variables.
WatchKinds ==
  /\ at \in {"start", "loop", "scan", "report", "sleep", "elapsed", "crashed", "failed"}
  /\ news \in Seq(Verbs)
  /\ expired \in BOOLEAN
  /\ listed \in [Verbs -> SUBSET Nat]

LEMMA WatchKindsKept == ASSUME SystemInv, WatchKinds, W!WatchNext PROVE WatchKinds'
<1>1. at' \in {"start", "loop", "scan", "report", "sleep", "elapsed", "crashed", "failed"}
  BY DEF WatchKinds, W!WatchNext, W!Watching, W!WatchStart, W!StartFails, W!Loop, W!Scan,
         W!ScanFails, W!TellNext, W!TellFails, W!Sleep, W!WakeUp, W!Expire, W!Once, W!OnceFails
<1>2. news' \in Seq(Verbs)
  <2>1. news \in Seq(Verbs)
    BY DEF WatchKinds
  <2>2. news' = news \/ (Head(batch) \in Verbs /\ news' = Append(news, Head(batch)))
    BY DEF W!WatchNext, W!Watching, W!WatchStart, W!StartFails, W!Loop, W!Scan,
           W!ScanFails, W!TellNext, W!TellFails, W!Sleep, W!WakeUp, W!Expire, W!Once, W!OnceFails
  <2>3. QED
    BY <2>1, <2>2
<1>3. expired' \in BOOLEAN
  <2>1. expired \in BOOLEAN
    BY DEF WatchKinds
  <2>2. expired' = expired \/ expired' = TRUE
    BY Zenon DEF W!WatchNext, W!Watching, W!WatchStart, W!StartFails, W!Loop, W!Scan,
           W!ScanFails, W!TellNext, W!TellFails, W!Sleep, W!WakeUp, W!Expire, W!Once, W!OnceFails
  <2>3. QED
    BY <2>1, <2>2
<1>4. listed' \in [Verbs -> SUBSET Nat]
  <2>1. listed \in [Verbs -> SUBSET Nat]
    BY DEF WatchKinds
  <2>4. CASE W!OnceFails
    BY <2>4 DEF W!OnceFails
  <2>2. CASE W!Once
    <3>1. listed' = [v \in Verbs |-> {i \in DOMAIN file : file[i] = v}]
      BY <2>2 DEF W!Once
    <3>2. DOMAIN file \subseteq Nat
      BY DEF SystemInv, IInv, Kinds
    <3>3. QED
      BY <3>1, <3>2
  <2>3. CASE ~ (W!Once \/ W!OnceFails)
    BY <2>1, <2>3 DEF W!WatchNext, W!Watching, W!WatchStart, W!StartFails, W!Loop, W!Scan,
           W!ScanFails, W!TellNext, W!TellFails, W!Sleep, W!WakeUp, W!Expire
  <2>5. QED
    BY <2>2, <2>3, <2>4
<1>5. QED
  BY <1>1, <1>2, <1>3, <1>4 DEF WatchKinds

LEMMA WatchKindsAlways == SystemSpec => []WatchKinds
<1>1. SystemInit => WatchKinds
  <2> SUFFICES ASSUME SystemInit
      PROVE  WatchKinds
    OBVIOUS
  <2>1. expired \in BOOLEAN
    BY Zenon DEF SystemInit, W!WatchInit
  <2>2. at = "start" /\ news = <<>> /\ listed = [v \in Verbs |-> {}]
    BY DEF SystemInit, W!WatchInit
  <2>3. QED
    BY <2>1, <2>2 DEF WatchKinds
<1>2. ASSUME WatchKinds, UNCHANGED watcherVars
      PROVE  WatchKinds'
  BY <1>2, Zenon DEF WatchKinds, watcherVars
<1>3. SystemInv /\ WatchKinds /\ [SystemNext]_systemVars => WatchKinds'
  BY <1>2, WatchKindsKept DEF SystemNext, systemVars
<1>4. QED
  BY <1>1, <1>3, SystemInvariant, PTL DEF SystemSpec

\* The addon's counters and reports never run ahead of the flows that were kept, whatever is
\* killed and started again, and the watcher only ever holds what flows.jsonl can contain.
THEOREM SystemTypeCorrect == SystemSpec => []SystemTypeOK
<1>1. ASSUME SystemInv, WatchKinds
      PROVE  W!WatchTypeOK
  <2>1. W!Lines = Bodies \cup {Garbage}
    BY BodiesAssumption DEF W!Lines
  <2>2. file \in Seq(W!Lines) /\ batch \in Seq(W!Lines)
    BY <1>1, <2>1 DEF SystemInv, IInv, Kinds, WatchOnFile
  <2>3. known \in SUBSET Verbs
    BY <1>1 DEF SystemInv, WatchOnFile
  <2>4. QED
    BY <1>1, <2>2, <2>3, Zenon DEF WatchKinds, W!WatchTypeOK
<1>2. SystemInv /\ WatchKinds /\ Bounded => SystemTypeOK
  BY <1>1, WithinBounds DEF SystemTypeOK, SystemInv, WatchOnFile
<1>3. QED
  BY <1>2, SystemInvariant, WatchKindsAlways, BoundedAlways, SystemRunsAddon, PTL
=============================================================================
