-------------------------- MODULE DnsProxyProofs ----------------------------
(***************************************************************************)
(* Proofs about DnsProxy, for any number of queries, clients, workers and  *)
(* upstream ports.                                                         *)
(***************************************************************************)
EXTENDS DnsProxy, FiniteSetTheorems, SequenceTheorems, TLAPS

\* The work queue has the queries that were submitted and not yet started, each once.
QueueHolds ==
  /\ \A i \in DOMAIN queue : pc[queue[i]] = "queued"
  /\ \A i, j \in DOMAIN queue : queue[i] = queue[j] => i = j

\* What Goto does to the other handlers.
LEMMA Moved ==
  ASSUME TypeOK, NEW q \in Queries, NEW step, pc' = [pc EXCEPT ![q] = step]
  PROVE  pc'[q] = step /\ \A d \in Queries \ {q} : pc'[d] = pc[d]
BY DEF TypeOK

LEMMA Enqueued ==
  ASSUME queue \in Seq(Queries), NEW q \in Queries, queue' = Append(queue, q)
  PROVE  /\ queue' \in Seq(Queries)
         /\ DOMAIN queue = 1 .. Len(queue) /\ Len(queue) \in Nat
         /\ DOMAIN queue' = 1 .. Len(queue) + 1
         /\ queue'[Len(queue) + 1] = q
         /\ \A i \in 1 .. Len(queue) : queue'[i] = queue[i] /\ queue[i] \in Queries
<1>1. Len(queue) \in Nat /\ DOMAIN queue = 1 .. Len(queue)
        /\ \A i \in 1 .. Len(queue) : queue[i] \in Queries
  BY LenProperties, ElementOfSeq
<1>2. queue' \in Seq(Queries) /\ Len(queue') = Len(queue) + 1
        /\ queue'[Len(queue) + 1] = q /\ \A i \in 1 .. Len(queue) : queue'[i] = queue[i]
  BY AppendProperties
<1>3. DOMAIN queue' = 1 .. Len(queue')
  BY <1>2, LenProperties
<1>4. QED
  BY <1>1, <1>2, <1>3

LEMMA Dequeued ==
  ASSUME queue \in Seq(Queries), queue # <<>>, queue' = Tail(queue)
  PROVE  /\ queue' \in Seq(Queries)
         /\ DOMAIN queue = 1 .. Len(queue) /\ Len(queue) \in Nat \ {0}
         /\ DOMAIN queue' = 1 .. Len(queue) - 1
         /\ Head(queue) = queue[1] /\ 1 \in DOMAIN queue
         /\ \A i \in 1 .. Len(queue) : queue[i] \in Queries
         /\ \A i \in 1 .. Len(queue) - 1 : queue'[i] = queue[i + 1]
<1>1. Len(queue) \in Nat \ {0} /\ DOMAIN queue = 1 .. Len(queue)
        /\ \A i \in 1 .. Len(queue) : queue[i] \in Queries
  BY LenProperties, ElementOfSeq, EmptySeq
<1>2. queue' \in Seq(Queries) /\ Len(queue') = Len(queue) - 1
        /\ \A i \in 1 .. Len(queue') : queue'[i] = queue[i + 1]
  BY HeadTailProperties
<1>3. DOMAIN queue' = 1 .. Len(queue')
  BY <1>2, LenProperties
<1>4. Head(queue) = queue[1] /\ 1 \in DOMAIN queue
  BY <1>1
<1>5. QED
  BY <1>1, <1>2, <1>3, <1>4

\* The queue tells which query a worker starts with.
LEMMA StartQueued ==
  ASSUME TypeOK, QueueHolds, NEW q \in Queries, Start(q)
  PROVE  pc[q] = "queued"
<1>1. queue \in Seq(Queries) /\ queue # <<>> /\ q = Head(queue) /\ queue' = Tail(queue)
  BY DEF TypeOK, Start
<1>2. q = queue[1] /\ 1 \in DOMAIN queue
  BY <1>1, Dequeued
<1>3. QED
  BY <1>2 DEF QueueHolds

LEMMA TypesKept == TypeOK /\ QueueHolds /\ [Next]_vars => TypeOK'
<1> SUFFICES ASSUME TypeOK, QueueHolds, [Next]_vars
    PROVE  TypeOK'
  OBVIOUS
<1> USE DEF TypeOK, poolVars, logVars, netVars
<1>1. CASE Bind \/ BindFails \/ RecvError \/ Interrupt \/ Close \/ Exit
  BY <1>1 DEF Bind, BindFails, RecvError, Interrupt, Close, Exit
<1>2. CASE Report
  BY <1>2 DEF Report
<1>3. ASSUME NEW q \in Queries, Submit(q)
      PROVE  TypeOK'
  <2>1. queue' \in Seq(Queries) /\ main' = "receiving"
    BY <1>3, Enqueued DEF Submit
  <2>2. /\ pc' = [pc EXCEPT ![q] = "queued"] /\ pc[q] = "taken"
        /\ UNCHANGED <<exit, ask, logVars, reported, netVars>>
    BY <1>3 DEF Submit, Goto
  <2>3. QED
    BY <2>1, <2>2
<1>4. ASSUME NEW q \in Queries, NEW question \in Question, Receive(q, question)
      PROVE  TypeOK'
  <2>1. /\ ask' = [ask EXCEPT ![q] = question]
        /\ pc' = [pc EXCEPT ![q] = "taken"]
        /\ main' = "submitting"
        /\ UNCHANGED <<exit, queue, logVars, reported, netVars>>
    BY <1>4 DEF Receive, Goto
  <2>2. QED
    BY <2>1
<1>5. ASSUME NEW q \in Queries, Handling(q)
      PROVE  TypeOK'
  <2>1. CASE Start(q)
    <3>1. queue' \in Seq(Queries)
      BY <2>1, Dequeued DEF Start
    <3>2. /\ pc' = [pc EXCEPT ![q] = "handling"]
          /\ UNCHANGED <<main, exit, ask, logVars, reported, netVars>>
      BY <2>1 DEF Start, Goto
    <3>3. pc[q] # "absent"
      BY <2>1, StartQueued
    <3>4. QED
      BY <3>1, <3>2, <3>3
  <2>2. CASE ReadCount(q)
    <3>1. ask[q].name \in Names
      BY <2>2 DEF ReadCount, Counted, Question
    <3>2. QED
      BY <2>2, <3>1 DEF ReadCount, Goto
  <2>3. CASE WriteCount(q)
    <3>1. got \in [Queries -> Nat] /\ seen \in [Names -> Nat]
      OBVIOUS
    <3>2. seen' \in [Names -> Nat]
      <4> HIDE DEF TypeOK
      <4>1. got[q] + 1 \in Nat
        BY <3>1
      <4>2. QED
        BY <2>3, <3>1, <4>1 DEF WriteCount
    <3>3. QED
      BY <2>3, <3>2 DEF WriteCount, Goto
  <2>4. CASE Announce(q)
    BY <2>4 DEF Announce, Goto
  <2>5. CASE Spoof(q)
    BY <2>5 DEF Spoof, Routing, Send, Goto
  <2>6. CASE Reply(q)
    BY <2>6 DEF Reply, Send, Goto
  <2>7. ASSUME NEW p \in UpPorts, Forward(q, p)
        PROVE  TypeOK'
    <3>1. /\ port' = [port EXCEPT ![q] = p]
          /\ wire' = wire \cup {[query |-> q, port |-> p]}
          /\ pc' = [pc EXCEPT ![q] = "waiting"]
          /\ pc[q] # "absent"
          /\ UNCHANGED <<main, exit, ask, queue, logVars, reported, resp, answered>>
      BY <2>7 DEF Forward, Routing, Goto
    <3>2. port' \in [Queries -> UpPorts \cup {NoPort}]
      BY <3>1
    <3>3. wire' \in SUBSET [query : Queries, port : UpPorts]
      <4>1. [query |-> q, port |-> p] \in [query : Queries, port : UpPorts]
        OBVIOUS
      <4>2. wire \in SUBSET [query : Queries, port : UpPorts]
        OBVIOUS
      <4> HIDE DEF TypeOK
      <4>3. QED
        BY <3>1, <4>1, <4>2
    <3>4. QED
      BY <3>1, <3>2, <3>3
  <2>8. CASE GiveUp(q)
    BY <2>8 DEF GiveUp, Routing, Goto
  <2>9. ASSUME NEW x \in wire, Deliver(q, x)
        PROVE  TypeOK'
    BY <2>9 DEF Deliver, Goto
  <2>10. QED
    BY <1>5, <2>1, <2>2, <2>3, <2>4, <2>5, <2>6, <2>7, <2>8, <2>9 DEF Handling, Working
<1>6. CASE UNCHANGED vars
  BY <1>6 DEF vars
<1>7. QED
  BY <1>1, <1>2, <1>3, <1>4, <1>5, <1>6 DEF Next, Serving, Ending

LEMMA QueueKept == TypeOK /\ QueueHolds /\ [Next]_vars => QueueHolds'
<1> SUFFICES ASSUME TypeOK, QueueHolds, [Next]_vars
    PROVE  QueueHolds'
  OBVIOUS
<1>1. ASSUME UNCHANGED queue, NEW q \in Queries, NEW step, pc' = [pc EXCEPT ![q] = step],
             pc[q] # "queued"
      PROVE  QueueHolds'
  <2>1. \A i \in DOMAIN queue : queue[i] \in Queries
    BY LenProperties, ElementOfSeq DEF TypeOK
  <2>2. \A d \in Queries \ {q} : pc'[d] = pc[d]
    BY <1>1, Moved
  <2>3. QED
    BY <1>1, <2>1, <2>2 DEF QueueHolds
<1>2. CASE UNCHANGED <<pc, queue>>
  BY <1>2 DEF QueueHolds
<1>3. ASSUME NEW q \in Queries, Submit(q)
      PROVE  QueueHolds'
  <2>1. /\ pc' = [pc EXCEPT ![q] = "queued"] /\ pc[q] = "taken"
        /\ queue' = Append(queue, q)
    BY <1>3 DEF Submit, Goto
  <2>2. queue \in Seq(Queries)
    BY DEF TypeOK
  <2>3. pc'[q] = "queued" /\ \A d \in Queries \ {q} : pc'[d] = pc[d]
    BY <2>1, Moved
  <2>4. \A i \in DOMAIN queue : queue[i] \in Queries /\ queue[i] # q
    BY <2>1, <2>2, Enqueued DEF QueueHolds
  <2>5. QED
    BY <2>1, <2>2, <2>3, <2>4, Enqueued DEF QueueHolds
<1>4. ASSUME NEW q \in Queries, Start(q)
      PROVE  QueueHolds'
  <2>1. /\ pc' = [pc EXCEPT ![q] = "handling"]
        /\ queue' = Tail(queue) /\ queue # <<>> /\ q = Head(queue)
    BY <1>4 DEF Start, Goto
  <2>2. queue \in Seq(Queries)
    BY DEF TypeOK
  <2>3. \A d \in Queries \ {q} : pc'[d] = pc[d]
    BY <2>1, Moved
  <2>4. \A i \in DOMAIN queue' : /\ i + 1 \in DOMAIN queue /\ queue'[i] = queue[i + 1]
                                 /\ queue[i + 1] \in Queries \ {q}
    BY <2>1, <2>2, Dequeued DEF QueueHolds
  <2>5. \A i, j \in DOMAIN queue' : i + 1 = j + 1 => i = j
    BY <2>1, <2>2, Dequeued
  <2>6. QED
    BY <2>3, <2>4, <2>5 DEF QueueHolds
<1>5. ASSUME NEW q \in Queries, Handling(q), ~ Start(q)
      PROVE  QueueHolds'
  BY <1>1, <1>5 DEF Handling, Working, ReadCount, WriteCount, Announce, Spoof, Forward, GiveUp,
                    Reply, Deliver, Routing, Goto
<1>6. ASSUME NEW q \in Queries, NEW question \in Question, Receive(q, question)
      PROVE  QueueHolds'
  BY <1>1, <1>6 DEF Receive, Goto
<1>7. QED
  BY <1>2, <1>3, <1>4, <1>5, <1>6 DEF Next, Serving, Ending, Bind, BindFails, RecvError,
                                     Interrupt, Report, Close, Exit, poolVars, vars

\* Every variable of the proxy keeps its type, whatever clients and upstream send.
THEOREM TypeCorrect == Spec => []TypeOK
<1>1. Init => TypeOK /\ QueueHolds
  BY DEF Init, TypeOK, QueueHolds
<1>2. QED
  BY <1>1, TypesKept, QueueKept, PTL DEF Spec

LEMMA QueueInvariant == Spec => []QueueHolds
<1>1. Init => TypeOK /\ QueueHolds
  BY DEF Init, TypeOK, QueueHolds
<1>2. QED
  BY <1>1, TypesKept, QueueKept, PTL DEF Spec

-----------------------------------------------------------------------------
(***************************************************************************)
(* Stray answers.  A handler has a port while it waits, no two of them     *)
(* have the same one, and an exchange on the wire belongs to a query that  *)
(* waits at its port or is past waiting.                                   *)
(***************************************************************************)

PortWhileWaiting == \A q \in Queries : port[q] # NoPort => pc[q] = "waiting"

PortsDistinct ==
  \A q, d \in Queries : q # d /\ port[q] = port[d] => port[q] = NoPort

ExchangesOwned ==
  \A x \in wire : \/ pc[x.query] \in {"replying", "done"}
                  \/ pc[x.query] = "waiting" /\ port[x.query] = x.port

Ports == PortWhileWaiting /\ PortsDistinct /\ ExchangesOwned /\ StrayAnswersAreLate

LEMMA PortsInductive == TypeOK /\ QueueHolds /\ Ports /\ [Next]_vars => Ports'
<1> SUFFICES ASSUME TypeOK, QueueHolds, Ports, [Next]_vars
    PROVE  Ports'
  OBVIOUS
<1> USE DEF Ports, PortWhileWaiting, PortsDistinct, ExchangesOwned, StrayAnswersAreLate
\* A handler that neither waits nor is past waiting moves on.
<1>1. ASSUME UNCHANGED <<port, wire, resp>>, NEW q \in Queries, NEW step,
             pc' = [pc EXCEPT ![q] = step], pc[q] # "waiting",
             pc[q] \in {"replying", "done"} => step \in {"replying", "done"}
      PROVE  Ports'
  BY <1>1 DEF TypeOK
<1>2. CASE Serving \/ Ending
  <2>1. CASE UNCHANGED <<port, wire, resp, pc>>
    BY <2>1
  <2>2. ASSUME NEW q \in Queries, NEW question \in Question, Receive(q, question)
        PROVE  Ports'
    <3>1. /\ pc[q] = "absent" /\ pc' = [pc EXCEPT ![q] = "taken"]
          /\ UNCHANGED <<port, wire, resp>>
      BY <2>2 DEF Receive, Goto, netVars
    <3>2. QED
      BY <1>1, <3>1
  <2>3. ASSUME NEW q \in Queries, Submit(q)
        PROVE  Ports'
    <3>1. /\ pc[q] = "taken" /\ pc' = [pc EXCEPT ![q] = "queued"]
          /\ UNCHANGED <<port, wire, resp>>
      BY <2>3 DEF Submit, Goto, netVars
    <3>2. QED
      BY <1>1, <3>1
  <2>4. QED
    BY <1>2, <2>1, <2>2, <2>3 DEF Serving, Ending, Bind, BindFails, RecvError, Interrupt, Report,
                            Close, Exit, netVars, poolVars
<1>3. ASSUME NEW q \in Queries, Handling(q)
      PROVE  Ports'
  <2>1. CASE Start(q)
    <3>1. pc' = [pc EXCEPT ![q] = "handling"] /\ UNCHANGED <<port, wire, resp>>
      BY <2>1 DEF Start, Goto, netVars
    <3>2. QED
      BY <1>1, <2>1, <3>1, StartQueued
  <2>2. CASE ReadCount(q) \/ WriteCount(q) \/ Announce(q)
    BY <1>1, <2>2 DEF ReadCount, WriteCount, Announce, Goto, netVars
  <2>3. CASE Spoof(q) \/ Reply(q)
    BY <1>1, <2>3 DEF Spoof, Reply, Routing, Goto
  <2>4. ASSUME NEW p \in UpPorts, Forward(q, p)
        PROVE  Ports'
    <3>1. /\ pc' = [pc EXCEPT ![q] = "waiting"] /\ pc[q] \in {"routing", "handling"}
          /\ port' = [port EXCEPT ![q] = p]
          /\ \A d \in Queries : port[d] # p
          /\ wire' = wire \cup {[query |-> q, port |-> p]}
          /\ UNCHANGED resp
      BY <2>4 DEF Forward, Routing, Goto
    <3>2. pc'[q] = "waiting" /\ \A d \in Queries \ {q} : pc'[d] = pc[d]
      BY <3>1, Moved
    <3>3. port'[q] = p /\ \A d \in Queries \ {q} : port'[d] = port[d]
      BY <3>1 DEF TypeOK
    <3>4. PortWhileWaiting' /\ PortsDistinct'
      BY <3>1, <3>2, <3>3
    <3>5. ASSUME NEW x \in wire
          PROVE  x.query \in Queries /\ x.query # q
      BY <3>1 DEF TypeOK
    <3>6. ExchangesOwned'
      BY <3>1, <3>2, <3>3, <3>5
    <3>7. StrayAnswersAreLate'
      BY <3>1, <3>2, SentinelAssumption DEF TypeOK
    <3>8. QED
      BY <3>4, <3>6, <3>7
  <2>5. ASSUME NEW x \in wire, Deliver(q, x)
        PROVE  Ports'
    <3>1. x.query \in Queries /\ x.port \in UpPorts
      BY DEF TypeOK
    <3>2. pc[q] = "waiting" /\ x.port = port[q] /\ x.port # NoPort
      BY <2>5, <3>1, SentinelAssumption DEF Deliver
    <3>3. x.query # q => pc[x.query] \in {"replying", "done"}
      BY <3>1, <3>2
    <3>4. QED
      BY <2>5, <3>1, <3>2, <3>3, SentinelAssumption DEF Deliver, Goto, TypeOK
  <2>6. CASE GiveUp(q)
    BY <2>6, SentinelAssumption DEF GiveUp, Routing, Goto, TypeOK
  <2>7. QED
    BY <1>3, <2>1, <2>2, <2>3, <2>4, <2>5, <2>6 DEF Handling, Working
<1>4. CASE UNCHANGED vars
  BY <1>4 DEF vars, poolVars, netVars
<1>5. QED
  BY <1>2, <1>3, <1>4 DEF Next

LEMMA PortsInvariant == Spec => []Ports
<1>1. Init => Ports
  BY SentinelAssumption DEF Init, Ports, PortWhileWaiting, PortsDistinct, ExchangesOwned,
                            StrayAnswersAreLate
<1>2. QED
  BY <1>1, PortsInductive, TypeCorrect, QueueInvariant, PTL DEF Spec

\* forward() takes any datagram for the answer to its query, but one that belongs to
\* another query belongs to one that is over.
THEOREM StrayAnswers == Spec => []StrayAnswersAreLate
<1>1. Ports => StrayAnswersAreLate
  BY DEF Ports
<1>2. QED
  BY <1>1, PortsInvariant, PTL

-----------------------------------------------------------------------------
(***************************************************************************)
(* The counters.  Two workers may read the same count and write it back    *)
(* one after the other, or long after.  What a handler has read is never   *)
(* more than the hits there were by then, so what it writes is never more  *)
(* than the hits there are with its own.                                   *)
(***************************************************************************)

\* Where the handler of a counted query has written the counter.
Past == {"marking", "routing", "waiting", "replying", "done"}

HitsFinite == \A n \in Names : IsFiniteSet(Hits(n))

ReadNoMore ==
  \A q \in Queries : pc[q] = "counting" =>
    Counted(q) /\ got[q] <= Cardinality(Hits(ask[q].name))

LinesCounted ==
  /\ \A q \in Queries : pc[q] = "marking" => Counted(q)
  /\ \A q \in logged : Counted(q) /\ pc[q] \in Past

Counters == HitsFinite /\ HitCountBounds /\ ReadNoMore /\ LinesCounted

\* The name of a counted query.
LEMMA CountedName ==
  ASSUME TypeOK, NEW q \in Queries, pc[q] # "absent", Counted(q)
  PROVE  ask[q].name \in Names
BY DEF TypeOK, Counted, Question

\* A step of one handler that does not pass the counter leaves the hits alone.
LEMMA HitsKept ==
  ASSUME TypeOK, NEW q \in Queries, NEW step, pc' = [pc EXCEPT ![q] = step], UNCHANGED ask,
         Counted(q) => (pc[q] \in Past <=> step \in Past)
  PROVE  \A n \in Names : Hits(n)' = Hits(n)
<1>1. pc'[q] = step /\ \A d \in Queries \ {q} : pc'[d] = pc[d]
  BY Moved
<1>2. QED
  BY <1>1 DEF Hits, Past, Counted, Watched

\* A step that leaves the hits and the counters alone, and counts or logs nothing.
LEMMA CountersKept ==
  ASSUME TypeOK, Counters, NEW q \in Queries, NEW step, pc' = [pc EXCEPT ![q] = step],
         UNCHANGED <<ask, seen, got, logged>>,
         step \notin {"counting", "marking"},
         Counted(q) => (pc[q] \in Past <=> step \in Past)
  PROVE  Counters'
<1>1. \A n \in Names : Hits(n)' = Hits(n)
  BY HitsKept
<1>2. pc'[q] = step /\ \A d \in Queries \ {q} : pc'[d] = pc[d]
  BY Moved
<1>3. \A d \in Queries : Counted(d)' = Counted(d)
  BY DEF Counted, Watched
<1>4. HitsFinite' /\ HitCountBounds'
  BY <1>1 DEF Counters, HitsFinite, HitCountBounds
<1>5. ASSUME NEW d \in Queries, pc'[d] = "counting"
      PROVE  Counted(d) /\ got[d] <= Cardinality(Hits(ask[d].name)')
  <2>1. d # q /\ pc[d] = "counting"
    BY <1>2, <1>5
  <2>2. Counted(d) /\ got[d] <= Cardinality(Hits(ask[d].name))
    BY <2>1 DEF Counters, ReadNoMore
  <2>3. ask[d].name \in Names
    BY <2>1, <2>2, CountedName
  <2>4. QED
    BY <1>1, <2>2, <2>3
<1>6. ReadNoMore'
  BY <1>3, <1>5 DEF ReadNoMore
<1>7. LinesCounted'
  BY <1>2, <1>3 DEF Counters, LinesCounted, TypeOK
<1>8. QED
  BY <1>4, <1>6, <1>7 DEF Counters

LEMMA CountersInductive == TypeOK /\ QueueHolds /\ Counters /\ [Next]_vars => Counters'
<1> SUFFICES ASSUME TypeOK, QueueHolds, Counters, [Next]_vars
    PROVE  Counters'
  OBVIOUS
<1>1. CASE UNCHANGED <<ask, pc, seen, got, logged>>
  BY <1>1 DEF Counters, HitsFinite, HitCountBounds, ReadNoMore, LinesCounted, Hits, Counted,
              Watched
<1>2. ASSUME NEW q \in Queries, NEW question \in Question, Receive(q, question)
      PROVE  Counters'
  <2>1. /\ pc[q] = "absent" /\ pc' = [pc EXCEPT ![q] = "taken"]
        /\ ask' = [ask EXCEPT ![q] = question]
        /\ UNCHANGED <<seen, got, logged>>
    BY <1>2 DEF Receive, Goto, logVars
  <2>2. pc'[q] = "taken" /\ \A d \in Queries \ {q} : pc'[d] = pc[d]
    BY <2>1, Moved
  <2>3. \A d \in Queries \ {q} : ask'[d] = ask[d] /\ Counted(d)' = Counted(d)
    BY <2>1 DEF TypeOK, Counted, Watched
  <2>4. \A n : Hits(n)' = Hits(n)
    BY <2>1, <2>2, <2>3 DEF Hits
  <2>5. q \notin logged
    BY <2>1 DEF Counters, LinesCounted, Past
  <2>6. HitsFinite' /\ HitCountBounds'
    BY <2>1, <2>4 DEF Counters, HitsFinite, HitCountBounds
  <2>7. ReadNoMore'
    BY <2>1, <2>2, <2>3, <2>4 DEF Counters, ReadNoMore
  <2>8. LinesCounted'
    BY <2>1, <2>2, <2>3, <2>5 DEF Counters, LinesCounted, TypeOK
  <2>9. QED
    BY <2>6, <2>7, <2>8 DEF Counters
<1>3. ASSUME NEW q \in Queries, Submit(q)
      PROVE  Counters'
  BY <1>3, CountersKept DEF Submit, Goto, logVars, Past
<1>4. ASSUME NEW q \in Queries, Handling(q)
      PROVE  Counters'
  <2>1. CASE Start(q)
    BY <2>1, StartQueued, CountersKept DEF Start, Goto, logVars, Past
  <2>2. CASE ReadCount(q)
    <3>0. PICK n : n = ask[q].name
      OBVIOUS
    <3>1. /\ pc[q] = "handling" /\ pc' = [pc EXCEPT ![q] = "counting"] /\ Counted(q)
          /\ got' = [got EXCEPT ![q] = seen[n]]
          /\ UNCHANGED <<ask, seen, logged>>
      BY <2>2, <3>0 DEF ReadCount, Goto
    <3>2. n \in Names
      BY <3>0, <3>1, CountedName
    <3>3. \A m \in Names : Hits(m)' = Hits(m)
      BY <3>1, HitsKept DEF Past
    <3>4. pc'[q] = "counting" /\ \A d \in Queries \ {q} : pc'[d] = pc[d]
      BY <3>1, Moved
    <3>5. got'[q] = seen[n] /\ \A d \in Queries \ {q} : got'[d] = got[d]
      BY <3>1 DEF TypeOK
    <3>6. \A d \in Queries : Counted(d)' = Counted(d)
      BY <3>1 DEF Counted, Watched
    <3>7. HitsFinite' /\ HitCountBounds'
      BY <3>1, <3>3 DEF Counters, HitsFinite, HitCountBounds
    <3>8. seen[n] <= Cardinality(Hits(n))
      <4>1. CASE Hits(n) = {}
        <5>1. seen[n] = 0
          BY <3>2, <4>1 DEF Counters, HitCountBounds
        <5>2. QED
          BY <4>1, <5>1, FS_EmptySet
      <4>2. CASE Hits(n) # {}
        <5>1. seen[n] \in 1 .. Cardinality(Hits(n))
          BY <3>2, <4>2 DEF Counters, HitCountBounds
        <5>2. IsFiniteSet(Hits(n))
          BY <3>2 DEF Counters, HitsFinite
        <5>3. QED
          BY <5>1, <5>2, FS_CardinalityType
      <4>3. QED
        BY <4>1, <4>2
    <3>9. ASSUME NEW d \in Queries, pc'[d] = "counting"
          PROVE  Counted(d) /\ got'[d] <= Cardinality(Hits(ask[d].name)')
      <4>1. CASE d = q
        BY <4>1, <3>0, <3>1, <3>2, <3>3, <3>5, <3>8
      <4>2. CASE d # q
        <5>1. pc[d] = "counting" /\ Counted(d) /\ got[d] <= Cardinality(Hits(ask[d].name))
          BY <3>4, <3>9, <4>2 DEF Counters, ReadNoMore
        <5>2. ask[d].name \in Names
          BY <5>1, CountedName
        <5>3. QED
          BY <5>1, <5>2, <4>2, <3>1, <3>3, <3>5
      <4>3. QED
        BY <4>1, <4>2
    <3>10. ReadNoMore'
      BY <3>1, <3>6, <3>9 DEF ReadNoMore
    <3>11. LinesCounted'
      BY <3>1, <3>4, <3>6 DEF Counters, LinesCounted, Past, TypeOK
    <3>12. QED
      BY <3>7, <3>10, <3>11 DEF Counters
  <2>3. CASE WriteCount(q)
    <3>0. PICK n : n = ask[q].name
      OBVIOUS
    <3>1. /\ pc[q] = "counting" /\ pc' = [pc EXCEPT ![q] = "marking"]
          /\ seen' = [seen EXCEPT ![n] = got[q] + 1]
          /\ UNCHANGED <<ask, got, logged>>
      BY <2>3, <3>0 DEF WriteCount, Goto
    <3>2. Counted(q) /\ got[q] <= Cardinality(Hits(n)) /\ got[q] \in Nat
      BY <3>0, <3>1 DEF Counters, ReadNoMore, TypeOK
    <3>3. n \in Names
      BY <3>0, <3>1, <3>2, CountedName
    <3>4. pc'[q] = "marking" /\ \A d \in Queries \ {q} : pc'[d] = pc[d]
      BY <3>1, Moved
    <3>5. \A d \in Queries : Counted(d)' = Counted(d)
      BY <3>1 DEF Counted, Watched
    <3>6. Hits(n)' = Hits(n) \cup {q} /\ q \notin Hits(n)
      BY <3>0, <3>1, <3>2, <3>4, <3>5 DEF Hits
    <3>7. \A m \in Names \ {n} : Hits(m)' = Hits(m)
      BY <3>0, <3>1, <3>4, <3>5 DEF Hits
    <3>8. /\ IsFiniteSet(Hits(n)) /\ IsFiniteSet(Hits(n)')
          /\ Cardinality(Hits(n)) \in Nat
          /\ Cardinality(Hits(n)') = Cardinality(Hits(n)) + 1
      <4>1. IsFiniteSet(Hits(n))
        BY <3>3 DEF Counters, HitsFinite
      <4>2. QED
        BY <4>1, <3>6, FS_AddElement, FS_CardinalityType
    <3>9. seen'[n] = got[q] + 1 /\ \A m \in Names \ {n} : seen'[m] = seen[m]
      BY <3>1, <3>3 DEF TypeOK
    <3>10. HitsFinite'
      BY <3>7, <3>8 DEF Counters, HitsFinite
    <3>11. ASSUME NEW m \in Names
           PROVE  IF Hits(m)' = {} THEN seen'[m] = 0
                  ELSE seen'[m] \in 1 .. Cardinality(Hits(m)')
      <4>1. CASE m = n
        <5>1. got[q] + 1 \in 1 .. Cardinality(Hits(n)) + 1 /\ Hits(n)' # {}
          BY <3>2, <3>6, <3>8
        <5>2. QED
          BY <4>1, <5>1, <3>8, <3>9
      <4>2. CASE m # n
        BY <4>2, <3>7, <3>9 DEF Counters, HitCountBounds
      <4>3. QED
        BY <4>1, <4>2
    <3>12. ASSUME NEW d \in Queries, pc'[d] = "counting"
           PROVE  Counted(d) /\ got'[d] <= Cardinality(Hits(ask[d].name)')
      <4>1. pc[d] = "counting" /\ Counted(d) /\ got[d] <= Cardinality(Hits(ask[d].name))
              /\ got[d] \in Nat
        BY <3>4, <3>12 DEF Counters, ReadNoMore, TypeOK
      <4>2. ask[d].name \in Names
        BY <4>1, CountedName
      <4>3. CASE ask[d].name = n
        <5>1. got[d] <= Cardinality(Hits(n))
          BY <4>1, <4>3
        <5>2. got[d] <= Cardinality(Hits(n)')
          BY <4>1, <5>1, <3>8
        <5>3. QED
          BY <4>1, <4>3, <5>2, <3>1
      <4>4. CASE ask[d].name # n
        BY <4>1, <4>2, <4>4, <3>1, <3>7
      <4>5. QED
        BY <4>3, <4>4
    <3>13. LinesCounted'
      BY <3>1, <3>2, <3>4, <3>5 DEF Counters, LinesCounted, Past, TypeOK
    <3>14. HitCountBounds'
      BY <3>11 DEF HitCountBounds
    <3>15. ReadNoMore'
      BY <3>1, <3>5, <3>12 DEF ReadNoMore
    <3>16. QED
      BY <3>10, <3>13, <3>14, <3>15 DEF Counters
  <2>4. CASE Announce(q)
    <3>1. /\ pc[q] = "marking" /\ pc' = [pc EXCEPT ![q] = "routing"]
          /\ logged' = logged \cup {q}
          /\ UNCHANGED <<ask, seen, got>>
      BY <2>4 DEF Announce, Goto
    <3>2. \A m \in Names : Hits(m)' = Hits(m)
      BY <3>1, HitsKept DEF Past
    <3>3. pc'[q] = "routing" /\ \A d \in Queries \ {q} : pc'[d] = pc[d]
      BY <3>1, Moved
    <3>4. \A d \in Queries : Counted(d)' = Counted(d)
      BY <3>1 DEF Counted, Watched
    <3>5. HitsFinite' /\ HitCountBounds'
      BY <3>1, <3>2 DEF Counters, HitsFinite, HitCountBounds
    <3>6. ASSUME NEW d \in Queries, pc'[d] = "counting"
          PROVE  Counted(d) /\ got'[d] <= Cardinality(Hits(ask[d].name)')
      <4>1. pc[d] = "counting" /\ Counted(d) /\ got[d] <= Cardinality(Hits(ask[d].name))
        BY <3>3, <3>6 DEF Counters, ReadNoMore
      <4>2. ask[d].name \in Names
        BY <4>1, CountedName
      <4>3. QED
        BY <4>1, <4>2, <3>1, <3>2
    <3>7. LinesCounted'
      BY <3>1, <3>3, <3>4 DEF Counters, LinesCounted, Past, TypeOK
    <3>8. ReadNoMore'
      BY <3>1, <3>4, <3>6 DEF ReadNoMore
    <3>9. QED
      BY <3>5, <3>7, <3>8 DEF Counters
  <2>5. CASE Spoof(q) \/ GiveUp(q) \/ \E p \in UpPorts : Forward(q, p)
    BY <2>5, CountersKept DEF Spoof, GiveUp, Forward, Routing, Goto, logVars, Past
  <2>6. CASE Reply(q) \/ \E exchange \in wire : Deliver(q, exchange)
    BY <2>6, CountersKept DEF Reply, Deliver, Goto, logVars, Past
  <2>7. QED
    BY <1>4, <2>1, <2>2, <2>3, <2>4, <2>5, <2>6 DEF Handling, Working
<1>5. QED
  BY <1>1, <1>2, <1>3, <1>4 DEF Next, Serving, Ending, Bind, BindFails, RecvError, Interrupt,
                               Report, Close, Exit, poolVars, logVars, vars

LEMMA CountersInvariant == Spec => []Counters
<1>1. Init => Counters
  <2> SUFFICES ASSUME Init
      PROVE  Counters
    OBVIOUS
  <2>1. \A n \in Names : Hits(n) = {} /\ seen[n] = 0
    BY DEF Init, Hits
  <2>2. HitsFinite /\ HitCountBounds
    BY <2>1, FS_EmptySet DEF HitsFinite, HitCountBounds
  <2>3. ReadNoMore /\ LinesCounted
    BY DEF Init, ReadNoMore, LinesCounted
  <2>4. QED
    BY <2>2, <2>3 DEF Counters
<1>2. QED
  BY <1>1, CountersInductive, TypeCorrect, QueueInvariant, PTL DEF Spec

\* The counters of a name lose hits when workers race, but invent none and never forget a
\* name that was queried.
THEOREM CountersBounded == Spec => []HitCountBounds
<1>1. Counters => HitCountBounds
  BY DEF Counters
<1>2. QED
  BY <1>1, CountersInvariant, PTL

\* Every name with a line in the log is in the final report.
THEOREM ReportComplete == Spec => ReportCoversLog
<1>1. TypeOK /\ Counters /\ [Next]_vars =>
        [Report => \A q \in logged : reported'[ask[q].name] > 0]_vars
  <2> SUFFICES ASSUME TypeOK, Counters, Report, NEW q \in logged
      PROVE  reported'[ask[q].name] > 0
    OBVIOUS
  <2>1. q \in Queries /\ Counted(q) /\ pc[q] \in Past
    BY DEF TypeOK, Counters, LinesCounted
  <2>2. ask[q].name \in Names
    BY <2>1, CountedName DEF Past
  <2>3. q \in Hits(ask[q].name)
    BY <2>1 DEF Hits, Past
  <2>4. seen[ask[q].name] > 0
    <3>1. PICK n : n = ask[q].name
      OBVIOUS
    <3>2. n \in Names /\ Hits(n) # {}
      BY <2>2, <2>3, <3>1
    <3>3. seen[n] \in 1 .. Cardinality(Hits(n)) /\ seen[n] \in Nat
      BY <3>2 DEF Counters, HitCountBounds, TypeOK
    <3>4. QED
      BY <3>1, <3>3
  <2>5. QED
    BY <2>4 DEF Report
<1>2. QED
  BY <1>1, TypeCorrect, CountersInvariant, PTL DEF Spec, ReportCoversLog

-----------------------------------------------------------------------------
(***************************************************************************)
(* Hijacking.  A query for a hijacked name never takes the way to the      *)
(* upstream, so its handler is done by Spoof only, and the socket is open  *)
(* as long as the proxy serves.                                            *)
(***************************************************************************)

\* Before the socket is bound there are no queries.
NoneBeforeBind == main = "starting" => \A q \in Queries : pc[q] = "absent"

NotForwarded ==
  /\ \A q \in Queries : pc[q] \in {"waiting", "replying"} => ~ Hijacked(q)
  /\ \A x \in wire : ~ Hijacked(x.query)

\* Where nothing was sent yet.
Unanswered == \A q \in Queries : pc[q] # "done" => answered[q] = NoAnswer

\* What a handler of a hijacked query leaves the client with.
Answered ==
  \A q \in Queries : pc[q] = "done" /\ Hijacked(q) =>
    /\ answered[q] \in {Spoofed, NoAnswer}
    /\ main \in {"receiving", "submitting"} /\ Hijack[Lower[ask[q].name]] = "v4" =>
         answered[q] = Spoofed

Hijacking == NoneBeforeBind /\ NotForwarded /\ Unanswered /\ Answered

\* Queries for a hijacked name are those that handle() finds in its table.
LEMMA HijackedQuery ==
  ASSUME TypeOK, NEW q \in Queries, ForHijack(q)
  PROVE  Hijacked(q)
<1>1. ask[q] \in [client : Clients, name : Names, type : {"A", "other"}]
  BY DEF TypeOK, Question, ForHijack
<1>2. ask[q].name \in Names
  BY <1>1
<1>3. QED
  BY <1>2, SentinelAssumption DEF Hijacked, ForHijack

\* A step of one handler that leads to no end and sends nothing.
LEMMA HijackingKept ==
  ASSUME TypeOK, Hijacking, NEW q \in Queries, NEW step, pc' = [pc EXCEPT ![q] = step],
         UNCHANGED <<ask, answered, wire>>, step \notin {"waiting", "replying", "done"},
         pc[q] # "done", main' # "starting",
         main' \in {"receiving", "submitting"} => main \in {"receiving", "submitting"}
  PROVE  Hijacking'
<1>1. pc'[q] = step /\ \A d \in Queries \ {q} : pc'[d] = pc[d]
  BY Moved
<1>2. \A d : Hijacked(d)' = Hijacked(d)
  BY DEF Hijacked
<1>3. QED
  BY <1>1, <1>2 DEF Hijacking, NoneBeforeBind, NotForwarded, Unanswered, Answered

LEMMA HijackingInductive == TypeOK /\ QueueHolds /\ Ports /\ Hijacking /\ [Next]_vars => Hijacking'
<1> SUFFICES ASSUME TypeOK, QueueHolds, Ports, Hijacking, [Next]_vars
    PROVE  Hijacking'
  OBVIOUS
<1> USE DEF Hijacking, NoneBeforeBind, NotForwarded, Unanswered, Answered
<1>1. CASE UNCHANGED <<ask, pc, answered, wire>> /\ main' # "starting"
             /\ (main' = "receiving" => main \in {"receiving", "starting"})
             /\ (main' = "submitting" => main = "submitting")
  BY <1>1 DEF Hijacked
<1>2. CASE UNCHANGED vars
  BY <1>2 DEF vars, poolVars, netVars, Hijacked
<1>3. ASSUME NEW q \in Queries, NEW question \in Question, Receive(q, question)
      PROVE  Hijacking'
  <2>1. /\ pc[q] = "absent" /\ pc' = [pc EXCEPT ![q] = "taken"]
        /\ ask' = [ask EXCEPT ![q] = question]
        /\ main = "receiving" /\ main' = "submitting"
        /\ UNCHANGED <<answered, wire>>
    BY <1>3 DEF Receive, Goto, netVars
  <2>2. pc'[q] = "taken" /\ \A d \in Queries \ {q} : pc'[d] = pc[d]
    BY <2>1, Moved
  <2>3. \A d \in Queries \ {q} : Hijacked(d)' = Hijacked(d) /\ ask'[d] = ask[d]
    BY <2>1 DEF TypeOK, Hijacked
  <2>4. \A x \in wire : x.query \in Queries \ {q}
    BY <2>1 DEF Ports, ExchangesOwned, TypeOK
  <2>5. QED
    BY <2>1, <2>2, <2>3, <2>4
<1>4. ASSUME NEW q \in Queries, Submit(q)
      PROVE  Hijacking'
  BY <1>4, HijackingKept DEF Submit, Goto, netVars
<1>5. ASSUME NEW q \in Queries, Handling(q)
      PROVE  Hijacking'
  <2>0. main # "starting" /\ UNCHANGED <<main, ask>>
    <3>1. pc[q] # "absent"
      BY <1>5, StartQueued DEF Handling, Working, ReadCount, WriteCount, Announce, Spoof, Forward,
                               GiveUp, Reply, Deliver, Routing
    <3>2. UNCHANGED <<main, ask>>
      BY <1>5 DEF Handling, Working, Start, ReadCount, WriteCount, Announce, Spoof, Forward,
                  GiveUp, Reply, Deliver
    <3>3. QED
      BY <3>1, <3>2
  <2>1. \A d : Hijacked(d)' = Hijacked(d)
    BY <2>0 DEF Hijacked
  <2>2. CASE Start(q)
    BY <2>0, <2>2, StartQueued, HijackingKept DEF Start, Goto, netVars
  <2>3. CASE ReadCount(q) \/ WriteCount(q) \/ Announce(q)
    BY <2>0, <2>3, HijackingKept DEF ReadCount, WriteCount, Announce, Goto, netVars
  <2>4. CASE Spoof(q)
    <3>1. /\ pc[q] # "done" /\ pc' = [pc EXCEPT ![q] = "done"]
          /\ IF Hijack[Lower[ask[q].name]] = "v4" THEN Send(q, Spoofed) ELSE UNCHANGED answered
          /\ UNCHANGED wire
      BY <2>4 DEF Spoof, Routing, Goto
    <3>2. pc'[q] = "done" /\ \A d \in Queries \ {q} : pc'[d] = pc[d]
      BY <3>1, Moved
    <3>3. \A d \in Queries \ {q} : answered'[d] = answered[d]
      BY <3>1 DEF Send, TypeOK
    <3>4. answered[q] = NoAnswer
      BY <3>1
    <3>5. answered'[q] \in {Spoofed, NoAnswer}
      BY <3>1, <3>4 DEF Send, TypeOK
    <3>6. main \in {"receiving", "submitting"} /\ Hijack[Lower[ask[q].name]] = "v4" =>
            answered'[q] = Spoofed
      BY <3>1 DEF Send, SocketOpen, TypeOK
    <3>7. QED
      BY <2>0, <2>1, <3>1, <3>2, <3>3, <3>5, <3>6
  <2>5. CASE GiveUp(q) \/ Reply(q)
    <3>1. /\ ~ Hijacked(q) /\ pc[q] \notin {"absent", "done"} /\ pc' = [pc EXCEPT ![q] = "done"]
          /\ UNCHANGED answered \/ \E data : Send(q, data)
          /\ UNCHANGED wire
      BY <2>5 DEF GiveUp, Reply, Routing, Goto
    <3>2. pc'[q] = "done" /\ \A d \in Queries \ {q} : pc'[d] = pc[d]
      BY <3>1, Moved
    <3>3. \A d \in Queries \ {q} : answered'[d] = answered[d]
      BY <3>1 DEF Send, TypeOK
    <3>4. QED
      BY <2>0, <2>1, <3>1, <3>2, <3>3
  <2>6. ASSUME NEW step \in {"waiting", "replying"}, pc' = [pc EXCEPT ![q] = step],
               ~ Hijacked(q), pc[q] # "done", UNCHANGED answered,
               \A x \in wire' : x \in wire \/ x.query = q
        PROVE  Hijacking'
    <3>1. pc'[q] = step /\ \A d \in Queries \ {q} : pc'[d] = pc[d]
      BY <2>6, Moved
    <3>2. QED
      BY <2>0, <2>1, <2>6, <3>1
  <2>7. ASSUME NEW p \in UpPorts, Forward(q, p)
        PROVE  Hijacking'
    BY <2>6, <2>7 DEF Forward, Routing, Goto
  <2>8. ASSUME NEW x \in wire, Deliver(q, x)
        PROVE  Hijacking'
    BY <2>6, <2>8 DEF Deliver, Goto
  <2>9. QED
    BY <1>5, <2>2, <2>3, <2>4, <2>5, <2>7, <2>8 DEF Handling, Working
<1>6. CASE Ending \/ Bind \/ BindFails \/ RecvError \/ Interrupt
  BY <1>1, <1>6 DEF Ending, Bind, BindFails, RecvError, Interrupt, Report, Close, Exit, poolVars,
                    netVars
<1>7. QED
  BY <1>2, <1>3, <1>4, <1>5, <1>6 DEF Next, Serving

\* An A query for a hijacked name, however it is spelled, never has an exchange with the
\* upstream and never gets an answer from there, whatever the other workers do; while the
\* proxy serves, it gets the spoofed answer if the target is an IPv4 address.
THEOREM HijacksStay == Spec => []HijackKeepsFromCloud
<1>1. Init => Hijacking
  BY DEF Init, Hijacking, NoneBeforeBind, NotForwarded, Unanswered, Answered
<1>2. TypeOK /\ Ports /\ Hijacking => HijackKeepsFromCloud
  <2> SUFFICES ASSUME TypeOK, Ports, Hijacking, NEW q \in Queries, ForHijack(q)
               PROVE  /\ port[q] = NoPort
                      /\ \A x \in wire : x.query # q
                      /\ answered[q] \in {Spoofed, NoAnswer}
                      /\ /\ main \in {"receiving", "submitting"}
                         /\ pc[q] = "done"
                         /\ Hijack[Lower[ask[q].name]] = "v4"
                         => answered[q] = Spoofed
    BY DEF HijackKeepsFromCloud
  <2>1. Hijacked(q)
    BY HijackedQuery
  <2>2. port[q] = NoPort
    BY <2>1 DEF Ports, PortWhileWaiting, Hijacking, NotForwarded
  <2>3. \A x \in wire : x.query # q
    BY <2>1 DEF Hijacking, NotForwarded
  <2>4. QED
    BY <2>1, <2>2, <2>3 DEF Hijacking, Unanswered, Answered
<1>3. QED
  BY <1>1, <1>2, HijackingInductive, TypeCorrect, QueueInvariant, PortsInvariant, PTL DEF Spec
=============================================================================
