------------------------------ MODULE DnsProxy ------------------------------
(***************************************************************************)
(* The logging DNS forwarder of dnsproxy.py.  The main thread receives     *)
(* datagrams on one UDP socket and submits each of them to a thread pool;  *)
(* the workers count and log the query, then answer it themselves or       *)
(* forward it to the upstream resolver from a socket of their own.         *)
(***************************************************************************)
EXTENDS Naturals, Sequences, FiniteSets

CONSTANTS
  Queries,     \* the datagrams clients send; a retry is a datagram of its own
  Clients,     \* client IP addresses
  Watch,       \* the --watch addresses; empty means every client
  Names,       \* host names as spelled in a question
  Lower,       \* str.lower() on Names
  Hijack,      \* the --hijack table: lower-case name -> family of its target
  Workers,     \* max_workers of the pool
  UpPorts,     \* ephemeral ports the system may give to forward()'s sockets
  Unparsable,  \* parse_question returned None
  NoPort,      \* no socket of forward() is open
  Spoofed,     \* the answer build_a_response makes
  NoAnswer     \* no datagram

ASSUME WatchAssumption == Watch \subseteq Clients
ASSUME LowerAssumption == Lower \in [Names -> Names]
ASSUME HijackAssumption == /\ DOMAIN Hijack \subseteq Names
                           /\ \A n \in DOMAIN Hijack : Hijack[n] \in {"v4", "v6"}
ASSUME WorkersAssumption == Workers \in Nat \ {0}
ASSUME SentinelAssumption == /\ Unparsable \notin Names
                             /\ NoPort \notin UpPorts
                             /\ Spoofed \notin Queries \cup {NoAnswer}
                             /\ NoAnswer \notin Queries

VARIABLES
  main,      \* where the main thread is
  exit,      \* what main() has printed and returned
  ask,       \* the first question of each datagram received
  pc,        \* where handle() of each query is
  queue,     \* the work queue of the pool
  seen,      \* Proxy.seen: hits per name, 0 for a name that is no key yet
  got,       \* what self.seen.get(qname, 0) returned to each handler
  logged,    \* queries that have their line in the log
  marked,    \* queries whose line says "<-- NEW"
  reported,  \* the hit counts of the final report
  port,      \* the local port of each query's upstream socket
  wire,      \* upstream exchanges: an answer to .query may arrive at .port
  resp,      \* what forward() returned
  answered   \* what each client was sent

poolVars == <<pc, queue>>
logVars == <<seen, got, logged, marked>>
netVars == <<port, wire, resp, answered>>
vars == <<main, exit, ask, poolVars, logVars, reported, netVars>>

\* qtype matters only in so far as it is A (1) or another one.
Question ==
  [client : Clients, name : Names, type : {"A", "other"}]
    \cup [client : Clients, name : {Unparsable}, type : {"other"}]

TypeOK ==
  /\ main \in {"starting", "receiving", "submitting", "reporting", "closing",
               "joining", "exited"}
  /\ exit \in {"none", "ok", "cannot bind", "bind failed"}
  /\ ask \in [Queries -> Question \cup {Unparsable}]
  /\ pc \in [Queries -> {"absent", "taken", "queued", "handling", "counting",
                         "marking", "routing", "waiting", "replying", "done"}]
  /\ \A q \in Queries : pc[q] # "absent" => ask[q] \in Question
  /\ queue \in Seq(Queries)
  /\ seen \in [Names -> Nat]
  /\ got \in [Queries -> Nat]
  /\ logged \in SUBSET Queries
  /\ marked \in SUBSET logged
  /\ reported \in [Names -> Nat]
  /\ port \in [Queries -> UpPorts \cup {NoPort}]
  /\ wire \in SUBSET [query : Queries, port : UpPorts]
  /\ resp \in [Queries -> Queries \cup {NoAnswer}]
  /\ answered \in [Queries -> Queries \cup {Spoofed, NoAnswer}]

Init ==
  /\ main = "starting"
  /\ exit = "none"
  /\ ask = [q \in Queries |-> Unparsable]
  /\ pc = [q \in Queries |-> "absent"]
  /\ queue = <<>>
  /\ seen = [n \in Names |-> 0]
  /\ got = [q \in Queries |-> 0]
  /\ logged = {}
  /\ marked = {}
  /\ reported = [n \in Names |-> 0]
  /\ port = [q \in Queries |-> NoPort]
  /\ wire = {}
  /\ resp = [q \in Queries |-> NoAnswer]
  /\ answered = [q \in Queries |-> NoAnswer]

\* Moves the handler of q to another step.
Goto(q, step) == pc' = [pc EXCEPT ![q] = step]

-----------------------------------------------------------------------------
(***************************************************************************)
(* The main thread: main(), Proxy.serve() and Proxy.report().              *)
(***************************************************************************)

\* The socket is bound and the pool is made.
Bind ==
  /\ main = "starting"
  /\ main' = "receiving"
  /\ UNCHANGED <<exit, ask, poolVars, logVars, reported, netVars>>

\* sock.bind raises a PermissionError or another OSError.
BindFails ==
  /\ main = "starting"
  /\ main' = "exited"
  /\ exit' \in {"cannot bind", "bind failed"}
  /\ UNCHANGED <<ask, poolVars, logVars, reported, netVars>>

\* sock.recvfrom returns a datagram.
Receive(q, question) ==
  /\ main = "receiving"
  /\ pc[q] = "absent"
  /\ ask' = [ask EXCEPT ![q] = question]
  /\ Goto(q, "taken")
  /\ main' = "submitting"
  /\ UNCHANGED <<exit, queue, logVars, reported, netVars>>

\* pool.submit(self.handle, sock, data, addr): the queue has no bound.
Submit(q) ==
  /\ main = "submitting"
  /\ pc[q] = "taken"
  /\ queue' = Append(queue, q)
  /\ Goto(q, "queued")
  /\ main' = "receiving"
  /\ UNCHANGED <<exit, ask, logVars, reported, netVars>>

\* sock.recvfrom raises OSError, which main() takes for a failed bind.  Windows does
\* so (WSAECONNRESET) after a reply to a client whose port was closed by then.
RecvError ==
  /\ main = "receiving"
  /\ main' = "closing"
  /\ exit' = "bind failed"
  /\ UNCHANGED <<ask, poolVars, logVars, reported, netVars>>

\* Ctrl+C, in recvfrom or between recvfrom and submit.
Interrupt ==
  /\ main \in {"receiving", "submitting"}
  /\ main' = "reporting"
  /\ exit' = "ok"
  /\ UNCHANGED <<ask, poolVars, logVars, reported, netVars>>

\* self.report(), while the workers go on.
Report ==
  /\ main = "reporting"
  /\ reported' = seen
  /\ main' = "closing"
  /\ UNCHANGED <<exit, ask, poolVars, logVars, netVars>>

\* finally: sock.close().  serve() and main() return.
Close ==
  /\ main = "closing"
  /\ main' = "joining"
  /\ UNCHANGED <<exit, ask, poolVars, logVars, reported, netVars>>

SocketOpen == main \in {"receiving", "submitting", "reporting", "closing"}

\* The interpreter ends once the pool has worked off its queue.
Exit ==
  /\ main = "joining"
  /\ \A q \in Queries : pc[q] \in {"absent", "taken", "done"}
  /\ main' = "exited"
  /\ UNCHANGED <<exit, ask, poolVars, logVars, reported, netVars>>

-----------------------------------------------------------------------------
(***************************************************************************)
(* Proxy.handle() in a worker of the pool.                                 *)
(***************************************************************************)

Busy == {q \in Queries : pc[q] \notin {"absent", "taken", "queued", "done"}}

\* A faulty Start: the pool is shut down as soon as the socket is closed.
StartWhileOpen(q) ==
  /\ SocketOpen
  /\ queue # <<>>
  /\ q = Head(queue)
  /\ Cardinality(Busy) < Workers
  /\ queue' = Tail(queue)
  /\ Goto(q, "handling")
  /\ UNCHANGED <<main, exit, ask, logVars, reported, netVars>>

\* A worker is free and takes the oldest query; it parses the question.
Start(q) ==
  /\ queue # <<>>
  /\ q = Head(queue)
  /\ Cardinality(Busy) < Workers
  /\ queue' = Tail(queue)
  /\ Goto(q, "handling")
  /\ UNCHANGED <<main, exit, ask, logVars, reported, netVars>>

Watched(q) == ask[q].client \in Watch \/ Watch = {}

\* Only a query that could be parsed is counted and logged.
Counted(q) == ask[q].name # Unparsable /\ Watched(q)

\* A faulty ReadCount: the line is logged before the hit is counted.
ReadCountAfterLog(q) ==
  /\ pc[q] = "handling"
  /\ Counted(q)
  /\ got' = [got EXCEPT ![q] = seen[ask[q].name]]
  /\ logged' = logged \cup {q}
  /\ Goto(q, "counting")
  /\ UNCHANGED <<main, exit, ask, queue, seen, marked, reported, netVars>>

\* A faulty ReadCount: self.seen.get(qname), which is None for a new name.
ReadCountNoDefault(q) ==
  /\ pc[q] = "handling"
  /\ Counted(q)
  /\ got' = [got EXCEPT ![q] = IF seen[ask[q].name] = 0 THEN NoAnswer ELSE seen[ask[q].name]]
  /\ Goto(q, "counting")
  /\ UNCHANGED <<main, exit, ask, queue, seen, logged, marked, reported, netVars>>

\* self.seen.get(qname, 0) + 1
ReadCount(q) ==
  /\ pc[q] = "handling"
  /\ Counted(q)
  /\ got' = [got EXCEPT ![q] = seen[ask[q].name]]
  /\ Goto(q, "counting")
  /\ UNCHANGED <<main, exit, ask, queue, seen, logged, marked, reported, netVars>>

\* A faulty WriteCount: the first hit of a name counts for nothing.
WriteCountRead(q) ==
  /\ pc[q] = "counting"
  /\ seen' = [seen EXCEPT ![ask[q].name] = got[q]]
  /\ Goto(q, "marking")
  /\ UNCHANGED <<main, exit, ask, queue, got, logged, marked, reported, netVars>>

\* self.seen[qname] = ..., without a lock since the read.
WriteCount(q) ==
  /\ pc[q] = "counting"
  /\ seen' = [seen EXCEPT ![ask[q].name] = got[q] + 1]
  /\ Goto(q, "marking")
  /\ UNCHANGED <<main, exit, ask, queue, got, logged, marked, reported, netVars>>

\* first = self.seen[qname] == 1, and the line of this query.
Announce(q) ==
  /\ pc[q] = "marking"
  /\ logged' = logged \cup {q}
  /\ marked' = IF seen[ask[q].name] = 1 THEN marked \cup {q} ELSE marked
  /\ Goto(q, "routing")
  /\ UNCHANGED <<main, exit, ask, queue, seen, got, reported, netVars>>

\* handle() is past the log, or had nothing to log.
Routing(q) == pc[q] = "routing" \/ (pc[q] = "handling" /\ ~ Counted(q))

\* A faulty Hijacked: the table is looked up with the name as spelled.
HijackedAsSpelled(q) == /\ ask[q].name # Unparsable
                        /\ ask[q].type = "A"
                        /\ ask[q].name \in DOMAIN Hijack

\* target = self.hijack.get(qname.lower()), and it is an A query.
Hijacked(q) == /\ ask[q].name # Unparsable
               /\ ask[q].type = "A"
               /\ Lower[ask[q].name] \in DOMAIN Hijack

\* What sock.sendto(data, addr) leaves the client with: on the closed socket it
\* raises, and the pool keeps the exception to itself.
Send(q, data) == answered' = IF SocketOpen THEN [answered EXCEPT ![q] = data] ELSE answered

\* The query is answered with the target.  socket.inet_aton raises for an IPv6
\* target: the pool keeps that exception to itself too.
Spoof(q) ==
  /\ Routing(q)
  /\ Hijacked(q)
  /\ IF Hijack[Lower[ask[q].name]] = "v4" THEN Send(q, Spoofed) ELSE UNCHANGED answered
  /\ Goto(q, "done")
  /\ UNCHANGED <<main, exit, ask, queue, logVars, reported, port, wire, resp>>

\* A faulty Forward: one port for the queries of all workers.
ForwardShared(q, p) ==
  /\ Routing(q)
  /\ ~ Hijacked(q)
  /\ port' = [port EXCEPT ![q] = p]
  /\ wire' = wire \cup {[query |-> q, port |-> p]}
  /\ Goto(q, "waiting")
  /\ UNCHANGED <<main, exit, ask, queue, logVars, reported, resp, answered>>

\* forward(): a new socket on a port no open socket has, and the query is sent.
Forward(q, p) ==
  /\ Routing(q)
  /\ ~ Hijacked(q)
  /\ p \notin {port[d] : d \in Queries}
  /\ port' = [port EXCEPT ![q] = p]
  /\ wire' = wire \cup {[query |-> q, port |-> p]}
  /\ Goto(q, "waiting")
  /\ UNCHANGED <<main, exit, ask, queue, logVars, reported, resp, answered>>

\* recvfrom(4096) returns whatever arrives at the port.  An exchange stays on the
\* wire: the network may delay its answer, or deliver it twice.
Deliver(q, exchange) ==
  /\ pc[q] = "waiting"
  /\ exchange.port = port[q]
  /\ resp' = [resp EXCEPT ![q] = exchange.query]
  /\ port' = [port EXCEPT ![q] = NoPort]
  /\ Goto(q, "replying")
  /\ UNCHANGED <<main, exit, ask, queue, logVars, reported, wire, answered>>

\* A faulty GiveUp: the upstream socket has no timeout.
GiveUpSending(q) ==
  /\ Routing(q) /\ ~ Hijacked(q)
  /\ port' = [port EXCEPT ![q] = NoPort]
  /\ Goto(q, "done")
  /\ UNCHANGED <<main, exit, ask, queue, logVars, reported, wire, resp, answered>>

\* forward() returns None: the query cannot be sent, or nothing arrives in 4 seconds.
GiveUp(q) ==
  /\ pc[q] = "waiting" \/ (Routing(q) /\ ~ Hijacked(q))
  /\ port' = [port EXCEPT ![q] = NoPort]
  /\ Goto(q, "done")
  /\ UNCHANGED <<main, exit, ask, queue, logVars, reported, wire, resp, answered>>

\* if resp: sock.sendto(resp, addr)
Reply(q) ==
  /\ pc[q] = "replying"
  /\ Send(q, resp[q])
  /\ Goto(q, "done")
  /\ UNCHANGED <<main, exit, ask, queue, logVars, reported, port, wire, resp>>

-----------------------------------------------------------------------------
Serving ==
  \/ Bind
  \/ BindFails
  \/ \E q \in Queries : Submit(q) \/ \E question \in Question : Receive(q, question)
  \/ RecvError
  \/ Interrupt

Ending == Report \/ Close \/ Exit

\* What a worker does by itself.
Working(q) ==
  \/ Start(q)
  \/ ReadCount(q) \/ WriteCount(q) \/ Announce(q)
  \/ Spoof(q)
  \/ \E p \in UpPorts : Forward(q, p)
  \/ GiveUp(q)
  \/ Reply(q)

Handling(q) == Working(q) \/ \E exchange \in wire : Deliver(q, exchange)

Next == Serving \/ Ending \/ \E q \in Queries : Handling(q)

Spec == Init /\ [][Next]_vars

\* The workers run, the timeout of forward()'s socket ends every wait
\* after 4 seconds, and main() runs to its end once it has left the loop.  No
\* fairness for clients, for the upstream or for Ctrl+C.
Fairness ==
  /\ \A q \in Queries : WF_vars(Working(q))
  /\ WF_vars(Ending)

FairSpec == Spec /\ Fairness

-----------------------------------------------------------------------------
(***************************************************************************)
(* Safety.                                                                 *)
(***************************************************************************)

\* The queries for name n that were counted.
Hits(n) ==
  {q \in Queries : /\ pc[q] \in {"marking", "routing", "waiting", "replying", "done"}
                   /\ Counted(q)
                   /\ ask[q].name = n}

\* The unlocked counter of a name may lose hits to a race between workers, but
\* it neither invents a hit nor forgets a name that was queried.
HitCountBounds ==
  \A n \in Names : IF Hits(n) = {} THEN seen[n] = 0
                   ELSE seen[n] \in 1 .. Cardinality(Hits(n))

\* The report lists every name that has a line in the log when it is printed,
\* whatever the workers are doing to the counters.
ReportCoversLog ==
  [][Report => \A q \in logged : reported'[ask[q].name] > 0]_vars

\* forward() does not match answers with queries, so a late answer may reach the
\* wrong client; but it is one to a query that is over, as two forwards that are
\* waiting never share a port.
StrayAnswersAreLate ==
  \A q \in Queries :
    resp[q] \notin {q, NoAnswer} => pc[resp[q]] \in {"replying", "done"}

\* q is an A query for a --hijack name, however it is spelled.
ForHijack(q) == /\ pc[q] # "absent"
                /\ ask[q].type = "A"
                /\ Lower[ask[q].name] \in DOMAIN Hijack

\* "answer the configured hostnames with our own IP so the device connects to us
\* instead of the cloud" (dnsproxy.py:11): the address of the cloud never reaches the
\* client, not even from the answer to another query, as such a query is never
\* forwarded and gets no other answer than ours; and while the proxy serves it does get
\* ours, if the target is an IPv4 address.  What the line promises of a target of the
\* other family, which main() accepts, the code does not do: build_a_response raises.
HijackKeepsFromCloud ==
  \A q \in Queries : ForHijack(q) =>
    /\ port[q] = NoPort
    /\ \A exchange \in wire : exchange.query # q
    /\ answered[q] \in {Spoofed, NoAnswer}
    /\ /\ main \in {"receiving", "submitting"}
       /\ pc[q] = "done"
       /\ Hijack[Lower[ask[q].name]] = "v4"
       => answered[q] = Spoofed

-----------------------------------------------------------------------------
(***************************************************************************)
(* Liveness.                                                               *)
(***************************************************************************)

\* Every query that was submitted is worked off, also when the upstream never
\* answers and when the main thread has gone: no worker is stuck for ever.
EveryQueryHandled == \A q \in Queries : pc[q] = "queued" ~> pc[q] = "done"

\* Once main has left its loop the process ends, and the queue is empty then.
ShutdownDrains == main \in {"reporting", "closing"} ~> main = "exited" /\ queue = <<>>
=============================================================================
