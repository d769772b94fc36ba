------------------------------ MODULE TlsProbe ------------------------------
(***************************************************************************)
(* The TLS listener of tlsprobe.py: one listening thread per --port, one   *)
(* handler thread per accepted connection, and the main thread that prints *)
(* the verdict after Ctrl+C.  All handlers share one SSLContext, and each  *)
(* of them installs its own closure as that context's sni_callback.        *)
(*                                                                         *)
(* A record of RESULTS carries the connection as well as the peer address  *)
(* the code stores, so that properties can tell connections apart.         *)
(***************************************************************************)
EXTENDS Naturals, Sequences

CONSTANTS
  Conns,       \* TCP connections that clients may open to the probe
  Ports,       \* the --port arguments
  SelfTest,    \* the connections opened by self_test(), when it is asked for
  Names,       \* host names a client may put in its ClientHello
  NoName,      \* Python's None: no server_name in the ClientHello, or no SNI seen
  Silent,      \* no ClientHello of this connection has been processed yet
  NoCallback   \* no handler has set ctx.sni_callback yet

ASSUME SelfTestAssumption == SelfTest \subseteq Conns
ASSUME SentinelAssumption ==
  /\ NoName \notin Names
  /\ Silent \notin Names \cup {NoName}
  /\ NoCallback \notin Conns

VARIABLES
  listener,    \* state of the serve() thread of each port
  pc,          \* where handle() of each connection is
  trusting,    \* the clients that accept any certificate
  callback,    \* the connection whose closure ctx.sni_callback is
  seenSni,     \* seen_sni.get("name") of each handler
  hello,       \* what each client asked for, once its ClientHello is processed
  results,     \* RESULTS
  overlapped,  \* history: the connections that shared wrap_socket with another
  main,        \* where the main thread is
  printed      \* what the verdict has printed so far

probeVars == <<listener, pc, callback, seenSni, hello, results, overlapped>>
vars == <<listener, pc, trusting, callback, seenSni, hello, results,
          overlapped, main, printed>>

Asked == Names \cup {NoName}
Outcome == {"accepted", "rejected", "dropped"}

\* Detail of a result: what _is_cert_rejection makes of the reason of an
\* SSLError, or that there is none.
Detail == {"certificate", "protocol", "none"}

Result == [outcome : Outcome, conn : Conns, sni : Asked, detail : Detail]

Verdict == {"none", "viable", "validates"}

\* Does any result of s have this outcome?
Has(s, outcome) == \E i \in DOMAIN s : s[i].outcome = outcome

TypeOK ==
  /\ listener \in [Ports -> {"starting", "listening", "stopped"}]
  /\ pc \in [Conns -> {"absent", "accepted", "wrapping", "established", "done"}]
  /\ trusting \in SUBSET Conns
  /\ callback \in Conns \cup {NoCallback}
  /\ seenSni \in [Conns -> Asked]
  /\ hello \in [Conns -> Asked \cup {Silent}]
  /\ results \in Seq(Result)
  /\ overlapped \in SUBSET Conns
  /\ main \in {"waiting", "listing", "counting", "concluding", "exited"}
  /\ printed \in [empty : BOOLEAN, listed : Nat, viable : BOOLEAN, verdict : Verdict]

Init ==
  /\ listener = [p \in Ports |-> "starting"]
  /\ pc = [c \in Conns |-> "absent"]
  /\ trusting \in {T \in SUBSET Conns : SelfTest \subseteq T}
  /\ callback = NoCallback
  /\ seenSni = [c \in Conns |-> NoName]
  /\ hello = [c \in Conns |-> Silent]
  /\ results = <<>>
  /\ overlapped = {}
  /\ main = "waiting"
  /\ printed = [empty |-> FALSE, listed |-> 0, viable |-> FALSE, verdict |-> "none"]

-----------------------------------------------------------------------------
(***************************************************************************)
(* serve(port, ctx), a daemon thread for each port.                        *)
(***************************************************************************)

\* bind and listen succeed.
Listen(p) ==
  /\ main # "exited"
  /\ listener[p] = "starting"
  /\ listener' = [listener EXCEPT ![p] = "listening"]
  /\ UNCHANGED <<pc, trusting, callback, seenSni, hello, results, overlapped,
                 main, printed>>

\* bind raises OSError and the thread returns, or accept raises OSError and the
\* thread returns: in both cases nothing listens on the port any more.
StopListening(p) ==
  /\ main # "exited"
  /\ listener[p] \in {"starting", "listening"}
  /\ listener' = [listener EXCEPT ![p] = "stopped"]
  /\ UNCHANGED <<pc, trusting, callback, seenSni, hello, results, overlapped,
                 main, printed>>

\* accept returns a connection and a handler thread is started for it.
Accept(p, c) ==
  /\ main # "exited"
  /\ listener[p] = "listening"
  /\ pc[c] = "absent"
  /\ pc' = [pc EXCEPT ![c] = "accepted"]
  /\ UNCHANGED <<listener, trusting, callback, seenSni, hello, results,
                 overlapped, main, printed>>

-----------------------------------------------------------------------------
(***************************************************************************)
(* handle(conn, addr, ctx), a daemon thread for each connection.           *)
(***************************************************************************)

Wrapping == {c \in Conns : pc[c] = "wrapping"}

\* A faulty InstallCallback: the callback is set on the context once only.
InstallCallbackOnce(c) ==
  /\ main # "exited"
  /\ pc[c] = "accepted"
  /\ callback' = IF callback = NoCallback THEN c ELSE callback
  /\ pc' = [pc EXCEPT ![c] = "wrapping"]
  /\ overlapped' = IF Wrapping = {} THEN overlapped
                   ELSE overlapped \cup Wrapping \cup {c}
  /\ UNCHANGED <<listener, trusting, seenSni, hello, results, main, printed>>

\* ctx.sni_callback = sni_cb, on the context that all handlers share; then
\* wrap_socket is entered.
InstallCallback(c) ==
  /\ main # "exited"
  /\ pc[c] = "accepted"
  /\ callback' = c
  /\ pc' = [pc EXCEPT ![c] = "wrapping"]
  /\ overlapped' = IF Wrapping = {} THEN overlapped
                   ELSE overlapped \cup Wrapping \cup {c}
  /\ UNCHANGED <<listener, trusting, seenSni, hello, results, main, printed>>

\* A faulty ClientHello: one seen_sni for all handlers.
ClientHelloShared(c, name) ==
  /\ main # "exited"
  /\ pc[c] = "wrapping"
  /\ hello[c] = Silent
  /\ hello' = [hello EXCEPT ![c] = name]
  /\ seenSni' = [d \in Conns |-> name]
  /\ UNCHANGED <<listener, pc, trusting, callback, results, overlapped, main,
                 printed>>

\* Inside wrap_socket the ClientHello of c arrives.  The TLS library calls the
\* callback the context has now, which stores the name in its own seen_sni.
ClientHello(c, name) ==
  /\ main # "exited"
  /\ pc[c] = "wrapping"
  /\ hello[c] = Silent
  /\ hello' = [hello EXCEPT ![c] = name]
  /\ seenSni' = [seenSni EXCEPT ![callback] = name]
  /\ UNCHANGED <<listener, pc, trusting, callback, results, overlapped, main,
                 printed>>

\* A faulty Record: the name is taken for granted instead of looked up with get.
RecordWithoutDefault(c, outcome, detail) ==
  results' = Append(results, [outcome |-> outcome, conn |-> c,
                              sni |-> hello[c], detail |-> detail])

\* RESULTS.append((outcome, addr[0], seen_sni.get("name"), detail))
Record(c, outcome, detail) ==
  results' = Append(results, [outcome |-> outcome, conn |-> c,
                              sni |-> seenSni[c], detail |-> detail])

\* A faulty Reject: no return after the rejection is recorded.
RejectAndGoOn(c, detail) ==
  /\ main # "exited"
  /\ pc[c] = "wrapping"
  /\ detail = "certificate" => hello[c] # Silent /\ c \notin trusting
  /\ Record(c, "rejected", detail)
  /\ UNCHANGED <<listener, pc, trusting, callback, seenSni, hello, overlapped,
                 main, printed>>

\* wrap_socket raises SSLError.  A client that has seen the certificate and does
\* not trust it sends a certificate alert; a failed negotiation, bytes that are
\* not TLS and a bare close are other SSLErrors.  All of them are "rejected".
Reject(c, detail) ==
  /\ main # "exited"
  /\ pc[c] = "wrapping"
  /\ detail = "certificate" => hello[c] # Silent /\ c \notin trusting
  /\ Record(c, "rejected", detail)
  /\ pc' = [pc EXCEPT ![c] = "done"]
  /\ UNCHANGED <<listener, trusting, callback, seenSni, hello, overlapped, main,
                 printed>>

\* A faulty Drop: no timeout on the socket, a client that says nothing is kept.
DropAfterHello(c) ==
  /\ main # "exited"
  /\ pc[c] = "wrapping"
  /\ hello[c] # Silent
  /\ Record(c, "dropped", "none")
  /\ pc' = [pc EXCEPT ![c] = "done"]
  /\ UNCHANGED <<listener, trusting, callback, seenSni, hello, overlapped, main,
                 printed>>

\* wrap_socket raises another OSError: a reset, or the 20 second timeout.
Drop(c) ==
  /\ main # "exited"
  /\ pc[c] = "wrapping"
  /\ Record(c, "dropped", "none")
  /\ pc' = [pc EXCEPT ![c] = "done"]
  /\ UNCHANGED <<listener, trusting, callback, seenSni, hello, overlapped, main,
                 printed>>

\* wrap_socket returns: only a client that accepts the certificate gets here.
Complete(c) ==
  /\ main # "exited"
  /\ pc[c] = "wrapping"
  /\ hello[c] # Silent
  /\ c \in trusting
  /\ Record(c, "accepted", "none")
  /\ pc' = [pc EXCEPT ![c] = "established"]
  /\ UNCHANGED <<listener, trusting, callback, seenSni, hello, overlapped, main,
                 printed>>

\* recv returns data, nothing, or fails within 20 seconds; the data is only
\* shown, and the connection is closed.
Finish(c) ==
  /\ main # "exited"
  /\ pc[c] = "established"
  /\ pc' = [pc EXCEPT ![c] = "done"]
  /\ UNCHANGED <<listener, trusting, callback, seenSni, hello, results,
                 overlapped, main, printed>>

-----------------------------------------------------------------------------
(***************************************************************************)
(* The main thread: it waits for Ctrl+C, then prints the verdict while the *)
(* other threads keep running.  Both loops over RESULTS end with the last  *)
(* entry there is when they end, as a list iterator sees later appends.    *)
(***************************************************************************)

\* KeyboardInterrupt ends the wait; "no connections received" if RESULTS is empty.
Interrupt ==
  /\ main = "waiting"
  /\ printed' = [printed EXCEPT !.empty = (results = <<>>)]
  /\ main' = "listing"
  /\ UNCHANGED <<probeVars, trusting>>

\* for outcome, ip, sni, detail in RESULTS: print(...)
ListResults ==
  /\ main = "listing"
  /\ printed' = [printed EXCEPT !.listed = Len(results)]
  /\ main' = "counting"
  /\ UNCHANGED <<probeVars, trusting>>

\* A faulty CountAccepted: only the first entry of RESULTS is looked at.
CountFirst ==
  /\ main = "counting"
  /\ printed' = [printed EXCEPT !.viable = /\ results # <<>>
                                           /\ results[1].outcome = "accepted"]
  /\ main' = "concluding"
  /\ UNCHANGED <<probeVars, trusting>>

\* accepted = sum(...), the loop over RESULTS after the listing.
CountAccepted ==
  /\ main = "counting"
  /\ printed' = [printed EXCEPT !.viable = Has(results, "accepted")]
  /\ main' = "concluding"
  /\ UNCHANGED <<probeVars, trusting>>

\* Prints one of the two conclusions or none.  The process then ends, and every
\* daemon thread with it.
Conclude ==
  /\ main = "concluding"
  /\ printed' = [printed EXCEPT !.verdict = IF printed.viable THEN "viable"
                                            ELSE IF results # <<>> THEN "validates"
                                            ELSE "none"]
  /\ main' = "exited"
  /\ UNCHANGED <<probeVars, trusting>>

-----------------------------------------------------------------------------
Listening(p) == Listen(p) \/ StopListening(p) \/ \E c \in Conns : Accept(p, c)

\* The way wrap_socket ends, whatever the client does.
EndHandshake(c) ==
  \/ \E detail \in {"certificate", "protocol"} : Reject(c, detail)
  \/ Drop(c)
  \/ Complete(c)

Handling(c) ==
  \/ InstallCallback(c)
  \/ \E name \in Asked : ClientHello(c, name)
  \/ EndHandshake(c)
  \/ Finish(c)

Reporting == ListResults \/ CountAccepted \/ Conclude

Next ==
  \/ \E p \in Ports : Listening(p)
  \/ \E c \in Conns : Handling(c)
  \/ Interrupt
  \/ Reporting

Spec == Init /\ [][Next]_vars

\* Each handler thread gets to run; conn.settimeout(20) bounds its handshake and
\* its recv whatever the client does, so a handshake that ends in no other way
\* is dropped; and the verdict is printed once it has begun.  No fairness for
\* clients, for binding a port or for Ctrl+C.
Fairness ==
  /\ \A c \in Conns :
       WF_vars(InstallCallback(c)) /\ WF_vars(Drop(c)) /\ WF_vars(Finish(c))
  /\ WF_vars(Reporting)

FairSpec == Spec /\ Fairness

-----------------------------------------------------------------------------
(***************************************************************************)
(* Safety.                                                                 *)
(***************************************************************************)

\* What seen_sni.get("name") is when the callback has reported c's own hello.
OwnName(c) == IF hello[c] = Silent THEN NoName ELSE hello[c]

Measured(c) == \E i \in DOMAIN results : results[i].conn = c

\* RESULTS has exactly one entry for each connection whose wrap_socket is over
\* and none for the others, whichever of the three exits of handle() was taken.
OneResultPerConnection ==
  /\ \A i, j \in DOMAIN results : results[i].conn = results[j].conn => i = j
  /\ \A c \in Conns : Measured(c) <=> pc[c] \in {"established", "done"}

\* The SNI recorded with a connection that was in wrap_socket alone is the name
\* that this very client asked for, also when it rejected the certificate or
\* went away: the measurement survives the failed handshake (tlsprobe.py:208).
ExclusiveAttribution ==
  \A i \in DOMAIN results :
    results[i].conn \notin overlapped => results[i].sni = OwnName(results[i].conn)

\* When handlers race for ctx.sni_callback, a name may end up with the wrong
\* connection, but only with one whose handshake overlapped another one: a
\* recorded name is one that this client asked for, or one that another client
\* with an overlapping handshake asked for.
NoInventedName ==
  \A i \in DOMAIN results :
    results[i].sni # NoName =>
      \E d \in Conns : /\ hello[d] = results[i].sni
                       /\ d = results[i].conn \/ {d, results[i].conn} \subseteq overlapped

\* The conclusion never contradicts the list printed above it: "impersonation
\* VIABLE" follows a completed handshake, and "device validates certificates"
\* is not printed below a listed handshake that completed, although handlers
\* append to RESULTS between the two loops of main().
VerdictCoversListing ==
  main = "exited" =>
    /\ printed.verdict = "viable" => Has(results, "accepted")
    /\ printed.verdict = "validates" =>
         \A i \in DOMAIN results :
           i <= printed.listed => results[i].outcome # "accepted"

-----------------------------------------------------------------------------
(***************************************************************************)
(* Liveness.                                                               *)
(***************************************************************************)

\* Every accepted connection ends up in RESULTS, even if the client never says a
\* word, unless the process ends first: no handler hangs in wrap_socket.
EveryConnectionMeasured ==
  \A c \in Conns : pc[c] = "accepted" ~> Measured(c) \/ main = "exited"

-----------------------------------------------------------------------------
(***************************************************************************)
(* What the program says of itself, and does not keep.                     *)
(***************************************************************************)

\* "so we capture the requested hostname even when the client subsequently
\* rejects our certificate" (tlsprobe.py:208): every recorded SNI is the one the
\* client of that entry sent.
SniIsOwn ==
  \A i \in DOMAIN results : results[i].sni = OwnName(results[i].conn)
=============================================================================
