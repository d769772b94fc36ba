--------------------------- MODULE TlsProbeProofs ---------------------------
(***************************************************************************)
(* Proofs about TlsProbe, for any number of connections, ports and names.  *)
(***************************************************************************)
EXTENDS TlsProbe, TLAPS

\* A handler that has not entered wrap_socket is untouched by the others.
FreshHandlers ==
  \A c \in Conns : pc[c] \in {"absent", "accepted"} =>
    c \notin overlapped /\ callback # c /\ hello[c] = Silent

\* The installed callback belongs to every handler in wrap_socket, or else both
\* of them know of an overlap.
CallbackOwner ==
  \A c \in Conns : pc[c] = "wrapping" /\ callback # c => {c, callback} \subseteq overlapped

\* Until its result is recorded, a handler that met no other one has seen its own
\* client's name, and nothing before that client's hello.
OwnNameSeen ==
  \A c \in Conns \ overlapped :
    pc[c] \in {"absent", "accepted", "wrapping"} => seenSni[c] = OwnName(c)

\* A name some handler has seen was asked for by its own client or in an overlap.
Explained(c, name) ==
  name # NoName => \E d \in Conns : /\ hello[d] = name
                                    /\ d = c \/ {d, c} \subseteq overlapped
NamesSeenExplained == \A c \in Conns : Explained(c, seenSni[c])

\* What the main thread holds while it works its way through the verdict.
VerdictSoFar ==
  /\ main \in {"counting", "concluding", "exited"} => printed.listed <= Len(results)
  /\ main \in {"concluding", "exited"} =>
       IF printed.viable THEN Has(results, "accepted")
       ELSE \A i \in 1 .. printed.listed : results[i].outcome # "accepted"
  /\ main = "exited" => (printed.verdict = "viable") = printed.viable

-----------------------------------------------------------------------------

\* Every variable of the probe keeps its type, whatever the clients do.
THEOREM TypeCorrect == Spec => []TypeOK
<1>1. Init => TypeOK
  BY SentinelAssumption DEF Init, TypeOK, Asked, Verdict
<1>2. TypeOK /\ [Next]_vars => TypeOK'
  <2> SUFFICES ASSUME TypeOK, [Next]_vars PROVE TypeOK'
    OBVIOUS
  <2> USE DEF TypeOK
  <2>1. ASSUME NEW c \in Conns, NEW o \in Outcome, NEW d \in Detail, Record(c, o, d)
        PROVE  results' \in Seq(Result)
    BY <2>1 DEF Record, Result, Asked
  <2>2. ASSUME NEW p \in Ports, Listening(p) PROVE TypeOK'
    BY <2>2 DEF Listening, Listen, StopListening, Accept
  <2>3. ASSUME NEW c \in Conns, Handling(c) PROVE TypeOK'
    <3>1. CASE InstallCallback(c)
      BY <3>1 DEF InstallCallback, Wrapping
    <3>2. ASSUME NEW name \in Asked, ClientHello(c, name) PROVE TypeOK'
      <4>1. seenSni' \in [Conns -> Asked]
        BY <3>2 DEF ClientHello
      <4>2. QED
        BY <4>1, <3>2 DEF ClientHello
    <3>3. ASSUME NEW detail \in {"certificate", "protocol"}, Reject(c, detail) PROVE TypeOK'
      BY <3>3, <2>1 DEF Reject, Outcome, Detail
    <3>4. CASE Drop(c)
      BY <3>4, <2>1 DEF Drop, Outcome, Detail
    <3>5. CASE Complete(c)
      BY <3>5, <2>1 DEF Complete, Outcome, Detail
    <3>6. CASE Finish(c)
      BY <3>6 DEF Finish
    <3>7. QED
      BY <2>3, <3>1, <3>2, <3>3, <3>4, <3>5, <3>6 DEF Handling, EndHandshake
  <2>4. CASE Interrupt
    BY <2>4 DEF Interrupt, probeVars
  <2>5. CASE Reporting
    <3>1. CASE ListResults
      BY <3>1 DEF ListResults, probeVars
    <3>2. CASE CountAccepted
      BY <3>2 DEF CountAccepted, probeVars, Has
    <3>3. CASE Conclude
      BY <3>3 DEF Conclude, probeVars, Verdict
    <3>4. QED
      BY <2>5, <3>1, <3>2, <3>3 DEF Reporting
  <2>6. CASE UNCHANGED vars
    BY <2>6 DEF vars
  <2>7. QED
    BY <2>2, <2>3, <2>4, <2>5, <2>6 DEF Next
<1>3. QED
  BY <1>1, <1>2, PTL DEF Spec

-----------------------------------------------------------------------------

\* A recorded result reads the handler's own fields and nothing else.
LEMMA RecordAppends ==
  ASSUME TypeOK, NEW c \in Conns, NEW o \in Outcome, NEW d \in Detail, Record(c, o, d)
  PROVE  /\ DOMAIN results = 1 .. Len(results)
         /\ Len(results') = Len(results) + 1
         /\ DOMAIN results' = 1 .. Len(results) + 1
         /\ \A i \in 1 .. Len(results) : results'[i] = results[i]
         /\ results'[Len(results) + 1].conn = c
         /\ results'[Len(results) + 1].sni = seenSni[c]
         /\ results'[Len(results) + 1].outcome = o
<1> DEFINE r == [outcome |-> o, conn |-> c, sni |-> seenSni[c], detail |-> d]
<1>1. results \in Seq(Result) /\ r \in Result
  BY DEF TypeOK, Result, Asked
<1>2. results' = Append(results, r)
  BY DEF Record
<1>3. r.conn = c /\ r.sni = seenSni[c] /\ r.outcome = o
  OBVIOUS
<1> HIDE DEF r
<1>4. QED
  BY <1>1, <1>2, <1>3

\* Each connection leaves exactly one result, when its wrap_socket is over.
THEOREM OneResult == Spec => []OneResultPerConnection
<1> USE DEF OneResultPerConnection, Measured
<1>1. Init => OneResultPerConnection
  BY DEF Init
<1>2. TypeOK /\ OneResultPerConnection /\ [Next]_vars => OneResultPerConnection'
  <2> SUFFICES ASSUME TypeOK, OneResultPerConnection, [Next]_vars
               PROVE  OneResultPerConnection'
    OBVIOUS
  <2>1. CASE UNCHANGED <<pc, results>>
    BY <2>1
  <2>2. ASSUME NEW c \in Conns, UNCHANGED results,
               pc[c] \in {"absent", "accepted"},
               pc' = [pc EXCEPT ![c] = "accepted"] \/ pc' = [pc EXCEPT ![c] = "wrapping"]
        PROVE  OneResultPerConnection'
    BY <2>2 DEF TypeOK
  <2>3. ASSUME NEW c \in Conns, NEW o \in Outcome, NEW d \in Detail, Record(c, o, d),
               pc[c] = "wrapping",
               pc' = [pc EXCEPT ![c] = "done"] \/ pc' = [pc EXCEPT ![c] = "established"]
        PROVE  OneResultPerConnection'
    <3>1. ~ Measured(c)
      BY <2>3
    <3>2. ASSUME NEW b \in Conns \ {c}
          PROVE  Measured(b)' <=> Measured(b)
      BY <2>3, <3>2, RecordAppends
    <3>3. Measured(c)' /\ pc'[c] \in {"established", "done"}
      BY <2>3, RecordAppends DEF TypeOK
    <3>4. ASSUME NEW i \in DOMAIN results', NEW j \in DOMAIN results',
                 results'[i].conn = results'[j].conn
          PROVE  i = j
      BY <2>3, <3>1, <3>4, RecordAppends
    <3>5. ASSUME NEW b \in Conns \ {c} PROVE pc'[b] = pc[b]
      BY <2>3 DEF TypeOK
    <3>6. QED
      BY <3>2, <3>3, <3>4, <3>5
  <2>4. ASSUME NEW p \in Ports, Listening(p) PROVE OneResultPerConnection'
    BY <2>4, <2>1, <2>2 DEF Listening, Listen, StopListening, Accept
  <2>5. ASSUME NEW c \in Conns, Handling(c) PROVE OneResultPerConnection'
    <3>1. CASE InstallCallback(c)
      BY <3>1, <2>2 DEF InstallCallback
    <3>2. ASSUME NEW name \in Asked, ClientHello(c, name)
          PROVE  OneResultPerConnection'
      BY <3>2, <2>1 DEF ClientHello
    <3>3. ASSUME NEW detail \in {"certificate", "protocol"}, Reject(c, detail)
          PROVE  OneResultPerConnection'
      BY <3>3, <2>3 DEF Reject, Outcome, Detail
    <3>4. CASE Drop(c)
      BY <3>4, <2>3 DEF Drop, Outcome, Detail
    <3>5. CASE Complete(c)
      BY <3>5, <2>3 DEF Complete, Outcome, Detail
    <3>6. CASE Finish(c)
      BY <3>6 DEF Finish, TypeOK
    <3>7. QED
      BY <2>5, <3>1, <3>2, <3>3, <3>4, <3>5, <3>6 DEF Handling, EndHandshake
  <2>6. CASE Interrupt \/ Reporting
    BY <2>6, <2>1 DEF Interrupt, Reporting, ListResults, CountAccepted, Conclude, probeVars
  <2>7. CASE UNCHANGED vars
    BY <2>7, <2>1 DEF vars
  <2>8. QED
    BY <2>4, <2>5, <2>6, <2>7 DEF Next
<1>3. QED
  BY <1>1, <1>2, TypeCorrect, PTL DEF Spec

-----------------------------------------------------------------------------
(***************************************************************************)
(* Whose name a result carries.  ExclusiveAttribution and NoInventedName   *)
(* speak of recorded results only; what makes them inductive is what the   *)
(* handlers still in wrap_socket, and the callback they share, have seen.  *)
(***************************************************************************)

Attributed == /\ FreshHandlers /\ CallbackOwner
              /\ OwnNameSeen /\ ExclusiveAttribution
              /\ NamesSeenExplained /\ NoInventedName

\* A recorded name is Explained, in the words of NoInventedName.
LEMMA RecordedExplained ==
  NoInventedName <=> \A i \in DOMAIN results : Explained(results[i].conn, results[i].sni)
BY DEF NoInventedName, Explained

\* A hello reaches the handler it belongs to, or a handler it overlaps with.
LEMMA HelloReachesOverlap ==
  ASSUME TypeOK, CallbackOwner, NEW c \in Conns, pc[c] = "wrapping"
  PROVE  callback \in Conns /\ (callback = c \/ {c, callback} \subseteq overlapped)
BY SentinelAssumption DEF TypeOK, CallbackOwner

\* Entering wrap_socket marks every overlap the new callback causes.
LEMMA InstallAttributed ==
  ASSUME TypeOK, Attributed, NEW c \in Conns, InstallCallback(c)
  PROVE  Attributed'
<1>1. /\ pc[c] = "accepted" /\ pc' = [pc EXCEPT ![c] = "wrapping"] /\ callback' = c
      /\ overlapped' = IF Wrapping = {} THEN overlapped ELSE overlapped \cup Wrapping \cup {c}
      /\ UNCHANGED <<seenSni, hello, results>>
  BY DEF InstallCallback
<1>2. overlapped \subseteq overlapped' /\ overlapped' \subseteq overlapped \cup Wrapping \cup {c}
  BY <1>1
<1>3. FreshHandlers'
  BY <1>1, <1>2 DEF Attributed, FreshHandlers, TypeOK, Wrapping
<1>4. CallbackOwner'
  BY <1>1, <1>2 DEF CallbackOwner, TypeOK, Wrapping
<1>5. OwnNameSeen'
  BY <1>1, <1>2 DEF Attributed, OwnNameSeen, OwnName, TypeOK
<1>6. ExclusiveAttribution'
  BY <1>1, <1>2 DEF Attributed, ExclusiveAttribution, OwnName
<1>7. NamesSeenExplained' /\ NoInventedName'
  BY <1>1, <1>2 DEF Attributed, NamesSeenExplained, NoInventedName, Explained
<1>8. QED
  BY <1>3, <1>4, <1>5, <1>6, <1>7 DEF Attributed

\* A hello that was explained stays so when another client's hello arrives.
LEMMA HelloKeepsExplanations ==
  ASSUME TypeOK, NEW c \in Conns, NEW n \in Asked, ClientHello(c, n),
         NEW d \in Conns, NEW name \in Asked, Explained(d, name)
  PROVE  Explained(d, name)'
<1>1. Silent \notin Asked
  BY SentinelAssumption DEF Asked
<1>2. hello[c] = Silent /\ hello' = [hello EXCEPT ![c] = n] /\ overlapped' = overlapped
  BY DEF ClientHello
<1>3. QED
  BY <1>1, <1>2 DEF Explained, TypeOK

\* The name goes to the handler whose callback is installed.
LEMMA HelloAttributed ==
  ASSUME TypeOK, OneResultPerConnection, Attributed,
         NEW c \in Conns, NEW n \in Asked, ClientHello(c, n)
  PROVE  Attributed'
<1>1. /\ pc[c] = "wrapping" /\ hello[c] = Silent
      /\ hello' = [hello EXCEPT ![c] = n]
      /\ seenSni' = [seenSni EXCEPT ![callback] = n]
      /\ UNCHANGED <<pc, callback, results, overlapped>>
  BY DEF ClientHello
<1>2. callback \in Conns /\ (callback = c \/ {c, callback} \subseteq overlapped)
  BY <1>1, HelloReachesOverlap DEF Attributed
<1>3. \A i \in DOMAIN results :
        results[i].conn \in Conns \ {c} /\ results[i].sni \in Asked
  <2>1. \A i \in DOMAIN results : results[i] \in Result
    BY DEF TypeOK
  <2>2. ~ Measured(c)
    BY <1>1 DEF OneResultPerConnection
  <2>3. QED
    BY <2>1, <2>2 DEF Measured, Result
<1>4. FreshHandlers'
  BY <1>1 DEF Attributed, FreshHandlers, TypeOK
<1>5. CallbackOwner'
  BY <1>1 DEF Attributed, CallbackOwner
<1>6. OwnNameSeen'
  <2> SUFFICES ASSUME NEW d \in Conns \ overlapped, pc[d] \in {"absent", "accepted", "wrapping"}
               PROVE  seenSni'[d] = OwnName(d)'
    BY <1>1 DEF OwnNameSeen
  <2>1. CASE d = c
    BY <1>1, <1>2, <2>1, SentinelAssumption DEF OwnName, TypeOK, Asked
  <2>2. CASE d # c
    <3>1. callback # d
      BY <1>1, <1>2, <2>2 DEF Attributed, FreshHandlers
    <3>2. QED
      BY <1>1, <2>2, <3>1 DEF Attributed, OwnNameSeen, OwnName, TypeOK
  <2>3. QED
    BY <2>1, <2>2
<1>7. ExclusiveAttribution'
  BY <1>1, <1>3 DEF Attributed, ExclusiveAttribution, OwnName, TypeOK
<1>8. NamesSeenExplained'
  <2> SUFFICES ASSUME NEW d \in Conns PROVE Explained(d, seenSni[d])'
    BY DEF NamesSeenExplained
  <2>1. CASE d = callback
    BY <1>1, <1>2, <2>1 DEF Explained, TypeOK
  <2>2. CASE d # callback
    <3>1. Explained(d, seenSni[d]) /\ seenSni[d] \in Asked /\ seenSni'[d] = seenSni[d]
      BY <1>1, <2>2 DEF Attributed, NamesSeenExplained, TypeOK
    <3>2. QED
      BY <3>1, HelloKeepsExplanations DEF Explained
  <2>3. QED
    BY <2>1, <2>2
<1>9. NoInventedName'
  <2>1. \A i \in DOMAIN results : Explained(results[i].conn, results[i].sni)
    BY RecordedExplained DEF Attributed
  <2>2. QED
    BY <1>1, <1>3, <2>1, HelloKeepsExplanations DEF NoInventedName, Explained
<1>10. QED
  BY <1>4, <1>5, <1>6, <1>7, <1>8, <1>9 DEF Attributed

\* A result is recorded with the name its handler has seen.
LEMMA RecordAttributed ==
  ASSUME TypeOK, Attributed, NEW c \in Conns, NEW o \in Outcome, NEW d \in Detail,
         Record(c, o, d), pc[c] = "wrapping",
         pc' = [pc EXCEPT ![c] = "done"] \/ pc' = [pc EXCEPT ![c] = "established"],
         UNCHANGED <<callback, seenSni, hello, overlapped>>
  PROVE  Attributed'
<1>1. FreshHandlers' /\ CallbackOwner'
  BY DEF Attributed, FreshHandlers, CallbackOwner, TypeOK
<1>2. OwnNameSeen'
  BY DEF Attributed, OwnNameSeen, OwnName, TypeOK
<1>3. ExclusiveAttribution'
  <2>1. c \notin overlapped => seenSni[c] = OwnName(c)
    BY DEF Attributed, OwnNameSeen
  <2>2. QED
    BY <2>1, RecordAppends DEF Attributed, ExclusiveAttribution, OwnName
<1>4. NamesSeenExplained'
  BY DEF Attributed, NamesSeenExplained, Explained
<1>5. NoInventedName'
  <2>1. Explained(c, seenSni[c])
    BY DEF Attributed, NamesSeenExplained
  <2>2. QED
    BY <2>1, RecordAppends DEF Attributed, NoInventedName, Explained
<1>6. QED
  BY <1>1, <1>2, <1>3, <1>4, <1>5 DEF Attributed

\* Attributed is kept by every step of every thread.
LEMMA AttributedInvariant == Spec => []Attributed
<1>1. Init => Attributed
  BY SentinelAssumption DEF Init, Attributed, FreshHandlers, CallbackOwner, OwnNameSeen,
     OwnName, ExclusiveAttribution, NamesSeenExplained, Explained, NoInventedName
<1>2. TypeOK /\ OneResultPerConnection /\ Attributed /\ [Next]_vars => Attributed'
  <2> SUFFICES ASSUME TypeOK, OneResultPerConnection, Attributed, [Next]_vars
               PROVE  Attributed'
    OBVIOUS
  <2>1. ASSUME UNCHANGED <<callback, seenSni, hello, results, overlapped>>,
               \A b \in Conns :
                 \/ pc'[b] = pc[b]
                 \/ pc[b] = "absent" /\ pc'[b] = "accepted"
                 \/ pc[b] = "established" /\ pc'[b] = "done"
        PROVE  Attributed'
    BY <2>1 DEF Attributed, FreshHandlers, CallbackOwner, OwnNameSeen, OwnName,
       ExclusiveAttribution, NamesSeenExplained, Explained, NoInventedName
  <2>2. ASSUME NEW p \in Ports, Listening(p) PROVE Attributed'
    BY <2>2, <2>1 DEF Listening, Listen, StopListening, Accept, TypeOK
  <2>3. ASSUME NEW c \in Conns, Handling(c) PROVE Attributed'
    <3>1. CASE InstallCallback(c)
      BY <3>1, InstallAttributed
    <3>2. ASSUME NEW name \in Asked, ClientHello(c, name) PROVE Attributed'
      BY <3>2, HelloAttributed
    <3>3. ASSUME NEW detail \in {"certificate", "protocol"}, Reject(c, detail) PROVE Attributed'
      BY <3>3, RecordAttributed DEF Reject, Outcome, Detail
    <3>4. CASE Drop(c)
      BY <3>4, RecordAttributed DEF Drop, Outcome, Detail
    <3>5. CASE Complete(c)
      BY <3>5, RecordAttributed DEF Complete, Outcome, Detail
    <3>6. CASE Finish(c)
      BY <3>6, <2>1 DEF Finish, TypeOK
    <3>7. QED
      BY <2>3, <3>1, <3>2, <3>3, <3>4, <3>5, <3>6 DEF Handling, EndHandshake
  <2>4. CASE Interrupt \/ Reporting
    BY <2>4, <2>1 DEF Interrupt, Reporting, ListResults, CountAccepted, Conclude, probeVars
  <2>5. CASE UNCHANGED vars
    BY <2>5, <2>1 DEF vars
  <2>6. QED
    BY <2>2, <2>3, <2>4, <2>5 DEF Next
<1>3. QED
  BY <1>1, <1>2, TypeCorrect, OneResult, PTL DEF Spec

\* A handshake that met no other one is recorded with its own client's name.
THEOREM ExclusivelyAttributed == Spec => []ExclusiveAttribution
<1>1. Attributed => ExclusiveAttribution
  BY DEF Attributed
<1>2. QED
  BY <1>1, AttributedInvariant, PTL

\* The race for ctx.sni_callback moves names between overlapping handshakes only.
THEOREM NamesExplained == Spec => []NoInventedName
<1>1. Attributed => NoInventedName
  BY DEF Attributed
<1>2. QED
  BY <1>1, AttributedInvariant, PTL

-----------------------------------------------------------------------------
\* What the verdict has read of RESULTS stays true while handlers append to it.
LEMMA VerdictKept ==
  ASSUME TypeOK, VerdictSoFar, Len(results') \in Nat, Len(results) <= Len(results'),
         DOMAIN results' = 1 .. Len(results'),
         \A i \in 1 .. Len(results) : results'[i] = results[i],
         UNCHANGED <<main, printed>>
  PROVE  VerdictSoFar'
<1>1. DOMAIN results = 1 .. Len(results) /\ Len(results) \in Nat /\ printed.listed \in Nat
  BY DEF TypeOK
<1>2. Has(results, "accepted") => Has(results', "accepted")
  BY <1>1 DEF Has
<1>3. QED
  BY <1>1, <1>2 DEF VerdictSoFar

\* The conclusion agrees with the list of results printed above it.
THEOREM VerdictAgrees == Spec => []VerdictCoversListing
<1>1. Init => VerdictSoFar
  BY DEF Init, VerdictSoFar
<1>2. TypeOK /\ VerdictSoFar /\ [Next]_vars => VerdictSoFar'
  <2> SUFFICES ASSUME TypeOK, VerdictSoFar, [Next]_vars PROVE VerdictSoFar'
    OBVIOUS
  <2>0. DOMAIN results = 1 .. Len(results) /\ Len(results) \in Nat
    BY DEF TypeOK
  <2>1. ASSUME UNCHANGED <<results, main, printed>> PROVE VerdictSoFar'
    BY <2>0, <2>1, VerdictKept
  <2>2. ASSUME NEW c \in Conns, NEW o \in Outcome, NEW d \in Detail, Record(c, o, d),
               UNCHANGED <<main, printed>>
        PROVE  VerdictSoFar'
    BY <2>0, <2>2, RecordAppends, VerdictKept
  <2>3. ASSUME NEW p \in Ports, Listening(p) PROVE VerdictSoFar'
    BY <2>3, <2>1 DEF Listening, Listen, StopListening, Accept
  <2>4. ASSUME NEW c \in Conns, Handling(c) PROVE VerdictSoFar'
    <3>1. CASE InstallCallback(c) \/ Finish(c) \/ \E name \in Asked : ClientHello(c, name)
      BY <3>1, <2>1 DEF InstallCallback, Finish, ClientHello
    <3>2. CASE EndHandshake(c)
      BY <3>2, <2>2 DEF EndHandshake, Reject, Drop, Complete, Outcome, Detail
    <3>3. QED
      BY <2>4, <3>1, <3>2 DEF Handling
  <2>5. CASE Interrupt
    BY <2>5, <2>0 DEF Interrupt, VerdictSoFar, probeVars
  <2>6. CASE ListResults
    BY <2>6, <2>0 DEF ListResults, VerdictSoFar, probeVars, TypeOK
  <2>7. CASE CountAccepted
    <3>1. /\ main = "counting" /\ main' = "concluding" /\ results' = results
          /\ printed'.listed = printed.listed
      BY <2>7 DEF CountAccepted, probeVars, TypeOK
    <3>2. printed'.viable = Has(results, "accepted")
      BY <2>7 DEF CountAccepted, TypeOK
    <3>3. printed.listed <= Len(results) /\ printed.listed \in Nat
      BY <3>1 DEF VerdictSoFar, TypeOK
    <3>4. QED
      BY <2>0, <3>1, <3>2, <3>3 DEF VerdictSoFar, Has
  <2>8. CASE Conclude
    <3>1. /\ main = "concluding" /\ main' = "exited" /\ results' = results
          /\ printed'.listed = printed.listed /\ printed'.viable = printed.viable
      BY <2>8 DEF Conclude, probeVars, TypeOK
    <3>2. (printed'.verdict = "viable") = printed.viable
      BY <2>8 DEF Conclude, TypeOK
    <3>3. QED
      BY <3>1, <3>2 DEF VerdictSoFar
  <2>9. CASE UNCHANGED vars
    BY <2>9, <2>1 DEF vars
  <2>10. QED
    BY <2>3, <2>4, <2>5, <2>6, <2>7, <2>8, <2>9 DEF Next, Reporting
<1>3. TypeOK /\ VerdictSoFar => VerdictCoversListing
  BY DEF VerdictSoFar, VerdictCoversListing, TypeOK
<1>4. QED
  BY <1>1, <1>2, <1>3, TypeCorrect, PTL DEF Spec
=============================================================================
