---------------------------- MODULE ParseCapture -----------------------------
(***************************************************************************)
(* parse_capture.py: reports the host names in a capture, which tcpdump    *)
(* may still be writing.  A frame is abstracted to cells: one for the link *)
(* header, one for each VLAN tag, one for the IP header and one for the    *)
(* transport header; the body follows in the cells of DnsMessage or        *)
(* TlsHello, and then the padding of the link.  tcpdump captures the first *)
(* .snap cells of it.                                                      *)
(***************************************************************************)
EXTENDS TlsHello, Bags

CONSTANTS
  Addresses,  \* IP addresses
  Traffic     \* what tcpdump may see: sequences of packets

\* The body of a packet may be any bytes; if .content is not None, it is the encoding of that.
IsPacket(p) ==
  /\ p.tags \in Nat /\ p.snap \in Nat
  /\ p.body \in Seq(Nat) /\ p.padding \in Seq(Nat)
  /\ p.proto = "udp" /\ p.content # None =>
       IsQuery(p.content) /\ p.body = EncodeQuery(p.content)
  /\ p.proto = "tcp" /\ p.content # None =>
       IsHello(p.content) /\ p.body = EncodeHello(p.content)

ASSUME TrafficAssumption ==
  \A capture \in Traffic :
    /\ capture \in Seq(ToSet(capture))
    /\ \A p \in ToSet(capture) : IsPacket(p)

VARIABLES
  file,     \* external: what tcpdump, or someone else, has made of the file so far
  link,     \* external: its link type
  traffic,  \* external: the packets tcpdump sees
  written,  \* external: how many of them have a complete record in it
  part,     \* external: whether an incomplete record follows them
  host,     \* the --host argument
  pc,       \* where main() is
  exit,     \* how it ended
  taken,    \* how many frames read_pcap has yielded
  total, dns, sni, peers,  \* the variables of main()
  found     \* history: how many records were complete when it opened the file

captureVars == <<file, link, traffic, written, part>>
counters == <<taken, total, dns, sni, peers>>
vars == <<captureVars, host, pc, exit, counters, found>>

TypeOK ==
  /\ file \in {"absent", "short", "pcap", "pcapng", "other"}
  /\ link \in {"ethernet", "cooked", "raw"}
  /\ traffic \in Traffic
  /\ written \in 0 .. Len(traffic)
  /\ part \in BOOLEAN
  /\ host \in Addresses \cup {None}
  /\ pc \in {"open", "reading", "done"}
  /\ exit \in {"none", "ok", "traceback"}
  /\ taken \in 0 .. written
  /\ total \in 0 .. taken
  /\ \A bag \in {dns, sni, peers} : IsABag(bag)
  /\ SumFunction(peers) <= total
  /\ found \in 0 .. written

\* The capture is still empty, or the file is one of another format, or there is none.
Init ==
  /\ file \in {"absent", "short", "pcapng", "other"}
  /\ link \in {"ethernet", "cooked", "raw"}
  /\ traffic \in Traffic
  /\ written = 0
  /\ part = FALSE
  /\ host \in Addresses \cup {None}
  /\ pc = "open"
  /\ exit = "none"
  /\ taken = 0
  /\ total = 0
  /\ dns = EmptyBag
  /\ sni = EmptyBag
  /\ peers = EmptyBag
  /\ found = 0

-----------------------------------------------------------------------------
(***************************************************************************)
(* tcpdump, which writes a file of its own format as its buffers fill.     *)
(***************************************************************************)

Create ==
  /\ file = "absent"
  /\ file' = "short"
  /\ UNCHANGED <<link, traffic, written, part, host, pc, exit, counters, found>>

WriteHeader ==
  /\ file = "short"
  /\ file' = "pcap"
  /\ UNCHANGED <<link, traffic, written, part, host, pc, exit, counters, found>>

BeginRecord ==
  /\ file = "pcap"
  /\ ~ part
  /\ written < Len(traffic)
  /\ part' = TRUE
  /\ UNCHANGED <<file, link, traffic, written, host, pc, exit, counters, found>>

EndRecord ==
  /\ part
  /\ part' = FALSE
  /\ written' = written + 1
  /\ UNCHANGED <<file, link, traffic, host, pc, exit, counters, found>>

-----------------------------------------------------------------------------
(***************************************************************************)
(* From a frame to the body of its segment or datagram.                    *)
(***************************************************************************)

\* strip_link: how many cells of the IP packet there are, 0 when it returns None.  Tags
\* are walked in Ethernet frames only; there are no link header and tags in raw ones.
StripLink(p) ==
  CASE link = "raw" -> p.snap
    [] link = "ethernet" /\ p.ipv4 /\ p.snap > p.tags -> p.snap - 1 - p.tags
    [] link = "cooked" /\ p.tags = 0 /\ p.ipv4 /\ p.snap >= 1 -> p.snap - 1
    [] OTHER -> 0

\* strip_link and parse_ipv4 both return something, and the packet has to do with --host.
Examined(p) ==
  /\ StripLink(p) > 0
  /\ p.ipv4
  /\ host \in {None, p.src, p.dst}

\* Both headers are there.
HasTransport(p, proto) == p.proto = proto /\ StripLink(p) > 1

\* What is captured of the body.  The padding is cut off when the total length of the
\* IP header is sane: an offloading network card leaves it 0.
Body(p) ==
  LET bytes == p.body \o p.padding
      size == StripLink(p) - 2
      captured == SubSeq(bytes, 1, IF size < Len(bytes) THEN size ELSE Len(bytes))
  IN IF p.sane /\ Len(p.body) <= Len(captured) THEN p.body ELSE captured

-----------------------------------------------------------------------------
(***************************************************************************)
(* main().                                                                 *)
(***************************************************************************)

\* The first next() of the generator opens the file and reads its header.  Whatever
\* it raises, it raises in the for statement, after the try.
Open ==
  /\ pc = "open"
  /\ IF file = "pcap" THEN pc' = "reading" /\ exit' = exit
                      ELSE pc' = "done" /\ exit' = "traceback"
  /\ found' = written
  /\ UNCHANGED <<captureVars, host, counters>>

\* counter[x] += 1
Counted(counter, x) == counter (+) SetToBag({x})

DnsFrame(p) == HasTransport(p, "udp") /\ 53 \in {p.sport, p.dport}

\* What main() counts in packet p.
Count(p) ==
  LET name == TlsSni(Body(p))
      segment == HasTransport(p, "tcp") IN
    IF Examined(p)
    THEN /\ total' = total + 1
         /\ dns' = IF DnsFrame(p) THEN dns (+) ToBag(DnsNames(Body(p))) ELSE dns
         /\ sni' = IF segment /\ name \notin {None, <<>>} THEN Counted(sni, name) ELSE sni
         /\ peers' = IF segment /\ p.src = host THEN Counted(peers, <<p.dst, p.dport>>)
                     ELSE peers
    ELSE UNCHANGED <<total, dns, sni, peers>>

\* A faulty Take: a record that was cut off by the end of the file is yielded too.
TakePart ==
  /\ pc = "reading"
  /\ taken < written \/ part
  /\ taken' = taken + 1
  /\ Count(traffic[taken + 1])
  /\ UNCHANGED <<captureVars, host, pc, exit, found>>

\* The body of the loop, for the next complete record.
Take ==
  /\ pc = "reading"
  /\ taken < written
  /\ taken' = taken + 1
  /\ Count(traffic[taken + 1])
  /\ UNCHANGED <<captureVars, host, pc, exit, found>>

\* A faulty EndOfFile: an incomplete record ends the reading of a file that has others.
EndAtPart ==
  /\ pc = "reading"
  /\ taken = written \/ part
  /\ pc' = "done"
  /\ exit' = "ok"
  /\ UNCHANGED <<captureVars, host, counters, found>>

\* What follows is no complete record: the report is printed.
EndOfFile ==
  /\ pc = "reading"
  /\ taken = written
  /\ pc' = "done"
  /\ exit' = "ok"
  /\ UNCHANGED <<captureVars, host, counters, found>>

-----------------------------------------------------------------------------
Tcpdump == Create \/ WriteHeader \/ BeginRecord \/ EndRecord
Parser == Open \/ Take \/ EndOfFile
Next == Tcpdump \/ Parser

Spec == Init /\ [][Next]_vars

-----------------------------------------------------------------------------
(***************************************************************************)
(* Safety.                                                                 *)
(***************************************************************************)

\* The cells of the link in front of the IP packet.
LinkCells(p) == IF link = "raw" THEN 0 ELSE 1 + p.tags

\* The packets of --host whose IP header was captured.  Cooked captures with VLAN tags
\* are left out: strip_link drops their frames.
Visible(p) ==
  /\ p.ipv4
  /\ p.snap > LinkCells(p)
  /\ link = "cooked" => p.tags = 0
  /\ host \in {None, p.src, p.dst}

\* How much of the body was captured.
BodyCells(p) ==
  LET n == p.snap - LinkCells(p) - 2 IN IF n < Len(p.body) THEN n ELSE Len(p.body)

\* A record that was complete when the file was opened is examined, although tcpdump
\* goes on writing and the last record may be incomplete: "the IoT traffic is
\* VLAN-tagged" (parse_capture.py:74), and that does not hide it.
CompleteRecordsExamined ==
  exit = "ok" =>
    Cardinality({i \in 1 .. found : Visible(traffic[i])}) <= total

Reported == {i \in 1 .. taken : Visible(traffic[i])}

\* The names that are wholly captured in a datagram, by their places.
Asked(p) ==
  IF p.proto = "udp" /\ 53 \in {p.sport, p.dport} THEN NamesWithin(p.content, BodyCells(p))
  ELSE {}

\* "Extract query names from a DNS message" (parse_capture.py:115), under truncation and
\* padding: the count of a name is the number of times it stands whole in a question of the
\* packets read, if all of them are queries.
QuestionsExact ==
  LET places == UNION {{i} \X Asked(traffic[i]) : i \in Reported}
      name(x) == Name(traffic[x[1]].content[x[2]])
  IN (\A i \in Reported : traffic[i].proto = "udp" => traffic[i].content # None) =>
       /\ BagToSet(dns) = {name(x) : x \in places}
       /\ \A n \in BagToSet(dns) : dns[n] = Cardinality({x \in places : name(x) = n})

\* What the hello in a segment asks for, as far as it is captured.
AskedFor(p) ==
  IF p.proto = "tcp" /\ p.content # None THEN NameWithin(p.content, BodyCells(p)) ELSE None

\* "the TLS SNI field in the ClientHello is plaintext" (parse_capture.py:7): a hello counts
\* for the name it asks for as soon as its server_name is wholly captured, wherever among
\* the extensions that stands and wherever the segment ends after it; nothing else counts,
\* if what looks like a hello is one.
SniExact ==
  LET name(i) == AskedFor(traffic[i])
      asking == {i \in Reported : name(i) \notin {None, <<>>}}
  IN (\A i \in Reported : /\ traffic[i].proto = "tcp"
                           /\ IsPrefix(<<Handshake, ClientHello>>, Body(traffic[i]))
                           => traffic[i].content # None) =>
       /\ BagToSet(sni) = {name(i) : i \in asking}
       /\ \A n \in BagToSet(sni) : sni[n] = Cardinality({i \in asking : name(i) = n})

\* What the report calls DNS queries and TLS SNI (parse_capture.py:247-259) is neither more
\* nor less than what was captured whole.
NamesExact == QuestionsExact /\ SniExact

Datagrams == {Body(traffic[i]) : i \in {j \in DOMAIN traffic : DnsFrame(traffic[j])}}
Segments == {Body(traffic[i]) : i \in {j \in DOMAIN traffic : HasTransport(traffic[j], "tcp")}}

\* The log of dnsproxy.py and a capture of the same traffic agree: whatever the bytes of a
\* query, the name parse_question finds in it is the first one dns_names finds.  And "craft
\* an A-record answer reusing the query's question section" (dnsproxy.py:79): the client
\* finds its own question in the spoofed answer, and nothing else in it reads as one,
\* however many questions and whatever trailing records the query had.
QuestionReadAlike ==
  \A msg \in Datagrams :
    LET q == ParseQuestion(msg)
        answer == BuildAResponse(msg, q.end)
    IN q # None =>
         /\ q.name # <<>> /\ msg[1] <= 32 =>
              DnsNames(msg) # <<>> /\ Head(DnsNames(msg)) = q.name
         /\ ParseQuestion(answer) = q
         /\ q.name # <<>> => DnsNames(answer) = <<q.name>>

\* A short snapshot length loses names and never makes one up, malformed packets included:
\* what is found in the first cells of a packet is found in all of it, and first.
TruncationLosesOnly ==
  /\ \A msg \in Datagrams : \A n \in 0 .. Len(msg) :
       IsPrefix(DnsNames(SubSeq(msg, 1, n)), DnsNames(msg))
  /\ \A p \in Segments : \A n \in 0 .. Len(p) :
       TlsSni(SubSeq(p, 1, n)) \in {None, TlsSni(p)}
=============================================================================
