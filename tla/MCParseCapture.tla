--------------------------- MODULE MCParseCapture ---------------------------
(***************************************************************************)
(* Packets for ParseCapture.                                               *)
(***************************************************************************)
EXTENDS ParseCapture

CONSTANTS device, cloud, other

\* "ab", "c" and a byte that is not ASCII.
a == <<97, 98>>
b == <<99>>
x == <<200>>

Packet(proto, sport, dport, body, content) ==
  [ipv4 |-> TRUE, tags |-> 0, src |-> device, dst |-> cloud, proto |-> proto,
   sport |-> sport, dport |-> dport, body |-> body, content |-> content,
   padding |-> <<>>, sane |-> TRUE, snap |-> 99]

Query(asked) == Packet("udp", 4000, 53, EncodeQuery(asked), asked)

\* The queries, cut off at every place.
Queries ==
  {[Query(asked) EXCEPT !.snap = n] :
     asked \in {<<<<a, b>>>>, <<<<b>>, <<a>>>>, <<<<>>, <<x>>>>}, n \in 0 .. 18}

\* Bytes that need not be a message.
Junk ==
  {Packet("udp", 4000, 53, <<qd>> \o bytes, None) :
     qd \in {1, 2, 33}, bytes \in BoundedSeq({0, 1, 192}, 3)}
  \cup {Packet("udp", 4000, 53, <<qd, 1, 97, 0, 0, 1, 0, 1>> \o bytes, None) :
          qd \in {2, 33}, bytes \in BoundedSeq({0, 2, 64}, 3)}

Hello(extensions) ==
  LET h == [session |-> <<7>>, ciphers |-> <<1, 2>>, compression |-> <<0>>,
            extensions |-> extensions]
  IN Packet("tcp", 4000, 443, EncodeHello(h), h)

Other == [type |-> 10, data |-> <<0>>]

\* Hellos, cut off at every place; the server_name comes first, last, or not at all.
Hellos ==
  {[Hello(exts) EXCEPT !.snap = n] :
     exts \in {<<NameExtension(a), Other>>, <<Other, NameExtension(b)>>, <<Other>>},
     n \in 0 .. 22}

\* Tags, padding, an answer to another host, offloaded lengths, and what is no IPv4.
Special ==
  LET q == Query(<<<<a>>>>) IN
  {[q EXCEPT !.tags = t, !.padding = <<1, 2>>, !.sane = s, !.snap = n] :
     t \in 0 .. 2, s \in BOOLEAN, n \in {2, 4, 99}}
  \cup {[q EXCEPT !.src = cloud, !.dst = other, !.sport = 53, !.dport = 4000],
        [q EXCEPT !.ipv4 = FALSE], [q EXCEPT !.sport = 5353, !.dport = 5353],
        [q EXCEPT !.proto = "other"],
        [Packet("tcp", 4000, 443, <<23, 1>>, None) EXCEPT !.padding = <<0>>, !.sane = FALSE],
        Packet("tcp", 4000, 443, <<>>, None)}

SomePackets == Queries \cup Junk \cup Hellos \cup Special

\* Two of these may count for the same name, or for none.
Few ==
  {Query(<<<<a>>>>), Query(<<<<a>>, <<b>>>>), [Query(<<<<a>>>>) EXCEPT !.snap = 5],
   Hello(<<Other, NameExtension(a)>>), [Hello(<<NameExtension(a)>>) EXCEPT !.tags = 1],
   [Query(<<<<b>>>>) EXCEPT !.src = cloud, !.dst = other, !.sport = 53, !.dport = 4000]}

Captures == {<<p>> : p \in SomePackets} \cup (Few \X Few) \cup (Few \X Few \X Few)

Hosts == {device, other}
=============================================================================
