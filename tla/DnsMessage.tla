----------------------------- MODULE DnsMessage ------------------------------
(***************************************************************************)
(* The two parsers of DNS messages, parse_question of dnsproxy.py and      *)
(* dns_names of parse_capture.py, and the answer build_a_response makes.   *)
(* The proxy logs what the first finds in a query, and a capture of the    *)
(* same traffic shows what the second does.                                *)
(*                                                                         *)
(* A message is a sequence of cells.  The first one is the header: of its  *)
(* 12 bytes only QDCOUNT is looked at.  Each of the others is a byte.      *)
(***************************************************************************)
EXTENDS Naturals, Sequences, SequencesExt

CONSTANT None  \* Python's None

Dot == 46
Replacement == 65533

\* decode("ascii", "replace")
Decode(bytes) == [i \in DOMAIN bytes |-> IF bytes[i] < 128 THEN bytes[i] ELSE Replacement]

\* ".".join(labels)
Name(labels) ==
  IF labels = <<>> THEN <<>>
  ELSE Tail(FlattenSeq([i \in DOMAIN labels |-> <<Dot>> \o Decode(labels[i])]))

\* The loop over the labels of one question that begins at off: the labels, the place
\* after them, and what ended it.  A length above 63 has one of the bits 0xC0.
Labels(msg) ==
  LET from[off \in Nat \ {0}] ==
        LET end(why, place) == [labels |-> <<>>, end |-> why, off |-> place] IN
        IF off > Len(msg) THEN end("cut", off)
        ELSE IF msg[off] = 0 THEN end("root", off + 1)
        ELSE IF msg[off] > 63 THEN end("pointer", off + 2)
        ELSE IF off + msg[off] > Len(msg) THEN end("cut", off)
        ELSE LET rest == from[off + msg[off] + 1] IN
             [labels |-> <<SubSeq(msg, off + 1, off + msg[off])>> \o rest.labels,
              end |-> rest.end, off |-> rest.off]
  IN from

-----------------------------------------------------------------------------
(***************************************************************************)
(* dnsproxy.py.                                                            *)
(***************************************************************************)

\* parse_question: name, type and end of the first question.
ParseQuestion(msg) ==
  IF msg = <<>> \/ msg[1] < 1 THEN None
  ELSE LET q == Labels(msg)[2] IN
       IF q.end # "root" \/ q.off + 3 > Len(msg) THEN None
       ELSE [name |-> Name(q.labels), type |-> SubSeq(msg, q.off, q.off + 1), end |-> q.off + 3]

\* A pointer to the name, type A, class IN, a TTL of 30 and an address.
Answer == <<192, 12, 0, 1, 0, 1, 0, 0, 0, 30, 0, 4, 10, 0, 0, 1>>

\* A faulty BuildAResponse: the header is that of the query.
BuildWithHeader(query, qend) == SubSeq(query, 1, qend) \o Answer

\* build_a_response: one question, copied, and one answer.
BuildAResponse(query, qend) == <<1>> \o SubSeq(query, 2, qend) \o Answer

-----------------------------------------------------------------------------
(***************************************************************************)
(* parse_capture.py.                                                       *)
(***************************************************************************)

\* A faulty NamesFrom: type and class take two bytes.
NamesFromShortTail(msg) ==
  LET from[k \in 0 .. 32] == [off \in Nat \ {0} |->
        LET q == Labels(msg)[off] IN
        IF k = 0 \/ q.end = "cut" THEN <<>>
        ELSE (IF q.labels = <<>> THEN <<>> ELSE <<Name(q.labels)>>) \o from[k - 1][q.off + 2]]
  IN from

\* The loop over the questions: the names of the next k ones, from off on.
NamesFrom(msg) ==
  LET from[k \in 0 .. 32] == [off \in Nat \ {0} |->
        LET q == Labels(msg)[off] IN
        IF k = 0 \/ q.end = "cut" THEN <<>>
        ELSE (IF q.labels = <<>> THEN <<>> ELSE <<Name(q.labels)>>) \o from[k - 1][q.off + 4]]
  IN from

\* dns_names: the names of all questions, as far as they were captured.
DnsNames(msg) ==
  IF msg = <<>> \/ msg[1] \notin 1 .. 32 THEN <<>> ELSE NamesFrom(msg)[msg[1]][2]

-----------------------------------------------------------------------------
(***************************************************************************)
(* Reference: the encoding of RFC 1035, which is not in the repository.    *)
(***************************************************************************)

EncodeName(labels) ==
  FlattenSeq([i \in DOMAIN labels |-> <<Len(labels[i])>> \o labels[i]]) \o <<0>>

\* Type A, class IN.
EncodeQuestion(labels) == EncodeName(labels) \o <<0, 1, 0, 1>>

\* A query for these names.
EncodeQuery(asked) ==
  <<Len(asked)>> \o FlattenSeq([i \in DOMAIN asked |-> EncodeQuestion(asked[i])])

\* What a query may ask for: up to 32 names, of labels of 1 to 63 bytes.
IsQuery(asked) ==
  /\ asked \in Seq(Seq(Seq(Nat)))
  /\ Len(asked) <= 32
  /\ \A k \in DOMAIN asked : \A i \in DOMAIN asked[k] : Len(asked[k][i]) \in 1 .. 63

\* The places of the names whose encoding is in the first n cells of such a query; the
\* root is no name.
NamesWithin(asked, n) ==
  {k \in DOMAIN asked : /\ asked[k] # <<>>
                        /\ Len(EncodeQuery(SubSeq(asked, 1, k))) - 4 <= n}
=============================================================================
