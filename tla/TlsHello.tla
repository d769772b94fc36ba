------------------------------ MODULE TlsHello -------------------------------
(***************************************************************************)
(* tls_sni of parse_capture.py: the server name in a TLS ClientHello.      *)
(*                                                                         *)
(* A segment is a sequence of cells.  The first stands for the record      *)
(* header and is its content type, the second for the handshake header,    *)
(* version and random and is the message type.  After that a cell is a     *)
(* byte or a number of two bytes, and lengths count cells.                 *)
(***************************************************************************)
EXTENDS DnsMessage

Handshake == 22
ClientHello == 1
ServerName == 0

\* The part of the server_name extension that is the name, if it is a whole host_name.
HostName(e) ==
  IF Len(e) >= 3 /\ e[2] = 0 /\ 3 + e[3] <= Len(e)
  THEN Decode(SubSeq(e, 4, 3 + e[3]))
  ELSE None

\* A faulty Extensions: a server_name that was cut off is taken as far as it goes.
ExtensionsLenient(p, end) ==
  LET from[off \in Nat \ {0}] ==
        IF off + 1 > end THEN None
        ELSE IF p[off] = ServerName THEN SubSeq(p, off + 5, end)
        ELSE from[off + 2 + p[off + 1]]
  IN from

\* The loop over the extensions, which end at end: the first server_name decides.
Extensions(p, end) ==
  LET from[off \in Nat \ {0}] ==
        IF off + 1 > end \/ off + 1 + p[off + 1] > end THEN None
        ELSE IF p[off] = ServerName THEN HostName(SubSeq(p, off + 2, off + 1 + p[off + 1]))
        ELSE from[off + 2 + p[off + 1]]
  IN from

\* tls_sni
TlsSni(p) ==
  LET Over(off) == off + 1 + p[off]   \* the place after a vector with its length at off
      Need(off) == off <= Len(p)
      ciphers == Over(3)
      compression == Over(ciphers)
      total == Over(compression)
  IN IF /\ Need(2) /\ p[1] = Handshake /\ p[2] = ClientHello
        /\ Need(3) /\ Need(ciphers) /\ Need(compression) /\ Need(total)
     THEN LET whole == total + p[total]
              end == IF whole < Len(p) THEN whole ELSE Len(p)
          IN Extensions(p, end)[total + 1]
     ELSE None

-----------------------------------------------------------------------------
(***************************************************************************)
(* Reference: the encoding of RFC 8446, which is not in the repository.    *)
(***************************************************************************)

Vector(s) == <<Len(s)>> \o s

\* A server_name extension: a list of one name of type host_name.
NameExtension(name) ==
  [type |-> ServerName, data |-> <<Len(name) + 2, 0, Len(name)>> \o name]

EncodeExtensions(exts) ==
  FlattenSeq([i \in DOMAIN exts |-> <<exts[i].type>> \o Vector(exts[i].data)])

\* What a client may send: any vectors and extensions, the server_name ones as above.
IsHello(h) ==
  /\ {h.session, h.ciphers, h.compression} \subseteq Seq(Nat)
  /\ h.extensions \in Seq([type : Nat, data : Seq(Nat)])
  /\ \A k \in DOMAIN h.extensions :
       LET ext == h.extensions[k] IN
       ext.type = ServerName => ext = NameExtension(SubSeq(ext.data, 4, Len(ext.data)))

\* A ClientHello with these fields.
EncodeHello(h) ==
  <<Handshake, ClientHello>> \o Vector(h.session) \o Vector(h.ciphers)
    \o Vector(h.compression) \o Vector(EncodeExtensions(h.extensions))

\* What a client asks for in the first n cells of its hello: the name in the first
\* server_name extension, if that ends within them.
NameWithin(h, n) ==
  LET head(k) == [session |-> h.session, ciphers |-> h.ciphers,
                  compression |-> h.compression, extensions |-> SubSeq(h.extensions, 1, k)]
      named == {k \in DOMAIN h.extensions : h.extensions[k].type = ServerName}
      first == CHOOSE k \in named : \A j \in named : k <= j
      data == h.extensions[first].data
  IN IF named # {} /\ Len(EncodeHello(head(first))) <= n
     THEN Decode(SubSeq(data, 4, Len(data)))
     ELSE None
=============================================================================
