----------------------------- MODULE MCDnsProxy -----------------------------
(***************************************************************************)
(* Values for the constants of DnsProxy.                                   *)
(***************************************************************************)
EXTENDS DnsProxy, TLC

CONSTANTS q1, q2, q3, p1, p2, device, phone, cloud, Cloud, update

\* Two queries can race for a counter or a port; with a third one a counter can
\* be written from a stale read after two others have been counted.
ThreeQueries == {q1, q2, q3}

OneClient == {device}
TwoClients == {device, phone}

\* "cloud" is a name to hijack and Cloud the same name with capital letters; "update"
\* is a second one, whose target is an IPv6 address.
OneName == {update}
ThreeNames == {cloud, Cloud, update}
LowerNames == [n \in Names |-> IF n = Cloud THEN cloud ELSE n]

HijackV6 == update :> "v6"
HijackBoth == cloud :> "v4" @@ HijackV6

OnePort == {p1}
TwoPorts == {p1, p2}

\* Queries and ports play the same part in every definition of DnsProxy.
ProxySymmetry == Permutations(Queries) \cup Permutations(UpPorts)
=============================================================================
