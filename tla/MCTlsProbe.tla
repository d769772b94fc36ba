----------------------------- MODULE MCTlsProbe -----------------------------
(***************************************************************************)
(* Values for the constants of TlsProbe.                                   *)
(***************************************************************************)
EXTENDS TlsProbe

CONSTANTS c1, c2, n1, n2

\* Two connections are enough to race for the callback.
TwoConns == {c1, c2}

\* With no name, one name is enough to tell a recorded name from a lost one, and two
\* are needed to tell a name from another client's.
TwoNames == {n1, n2}
=============================================================================
