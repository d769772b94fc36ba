\* Two connections on one port, two names or none, and fair handlers: RESULTS and the
\* verdict are sound under every interleaving, and every accepted connection is measured.
CONSTANTS
  c1 = c1
  c2 = c2
  n1 = n1
  n2 = n2
  Conns <- TwoConns
  Names <- TwoNames
  Ports = {p1}
  SelfTest = {}
  NoName = NoName
  Silent = Silent
  NoCallback = NoCallback
SPECIFICATION FairSpec
INVARIANTS
  TypeOK
  OneResultPerConnection
  ExclusiveAttribution
  NoInventedName
  VerdictCoversListing
PROPERTY EveryConnectionMeasured
\* The process ends after the verdict.
CHECK_DEADLOCK FALSE
