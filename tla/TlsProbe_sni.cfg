\* Two connections that race for ctx.sni_callback.
CONSTANTS
  c1 = c1
  c2 = c2
  n1 = n1
  n2 = n2
  Conns <- TwoConns
  Names <- TwoNames
  Ports = {p1}
  SelfTest = {}
  NoName = NoName
  Silent = Silent
  NoCallback = NoCallback
SPECIFICATION Spec
INVARIANT SniIsOwn
\* The process ends after the verdict.
CHECK_DEADLOCK FALSE
