\* Three queries in three workers with two upstream ports; one of two clients is
\* watched; a hijacked name with an IPv4 target is spelled in two ways, another one has
\* an IPv6 target.
CONSTANTS
  q1 = q1
  q2 = q2
  q3 = q3
  p1 = p1
  p2 = p2
  device = device
  phone = phone
  cloud = cloud
  Cloud = Cloud
  update = update
  Queries <- ThreeQueries
  Clients <- TwoClients
  Watch = {device}
  Names <- ThreeNames
  Lower <- LowerNames
  Hijack <- HijackBoth
  Workers = 3
  UpPorts <- TwoPorts
  Unparsable = Unparsable
  NoPort = NoPort
  Spoofed = Spoofed
  NoAnswer = NoAnswer
SPECIFICATION Spec
SYMMETRY ProxySymmetry
INVARIANTS
  TypeOK
  HitCountBounds
  StrayAnswersAreLate
  HijackKeepsFromCloud
PROPERTY ReportCoversLog
\* The process ends after Ctrl+C, or when it cannot bind its socket.
CHECK_DEADLOCK FALSE
