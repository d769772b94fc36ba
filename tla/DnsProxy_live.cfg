\* Three queries queue for a pool of one worker, fair: every query is worked off and the
\* process ends, whether the upstream answers or not.
CONSTANTS
  q1 = q1
  q2 = q2
  q3 = q3
  p1 = p1
  p2 = p2
  device = device
  phone = phone
  cloud = cloud
  Cloud = Cloud
  update = update
  Queries <- ThreeQueries
  Clients <- OneClient
  Watch = {}
  Names <- OneName
  Lower <- LowerNames
  Hijack <- HijackV6
  Workers = 1
  UpPorts <- OnePort
  Unparsable = Unparsable
  NoPort = NoPort
  Spoofed = Spoofed
  NoAnswer = NoAnswer
SPECIFICATION FairSpec
PROPERTIES
  EveryQueryHandled
  ShutdownDrains
\* The process ends after Ctrl+C, or when it cannot bind its socket.
CHECK_DEADLOCK FALSE
