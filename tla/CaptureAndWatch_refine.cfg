\* Two verbs, two flows, one kill, one write that fails and a close that does, a fair watcher:
\* VerbReport is implemented, a fault costs --once one command at most, and a verb on file is
\* reported.
CONSTANTS
  cloud = cloud
  v1 = v1
  v2 = v2
  Endpoints <- CloudEndpoint
  Interesting <- CloudEndpoint
  Locality = {FALSE}
  Bodies <- AllBodies
  Verbs <- TwoVerbs
  NoVerb = NoVerb
  NotObject = NotObject
  BadVerb = BadVerb
  Garbage = Garbage
  FlushEvery = 5
  MaxFlows = 2
  MaxKills = 1
  MaxFails = 1
SPECIFICATION FairSystemSpec
INVARIANT SystemTypeOK
PROPERTIES
  ReportsEachVerbOnce
  ListingLossBounded
  VerbsAppear
\* The proxy may have been closed, and the watch may have ended.
CHECK_DEADLOCK FALSE
