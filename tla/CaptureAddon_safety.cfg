\* The code's period of five flows, six flows in all, a kill, a write that fails and a close that does.
CONSTANTS
  cloud = cloud
  lan = lan
  body = body
  Endpoints <- BothEndpoints
  Interesting <- CloudEndpoint
  Locality = {TRUE, FALSE}
  Bodies = {body}
  Garbage = Garbage
  FlushEvery = 5
  MaxFlows = 6
  MaxKills = 1
  MaxFails = 1
SPECIFICATION Spec
INVARIANTS
  RecordsSurvive
  SummaryCurrent
  LocalHitsOnDisk
\* The proxy may have been closed, or killed for the last time.
CHECK_DEADLOCK FALSE
