\* One run of each tool, two devices.
CONSTANTS
  s1 = s1
  s2 = s2
  Serials <- TwoSerials
  NoSerial = NoSerial
  MaxTime = 2
  Typed = {2}
  SetJobs = {"set"}
  NoTime = NoTime
  CmdJobs = {"cmd"}
  Commands <- SomeCommands
  NoVerb = NoVerb
  BadVerb = BadVerb
SPECIFICATION Spec
SYMMETRY SerialSymmetry
INVARIANTS
  TypeOK
  SentAsAsked
  NeverAhead
PROPERTY ImplementsCommandTool
\* Both runs end.
CHECK_DEADLOCK FALSE
