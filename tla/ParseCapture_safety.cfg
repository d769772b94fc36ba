\* Up to three packets, whole or cut off anywhere, and a reader that may begin at any time.
CONSTANTS
  device = device
  cloud = cloud
  other = other
  Addresses <- Hosts
  Traffic <- Captures
  None = None
SPECIFICATION Spec
INVARIANTS
  TypeOK
  CompleteRecordsExamined
  NamesExact
  QuestionReadAlike
  TruncationLosesOnly
\* The report ends the program.
CHECK_DEADLOCK FALSE
