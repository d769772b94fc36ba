\* Two devices; the capture may be of the second.
CONSTANTS
  s1 = s1
  s2 = s2
  Serials <- TwoSerials
  Accounts <- TwoDevices
  Capacity = 2000
  Reserve = 500
  Draws = {1500, 1994}
  MaxEvents = 1
  MaxFiles = 1
  Bodies <- WholeBodies
  NoFile = NoFile
  NoProbe = NoProbe
SPECIFICATION Spec
INVARIANT NothingMovedMeansNothing
\* The bounds are reached.
CHECK_DEADLOCK FALSE
