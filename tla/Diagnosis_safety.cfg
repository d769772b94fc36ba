\* One device with the reserve of the unit under test, and uses up to the edges.
CONSTANTS
  s1 = s1
  s2 = s2
  Serials <- OneSerial
  Accounts <- OneDevice
  Capacity = 2000
  Reserve = 500
  Draws = {1500, 1994}
  MaxEvents = 4
  MaxFiles = 2
  Bodies <- SomeBodies
  NoFile = NoFile
  NoProbe = NoProbe
SPECIFICATION Spec
INVARIANTS
  NumberDecides
  ConfirmedIsMeasured
\* The bounds are reached.
CHECK_DEADLOCK FALSE
