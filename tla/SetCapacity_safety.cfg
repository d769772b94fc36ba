\* Two devices, two runs, within the same second or not: 4500 gallons are the upper end of
\* the band of 1 cubic foot at 10 grains, 1333 just miss the lower one, and a reading of 0
\* leaves a device without a band.
CONSTANTS
  s1 = s1
  s2 = s2
  Serials <- TwoSerials
  Values = {1333, 4500}
  Resins = {0, 1}
  Hardnesses = {10}
  Runs = 2
  t1 = t1
  t2 = t2
  Stamps <- TwoStamps
  MaxForeign = 1
  NoSerial = NoSerial
  NoReading = NoReading
SPECIFICATION Spec
SYMMETRY RunSymmetry
INVARIANTS
  TypeOK
  EvidenceSurvives
  AppliedIsExecuted
PROPERTY CommandDeliberate
\* The tool is run Runs times.
CHECK_DEADLOCK FALSE
