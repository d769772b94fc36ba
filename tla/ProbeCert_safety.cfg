\* Two host names, four runs.
CONSTANTS
  h1 = h1
  h2 = h2
  Hosts <- TwoHosts
  Runs = 4
SPECIFICATION Spec
SYMMETRY HostSymmetry
INVARIANTS
  TypeOK
  FirstHostCovered
  UnloadableOnlyIfCut
\* The probe is run Runs times.
CHECK_DEADLOCK FALSE
