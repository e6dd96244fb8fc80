SPECIFICATION Spec
CONSTANTS
  Jobs = {j1, j2, j3}
  Workers = {w1, w2}
  NoJob = NoJob
  MaxFaults = 2
  MaxRestarts = 2
SYMMETRY Symmetric
CHECK_DEADLOCK FALSE
INVARIANTS TypeOK AcceptedIsDurable
PROPERTIES SettledIsFinal EndedNeverStarts
