SPECIFICATION Spec
CONSTANTS
  Runs = {r1}
  Clients = {c1, c2}
  Operators = {c1, c2}
  Default = Default
  NoRunner = NoRunner
  MaxTicks = 2
  MaxFaults = 1
INVARIANTS TypeOK RecorderOpen SummaryJustified
PROPERTIES StopIsReported
