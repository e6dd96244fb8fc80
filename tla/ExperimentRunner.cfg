SPECIFICATION Spec
CONSTANTS
  Runs = {r1, r2}
  Clients = {c1}
  Operators = {c1}
  Default = Default
  NoRunner = NoRunner
  MaxTicks = 1
  MaxFaults = 0
INVARIANTS Controlled HolderAgrees
