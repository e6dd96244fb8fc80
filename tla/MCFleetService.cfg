SPECIFICATION Spec
CONSTANTS
  Robots = {1, 2}
  Tasks = {}
  Far = {}
  NoTask = NoTask
  NoRobot = NoRobot
  NoCell = NoCell
  Cells <- MCCells
  Chargers = {21, 22}
  Bays = {23}
  Slots = 2
  ChargeTicks = 2
  Neighbours <- MCNeighbours
  Start <- MCStart
  Source <- MCSource
  Dropoff <- MCDropoff
  Dist <- MCDist
  Closest <- MCClosest
  Full = 2
  Critical = 0
  LowBattery = 2
  IdleLimit = 1
  SafetyMargin = 1
  EmptyCost = 1
  LoadedCost = 1
  RecoveryTicks = 2
  RepairTicks = 2
  FailureProne = {1}
  RelocateFailed = TRUE
INVARIANTS ChargersExclusive
PROPERTIES BackInService
