SPECIFICATION Spec
CONSTANTS
  Robots = {1, 2}
  Tasks = {t1}
  Far = {}
  NoTask = NoTask
  NoRobot = NoRobot
  NoCell = NoCell
  Cells <- MCCells
  Chargers = {21, 22}
  Bays = {23}
  Slots = 1
  ChargeTicks = 2
  Neighbours <- MCNeighbours
  Start <- MCStart
  Source <- MCSource
  Dropoff <- MCDropoff
  Dist <- MCDist
  Closest <- MCClosest
  Full = 4
  Critical = 1
  LowBattery = 3
  IdleLimit = 1
  SafetyMargin = 1
  EmptyCost = 1
  LoadedCost = 1
  RecoveryTicks = 1
  RepairTicks = 1
  FailureProne = {}
  RelocateFailed = TRUE
PROPERTY OccupiedBlocks
