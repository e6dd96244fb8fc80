SPECIFICATION Spec
CONSTANTS
  Robots = {1, 2}
  Tasks = {t1, t2}
  Far = {t2}
  NoTask = NoTask
  NoRobot = NoRobot
  NoCell = NoCell
  Cells <- MCCells
  Chargers = {21, 22}
  Bays = {23}
  Slots = 1
  ChargeTicks = 2
  Neighbours <- MCNeighbours
  Start <- MCStart
  Source <- MCSource
  Dropoff <- MCDropoff
  Dist <- MCDist
  Closest <- MCClosest
  Full = 3
  Critical = 1
  LowBattery = 2
  IdleLimit = 1
  SafetyMargin = 0
  EmptyCost = 2
  LoadedCost = 1
  RecoveryTicks = 1
  RepairTicks = 1
  FailureProne = {1}
  RelocateFailed = TRUE
INVARIANTS TypeOK SlotsRespected GoalAgrees NoTaskFails StationAgrees TaskBinding LoadAgrees
PROPERTIES InterruptedSeeksCharge LoadNeverTeleports PoweredMoves
