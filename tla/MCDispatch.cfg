SPECIFICATION Spec
CONSTANTS
  EmptyEnergy = 1
  LoadedEnergy = 1
  SafetyEnergy = 0
  CriticalEnergy = 0
  FullBattery = 9
  Resolve <- MCResolve
  Locations <- MCLocations
  StartTick = 2
  Seeded = FALSE
  Intervals <- MCIntervals
  Open <- MCOpen
  Start <- MCStart
  Reach <- MCReach
  Demands <- MCDemands
  Dispatchers = {"priority", "fifo", "energy", "auction", "cost"}
  Duration = 8
  Target = 2
  MaxAge = 1
  RepairTicks = 2
  MaxFailures = 1
INVARIANTS TypeOK OrdersOnce BooksBalance RecordsAgree PlannersDeliver
PROPERTIES NoOvertaking
