SPECIFICATION FairSpec
CONSTANTS
  Robots = {1, 2, 3}
  NoRobot = 0
  Open <- MCOpen
  Start <- MCStart
  Jobs <- MCJobs
  Depots <- MCDepots
  Bays <- MCBays
  Closest <- MCClosest
  Weak = {1}
  Fates <- MCFates
  Failing = {2}
  Managers = {"local", "zones", "reservations"}
  Threshold = 1
  Cooldown = 2
  Lookahead = 2
  Horizon = 2
  MaxBlocked = 3
INVARIANTS TypeOK OnlyPutRobotsMeet RecordsHold
PROPERTIES MovesFreely StandoffsEnd
