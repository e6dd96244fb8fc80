SPECIFICATION Spec
CONSTANTS
  Robots = {1, 2, 3, 4}
  NoRobot = 0
  Open <- CrossOpen
  Start <- CrossStart
  Jobs <- CrossJobs
  Depots <- CrossDepots
  Bays = {}
  Closest <- MCClosest
  Weak = {}
  Fates <- CrossFates
  Failing = {4}
  Managers = {"zones"}
  Threshold = 1
  Cooldown = 2
  Lookahead = 2
  Horizon = 2
  MaxBlocked = 3
INVARIANT OneYielder
