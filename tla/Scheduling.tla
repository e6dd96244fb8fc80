----------------------------- MODULE Scheduling -----------------------------
(***************************************************************************)
(* The schedulers of simulation/scheduler.py: which pending task goes to    *)
(* which available robot.  They plan with the breadth-first planner, their  *)
(* default.                                                                *)
(*                                                                         *)
(* d is one call of select_assignments: a record with                      *)
(*   open              the passable cells of the warehouse                 *)
(*   blocked           blocked_cells, the cells with a robot               *)
(*   tasks             [id -> [pickup, dropoff, priority, created]], the    *)
(*                     pending tasks; a pickup or dropoff that cannot be    *)
(*                     resolved is Nowhere                                 *)
(*   robots            [id -> [cell, ready, battery]]; ready stands for     *)
(*                     status, task and mode, see _available_robots         *)
(* Ids are numbers in the order in which Python compares them.             *)
(***************************************************************************)
EXTENDS Routing

\* Energy parameters of TotalCostScheduler.
CONSTANTS EmptyEnergy, LoadedEnergy, SafetyEnergy, CriticalEnergy, FullBattery

ASSUME SchedulingAssumption ==
  {EmptyEnergy, LoadedEnergy, SafetyEnergy, CriticalEnergy, FullBattery} \subseteq Nat

NoCost == -1

\* The first of a set under a lexicographic order of tuples of numbers.
LexBefore(a, b) ==
  \E i \in DOMAIN a : a[i] < b[i] /\ \A j \in 1..(i - 1) : a[j] = b[j]
FirstBy(S, Key(_)) ==
  CHOOSE x \in S : \A y \in S \ {x} : LexBefore(Key(x), Key(y))

Available(d) == {r \in DOMAIN d.robots : d.robots[r].ready}

\* Around the blocked cells if there is such a path, else through them.
FirstRoute(p, q) == IF p # NoPath THEN p ELSE q
RouteOrThrough(d, from, to, blocked) ==
  FirstRoute(BFSPath(d.open, from, to, blocked), BFSPath(d.open, from, to, {}))

Length(path) == IF path = NoPath THEN NoCost ELSE Len(path)
PathDistance(d, from, to, blocked) == Length(RouteOrThrough(d, from, to, blocked))

\* _path_for_robot: the robot's own cell does not block it.
PickupDistance(d, r, t, blocked) ==
  PathDistance(d, d.robots[r].cell, d.tasks[t].pickup, blocked \ {d.robots[r].cell})

HaulDistance(d, t, blocked) ==
  PathDistance(d, d.tasks[t].pickup, d.tasks[t].dropoff, blocked)

-----------------------------------------------------------------------------
(* Orders in which the sequential schedulers serve tasks.                  *)

\* A fault: large priority numbers first.
ByHighestPriority(d, t) == <<-d.tasks[t].priority, d.tasks[t].created, t>>

ByPriority(d, t) == <<d.tasks[t].priority, d.tasks[t].created, t>>
ByLegacyCost(d, t) == <<-d.tasks[t].priority, d.tasks[t].created, t>>
ByAge(d, t) == <<d.tasks[t].created, d.tasks[t].priority, t>>

(* Costs of giving a task to a robot, or NoCost.                           *)

NearestCost(d, t, r, blocked) ==
  IF d.tasks[t].pickup = Nowhere THEN NoCost ELSE PickupDistance(d, r, t, blocked)

Positive(n) == IF n > 0 THEN n ELSE 0

\* TotalCostScheduler: distance, and a penalty for a robot short of energy.
TotalOf(way, haul, battery) ==
  LET short == way * EmptyEnergy + haul * LoadedEnergy + SafetyEnergy - battery
  IN  IF NoCost \in {way, haul} THEN NoCost
      ELSE way + haul + Positive(short) * 100
             + (IF battery <= CriticalEnergy THEN 10000 ELSE 0)
             + Positive(FullBattery - battery)

Unresolved(task) == Nowhere \in {task.pickup, task.dropoff}

EnergyAwareCost(d, t, r, blocked) ==
  IF Unresolved(d.tasks[t]) THEN NoCost
  ELSE TotalOf(PickupDistance(d, r, t, blocked), HaulDistance(d, t, blocked),
               d.robots[r].battery)

\* AuctionScheduler: the bid of a robot for a task.
BidOf(way, haul) == IF NoCost \in {way, haul} THEN NoCost ELSE way + haul

Bid(d, t, r, blocked) ==
  IF Unresolved(d.tasks[t]) THEN NoCost
  ELSE BidOf(PickupDistance(d, r, t, blocked), HaulDistance(d, t, blocked))

-----------------------------------------------------------------------------
(* select_assignments.  An assignment is <<task, robot, cost>>.            *)

\* The tasks that are left, the robots and cells that are free and taken, and
\* the assignments so far.
Servings(d) ==
  [left : SUBSET DOMAIN d.tasks, free : SUBSET Available(d), blocked : SUBSET d.open,
   given : Seq((DOMAIN d.tasks) \X Available(d) \X Nat)]

NothingGiven(d) ==
  [left |-> DOMAIN d.tasks, free |-> Available(d), blocked |-> d.blocked, given |-> <<>>]

Give(d, s, t, r, cost) ==
  [left    |-> s.left \ {t},
   free    |-> s.free \ {r},
   blocked |-> s.blocked \union {d.robots[r].cell},
   given   |-> Append(s.given, <<t, r, cost>>)]

\* One task of a sequential scheduler: the cheapest robot, by id among equals.
Cheapest(d, s, t, cost) ==
  LET able == {r \in s.free : cost[r] # NoCost}
      best == FirstBy(able, LAMBDA r : <<cost[r], r>>)
  IN  IF able = {} THEN [s EXCEPT !.left = @ \ {t}] ELSE Give(d, s, t, best, cost[best])

Serve(d, s, t, Cost(_, _, _, _)) ==
  Cheapest(d, s, t, [r \in s.free |-> Cost(d, t, r, s.blocked)])

\* The tasks have their turns, one in each step.
InTurn(d, Step) ==
  LET serve[s \in Servings(d)] == IF s.left = {} THEN s.given ELSE serve[Step[s]]
  IN  serve[NothingGiven(d)]

Sequential(d, Order(_, _), Cost(_, _, _, _)) ==
  InTurn(d, [s \in Servings(d) |->
               Serve(d, s, FirstBy(s.left, LAMBDA t : Order(d, t)), Cost)])

Priority(d)  == Sequential(d, ByPriority, NearestCost)
CostBased(d) == Sequential(d, ByLegacyCost, NearestCost)
FIFO(d)      == Sequential(d, ByAge, NearestCost)
TotalCost(d) == Sequential(d, ByPriority, EnergyAwareCost)

\* One round of the auction: the lowest bid of all tasks and robots left.
LowestBid(d, s, bid) ==
  LET made == {b \in DOMAIN bid : bid[b] # NoCost}
      best == FirstBy(made, LAMBDA b : <<bid[b]>> \o ByPriority(d, b[1]) \o <<b[2]>>)
  IN  IF made = {} THEN s ELSE Give(d, s, best[1], best[2], bid[best])

Round(d, s) ==
  LowestBid(d, s, [b \in s.left \X s.free |-> Bid(d, b[1], b[2], s.blocked)])

Auction(d) ==
  LET rounds == Cardinality(DOMAIN d.tasks)
      run[n \in 0..rounds] == IF n = 0 THEN NothingGiven(d) ELSE Round(d, run[n - 1])
  IN  run[rounds].given

Schedulers == {"priority", "cost", "fifo", "energy", "auction"}

Assignments(name, d) ==
  CASE name = "priority" -> Priority(d)
    [] name = "cost"     -> CostBased(d)
    [] name = "fifo"     -> FIFO(d)
    [] name = "energy"   -> TotalCost(d)
    [] name = "auction"  -> Auction(d)
============================================================================
