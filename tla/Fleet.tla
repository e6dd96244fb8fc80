------------------------------- MODULE Fleet -------------------------------
(***************************************************************************)
(* The simulator's robots, tasks and charging station through the phases   *)
(* of Simulation._tick (simulation/simulation.py).                         *)
(*                                                                         *)
(* One tick is a fixed list of phases, most of them a loop over the        *)
(* robots; each turn of a loop is one step here and runs the handler with  *)
(* every handler it calls.  Handlers are operators from the state w of the *)
(* simulation to its next state.                                           *)
(*                                                                         *)
(* Abstracted: the route itself.  A robot with a goal steps to any free    *)
(* neighbouring cell, which covers every path, detour and yield step the   *)
(* planner and the conflict manager choose.  Path lengths (Dist) and       *)
(* nearest-cell searches (Closest) are parameters.                         *)
(***************************************************************************)
EXTENDS ChargingStation

CONSTANTS
  Tasks,               \* task ids; an id is never used again
  NoTask,              \* Python's None where a task id is expected
  NoRobot,             \* Python's None where a robot id is expected
  Bays,                \* the cells of type MAINTENANCE
  Neighbours,          \* [Cells -> SUBSET Cells], four-connected and passable
  Start,               \* [Robots -> Cells], the initial positions
  Source, Dropoff,     \* [Tasks -> Cells], the resolved locations of a task
  Dist(_, _, _),       \* planner's path length avoiding a set, or NoPath
  Closest(_, _),       \* the cell of a non-empty set a search picks
  Full,                \* BatteryConfig.capacity
  Critical,            \* BatteryConfig.critical_battery
  LowBattery,          \* BatteryConfig.opportunistic_charge_threshold
  IdleLimit,           \* BatteryConfig.idle_ticks_before_opportunistic_charge
  SafetyMargin,        \* BatteryConfig.safety_margin
  EmptyCost,           \* BatteryConfig.empty_move_energy
  LoadedCost,          \* BatteryConfig.loaded_move_energy
  RecoveryTicks,       \* max(1, BatteryConfig.empty_battery_recovery_ticks)
  RepairTicks,         \* max(1, FailureConfig.mttr_ticks)
  FailureProne,        \* the robots whose random failure draw may fail
  RelocateFailed       \* FailureConfig.relocate_to_maintenance

NoPath == -1

ASSUME FleetAssumption ==
  /\ NoTask \notin Tasks /\ NoRobot \notin Robots
  /\ Bays \subseteq Cells /\ Bays \intersect Chargers = {}
  /\ Neighbours \in [Cells -> SUBSET Cells]
  /\ Start \in [Robots -> Cells]
  /\ \A r, q \in Robots : r # q => Start[r] # Start[q]
  /\ Source \in [Tasks -> Cells] /\ Dropoff \in [Tasks -> Cells]
  /\ {Critical, LowBattery, IdleLimit, SafetyMargin} \subseteq Nat
  /\ {EmptyCost, LoadedCost} \subseteq Nat
  /\ {Full, RecoveryTicks, RepairTicks} \subseteq Nat \ {0}
  /\ FailureProne \subseteq Robots /\ RelocateFailed \in BOOLEAN

\* A search over a non-empty set of cells returns one of them.
ASSUME ClosestAssumption ==
  \A c \in Cells, S \in SUBSET Cells : S # {} => Closest(c, S) \in S

\* A path that avoids cells is a path.
ASSUME DistAssumption ==
  \A a, b \in Cells, S \in SUBSET Cells :
    /\ Dist(a, b, S) \in Nat \union {NoPath}
    /\ Dist(a, b, S) # NoPath => Dist(a, b, {}) # NoPath

VARIABLES
  w,         \* the state of the simulation, see WorldType
  phase,     \* the phase of _tick that runs
  todo,      \* the robots the phase's loop has yet to visit
  offer,     \* the tasks the scheduler may still hand out in this tick
  occupied   \* the occupied set _advance_robots computes once

vars == <<w, phase, todo, offer, occupied>>

-----------------------------------------------------------------------------
(* State.                                                                  *)

Modes == {"IDLE", "MOVING", "TO_CHARGER", "WAITING", "CHARGING", "FAILED"}
Statuses == {"ABSENT", "PENDING", "ASSIGNED", "INTERRUPTED", "COMPLETED",
             "FAILED", "PRUNED"}
Legs  == {"TO_PICKUP", "TO_DROPOFF", "DONE"}
Loads == {"ON_SHELF", "CARRIED", "STAGED", "DELIVERED"}
Phases == {"between", "repairs", "failures", "finished", "waiting",
           "assign", "battery", "idle", "advance"}

MaxDown == IF RecoveryTicks > RepairTicks THEN RecoveryTicks ELSE RepairTicks

WorldType ==
  [ mode     : [Robots -> Modes],
    task     : [Robots -> Tasks \union {NoTask}],   \* current_task_id
    memo     : [Robots -> Tasks \union {NoTask}],   \* interrupted_task_id
    cell     : [Robots -> Cells],
    goal     : [Robots -> Cells \union {NoCell}],   \* route_goal
    battery  : [Robots -> 0..Full],
    start    : [Robots -> 0..Full],                 \* charge_start_battery
    idle     : [Robots -> 0..IdleLimit],            \* idle_ticks, saturating
    repair   : [Robots -> 0..MaxDown],              \* repair_remaining_ticks
    status   : [Tasks -> Statuses],
    leg      : [Tasks -> Legs],                     \* phase
    load     : [Tasks -> Loads],
    holder   : [Tasks -> Robots \union {NoRobot}],  \* assigned_robot_id
    pickup   : [Tasks -> Cells],                    \* resolved pickup
    active   : [Robots -> 0..ChargeTicks],
    slot     : [Robots -> Cells \union {NoCell}],
    reserved : [Robots -> Cells \union {NoCell}],
    waiting  : SUBSET Robots ]

\* Simulation.reset: no task of a generated workload exists yet.
ResetWorld ==
  [ mode     |-> [r \in Robots |-> "IDLE"],
    task     |-> [r \in Robots |-> NoTask],
    memo     |-> [r \in Robots |-> NoTask],
    cell     |-> Start,
    goal     |-> [r \in Robots |-> NoCell],
    battery  |-> [r \in Robots |-> Full],
    start    |-> [r \in Robots |-> 0],
    idle     |-> [r \in Robots |-> 0],
    repair   |-> [r \in Robots |-> 0],
    status   |-> [t \in Tasks |-> "ABSENT"],
    leg      |-> [t \in Tasks |-> "TO_PICKUP"],
    load     |-> [t \in Tasks |-> "ON_SHELF"],
    holder   |-> [t \in Tasks |-> NoRobot],
    pickup   |-> Source,
    active   |-> [r \in Robots |-> 0],
    slot     |-> [r \in Robots |-> NoCell],
    reserved |-> [r \in Robots |-> NoCell],
    waiting  |-> {} ]

-----------------------------------------------------------------------------
(* Geometry and energy.                                                    *)

OthersAt(s, r) == {s.cell[q] : q \in Robots \ {r}}

FailedCells(s, r) ==
  {s.cell[q] : q \in {p \in Robots \ {r} : s.mode[p] = "FAILED"}}

Reachable(a, b) == Dist(a, b, {}) # NoPath

\* _path_distance: a blocked goal has no path.
PathLength(a, b, blocked) == IF b \in blocked THEN NoPath ELSE Dist(a, b, blocked)

MoveCost(s, r) ==
  IF s.task[r] # NoTask /\ s.leg[s.task[r]] = "TO_DROPOFF"
  THEN LoadedCost ELSE EmptyCost

\* _remaining_task_energy plus the safety margin fits the battery.
CanFinish(s, r, t) ==
  LET d(a, b) == PathLength(a, b, FailedCells(s, r))
      toPickup == d(s.cell[r], s.pickup[t])
      haul     == d(s.pickup[t], Dropoff[t])
      toDrop   == d(s.cell[r], Dropoff[t])
  IN \/ /\ s.leg[t] = "TO_PICKUP"
        /\ toPickup # NoPath /\ haul # NoPath
        /\ s.battery[r] >= toPickup * EmptyCost + haul * LoadedCost + SafetyMargin
     \/ /\ s.leg[t] = "TO_DROPOFF"
        /\ toDrop # NoPath
        /\ s.battery[r] >= toDrop * LoadedCost + SafetyMargin
     \/ /\ s.leg[t] = "DONE"
        /\ s.battery[r] >= SafetyMargin

\* _robot_can_accept_task.
CanAccept(s, r) ==
  /\ s.task[r] = NoTask
  /\ s.mode[r] = "IDLE"
  /\ s.active[r] = 0
  /\ r \notin s.waiting
  /\ s.battery[r] > Critical

\* A mutant of Feasible: energy is compared, routes are not looked up.
FeasibleIfCharged(s, r, t) == s.battery[r] > Critical

\* _battery_feasible_for_new_task.
Feasible(s, r, t) == s.battery[r] > Critical /\ CanFinish(s, r, t)

-----------------------------------------------------------------------------
(* Charging.                                                               *)

\* _relocate_waiting_robot_off_charger: the robot is put down on the nearest
\* free cell that is no charging cell.
RelocateOffCharger(s, r) ==
  LET free == (Cells \ Chargers) \ OthersAt(s, r)
  IN IF s.cell[r] \in Chargers /\ free # {}
     THEN [s EXCEPT !.cell[r] = Closest(s.cell[r], free), !.goal[r] = NoCell]
     ELSE s

\* _enter_waiting_without_reservation, and the last part of _enter_charging.
EnterWaiting(s, r) ==
  RelocateOffCharger([s EXCEPT !.mode[r] = "WAITING", !.goal[r] = NoCell,
                               !.waiting = @ \union {r}], r)

\* A successful begin_charging with the robot fields its callers set.
StartCharging(s, r, c) ==
  [BeginCharging(s, r, c) EXCEPT !.mode[r] = "CHARGING", !.goal[r] = c,
                                 !.start[r] = s.battery[r]]

\* _handle_charging_arrival; the goal is a charging cell and the robot's own.
ChargingArrival(s, r) ==
  IF s.goal[r] \notin OthersAt(s, r) /\ CanBegin(s, r)
  THEN StartCharging(s, r, s.goal[r])
  ELSE EnterWaiting(ReleaseReservation(s, r), r)

\* A mutant of FreeChargers: cells that robots are on their way to are offered.
FreeChargersIgnoringReservations(s, r) ==
  Chargers \ (OthersAt(s, r) \union ActiveCells(s))

\* _choose_free_charging_cell picks the closest of these.
FreeChargers(s, r) ==
  Chargers \ (OthersAt(s, r) \union ActiveCells(s) \union ReservedCells(s))

\* Reserve c and set off for it; a robot that stands on c has arrived.
ReserveAndGo(s, r, c) ==
  LET bound == [Reserve(s, r, c) EXCEPT !.mode[r] = "TO_CHARGER", !.goal[r] = c]
  IN IF s.cell[r] = c THEN ChargingArrival(bound, r) ELSE bound

\* _enter_charging.
EnterCharging(s, r) ==
  LET freed == [ReleaseReservation(s, r) EXCEPT !.task[r] = NoTask,
                                                !.waiting = @ \ {r}]
      free  == FreeChargers(freed, r)
      c     == Closest(freed.cell[r], free)
  IN IF freed.battery[r] >= Full
     THEN [freed EXCEPT !.mode[r] = "IDLE", !.goal[r] = NoCell]
     ELSE IF HasCapacity(freed) /\ free # {} /\ Reachable(freed.cell[r], c)
     THEN ReserveAndGo(freed, r, c)
     ELSE EnterWaiting(freed, r)

\* _try_dispatch_waiting_robot; it succeeded iff r no longer waits.
TryDispatch(s, r) ==
  LET here == s.cell[r]
      free == FreeChargers(s, r)
      c    == Closest(here, free)
  IN IF ~HasCapacity(s) THEN s
     ELSE IF here \in Chargers \ (OthersAt(s, r) \union ActiveCells(s))
     THEN StartCharging(s, r, here)
     ELSE IF free = {} THEN s
     ELSE IF Reachable(here, c) THEN ReserveAndGo(s, r, c)
     ELSE [s EXCEPT !.goal[r] = c]

\* One turn of _update_charger_waiting.
WaitingTurn(s, r) ==
  IF s.cell[r] \notin Chargers THEN TryDispatch(s, r)
  ELSE LET first == TryDispatch(s, r)
       IN IF first.mode[r] # "WAITING" THEN first
          ELSE TryDispatch(RelocateOffCharger(first, r), r)

-----------------------------------------------------------------------------
(* Interruption and failure.                                               *)

\* A mutant of Interrupt: the load state is left alone.
InterruptStillCarried(s, r) ==
  LET t == s.task[r]
  IN [s EXCEPT !.memo[r] = t, !.task[r] = NoTask, !.goal[r] = NoCell,
               !.status[t] = "INTERRUPTED", !.leg[t] = "TO_PICKUP",
               !.holder[t] = NoRobot, !.pickup[t] = s.cell[r]]

\* _interrupt_current_task: a carried load is staged where the robot stands, a
\* staged load stays where it is.
Interrupt(s, r) ==
  LET t       == s.task[r]
      carried == s.leg[t] = "TO_DROPOFF" \/ s.load[t] = "CARRIED"
  IN [s EXCEPT !.memo[r]   = t,
               !.task[r]   = NoTask,
               !.goal[r]   = NoCell,
               !.status[t] = "INTERRUPTED",
               !.leg[t]    = "TO_PICKUP",
               !.holder[t] = NoRobot,
               !.load[t]   = IF carried THEN "STAGED" ELSE @,
               !.pickup[t] = IF carried THEN s.cell[r] ELSE @]

\* _relocate_robot_to_maintenance.
RelocateToBay(s, r) ==
  LET free == Bays \ OthersAt(s, r)
  IN IF RelocateFailed /\ free # {}
     THEN [s EXCEPT !.cell[r] = Closest(s.cell[r], free), !.goal[r] = NoCell]
     ELSE s

\* A mutant of GoDown: the tow comes before the interruption.
TowThenGoDown(s, r, ticks) ==
  LET towed == RelocateToBay(s, r)
      idle  == IF towed.task[r] # NoTask THEN Interrupt(towed, r) ELSE towed
  IN [Release(idle, r) EXCEPT !.mode[r] = "FAILED", !.goal[r] = NoCell,
                              !.repair[r] = ticks]

\* What _fail_robot and _handle_battery_depleted have in common.
GoDown(s, r, ticks) ==
  LET idle == IF s.task[r] # NoTask THEN Interrupt(s, r) ELSE s
      down == [Release(idle, r) EXCEPT !.mode[r] = "FAILED", !.goal[r] = NoCell,
                                       !.repair[r] = ticks]
  IN RelocateToBay(down, r)

\* _fail_robot.
Fail(s, r) == GoDown(s, r, RepairTicks)

\* _handle_battery_depleted; a robot that is down or charging stays as it is.
Deplete(s, r) ==
  IF s.mode[r] \in {"FAILED", "CHARGING"} THEN s
  ELSE GoDown([s EXCEPT !.battery[r] = 0], r, RecoveryTicks)

\* A mutant of CheckBattery: a task is dropped and no charger is sought.
CheckBatteryWithoutCharging(s, r) ==
  IF s.task[r] # NoTask /\ s.battery[r] <= Critical THEN Interrupt(s, r) ELSE s

\* _check_battery_for_active_task.
CheckBattery(s, r) ==
  LET t == s.task[r]
  IN IF t = NoTask THEN s
     ELSE IF s.battery[r] = 0 THEN Deplete(s, r)
     ELSE IF s.leg[t] = "TO_DROPOFF" /\ s.cell[r] = Dropoff[t] THEN s
     ELSE IF s.battery[r] <= Critical \/ ~CanFinish(s, r, t)
     THEN EnterCharging(Interrupt(s, r), r)
     ELSE s

-----------------------------------------------------------------------------
(* Tasks.                                                                  *)

\* _route_robot_to without a path: the task fails, the mode stays.
FailTask(s, r) ==
  LET t == s.task[r]
  IN [s EXCEPT !.status[t] = "FAILED", !.leg[t] = "DONE",
               !.task[r] = NoTask, !.goal[r] = NoCell]

\* _handle_arrival on the dropoff leg.
Complete(s, r) ==
  LET t == s.task[r]
  IN [s EXCEPT !.status[t] = "COMPLETED", !.leg[t] = "DONE",
               !.load[t] = "DELIVERED",
               !.task[r] = NoTask, !.memo[r] = NoTask, !.goal[r] = NoCell,
               !.mode[r] = "IDLE", !.idle[r] = 0]

\* _handle_arrival on the pickup leg: load, check the battery, and if the task
\* survives the check route to the dropoff (_route_robot_to).
PickUp(s, r) ==
  LET t      == s.task[r]
      loaded == CheckBattery([s EXCEPT !.leg[t] = "TO_DROPOFF",
                                       !.load[t] = "CARRIED",
                                       !.mode[r] = "MOVING"], r)
  IN IF loaded.task[r] # t THEN loaded
     ELSE IF ~Reachable(loaded.cell[r], Dropoff[t]) THEN FailTask(loaded, r)
     ELSE IF loaded.cell[r] = Dropoff[t] THEN Complete(loaded, r)
     ELSE [loaded EXCEPT !.goal[r] = Dropoff[t]]

\* _begin_task: assign, route to the pickup (_route_robot_to), check the battery.
Begin(s, r, t) ==
  LET taken  == [s EXCEPT !.status[t] = "ASSIGNED", !.holder[t] = r,
                          !.leg[t] = "TO_PICKUP",   !.task[r] = t,
                          !.memo[r] = NoTask,       !.goal[r] = s.pickup[t],
                          !.mode[r] = "MOVING",     !.idle[r] = 0]
      routed == IF ~Reachable(s.cell[r], s.pickup[t]) THEN FailTask(taken, r)
                ELSE IF s.cell[r] = s.pickup[t] THEN PickUp(taken, r)
                ELSE taken
  IN IF routed.task[r] = t THEN CheckBattery(routed, r) ELSE routed

\* A mutant of Reclaim: somebody else may have the task by now.
ReclaimBlindly(s, r) ==
  LET t    == s.memo[r]
      free == [s EXCEPT !.memo[r] = NoTask]
  IN IF t # NoTask /\ CanAccept(free, r) /\ Feasible(free, r, t)
     THEN Begin(free, r, t)
     ELSE free

\* _try_reclaim_interrupted_task.
Reclaim(s, r) ==
  LET t    == s.memo[r]
      free == [s EXCEPT !.memo[r] = NoTask]
  IN IF /\ t # NoTask
        /\ s.status[t] = "INTERRUPTED" /\ s.holder[t] = NoRobot
        /\ CanAccept(free, r) /\ Feasible(free, r, t)
     THEN Begin(free, r, t)
     ELSE free

\* _handle_arrival.
HandleArrival(s, r) ==
  LET t == s.task[r]
  IN IF t = NoTask
     THEN IF s.goal[r] \in Chargers THEN ChargingArrival(s, r)
          ELSE [s EXCEPT !.mode[r] = "IDLE", !.goal[r] = NoCell]
     ELSE IF s.leg[t] = "TO_PICKUP" THEN PickUp(s, r)
     ELSE Complete(s, r)

-----------------------------------------------------------------------------
(* The turns of the tick's loops.                                          *)

\* A mutant of ExitBay: without a route the mode is not put back.
ExitBayWithoutRoute(s, r) ==
  LET free == (Cells \ Bays) \ OthersAt(s, r)
      c    == Closest(s.cell[r], free)
  IN IF s.cell[r] \notin Bays \/ free = {} THEN s
     ELSE [s EXCEPT !.mode[r] = "MOVING",
                    !.goal[r] = IF Reachable(s.cell[r], c) THEN c ELSE NoCell]

\* _try_exit_maintenance; free never holds the robot's own cell, a bay.
ExitBay(s, r) ==
  LET free == (Cells \ Bays) \ OthersAt(s, r)
      c    == Closest(s.cell[r], free)
  IN IF s.cell[r] \notin Bays \/ free = {} THEN s
     ELSE IF Reachable(s.cell[r], c)
     THEN [s EXCEPT !.mode[r] = "MOVING", !.goal[r] = c]
     ELSE s

\* One turn of _update_robot_repairs.
RepairTurn(s, r) ==
  LET back == [s EXCEPT !.mode[r] = "IDLE", !.goal[r] = NoCell,
                        !.repair[r] = 0,    !.idle[r] = 0,
                        !.battery[r] = IF @ = 0 THEN Full ELSE @]
      busy == Reclaim(back, r)
  IN IF s.repair[r] > 1 THEN [s EXCEPT !.repair[r] = @ - 1]
     ELSE IF busy.mode[r] = "IDLE" THEN ExitBay(busy, r) ELSE busy

\* The battery of an active robot after this tick: linear from start to Full.
Charged(s, r) ==
  s.start[r]
    + ((Full - s.start[r]) * (ChargeTicks - s.active[r] + 1)) \div ChargeTicks

\* _update_charging_station up to station.tick(): reservations of robots that do
\* not need them are dropped, batteries and timers advance.
ChargeTick(s) ==
  LET stale == {r \in Reserved(s) : s.mode[r] \notin {"TO_CHARGER", "WAITING"}}
  IN TickTimers(
       [s EXCEPT
         !.reserved = [r \in Robots |-> IF r \in stale THEN NoCell ELSE @[r]],
         !.battery  = [r \in Robots |-> IF r \in Active(s) THEN Charged(s, r)
                                        ELSE @[r]]])

\* One turn of the loop over the robots station.tick() returned.
FinishTurn(s, r) ==
  Reclaim([s EXCEPT !.battery[r] = Full, !.mode[r] = "IDLE", !.idle[r] = 0,
                    !.goal[r] = NoCell,  !.start[r] = 0], r)

\* One turn of _assign_pending_tasks' loop over the scheduler's assignments.
AssignTurn(s, r, t) ==
  IF CanAccept(s, r) /\ Feasible(s, r, t) THEN Begin(s, r, t) ELSE s

\* A mutant of BatteryTurn: robots on their way to a charger are skipped first.
BatteryTurnSkippingSeekers(s, r) ==
  IF s.mode[r] \in {"WAITING", "TO_CHARGER"} THEN s
  ELSE IF s.battery[r] = 0 THEN Deplete(s, r)
  ELSE IF s.task[r] # NoTask THEN CheckBattery(s, r)
  ELSE IF s.battery[r] <= Critical THEN EnterCharging(s, r)
  ELSE s

\* One turn of _update_battery_checks.
BatteryTurn(s, r) ==
  IF s.battery[r] = 0 THEN Deplete(s, r)
  ELSE IF s.mode[r] \in {"WAITING", "TO_CHARGER"} THEN s
  ELSE IF s.task[r] # NoTask THEN CheckBattery(s, r)
  ELSE IF s.battery[r] <= Critical THEN EnterCharging(s, r)
  ELSE s

\* One turn of _update_idle_and_opportunistic_charging for an idle robot.
IdleTurn(s, r) ==
  LET longer == [s EXCEPT !.idle[r] = IF @ < IdleLimit THEN @ + 1 ELSE @]
  IN IF /\ longer.idle[r] >= IdleLimit
        /\ s.battery[r] < LowBattery
        /\ HasCapacity(s) /\ FreeChargers(s, r) # {}
     THEN EnterCharging(longer, r)
     ELSE longer

\* A mutant of Move: the battery has no floor.
MoveOverdrawing(s, r, c) ==
  [s EXCEPT !.cell[r] = c, !.idle[r] = 0, !.battery[r] = @ - MoveCost(s, r)]

\* _step_robot_forward.
Move(s, r, c) ==
  LET cost == MoveCost(s, r)
  IN [s EXCEPT !.cell[r] = c, !.idle[r] = 0,
               !.battery[r] = IF @ > cost THEN @ - cost ELSE 0]

\* The robots _advance_robots routes towards their goal.
Engaged(s, r) ==
  /\ s.goal[r] # NoCell
  /\ s.task[r] # NoTask \/ s.mode[r] \in {"TO_CHARGER", "MOVING"}

Mobile(s, r) == s.mode[r] \notin {"FAILED", "CHARGING"}

\* A step that ends at the goal of an engaged robot is an arrival.
Arrives(s, r, c) == Engaged(s, r) /\ c = s.goal[r]

-----------------------------------------------------------------------------
(* The tick.                                                               *)

Init ==
  /\ w = ResetWorld
  /\ phase = "between" /\ todo = {} /\ offer = {} /\ occupied = {}

\* Simulation.reset takes the lock, so it falls between two ticks.
Reset ==
  /\ phase = "between"
  /\ w' = ResetWorld
  /\ UNCHANGED <<phase, todo, offer, occupied>>

\* A mutant of Visits: the failure draw does not skip robots under repair.
VisitsFailedToo(s, p) ==
  CASE p = "repairs"  -> {r \in Robots : s.mode[r] = "FAILED"}
    [] p = "failures" -> FailureProne
    [] p = "waiting"  -> {r \in Robots : s.mode[r] = "WAITING"}
    [] p = "idle"     -> {r \in Robots : s.mode[r] = "IDLE"}
    [] p \in {"battery", "advance"} -> {r \in Robots : Mobile(s, r)}
    [] OTHER -> {}

\* The robots the loop of a phase visits.
Visits(s, p) ==
  CASE p = "repairs"  -> {r \in Robots : s.mode[r] = "FAILED"}
    [] p = "failures" -> {r \in FailureProne : s.mode[r] # "FAILED"}
    [] p = "waiting"  -> {r \in Robots : s.mode[r] = "WAITING"}
    [] p = "idle"     -> {r \in Robots : s.mode[r] = "IDLE"}
    [] p \in {"battery", "advance"} -> {r \in Robots : Mobile(s, r)}
    [] OTHER -> {}

Goto(s, p) == phase' = p /\ todo' = Visits(s, p)

\* The turn of r in the loop of phase p, in the order of the robot ids.
Turn(p, r) ==
  /\ phase = p /\ r \in todo
  /\ \A q \in todo : r <= q
  /\ todo' = todo \ {r}
  /\ UNCHANGED <<phase, offer, occupied>>

\* A tick with nobody to repair goes straight to the failure draws.
StartTick ==
  /\ phase = "between"
  /\ IF Visits(w, "repairs") # {} THEN Goto(w, "repairs") ELSE Goto(w, "failures")
  /\ UNCHANGED <<w, offer, occupied>>

RepairStep(r) == Turn("repairs", r) /\ w' = RepairTurn(w, r)

\* The failure draw of each robot that is up.
FailStep(r)    == Turn("failures", r) /\ w' = Fail(w, r)
SurviveStep(r) == Turn("failures", r) /\ UNCHANGED w

\* The station's timers, then the robots that finished, if any.
ChargeStep ==
  /\ phase = "failures" /\ todo = {}
  /\ w' = ChargeTick(w)
  /\ IF Finishing(w) # {} THEN phase' = "finished" /\ todo' = Finishing(w)
                          ELSE Goto(w', "waiting")
  /\ UNCHANGED <<offer, occupied>>

FinishStep(r) ==
  /\ phase = "finished" /\ r \in todo /\ todo' = todo \ {r}
  /\ w' = FinishTurn(w, r)
  /\ UNCHANGED <<phase, offer, occupied>>

WaitingStep(r) == Turn("waiting", r) /\ w' = WaitingTurn(w, r)

\* The task generator's new tasks, then the scheduler's view of the fleet.
GenerateTasks ==
  /\ phase = "waiting" /\ todo = {}
  /\ \E new \in SUBSET {t \in Tasks : w.status[t] = "ABSENT"} :
       w' = [w EXCEPT !.status = [t \in Tasks |-> IF t \in new THEN "PENDING"
                                                  ELSE @[t]]]
  /\ phase' = "assign"
  /\ todo' = {r \in Robots : CanAccept(w', r)}
  /\ offer' = {t \in Tasks : w'.status[t] \in {"PENDING", "INTERRUPTED"}}
  /\ UNCHANGED occupied

\* The scheduler gives each robot and each task out at most once.
AssignStep(r, t) ==
  /\ phase = "assign" /\ r \in todo /\ t \in offer
  /\ todo' = todo \ {r} /\ offer' = offer \ {t}
  /\ w' = AssignTurn(w, r, t)
  /\ UNCHANGED <<phase, occupied>>

EndAssign ==
  /\ phase = "assign" /\ Goto(w, "battery")
  /\ offer' = {}
  /\ UNCHANGED <<w, occupied>>

BatteryStep(r) == Turn("battery", r) /\ w' = BatteryTurn(w, r)

\* A robot that has been asked to yield (status MOVING) is passed over.
IdleStep(r) == Turn("idle", r) /\ (w' = IdleTurn(w, r) \/ UNCHANGED w)

\* _advance_robots reads the occupied cells once, before its loop.
BeginAdvance ==
  /\ phase = "idle" /\ todo = {} /\ Goto(w, "advance")
  /\ occupied' = {w.cell[r] : r \in Robots}
  /\ UNCHANGED <<w, offer>>

\* The turn of r in _advance_robots; replanning robots go first, so any order.
AdvanceTurn(r) ==
  /\ phase = "advance" /\ r \in todo
  /\ todo' = todo \ {r}
  /\ UNCHANGED <<phase, offer>>

\* r enters c, as far as the loop's occupied set knows a free cell.
Enters(r, c) ==
  /\ Mobile(w, r)
  /\ c \in Neighbours[w.cell[r]] \ occupied
  /\ occupied' = (occupied \ {w.cell[r]}) \union {c}

\* A step of the route: arrival, or the battery check of an active task.
RouteStep(r, c) ==
  /\ AdvanceTurn(r) /\ Enters(r, c) /\ Engaged(w, r)
  /\ w' = IF Arrives(w, r, c) THEN HandleArrival(Move(w, r, c), r)
          ELSE CheckBattery(Move(w, r, c), r)

\* A yield step after which no route could be resumed: no battery check.
YieldStep(r, c) ==
  /\ AdvanceTurn(r) /\ Enters(r, c) /\ ~Arrives(w, r, c)
  /\ w' = Move(w, r, c)

\* r does not move: it has no route, is blocked, or lost its turn to a failure or
\* a charger.
HoldStep(r) == AdvanceTurn(r) /\ UNCHANGED <<w, occupied>>

\* r does not move and resumes its route or starts a yield, or makes the
\* neighbour that blocks it start one: the battery of that robot is checked.
RecheckStep(r, q) ==
  /\ AdvanceTurn(r) /\ Mobile(w, r) /\ Mobile(w, q)
  /\ q = r \/ w.cell[q] \in Neighbours[w.cell[r]]
  /\ w' = CheckBattery(w, q)
  /\ UNCHANGED occupied

\* _prune_old_tasks; its age limit is left open.
EndTick ==
  /\ phase = "advance" /\ todo = {}
  /\ \E old \in SUBSET {t \in Tasks : w.status[t] \in {"COMPLETED", "FAILED"}} :
       w' = [w EXCEPT !.status = [t \in Tasks |-> IF t \in old THEN "PRUNED"
                                                  ELSE @[t]]]
  /\ phase' = "between" /\ occupied' = {}
  /\ UNCHANGED <<todo, offer>>

\* A loop that has visited everyone ends.
EndLoop ==
  /\ todo = {}
  /\ \/ phase = "repairs"  /\ Goto(w, "failures")
     \/ phase = "finished" /\ Goto(w, "waiting")
     \/ phase = "battery"  /\ Goto(w, "idle")
  /\ UNCHANGED <<w, offer, occupied>>

RobotStep(r) ==
  \/ RepairStep(r) \/ FailStep(r) \/ SurviveStep(r)
  \/ FinishStep(r) \/ WaitingStep(r)
  \/ \E t \in Tasks : AssignStep(r, t)
  \/ BatteryStep(r) \/ IdleStep(r)
  \/ \E c \in Cells : RouteStep(r, c) \/ YieldStep(r, c)
  \/ HoldStep(r)
  \/ \E q \in Robots : RecheckStep(r, q)

TickStep ==
  \/ StartTick \/ ChargeStep \/ GenerateTasks \/ EndAssign
  \/ BeginAdvance \/ EndTick \/ EndLoop

Tick == TickStep \/ \E r \in Robots : RobotStep(r)

Next == Reset \/ Tick

\* The thread of a running simulation keeps ticking; nobody has to reset it.
Spec == Init /\ [][Next]_vars /\ WF_vars(Tick)

-----------------------------------------------------------------------------
(* Properties.                                                             *)

\* Every component of the simulation's state has its type in every phase.
TypeOK ==
  /\ w \in WorldType
  /\ phase \in Phases
  /\ todo \subseteq Robots /\ offer \subseteq Tasks /\ occupied \subseteq Cells

\* station.tick() has released r, its turn in the loop over the finished is due.
Released(r) == phase = "finished" /\ r \in todo

\* The robots' modes and the station's books (active, active_cells,
\* reserved_cells, waiting) tell the same story after every handler.
StationAgrees ==
  \A r \in Robots :
    /\ w.active[r] > 0 <=> w.mode[r] = "CHARGING" /\ ~Released(r)
    /\ w.reserved[r] # NoCell <=> w.mode[r] = "TO_CHARGER"
    /\ r \in w.waiting <=> w.mode[r] = "WAITING"
    /\ w.slot[r] = IF w.active[r] > 0 THEN w.cell[r] ELSE NoCell
    /\ w.active[r] > 0 => w.cell[r] \in Chargers
    /\ w.reserved[r] # NoCell =>
         w.reserved[r] = w.goal[r] /\ w.goal[r] \in Chargers

\* Robots that charge and robots that hold a reservation never exceed the
\* station's capacity together.
SlotsRespected == Cardinality(Active(w)) + Cardinality(Reserved(w)) <= Slots

\* A charging robot is alone in its cell, and no cell is reserved twice.
ChargersExclusive ==
  /\ \A r \in Active(w) : w.cell[r] \notin OthersAt(w, r)
  /\ \A r, q \in Reserved(w) : r # q => w.reserved[r] # w.reserved[q]

\* current_task_id and assigned_robot_id agree, a task has one robot, and only
\* a moving robot has a task.
TaskBinding ==
  /\ \A r \in Robots, t \in Tasks :
       w.task[r] = t <=> w.status[t] = "ASSIGNED" /\ w.holder[t] = r
  /\ \A t \in Tasks : w.status[t] = "ASSIGNED" => w.holder[t] \in Robots
  /\ \A r \in Robots : w.task[r] # NoTask => w.mode[r] = "MOVING"

\* A robot with a task heads for the place its leg of the task asks for, a
\* robot in mode MOVING always has somewhere to go, and no robot rests on its
\* goal with the arrival unhandled.
GoalAgrees ==
  \A r \in Robots :
    /\ \A t \in Tasks : w.task[r] = t =>
         w.goal[r] = IF w.leg[t] = "TO_PICKUP" THEN w.pickup[t] ELSE Dropoff[t]
    /\ w.mode[r] = "MOVING" => w.goal[r] # NoCell
    /\ Engaged(w, r) => w.goal[r] # w.cell[r]

\* The load state follows the task: carried exactly on the dropoff leg, on the
\* shelf only at the source, delivered only with the task done.
LoadAgrees ==
  \A t \in Tasks :
    /\ w.load[t] = "CARRIED" <=> w.status[t] = "ASSIGNED" /\ w.leg[t] = "TO_DROPOFF"
    /\ w.load[t] = "ON_SHELF" => w.pickup[t] = Source[t]
    /\ w.load[t] = "DELIVERED" <=> w.status[t] \in {"COMPLETED", "PRUNED"}

\* No task is lost to a missing route: the feasibility check of the assignment
\* rules out the failure branch of _route_robot_to.
NoTaskFails == \A t \in Tasks : w.status[t] # "FAILED"

\* Where the goods of a task are.
LoadCell(s, t) ==
  CASE s.load[t] = "CARRIED"   -> s.cell[s.holder[t]]
    [] s.load[t] = "DELIVERED" -> Dropoff[t]
    [] OTHER                   -> s.pickup[t]

\* Goods move only on a robot that steps, one cell at a time: no interruption,
\* tow, relocation or reassignment teleports them.
LoadNeverTeleports ==
  [][ w' # ResetWorld =>
        \A t \in Tasks :
          LET a == LoadCell(w, t)
              b == LoadCell(w', t)
          IN a = b \/ (w.load[t] = "CARRIED" /\ b \in Neighbours[a]) ]_vars

\* A robot leaves its cell on its own only with energy in its battery.
PoweredMoves ==
  [][ \A r \in Robots :
        phase = "advance" /\ r \in todo \ todo' /\ w'.cell[r] # w.cell[r]
          => w.battery[r] > 0 ]_vars

\* A robot that loses its task to an interruption does not stay in service on a
\* partly empty battery: it is down, or bound for, at or waiting for a charger.
InterruptedSeeksCharge ==
  [][ \A r \in Robots, t \in Tasks :
        w.task[r] = t /\ w'.status[t] = "INTERRUPTED"
          => w'.mode[r] \in {"FAILED", "TO_CHARGER", "WAITING", "CHARGING"}
             \/ w'.battery[r] = Full ]_vars

\* Whatever takes a robot out of service ends: repairs and charging finish, and
\* no fault, relocation or reassignment stops their timers.
BackInService ==
  \A r \in Robots : w.mode[r] \in {"FAILED", "CHARGING"} ~> Mobile(w, r)

\* A cell with a robot in it is not entered.
OccupiedBlocks ==
  [][ \A r \in Robots, c \in Cells :
        RouteStep(r, c) \/ YieldStep(r, c) => c \notin OthersAt(w, r) ]_vars
=============================================================================
