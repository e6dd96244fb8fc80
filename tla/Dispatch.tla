------------------------------ MODULE Dispatch ------------------------------
(***************************************************************************)
(* One headless trial, tick by tick (experiment/headless.py driving        *)
(* simulation/simulation.py): orders come in, a scheduler hands the tasks  *)
(* to robots, robots carry them, fail and are repaired, and the recorder   *)
(* and the collector see a snapshot after every tick.                      *)
(*                                                                         *)
(* Here the scheduler, the planner and the demand model are the code's;    *)
(* batteries do not drain and every robot has a reach, charging and the    *)
(* bays for repairs are Fleet's, and what a blocked robot does is          *)
(* Traffic's: it waits or takes another way.                               *)
(***************************************************************************)
EXTENDS Scheduling, Demand, Recorder

CONSTANTS
  Open,         \* the passable cells
  Start,        \* [robots -> cells], where robots begin
  Reach,        \* [robots -> Nat], the cells a robot's battery is good for
  Demands,      \* the demand configurations
  Dispatchers,  \* the schedulers, of Schedulers
  Duration,     \* max_ticks of a run that stops after fixed ticks
  Target,       \* target_tasks of a run that stops after a workload
  MaxAge,       \* ticks for which an ended task is kept
  RepairTicks,  \* mttr_ticks
  MaxFailures   \* bound: failures in a run

Robots == DOMAIN Start

\* There is a way between any two cells.
Connected == \A a, b \in Open : b \in WithinSteps(Open, a, Cardinality(Open))

ASSUME DispatchAssumption ==
  /\ IsFiniteSet(Robots) /\ Robots # {} /\ Robots \subseteq Nat \ {0}
  /\ IsFiniteSet(Open) /\ Open \subseteq Nat \X Nat /\ Start \in [Robots -> Open]
  /\ Reach \in [Robots -> Nat] /\ Resolve \in [DOMAIN Resolve -> Open]
  /\ Dispatchers \subseteq Schedulers /\ \A demand \in Demands : IsDemand(demand)
  /\ {Duration, Target, RepairTicks} \subseteq Nat \ {0} /\ {MaxAge, MaxFailures} \subseteq Nat

VARIABLES
  plan,         \* [demand, scheduler, target]: the trial's configuration
  generator,    \* the task generator's state
  tasks,        \* _tasks: [number -> task]
  robots,       \* _robots: [id -> robot]
  tick,         \* _tick_count
  phase,        \* the part of _tick that runs, or how the trial ended
  todo,         \* the robots that await their turn in a part with a loop over them
  answer,       \* the assignments that are yet to be followed
  counts,       \* _metrics
  memory, log, row,   \* of the recorder: its memory, events and last row
  collected,    \* of the collector
  \* history variables
  released,     \* the tasks the generator made, in order
  refused       \* the tasks a robot was refused in the last assignment

world == <<generator, tasks, robots, counts>>
books == <<memory, log, row, collected>>
loops == <<todo, answer>>
vars  == <<plan, world, tick, phase, loops, books, released, refused>>

-----------------------------------------------------------------------------
(* Robots and tasks.  An operator on w, a record of tasks, robots and      *)
(* counts, is one handler.                                                 *)

Waiting(t) == t.status \in {"Pending", "Interrupted"}

\* _robot_can_accept_task; a robot with a route is not idle.
CanAccept(robot) == robot.task = None /\ robot.route = <<>> /\ robot.mode = "Idle"

CellsOf(w, Ids) == {w.robots[r].cell : r \in Ids}
Others(r) == Robots \ {r}

\* _battery_feasible_for_new_task: failed robots are in the way.
WayAround(cells, from, to) ==
  IF to \in cells THEN NoPath ELSE BFSPath(Open, from, to, cells)
Within(reach, way, haul) ==
  NoPath \notin {way, haul} /\ Len(way) + Len(haul) <= reach

FeasibleTask(w, r, t) ==
  LET failed == CellsOf(w, {q \in Others(r) : w.robots[q].mode = "Failed"})
      task == w.tasks[t]
  IN  Within(Reach[r], WayAround(failed, w.robots[r].cell, task.pickup),
                       WayAround(failed, task.pickup, task.dropoff))

\* w with another robot r, and task t, and other counts.
With(w, r, robot, t, task, tally) ==
  [tasks |-> [w.tasks EXCEPT ![t] = task], robots |-> [w.robots EXCEPT ![r] = robot],
   counts |-> tally, tick |-> w.tick]
WithRobot(w, r, robot, tally) ==
  [tasks |-> w.tasks, robots |-> [w.robots EXCEPT ![r] = robot],
   counts |-> tally, tick |-> w.tick]

\* _handle_arrival at the dropoff.
Complete(w, r) ==
  LET t == w.robots[r].task
  IN  With(w, r, [w.robots[r] EXCEPT !.task = None, !.mode = "Idle", !.memo = None,
                                     !.blocked = 0, !.route = <<>>],
              t, [w.tasks[t] EXCEPT !.status = "Completed", !.done = w.tick],
           [w.counts EXCEPT !.completed = @ + 1,
                            !.cycle     = @ + w.tick - w.tasks[t].created])

\* _route_robot_to, when there is a route (Connected, and NoTaskFails of Fleet).
RouteTo(w, r, goal) ==
  LET d == [open |-> Open]
      route == RouteOrThrough(d, w.robots[r].cell, goal, CellsOf(w, Others(r)))
  IN  WithRobot(w, r, [w.robots[r] EXCEPT !.route = route], w.counts)

\* _handle_arrival: a robot that is where it should be goes on at once.
CompleteIfThere(w, r) == IF w.robots[r].route = <<>> THEN Complete(w, r) ELSE w

\* _handle_arrival at the pickup.
Load(w, r) ==
  LET t == w.robots[r].task
  IN  With(w, r, [w.robots[r] EXCEPT !.blocked = 0],
              t, [w.tasks[t] EXCEPT !.leg = "dropoff", !.load = "Carried"], w.counts)

Arrive(w, r) ==
  LET task == w.tasks[w.robots[r].task]
  IN  IF task.leg = "dropoff" THEN Complete(w, r)
      ELSE CompleteIfThere(RouteTo(Load(w, r), r, task.dropoff), r)

ArriveIfThere(w, r) == IF w.robots[r].route = <<>> THEN Arrive(w, r) ELSE w

\* _begin_task: the robot has the task ...
Take(w, r, t) ==
  LET task == w.tasks[t]
      changes == task.interruptions > 0 /\ task.last \notin {None, r}
  IN  With(w, r, [w.robots[r] EXCEPT !.task = t, !.mode = "Moving", !.blocked = 0,
                                     !.memo = None],
              t, [task EXCEPT !.status = "Assigned", !.robot = r, !.leg = "pickup",
                              !.last = r],
           [w.counts EXCEPT !.assigned   = @ + 1,
                            !.waiting    = @ + w.tick - task.created,
                            !.reassigned = @ + IF changes THEN 1 ELSE 0])

\* ... and goes to its pickup.
BeginTask(w, r, t) == ArriveIfThere(RouteTo(Take(w, r, t), r, w.tasks[t].pickup), r)

\* _interrupt_current_task: goods on the robot are left where it stands.
Interrupt(w, r) ==
  LET t == w.robots[r].task
      carried == w.tasks[t].leg = "dropoff" \/ w.tasks[t].load = "Carried"
  IN  With(w, r, [w.robots[r] EXCEPT !.task = None, !.route = <<>>, !.memo = t],
              t, [w.tasks[t] EXCEPT
                    !.status = "Interrupted", !.robot = None, !.leg = "pickup",
                    !.interruptions = @ + 1, !.last = r,
                    !.load   = IF carried THEN "Staged" ELSE @,
                    !.pickup = IF carried THEN w.robots[r].cell ELSE @],
           [w.counts EXCEPT !.interrupted = @ + 1])

\* _fail_robot.
Fail(w, r) ==
  LET stopped == IF w.robots[r].task = None THEN w ELSE Interrupt(w, r)
  IN  WithRobot(stopped, r, [stopped.robots[r] EXCEPT !.mode = "Failed", !.route = <<>>,
                                                      !.blocked = 0, !.repair = RepairTicks],
                [stopped.counts EXCEPT !.failures = @ + 1])

\* _update_robot_repairs: a tick of the repair, and the end of it.
Mend(w, r) == WithRobot(w, r, [w.robots[r] EXCEPT !.repair = @ - 1], w.counts)
Mended(w, r) ==
  WithRobot(w, r, [w.robots[r] EXCEPT !.repair = @ - 1, !.mode = "Idle", !.memo = None],
            w.counts)

\* A fault: a repaired robot takes up the task it remembers, whoever has it now.
RepairBlindly(w, r) ==
  LET t == w.robots[r].memo
  IN  IF w.robots[r].mode # "Failed" THEN w
      ELSE IF w.robots[r].repair > 1 THEN Mend(w, r)
      ELSE IF t \in DOMAIN w.tasks THEN BeginTask(Mended(w, r), r, t)
      ELSE Mended(w, r)

\* _update_robot_repairs and _try_reclaim_interrupted_task for one robot.
Repair(w, r) ==
  LET t == w.robots[r].memo
      up == Mended(w, r)
  IN  IF w.robots[r].mode # "Failed" THEN w
      ELSE IF w.robots[r].repair > 1 THEN Mend(w, r)
      ELSE IF /\ t \in DOMAIN w.tasks /\ w.tasks[t].status = "Interrupted"
              /\ FeasibleTask(up, r, t)
      THEN BeginTask(up, r, t) ELSE up

-----------------------------------------------------------------------------
(* _tick, in parts.                                                        *)

World == [tasks |-> tasks, robots |-> robots, counts |-> counts, tick |-> tick]
Becomes(w) == tasks' = w.tasks /\ robots' = w.robots /\ counts' = w.counts

\* A robot has its turn in a part of the tick that loops over the robots; after
\* the last one the next part begins.
Turn(part, r, next) ==
  /\ phase = part /\ r \in todo /\ \A q \in todo : r <= q
  /\ IF todo = {r} THEN phase' = next /\ todo' = Robots
     ELSE phase' = part /\ todo' = todo \ {r}

\* _update_robot_repairs.
RepairTurn(r) ==
  /\ Turn("repairs", r, "failures")
  /\ Becomes(Repair(World, r))
  /\ UNCHANGED <<plan, generator, tick, answer, books, released, refused>>

\* The dice of _update_failures_and_repairs, for a robot that is not out of order.
FailureTurn(r) ==
  /\ Turn("failures", r, "generate")
  /\ \/ robots[r].mode # "Failed" /\ counts.failures < MaxFailures /\ Becomes(Fail(World, r))
     \/ Becomes(World)
  /\ UNCHANGED <<plan, generator, tick, answer, books, released, refused>>

\* The tasks that enter _tasks.
Fresh(task) ==
  [pickup |-> Resolve[task.pickup], dropoff |-> Resolve[task.dropoff],
   priority |-> task.priority, created |-> task.created, status |-> "Pending",
   robot |-> None, leg |-> "pickup", load |-> "On shelf", done |-> None,
   last |-> None, interruptions |-> 0]

Entering(w, made) ==
  LET new == {made[i] : i \in DOMAIN made}
      numbers == {t.number : t \in new}
      task(n) == CHOOSE t \in new : t.number = n
  IN  [tasks |-> [n \in DOMAIN w.tasks \union numbers |->
                    IF n \in numbers THEN Fresh(task(n)) ELSE w.tasks[n]],
       robots |-> w.robots,
       counts |-> [w.counts EXCEPT !.generated = @ + Len(made)], tick |-> w.tick]

\* _task_generator.step and record_generated.
Generate ==
  /\ phase = "generate"
  /\ \E step \in Steps(plan.demand, generator, tick) :
       /\ ~step.raised
       /\ generator' = step.g
       /\ Becomes(Entering(World, step.tasks))
       /\ released' = released \o step.tasks
  /\ phase' = "assign"
  /\ UNCHANGED <<plan, tick, loops, books, refused>>

\* An order for an unknown place: step raises through _tick, and the trial is
\* reported as failed.
GenerateRaises ==
  /\ phase = "generate"
  /\ \E step \in Steps(plan.demand, generator, tick) : step.raised
  /\ phase' = "raised"
  /\ UNCHANGED <<plan, world, tick, loops, books, released, refused>>

\* What the scheduler is given.
Question ==
  [open    |-> Open,
   blocked |-> CellsOf(World, Robots),
   tasks   |-> [t \in {n \in DOMAIN tasks : Waiting(tasks[n])} |-> tasks[t]],
   robots  |-> [r \in Robots |-> [cell |-> robots[r].cell, battery |-> Reach[r],
                                  ready |-> CanAccept(robots[r])]]]

\* What is left of the answer; after the last assignment the robots move.
Left(assignments) ==
  /\ answer' = assignments
  /\ phase' = IF assignments = <<>> THEN "advance" ELSE "follow"

\* _assign_pending_tasks asks its scheduler ...
Ask ==
  /\ phase = "assign"
  /\ Left(Assignments(plan.scheduler, Question))
  /\ refused' = {}
  /\ UNCHANGED <<plan, world, tick, todo, books, released>>

\* ... and follows the answer: a robot that cannot do it is passed over.
Follow ==
  LET t == Head(answer)[1]
      r == Head(answer)[2]
      may == /\ t \in DOMAIN tasks /\ r \in Robots
             /\ Waiting(tasks[t]) /\ CanAccept(robots[r])
      can == may /\ FeasibleTask(World, r, t)
  IN  /\ phase = "follow"
      /\ Left(Tail(answer))
      /\ Becomes(IF can THEN BeginTask(World, r, t) ELSE World)
      /\ refused' = IF may /\ ~can THEN refused \union {t} ELSE refused
      /\ UNCHANGED <<plan, generator, tick, todo, books, released>>

\* _advance_robots for one robot: it is held up, and may get another route, ...
Held(w, r) ==
  WithRobot(w, r, [w.robots[r] EXCEPT !.blocked = @ + 1],
            [w.counts EXCEPT !.blocked = @ + 1])

Replanned(w, r, route) ==
  WithRobot(w, r, [w.robots[r] EXCEPT !.route = route], [w.counts EXCEPT !.replans = @ + 1])

\* ... or goes a step: the worlds to which its turn may lead.
Moved(w, r) ==
  WithRobot(w, r, [w.robots[r] EXCEPT !.cell = Head(w.robots[r].route), !.blocked = 0,
                                      !.route = Tail(@)], w.counts)

Turns(w, r) ==
  LET robot == w.robots[r]
      taken == CellsOf(w, Others(r))
      other == BFSPath(Open, robot.cell, Last(robot.route), taken)
  IN  IF robot.route = <<>> THEN {w}
      ELSE IF Head(robot.route) \in taken
      THEN {Held(w, r)} \union
           (IF other = NoPath THEN {} ELSE {Replanned(Held(w, r), r, other)})
      ELSE {ArriveIfThere(Moved(w, r), r)}

AdvanceTurn(r) ==
  /\ Turn("advance", r, "record")
  /\ \E w \in Turns(World, r) : Becomes(w)
  /\ UNCHANGED <<plan, generator, tick, answer, books, released, refused>>

\* A fault: tasks that have waited too long are dropped as well.
KeptWhileYoung == {t \in DOMAIN tasks :
  Waiting(tasks[t]) \/ tasks[t].status = "Completed" => tick - tasks[t].created <= MaxAge}

\* _prune_old_tasks.
Kept == {t \in DOMAIN tasks :
           tasks[t].status = "Completed" => tick - tasks[t].done <= MaxAge}

\* snapshot_simulation.
Snapshot ==
  [tick   |-> tick + 1,
   counts |-> [name \in DOMAIN NoCounts |->
                 IF name = "failed" THEN 0 ELSE counts[name]],
   tasks  |-> [t \in Kept |-> tasks[t]],
   robots |-> [r \in Robots |-> [mode |-> robots[r].mode, blocked |-> robots[r].blocked,
                                 replanning |-> FALSE]]]

\* evaluate_stop_condition.
Stop(s) ==
  CASE plan.target /\ s.counts.completed >= Target -> "target_reached"
    [] OTHER -> IF s.tick >= Duration THEN "max_ticks_reached" ELSE "repairs"

\* The end of _tick, and what the trial does with the snapshot.
Record ==
  /\ phase = "record"
  /\ LET s == Snapshot
     IN  /\ memory' = Remember(memory, s)
         /\ log' = log \o Events(memory, s)
         /\ row' = Row(memory, s)
         /\ collected' = Observe(collected, s)
         /\ tasks' = s.tasks
         /\ tick' = s.tick
         /\ phase' = Stop(s)
  /\ UNCHANGED <<plan, generator, robots, counts, loops, released, refused>>

\* The loop returns its result.
Ended ==
  /\ phase \in {"raised", "target_reached", "max_ticks_reached"}
  /\ UNCHANGED vars

Init ==
  /\ plan \in [demand : Demands, scheduler : Dispatchers, target : BOOLEAN]
  /\ generator = NewGenerator
  /\ tasks = <<>>
  /\ robots = [r \in Robots |-> [cell |-> Start[r], task |-> None, mode |-> "Idle",
                                 memo |-> None, blocked |-> 0, repair |-> 0,
                                 route |-> <<>>]]
  /\ tick = 0 /\ phase = "repairs" /\ todo = Robots /\ answer = <<>>
  /\ counts = [generated |-> 0, assigned |-> 0, completed |-> 0, waiting |-> 0,
               cycle |-> 0, blocked |-> 0, replans |-> 0, interrupted |-> 0,
               reassigned |-> 0, failures |-> 0]
  /\ memory = NoMemory /\ log = <<>> /\ row = <<>> /\ collected = <<>>
  /\ released = <<>> /\ refused = {}

Next == \/ \E r \in Robots : RepairTurn(r) \/ FailureTurn(r) \/ AdvanceTurn(r)
        \/ Generate \/ GenerateRaises \/ Ask \/ Follow \/ Record \/ Ended

Spec == Init /\ [][Next]_vars

-----------------------------------------------------------------------------
(* Properties.                                                             *)

RobotType ==
  [cell : Open, task : Nat, mode : {"Idle", "Moving", "Failed"}, memo : Nat,
   blocked : Nat, repair : 0..RepairTicks, route : Seq(Open)]

TaskType ==
  [pickup : Open, dropoff : Open, priority : Int, created : 0..Duration,
   status : {"Pending", "Assigned", "Interrupted", "Completed"}, robot : Nat,
   leg : {"pickup", "dropoff"}, load : {"On shelf", "Carried", "Staged"},
   done : 0..Duration, last : Nat, interruptions : 0..MaxFailures]

\* The parts of a trial have the values the code gives them, and a robot and
\* its task name each other.
TypeOK ==
  /\ phase \in {"repairs", "failures", "generate", "assign", "follow", "advance", "record",
                "raised", "target_reached", "max_ticks_reached"}
  /\ todo \in (SUBSET Robots) \ {{}}
  /\ tick \in 0..Duration
  /\ robots \in [Robots -> RobotType]
  /\ \A t \in DOMAIN tasks : tasks[t] \in TaskType
  /\ \A r \in Robots : LET t == robots[r].task
                       IN  t # None => /\ t \in DOMAIN tasks
                                       /\ tasks[t].status = "Assigned"
                                       /\ tasks[t].robot = r

\* The tick up to which orders have been asked for.
AskedUntil == IF phase \in {"assign", "follow", "advance", "record"} THEN tick ELSE tick - 1

\* The orders of a file are released once each, at their ticks, in the order of
\* the ticks and then of the file, and nothing else is, except that those before
\* the generator's start are not; the types of the default generator come once
\* whenever they are due (task_generator.py, demand.py).
OrdersOnce ==
  LET events == plan.demand.events
      due == {i \in DOMAIN events : events[i].tick \in StartTick..AskedUntil}
      ahead(i) == {j \in due : \/ events[j].tick < events[i].tick
                               \/ events[j].tick = events[i].tick /\ j < i}
      of(type, t) == {i \in DOMAIN released : released[i].type = type
                                             /\ released[i].created = t}
      comes(type, t) == LET first == NewGenerator.due[type]
                        IN  t >= first /\ (t - first) % Intervals[type] = 0
  IN  /\ \A i \in DOMAIN released : released[i].number = i
      /\ plan.demand.mode = "csv_orders" =>
           /\ Len(released) = Cardinality(due)
           /\ \A i \in due : LET task == released[Cardinality(ahead(i)) + 1]
                             IN  task.type = events[i].type /\ task.created = events[i].tick
      /\ plan.demand.mode = "legacy" =>
           \A t \in 0..AskedUntil, type \in TypeSet :
             Cardinality(of(type, t)) = IF comes(type, t) THEN 1 ELSE 0

\* Whatever is asked of the planners, they return a route through cells that
\* are free if there is one: the breadth-first planner and A* a shortest one,
\* weighted A* one that is longer by at most its weight (pathfinding.py).
PlannersDeliver ==
  phase = "assign" =>
    \A r \in Robots, t \in DOMAIN tasks :
      LET start == robots[r].cell
          goal  == IF tasks[t].leg = "pickup" THEN tasks[t].pickup ELSE tasks[t].dropoff
          next  == {robots[q].route[1] : q \in {p \in Others(r) : robots[p].route # <<>>}}
          taken == CellsOf(World, Others(r)) \union next
          owes(path, num, den) == IsPlan(path, Free(Open, start, goal, taken),
                                         start, goal, num, den)
      IN  Waiting(tasks[t]) \/ tasks[t].robot = r =>
          /\ owes(BFSPath(Open, start, goal, taken), 1, 1)
          /\ owes(AStarPath(Open, start, goal, taken, 1, 1), 1, 1)
          /\ owes(AStarPath(Open, start, goal, taken, 3, 2), 3, 2)

\* The order in which the schedulers promise to serve tasks: the most urgent
\* (or, for "fifo", the oldest) first, and the older or more urgent of equals.
\* A small priority number is urgent, except to the legacy cost scheduler.
Ahead(t, u) ==
  LET urgent == IF plan.scheduler = "cost"
                THEN tasks[u].priority - tasks[t].priority
                ELSE tasks[t].priority - tasks[u].priority
      younger == tasks[t].created - tasks[u].created
  IN  IF plan.scheduler = "fifo"
      THEN younger < 0 \/ (younger = 0 /\ urgent < 0)
      ELSE urgent < 0 \/ (urgent = 0 /\ younger < 0)

\* A task is not given to a robot while one ahead of it stays behind, unless
\* that one's robot had not the energy for it, after which nobody else is tried.
NoOvertaking ==
  [][\A t, u \in DOMAIN tasks :
       /\ Follow /\ Waiting(tasks[t]) /\ Waiting(tasks[u])
       /\ plan.scheduler # "auction"
       /\ Waiting(tasks'[t]) /\ ~Waiting(tasks'[u])
       => t \in refused' \/ ~Ahead(t, u)]_vars

\* The counters and the tasks that are left account for the same work, at every
\* moment (metrics.py): assignments that are not under way were completed or
\* interrupted, and a task is dropped only after it was completed.
BooksBalance ==
  LET are(status) == {t \in DOMAIN tasks : tasks[t].status = status}
  IN  /\ counts.assigned = counts.completed + counts.interrupted
                           + Cardinality(are("Assigned"))
      /\ counts.generated = Len(released)
      /\ Cardinality(DOMAIN tasks \ are("Completed")) = counts.generated - counts.completed

\* After a tick the log and the last row of the time series say the same of the
\* work as the counters and the tasks (recorder.py).
RecordsBalance ==
  LET are(status) == Count(DOMAIN tasks, LAMBDA t : tasks[t].status = status)
      events(kind) == Count(DOMAIN log, LAMBDA i : log[i].kind = kind)
      recorded == \/ phase = "repairs" /\ todo = Robots /\ tick > 0
                  \/ phase \in {"target_reached", "max_ticks_reached"}
  IN  recorded =>
        /\ events("task_created") = counts.generated
        /\ events("task_completed") = counts.completed
        /\ events("task_interrupted") <= counts.interrupted
        /\ row.outstanding = Cardinality(DOMAIN tasks) - are("Completed")
        /\ row.pending = are("Pending")
        /\ \A r \in Robots : row.robots[Bucket(robots[r])] > 0

\* The two ways to measure a trial agree: what the collector of headless runs
\* sees of a task (headless.py) and what is reconstructed from the events of a
\* recorded run (analysis/metrics.py) are the same cycle time and the same
\* first assignment, while the waiting times differ by the tick that the
\* snapshot is ahead of the task's own creation tick.
LifecyclesAgree ==
  LET l == LifecycleFromEvents(log)
  IN  /\ DOMAIN l = DOMAIN collected
      /\ \A t \in DOMAIN l :
           /\ l[t].created = collected[t].created + 1
           /\ l[t].assigned = collected[t].assigned
           /\ l[t].completed = IF collected[t].completed = None THEN None
                              ELSE collected[t].completed + 1
           /\ released[t].created = collected[t].created

\* What is recorded and collected of a trial tells one story, that of its
\* counters and tasks (recorder.py, headless.py, analysis/metrics.py).
RecordsAgree == RecordsBalance /\ LifecyclesAgree
============================================================================
