# Verification of the warehouse simulator

TLA+ models of the warehouse simulator in `src/`: a tick-based simulation of robots, tasks, batteries and a charging
station (`simulation/`), experiment tooling around it (`experiment/`), and a decision layer (`decision/`) whose Flask
endpoints run studies as background jobs. The modules are checked with TLC on small instances; with TLAPS the properties
that matter most are proved for every instance.

## Inventory

| Component | State | Operations | Interacts with | What is hard | What makes it correct |
|---|---|---|---|---|---|
| Charging station (`simulation/charging.py`) | active timers, active cells, reserved cells, waiting set | reserve, release_reservation, begin_charging, release, tick | called by the simulation | slots shared by charging and incoming robots | capacity is kept, entries do not leak |
| Simulation core (`simulation/simulation.py`, `robot.py`, `task.py`) | robots, tasks, battery, tick count | eight phases per tick; begin, route, arrive, interrupt, reclaim, charge, fail, repair, relocate, prune | planner, scheduler, conflict manager, station, metrics; one thread ticks, requests take the same lock | handlers call each other three deep and each changes robot, task and station; robots are relocated while others move | robot, task and station agree; goods do not teleport; robots come back into service |
| Conflict managers (`conflict.py`, `reservations.py`) | pair records, zone locks, vertex reservations | handle_blocked, make yield, advance, complete, release, clear, tick, allow_step | called from the movement loop, calls back into routing and battery checks | stale pair records, mutual blocking, a yielder that is interrupted | the loop's occupied cells keep robots apart, records stand for yields under way, a standoff ends |
| Path planners (`pathfinding.py`) | none | BFS, A*, weighted A* | simulation, schedulers, conflict managers | re-pushed and stale heap entries | a free route if there is one, at most the weight times the shortest |
| Schedulers (`scheduler.py`) | none | select_assignments | simulation, planners | greedy choices, ties, an answer the simulation refuses | urgent tasks first, each robot and task at most once |
| Task generator (`task_generator.py`), demand (`decision/demand.py`) | next number, next due tick per type, index into the order file | step, orders_at_tick | simulation | orders before the first tick, several at one tick | each order once, at its tick |
| Metrics (`metrics.py`) | counters | record_* | simulation | counts against task states | counters match events |
| Experiment runner (`experiment/runner.py`), `app.py` | phase, thread, stop reason; holder of runner and simulation | start, stop, reset, pause, resume, delete, finalize | Flask threads, runner thread, recorder | stop races the end of a run; replaced holders | a run is finalized once, with its own reason |
| Recorder (`experiment/recorder.py`), analysis (`analysis/metrics.py`) | what the last snapshot showed | record, task_lifecycle_from_events, blocked_episodes_from_events | runner, web pages | events derived from two snapshots, forgotten with pruned tasks | the log tells each life once and truly |
| Headless trials, factory, config (`experiment/headless.py`, `factory.py`) | the trial, its collector | build, tick, observe, evaluate the stop condition | everything | the same metrics by another way | agreement with a recorded run |
| Decision jobs (`decision/jobs.py`) | jobs, JSON file, cancel events, executor queue | submit, cancel, run, progress, restart | Flask threads, worker threads, disk | saves that raise, deaths, cancel against start and completion | a job runs once, ends once, and is not lost |
| Trial pool (`decision/parallel.py`) | futures, results by place | run_trial_specs | process pool | completion order, a pool that breaks, a submission that raises | result i belongs to trial i |
| Studies (`monte_carlo.py`, `sensitivity.py`, `robustness.py`, `optimizer.py`, `multiobjective.py`, `study.py`) | rows, errors, best trial | run one trial after the other or a pool of them, poll an experiment's thread, conclude | experiment runner, trial pool, jobs | the thread ends between two looks at it; branches that skip a trial | rows belong to their trials; the conclusion follows from them |
| KPIs, cost, spatial, reports, web pages, front end, CLI | artifacts | read, format | files | - | arithmetic and formatting |

The hazards each component is exposed to are listed in `PROJECT.json`, at the line where they bite.

## Modules

```
ChargingStation <- Fleet <- MCFleet, Fleet_proofs <- FleetAgrees_proofs
Routing <- Routing_proofs
Routing <- Traffic <- MCTraffic; Traffic, Routing_proofs <- Traffic_proofs      Motion is refined by Traffic
Routing <- Scheduling, Demand, Recorder <- Dispatch <- MCDispatch; Dispatch, Routing_proofs <- Dispatch_proofs
Selection <- Studies <- MCStudies, Studies_proofs
ExperimentRunner <- ExperimentRunner_proofs
DecisionJobs <- MCDecisionJobs, DecisionJobs_proofs      JobLifecycle is refined by DecisionJobs
```

Three modules look at the simulation, each at another side of it. **Fleet** has every handler of robots, tasks and
station, and abstracts routes, schedulers and orders. **Traffic** has the routes and the conflict managers and abstracts
tasks and batteries. **Dispatch** has orders, planners, schedulers and what is recorded, and abstracts charging and
conflicts. Together they cover every phase of `_tick`; what one leaves out, its header names with the module that has it.

**ChargingStation** holds the operations of `charging.py` as operators on a record that has the station's four fields.
`active` and `active_cells` are functions with 0 and `NoCell` for an absent key.

**Fleet** is `Simulation._tick`. The variable `w` is the simulation: per robot the mode, task, interrupted task, cell,
route goal, battery, idle and repair ticks; per task the status, phase, load state, robot and resolved pickup; and the
station. A handler is an operator from `w` to `w` with every handler it calls, in the order of the code (for example
`Begin` = assign, route, handle an arrival that needs no move, check the battery, and if it does not suffice interrupt
and enter charging). A tick is a list of phases (`phase`), most of them a loop over robots (`todo`); each turn is one
step, so properties are checked after every handler and not only between ticks.

| Phase | Code | Actions |
|---|---|---|
| repairs, failures | `_update_failures_and_repairs` | RepairStep, FailStep, SurviveStep |
| station | `_update_charging_station` | ChargeStep, FinishStep, WaitingStep |
| tasks | task generator, `_assign_pending_tasks` | GenerateTasks, AssignStep, EndAssign |
| battery, idle | `_update_battery_checks`, `_update_idle_and_opportunistic_charging` | BatteryStep, IdleStep |
| movement | `_advance_robots` | BeginAdvance, RouteStep, YieldStep, HoldStep, RecheckStep |
| end | `_prune_old_tasks` | EndTick |

`Reset` is the request that resets a simulation; it takes the lock that a tick holds.

What Fleet abstracts:

- The path of a robot. A robot with a goal may step to any neighbouring cell that the movement loop takes to be free.
  That covers every planner and every conflict manager, which choose among such steps; it also allows detours they would
  not choose. Path lengths used in energy estimates are the parameter `Dist`, nearest-cell scans the parameter `Closest`.
- The scheduler, which may hand out pending tasks to eligible robots in any one-to-one way, and the generator, which may
  release any tasks.
- Energy is a natural number; the code uses floats. The linear charging curve is kept, rounded down.
- REPAIRING, a mode no code sets, `charge_target`, which follows the route goal, and counters of metrics.

**Routing** has the planners of `pathfinding.py` as recursive functions over their queue or heap: `BFSPath`, and
`AStarPath` with a weight `num/den` (1/1 is A*). Neighbours are tried in the order of the code, so ties fall as they do
there. `IsPlan` is the reference: a walk through free cells of at most `num/den` times the fewest steps, found by growing
balls, or no path where there is none. The loops of breadth-first search are functions of one state: the queue with
`came_from` (`BFSSearch`), and the cell reached with the path behind it (`TraceBack`).

**Traffic** is `_advance_robots` with the three managers of `conflict.py`. Handlers are operators on the record `s`:

| Code | Operators and actions |
|---|---|
| `handle_blocked_robot`, `_select_yielding_robot`, `_yield_score` | HandleBlocked, Contend, Preferred, YieldScore |
| `_make_robot_yield`, `_choose_yield_step`, `_can_yield` | MakeYield, YieldStep, CanYield |
| `advance_replanning_robot`, `_complete_yield` | AdvanceYield, Complete |
| `release_conflict`, `clear_conflicts_for_robot` | Release, Clear |
| `ZoneLockConflictManager`, `PrioritizedReservationConflictManager`: `tick`, `allow_step` | Claims, ClaimPrefix, Allowed |
| `_advance_robots`: order of the robots, a robot's turn | Sync; StandStill, YieldTurn, RouteTurn, DeniedTurn, BlockedTurn, StepTurn |
| `_attempt_resume_route`, `_handle_arrival`, `_check_battery_for_active_task` | Resume, Arrive, Check |

The set of occupied cells is `s.seen`: `Sync`, the start of the loop, reads it once, and only the robots' own steps update
it. `StepTurn`, `BlockedTurn` and `AdvanceYield` test the next cell against it, as the code does; where a handler calls
`_occupied_cells` itself (routes, escapes of a robot that is made to yield, free cells), the model looks at the robots as they
stand (`Occupied`). A robot can be put down in another cell (`PutDown`): towed to a bay when it fails (`Tow`), or off the
charger when it has to wait (`OffCharger`, at the end of an interruption, of an arrival at a charger that is taken, and of a
waiting robot's turn that brought nothing). The set is not told, so a robot may run into another one, or be held up by a
cell in which there is nobody any more (`HandleBlocked` with no robot in it).

| Code | Operators and actions |
|---|---|
| `_interrupt_current_task`, `_enter_charging`, `_handle_charging_arrival`, `_enter_waiting_without_reservation` | Interrupt, RouteToCell, ChargingArrival, EnterWaiting |
| `_relocate_waiting_robot_off_charger`, `_relocate_robot_to_maintenance`, `_try_exit_maintenance` | OffCharger, Tow, Revive |
| `_update_charger_waiting`, `_update_battery_checks`, `_fail_robot`, `_begin_task` | Dispatch, CheckBattery, Fail, Assign |

What a battery check finds is an input (`fate`): the robot carries on, waits, leaves for a free charging cell, or is
empty. `CheckBattery` is the same question asked outside the movement loop, `Dispatch` the charging cell, or the slot, that
a waiting robot gets later; when a robot is repaired or charged is free too. The last resort of `_choose_yield_step`, the
cells in `travel_history`, is a free choice of a free neighbour (`hint`). Battery bands in the scores are reduced to critical
or not (`Weak`). `blocked_ticks` are counted up to `MaxBlocked`, beyond every threshold the code compares them with. `stray`
is a history variable: in this loop, or in an earlier one and with two robots still in one cell, a robot was put down behind
the loop's back. **Motion** is the abstract specification of all this: the loop looks at the floor (`Look`), robots go to
cells next to them that it takes to be free (`Go`), and any robot may be put down in a cell that is free (`Put`).

**Scheduling** has the five schedulers of the factory as functions of one question: the open cells, the blocked ones, the
pending tasks and the robots. The loop of a sequential scheduler serves the first of the tasks that are left (`InTurn`). **Demand** has the default generator and the three demand models, as functions from the
generator's state to the outcomes of one call; a random draw is any value it may give. **Recorder** has the time series
and events of `recorder.py`, the collector of `headless.py` and the task lifecycles of `analysis/metrics.py`, as functions
of snapshots. **Dispatch** is a headless trial that puts them together, until a stop condition. As in Fleet, `phase` is
the part of the tick, `todo` the robots that have yet to get their turn in a loop over them, and each turn is one step;
`answer` is what is left to be done of the scheduler's answer.

| Phase | Code | Actions |
|---|---|---|
| repairs, failures | `_update_failures_and_repairs` | RepairTurn, FailureTurn |
| generate | task generator, `record_generated` | Generate, GenerateRaises |
| assign, follow | `_assign_pending_tasks` | Ask, Follow |
| advance | `_advance_robots` | AdvanceTurn |
| record | `_prune_old_tasks`, recorder, collector, stop condition | Record |

What a battery lets a robot do is reduced to the refusal of tasks that are too far (`Reach`): the battery check of an
active task (`_check_battery_for_active_task`), which would interrupt it on the way, is Fleet's, so that here only failures
interrupt, at most `MaxFailures` of them. That bound is the model's; the code has none.

Its `tasks`, `robots` and `counts` are those of the simulation; a handler is an operator from a record of them
(`World`) to one. `memory`, `log`, `row` and `collected` are the books that are kept of it. Two history variables
remember what was released and refused.

**Studies** is the loop of a decision study over its trials. A trial of a study with artifacts has an ExperimentRunner of
its own, whose thread (`thread`) goes on while `_execute_trial` polls it; every read of `is_active` and `finished` is a
step (`poll`). A headless study puts its trials into the pool of `parallel.py`: trials end in any order, an exception is
an ending, and a worker that dies breaks the pool, which ends all trials without a result; if trials are still being
submitted then, the exception leaves the study (`SubmitRaises`). A trial may end well and have no cycle time, because no
task was completed, or no cost: the metric is then `Missing`, as every selector of the code allows for. `StudyRunner` differs
from the other studies: it waits until the thread is not active, never asks whether it finished, and computes its row from
whatever the run has written (`Analyzes`). **Selection** is what studies
conclude: the recommended candidate (`robustness.py`), the best trial (`optimizer.py`), the Pareto trials
(`multiobjective.py`) and the tornado (`sensitivity.py`), with means as fractions.

**ExperimentRunner** is the runner and the holder of `app.py`. `run` has, for each experiment, the runner's fields, the
events and tick count of its simulation, its recorder and its directory; `pc` says where each runner's thread and each
request thread is. The thread and the requests share no lock, so every read that decides something and every write is a
step: `stop` is StopCheck, Name, Signal, Wait and then, if the thread died before it was done, `_finalize` (Compile,
Write or WriteRaises, Settle), which is also the thread's last call. `/api/experiment/start` is AskStart, Launch,
HoldRunner, HoldSimulation; `/api/reset` is AskReset, `stop`, Renew, Drop. A tick with its record and its stop condition
is one step, under the simulation's lock. A wait for the thread may end at any moment, which covers the two seconds after
which `join` gives up. `Operators` are the request threads that may start and reset.

**JobLifecycle** is the life of a job as `DecisionJobManager` lets its clients see it, without threads, queue or file. It is
a specification of the code, not of the documents, which do not let a running job be cancelled (see below).
**DecisionJobs** is the manager: requests, the executor's queue and workers, the JSON file, saves that raise and deaths
of the process. Each block under the manager's lock is one step. `FollowsLifecycle` states that it implements JobLifecycle
with `state` = the statuses and `asked` = the cancel events.

## Runs

| Run | Shows | Bounds |
|---|---|---|
| fleet | types, slot capacity, goals, station books, assignments, loads, no task lost to routing, no teleporting goods, interrupted robots seek a charger, no move on an empty battery | 2 robots (one may fail at random), 2 tasks (the pickup of one is cut off), 1 slot, 2 charging cells, 1 bay |
| fleet_service | liveness: failed and charging robots are back in service; exclusive chargers | 2 robots, no tasks, 2 slots, long repairs |
| fleet_occupied | finding 1 | 2 robots, 1 task |
| traffic | types, robots share a cell only where one was put down during the loop, records of conflicts that hold, refinement of Motion, two robots that face each other get out of it | 3 robots on a ring of 4 cells, one a charger, one a bay; each manager; thresholds of 1, cooldown 2, lookahead and horizon 2; one robot may fail |
| traffic_mutual | finding 3 | 4 robots on two aisles of 3 and 4 cells, joined by one cell, which holds the charger; zone locks; otherwise as traffic |
| dispatch | each order once, planners against shortest routes, tasks handed out in order, counters and tasks that balance after every handler, records that agree with them and with one another | 2 robots on 3 x 2 cells, 8 ticks, 5 demands, 5 schedulers, 1 failure |
| studies | rows belong to their trials, progress is true, conclusions follow from the trials | one study of each kind and some variants, 2 to 4 trials, metrics missing, 1 and 2, pools of 1 and 2 |
| mc_full | finding 2 | one Monte Carlo study of 3 trials, with artifacts and a progress callback |
| experiments | at most one experiment goes on, and requests act on it | 2 experiments, 1 client that starts, stops and resets, 1 tick |
| experiment_stop | types, recorder open while the thread runs, justified summaries, a stopped run is reported | 1 experiment, 2 clients, 2 ticks, 1 summary that cannot be written |
| jobs | refinement of JobLifecycle, a running job is run, every job ends | 3 jobs, 2 workers, 1 restart |
| jobs_faults | types, accepted jobs are durable, ends are final, ended jobs never start | 3 jobs, 2 workers, 2 raising saves, 2 restarts, symmetry |

Why the bounds are enough: every handler of Fleet concerns one robot and reads others only through occupied, failed and
reserved cells, so two robots exhibit each conflict; one slot and two charging cells make capacity and cells scarce
separately; batteries of two or three units pass through full, low, critical and empty, and a step may cost more than is left; the warehouse has a cut-off cell,
a bay whose way out leads over a charger, and pickup and dropoff next to each other. Ids of tasks are never reused, so
one task passes through every status, and a second shows the choice between two.

A conflict of Traffic concerns a pair of robots and its record; the third robot is the one that blocks an escape, whose
record a handler may clear by mistake, or with which a robot may be in a second conflict. `traffic_mutual` needs a fourth: two robots that yield to each other have
each yielded to somebody else in between. On the ring one cell is free, so that no robot gets by another unless the right
one gives way, three robots can wait for each other in a circle, and an escape is blocked as often as not; the charger is
where a robot is put off, the bay where a failed one is towed to, and both are the cells others head for at that moment, so
that robots do meet: the run has states with two robots in one cell. Thresholds of 1 reach every comparison of counters within
a few ticks. Dispatch needs 8 ticks for tasks that are released, interrupted by a failure, taken up by another robot,
completed and pruned while others follow; the orders include two at one tick, one before the generator starts, one of
unknown place and overlapping rates. Three trials end in every order, a fourth makes two groups of two replications;
metrics that are missing, 1 or 2 make means that are missing, equal or different. Three jobs and two workers give a job
queued behind two running ones. `MaxFaults` and `MaxRestarts` bound the jobs' faults and deaths. All runs together
take every action.

For the runner, two experiments show one that is started while the thread of another has not ended, and two clients show
two stops, or a stop and a reset, on one runner; each experiment starts once, so its thread, its files and its holder go
through everything. Two ticks tell a run that reached its target from one that reached its horizon. `experiments` has a
single operator: the front end has one user, and with two, overlapping starts leave an experiment out of reach (see below).

Symmetry is used in `jobs_faults` only, where jobs and workers are interchangeable and no liveness is checked. Robots are
visited in the order of their ids and are not symmetric.

**Fairness.** Fleet and Traffic assume that `Tick` goes on: the thread of a running simulation keeps ticking (a part of a
tick can always run, so Traffic writes this as infinitely many). Nothing is assumed of resets, tasks, failures, repairs or
moves. ExperimentRunner assumes that each runner's thread and each request in progress go
on; nobody has to ask for anything, and a simulation may stay paused for good. DecisionJobs assumes that a request which
has saved its job goes on to enqueue it, and that each worker goes on with its job, which includes that a module returns
or raises. Nobody has to submit, cancel or report progress. Dispatch and Studies check safety only.

## Findings

1. `_advance_robots` reads the occupied cells once. A robot towed or moved off a charger inside the loop is not in that
   set at its new place, and a later robot of the same loop can enter it (`OccupiedBlocks`, run fleet_occupied). Robots
   that overlap this way were also seen when the code was run on small random warehouses. Traffic has both relocations and
   the stale set, and says what is left of the promise: `OnlyPutRobotsMeet`.
2. A Monte Carlo study with artifacts (the default mode) and a progress callback, which the job manager always passes,
   reports "Completed trial i of n" and then continues with the next trial: no trial is run, and the summary has neither
   successes nor failures (`monte_carlo.py:583`; `ProgressTrue`, run mc_full). Without a callback an invalid
   configuration is noted as an error and the trial then tried all the same, which fails a second time.
3. Two robots can yield to each other (`OneYielder`, run traffic_mutual), although only one robot of a pair may replan at a
   time. `_clear_conflicts_for_robot` drops the records of a robot that arrives, but a yielder with a path to go keeps its
   flags (`conflict.py:550`). Without a record it is out of every conflict, and may be taken for the other side of a new
   one by the robot it still yields to. The same was seen when the code was run on small random warehouses.

### Disagreements that are described, not run

These were met while modelling. Each is a disagreement of the code with a document, and the number of runs is limited.

- `jobs.py:373`: the save that announces a running job is outside the `try` of `_run_job`. If it raises, the worker is gone
  and the job stays running until the next restart. `RunningIsExecuting` is therefore checked and proved without raising
  saves.
- `jobs.py:346`, `jobs.py:389`: a running job can be cancelled and ends as cancelled. The class says "running jobs cannot be
  cancelled yet" (`jobs.py:205`), and `API_SURFACE.md` has "Running decision jobs cannot be cancelled yet. Only queued jobs can
  be cancelled." as the answer to such a request (line 6106) "cancelled: cancelled before execution" (6129) and
  "Running jobs cannot be cancelled yet." (8204). It also says "Job history is in-memory only" (8206; "job state", 1125 and 4459), where the manager saves jobs and
  loads them again. JobLifecycle has what the code does, and `FollowsLifecycle` shows nothing about these sentences.
- `study.py:91-115`: `StudyRunner` waits for `is_active` to become false and rejects only a stop reason that starts with
  "error". If the thread died while it wrote the summary, `load_run` returns `{}` for it (`loader.py:97`), and the failed
  trial becomes a normal row, of no simulated time and so of no cost but penalties for late tasks. `ResultsMatch` names this exception; the
  other studies look at `finished` and count such a trial as failed.
- `runner.py:233`: a run can be deleted while it goes on. Its thread then dies when it writes the summary, and `stop` tries
  again in every later request: `/api/reset` ends with an error each time and replaces neither runner nor simulation.
- `recorder.py:274-337`: everything after the first test of `_record_robot_events`, the assignment to the remembered robots
  included, is indented under it. The first block of each robot is recorded; unblocked, charging, failure and recovery
  events are recorded at that moment or never, where the document lists them all (`API_SURFACE.md:4882-4898`, 5089, 5102) and
  `blocked_episodes_from_events` pairs them (`analysis/metrics.py:159`, `API_SURFACE.md:5239`). Recorder has the code as it
  is, and no property is stated about the events of robots: it could only repeat the loss.
- `conflict.py:196-203`: a blocked robot may take over from a yielder that stays inactive, says the API document. The
  branch asks whether the robot may yield while the pair's record still counts it as in conflict, so the answer is no. In
  `HandleBlocked` the branch is kept as it is; no state reaches it.
- `conflict.py:538`: "`_release_conflict()` clears the pair record when the yielder moves", says the API document. A waiting
  robot that was made to yield and is then sent to a charging cell gives up its flags in `_route_robot_to_cell`, and with
  them the way to its record. It moves on, and the record stays until it arrives; until then it may not yield to anybody.
  Also seen in the code. `RecordsHold` says that this is the only way in which a record goes stale.
- `_can_yield()` keeps a robot that is in a conflict from yielding in another. It may still be the one that others yield
  to, in any number of pairs, where the API document says it takes part in one conflict at most. `RecordsHold` says
  what is left: nobody is the yielder of two pairs.

### Behaviour no document rules out

- A user's stop request that has seen no reason may overwrite the one the thread gives meanwhile; two start requests that
  overlap both find no active runner, so that one experiment runs on without a holder.
- When the save that closes a job raises, the job is for a moment shown, and may be saved by another request, as finished
  before it becomes failed. `Settled` therefore asks that no worker is in the except clause.
- A charging robot may occupy a cell another robot has reserved; the other then waits. Robots that wait for each other may do
  so for good: deliveries are not live, with two robots already, so no property claims it. `StandoffsEnd` is about two robots
  that want each other's cell while one of them has a free cell beside it; with none, or in a longer circle, they may stay.
- An assignment that the simulation refuses because of energy leaves the robot idle for that tick (`NoOvertaking` allows
  for it). The legacy cost scheduler serves large priority numbers first, the others small ones.
- Orders of a file that come before the generator's first tick are passed over. An order for an unknown place raises
  through the tick and ends the trial.
- A snapshot is taken after the tick count has advanced: a waiting time measured by the collector differs by one tick from
  the one reconstructed from events, and a task that is begun and completed in one tick leaves no assignment event.
- The average waiting time counts a task once for each assignment.
- Headless trials look for `cycle_time` and `waiting_time` in rows that have no such column, so the percentiles of a
  metrics-only trial are missing.
- A robust candidate's share is taken over the replications that succeeded; those that failed do not count.

## Proofs

Each module is proved about for every value of its constants, from the named assumptions it declares.

`DecisionJobs_proofs` holds for any sets of jobs and workers and any number of faults and restarts. The
only assumption is `JobsAssumption` (the null job is no job, bounds are natural numbers).

- `TypeCorrect`: `Spec => []TypeOK`, one case per action. It also says that a worker has a job exactly while it is busy,
  which the rest needs.
- `JobsInvariant`: `Spec => []JobsInv`. That an end is final is not inductive: one has to know that no worker still holds
  the job. `JobsInv` says where an accepted job is: at most once in the queue (`QueueSound`), with at most one worker and
  then not queued (`WorkersApart`), running while its worker is between the first and the last block of `_run_job`
  (`BusyIsRunning`), and known to memory and file once saved (`SubmittedIsKnown`).
- `AcceptedDurable`, `EndsAreFinal`, `EndedJobsStayEnded`: the properties of `jobs_faults`, from the invariant.
- `RunningJobsExecute` and `LifecycleFollowed`, for `MaxFaults = 0`: a running job has a worker, and the manager implements
  JobLifecycle. They need `FaultlessInv`: the file differs from memory only by what a restart makes of it, and jobs in
  the except clause are still running. With raising saves both are false.

`Fleet_proofs` holds for any warehouse, fleet, workload and battery, from the named assumptions of ChargingStation
and Fleet (a search over a non-empty set of cells returns one of them, a path length is a natural number or none, costs
and thresholds are natural numbers).

- `FleetTypeCorrect` and `CapacityKept`: `Spec => []TypeOK` and `Spec => []SlotsRespected`. Both are inductive together:
  `Sound` is the set of typed states within the station's capacity, and there is one lemma per handler, in the order in
  which handlers call each other, that it maps `Sound` to `Sound`. The lemmas that matter are those of the station:
  `BeginChargingSound` (a slot is taken only when one is left or reserved for the robot), `ReserveSound`, and
  `CapacityBegins`, which covers the waiting robot that starts to charge without a reservation. `ChargedBound` shows that
  the charging curve stays within the battery.

`FleetAgrees_proofs` goes on from there, with the same constants and assumptions. One of them says that a path which avoids
cells is a path (`DistAssumption`): feasibility is decided on the cells that failed robots leave free, the route is planned
later without them.

- `FleetInvariant`: `Spec => []FleetInv`. `RobotFits` says what the mode, goal, task and bookings of one robot have to do
  with each other, `TaskFits` what status, leg, load and robot of one task do; the robots that `station.tick()` has
  released and whose turn is due are `Finished` instead. `LoopFits` is what a loop of the tick relies on for the robots and
  tasks it has yet to come to: they were selected before the turns of others. Its last part is why the stale `occupied`
  set of `_advance_robots` is good enough for charging cells, though not for all cells (finding 1): robots are put down
  during that loop only on cells that are no chargers. `Powered` says which batteries the checks have already seen.
- A handler is called by other handlers in states that are none between two steps, so the lemmas are about handlers, not
  about actions: `Touches` says that a handler changes one robot and at most one task, `Stays` that it puts the robot down
  on no charging cell, and `Comes` that afterwards both fit, the load has not moved, and a robot that lost its task is
  bound for energy. There is one such lemma per handler, in the order in which they call each other; `TouchedFits` then
  settles everybody else at once.
- `StationBooksAgree`, `ChargersNeverShared`, `TasksStayBound`, `GoalsFollowTasks`, `LoadsFollowTasks`, `TasksNeverFail`:
  the invariants of `fleet` and `fleet_service`. `TasksNeverFail` rests on `FeasibleRoutes` and on the part of `TaskFits` that keeps
  the route from pickup to dropoff known until the load is picked up.
- `LoadsStayPut`, `InterruptedRobotsRecharge` and `NobodyDrivesEmpty`: the action properties, from the invariant and what
  a step keeps (`RobotStepKeeps`, `TickStepKeeps`).

`Traffic_proofs` holds for any floor, fleet, jobs and thresholds, from `TrafficAssumption` (cells have natural coordinates,
robots start in cells of their own).

- `RecordsStayJustified`: `Spec => []RecordsHold`. Handlers end a yield in one place (the flags) and its record in another,
  and between the two a robot is on record for nothing. `Books(t, x)` is therefore the invariant with an exception: all
  records but those of `x` are justified. `OwnFlags` says that a change of one robot's flags leaves the others' records
  justified, `ClearBooks` that clearing its conflicts settles its own, `ReleaseObeys` that a release leaves at most the
  record of a robot bound for a charger. All handlers but one add no record (`Obeys`); `MakeYield` does, after `CanYield`
  has seen that its robot is in no conflict, which is what the unique record rests on.

`Routing_proofs` holds for every finite floor.

- `BFSDelivers`: what `BFSPath` returns meets `IsPlan`, the property that the run dispatch checks where it plans: a route
  through free cells with the fewest steps, and `NoPath` only if there is no route. The loops are recursive functions
  that call themselves last. `LoopExists` shows that such a function exists, whether or not the loop ends: its value is the result
  in the one state of the orbit that stops it. `LoopEnds` is the rule of the invariant and the measure, which here needs
  no induction: of the states that the invariant admits and the result of which is bad, one has the least measure, and its
  next state is a smaller one.
- The invariant of the search is `Searched`: `came_from` is a tree rooted in the start (`Tree`), the queue has two
  adjacent depths in order, and a cell that has left the queue is no deeper than those in it and has no neighbour that was
  not entered. Hence all cells within as many steps as the head is deep have been entered (`BallsSearched`). `VisitKeeps` is
  the step, `ToDo` the measure: a cell that is entered counts five times until then and once while it is in the queue. The
  way back (`TraceLeads`) goes down in depth. `WithinStepsIsBall` connects the balls to the recursive reference definition.
- `AStarDelivers`: what `AStarPath` returns meets `IsPlan` with `Bound(num, den)`, the weight or one if that is more: A*
  finds a shortest route and weighted A* one that is longer by at most its weight, for every weight. `Guides` is the
  invariant of its search: `came_from` is again a tree, in which a cell may lie less deep than its parent's depth says
  (`Tree` allows it; a cell that is reached again in fewer steps lowers no descendant at once); `g_score` has the cells of
  the tree; each of them waits in the heap with its best way or is settled, that is, its free neighbours are reached in one
  step more. `BallsGuided` draws from it what the bound needs: of a cell within `k` steps of the start either such a way is
  known, or some cell waits in the heap that leads no further away than `k` allows, so that the least entry of the heap,
  once it is the goal's, cannot exceed the bound (`GuidedIsComplete`). The measure is `AStarToDo`: an expansion shortens
  the heap or takes one of the lengths that a better way to some cell could have.

The rest of `Traffic_proofs` builds on it, as does `Dispatch_proofs`.

- `TrafficTypeCorrect`, `MotionImplemented` and `RobotsApart`: `Spec => []TypeOK`, `Spec => MovesFreely`, the refinement of
  Motion, and `Spec => []OnlyPutRobotsMeet`, on a floor that is connected (`Connected`, the only hypothesis, as `FloorAssumption` of MCTraffic for each floor). On a floor
  in two parts the code would assign tasks it cannot route, which Traffic leaves to Fleet. That what `Route` returns is a
  walk over open cells follows from `Routing_proofs`. The invariant `Routed` adds to the types that each path is a walk
  from where its robot stands and a robot with a task has one of the jobs: without it the end of a route, or the priority
  of a task, could be that of no job. Each handler keeps it, whether it cuts the path off, takes
  a step of it (`WalkOn`), plans it again around the robots or through them (`RouteAroundWalks`), or replaces it by an
  escape (`EscapeIsFree`: a free neighbour, whichever of the preferences of `_choose_yield_step` decides; `ForemostIsOne`
  shows that the comparison always has a first).
- A handler moves nobody but may put its own robot down, in a cell that is free at that moment (`Placed`, part of what each
  handler `Keeps`). A step of the system is therefore one of five: it looks at the floor, leaves the loop, puts a robot down,
  lets one go on (`Goes`: to the first cell of its walk, which the loop takes to be free) and may put it down at once, or
  leaves all robots where they are. `MotionImplemented` maps these to Motion. For `RobotsApart`, `Informed` is what the loop
  knows: while no robot has been put down behind its back, `seen` are the cells of all robots, and a step into another cell
  keeps them apart and `seen` true.
- The lists of a tick are robots because each place in them is taken (`PlacesTaken`: in a strict total order of a finite
  set the numbers of those before an element are all different, hence all there are; a lemma of `Routing_proofs`). The
  claims are a loop over such a list, and `ClaimsAfterTyped` uses `LoopEnds` again.

`Dispatch_proofs` holds for any fleet, reach, scheduler, stop condition, pruning age and number of failures, and any
demand that the configuration accepts (`IsDemand`), from `DispatchAssumption` and `DemandAssumption` (robots start on open
cells, configured places are open, intervals and rates are those that validation lets through), on a connected floor
(`Connected`; TLC evaluates it for the floor of MCDispatch).

- `DispatchTypeCorrect` and `BooksStayBalanced`: `Spec => []TypeOK` and `Spec => []BooksBalance`. The balance alone is
  not inductive. An assignment stops being under way when its robot completes or loses the task, and the counters follow
  the robot: so robot and task must name each other, in both directions, before every handler (`Linked`). That a task is
  interrupted at most as often as `MaxFailures` allows needs that failures alone interrupt (`Balanced` has it next to the
  counters). A world of typed parts that is linked and balanced is `Sound`; the inductive invariant `Inv` adds that the
  generator's next number is above those of all tasks (`Orderly`), so that no new task replaces one that is there, and
  that a trial that goes on has ticks left (`OnTime`).
- There is a lemma per handler that it keeps `Sound`, in the order in which handlers call each other, and `WithSound`
  says once what a change of one robot and one task must respect so that all links and counters still agree.
- `PlannersKeepTheirWord`: `Spec => []PlannersDeliver`, from the types and the two theorems of `Routing_proofs`: robots
  and tasks never leave the open cells, so what the planners are asked is always within what the theorems cover.
- `RecordsStayAgreed`: `Spec => []RecordsAgree`. Recorder and collector
  see a tick only by the snapshot after it, so what they write is true of what they missed only if little happened in
  between. `Books` says how little, next to what was written. `Remembered`: a task unknown to the recorder was made in this
  tick, and one that it does not know completed was completed in it. `Logged`: each task that was shown has one creation
  in the log, each that was shown completed one completion, and the interruptions in it are, with those about to be shown,
  no more than were counted; a task interrupted twice or taken up again within a tick leaves none, so more cannot be said.
  `Gathered`: the collector has the tick of each event in the log, and the first assignment if there are several.
  `UpToDate` says what memory and the last row are after a tick. TLC has checked these
  parts on the instance of run dispatch before they were proved.
- Between two snapshots `Books` rests on `Lives`: whatever a handler does, tasks keep their creation, a completed one stays
  so, with its tick, and the interruptions are counted. There is a lemma for each handler. `RecordBooks` is the snapshot:
  `EventsWritten` (the loop over the tasks writes their events in order, by `LoopEnds`), `RecordRemembers`, `RecordLogs`,
  `RecordGathers` and `RecordUpdates` are its parts. `BooksBalanced` and `BooksAgree` read the property off: counting events
  needs that no two in the log are equal.
- `StepsTyped`: whatever the generator's intervals, selections, rates, segments or file, the outcomes of one call are
  tasks with fresh consecutive numbers, a known type and places that resolve, or it raises. Orders of a file are sorted
  by a permutation (`ResolvedTyped`), the loop over segments ends (`ScheduleTyped`, by `LoopEnds`). `EnteringSound` and
  `KeptSound` are the two places where the set of tasks changes.
- `EachOrderOnce`: `Spec => []OrdersOnce`. The invariant `Followed` says how far the generator has come: `FileFollowed` that
  its index into the sorted file is the number of orders up to the last tick it was asked for (nothing before its start),
  and that what it released are the orders behind those it missed, in turn; `TypesFollowed` that a type is next due at the
  first of its ticks that is still to come. `PlaceOfOrder` and `SortedUntil` say where `ResolvedEvents` puts an order,
  `OrdersOfTick` what is read at a tick. TLC has checked `Followed` on the instance of run dispatch.
- `NobodyOvertaken`: `Spec => NoOvertaking`, in two halves. What a scheduler's loop returns is in its order (`InOrderOf`):
  different tasks and robots, and a task without a robot comes before none that has one, because nobody is passed over
  while a robot is free (`Served`, the invariant of the loop, with `TurnsInOrder` by `LoopEnds`). That needs a way
  between any two cells (`CostsTyped`): on a floor in parts a task may be out of every robot's reach and is passed over.
  `FirstTask` and `CheapestRobot` show that the least elements the loop picks exist, and `PriorityInOrder`,
  `CostBasedInOrder`, `FIFOInOrder` and `TotalCostInOrder` that the four sequential schedulers are such loops. While the answer
  is followed, what is left of it stays true of the tasks as they are (`Promised`, which TLC has checked on the instance
  of run dispatch): `BeginApart` shows that a robot that begins a task, arriving at once or not, leaves all others alone.

`Studies_proofs` holds for any studies, number of trials, workers and endings, from `StudiesAssumption` (a study has a
group, a replication and a worker).

- `ResultsCollected`: `StudySpec => []ResultsMatch`. What was collected says nothing about the trials that were not, so
  `Inv` adds, for trials run one by one (`InTurn`), that those which have ended are the settled ones and perhaps the one in
  turn; that a row shows its trial, or the empty summary of a run that died in a `StudyRunner` (`RowsTrue`); what the poll of a
  thread knows of it (`Waiting`): the second look that finds it neither active nor finished can
  only mean that it died; and for a pool (`InPool`), that a result there is is that of its own trial. `OneSettled` is the
  step all branches of the loop share.
- The pairing of specifications and outcomes lists a set of trials in order. `InOrderLists` shows that the list exists and
  has each trial once, by the well-foundedness of strict inclusion among the subsets of a finite set.
- `ProgressIsTrue`: `StudySpec => []ProgressTrue` where only headless studies report progress, which the theorem assumes.
  Finding 2 shows that this is needed. The invariant `Reported` says that the reported number is that of the results.
- `BestChosen`: `StudySpec => []BestIsBest`. At the end a group's rows are what its trials have shown (`RowsShown`, from
  `Inv`), so the averages are the same (`MeansShown`; `SumTyped` shows that a sum over a finite set of rows is a number, the
  function that sums its parts being built from those of smaller parts). Averages leave out trials without the metric, and a group with no such trial has none. Comparing averages, the missing
  ones last, is a
  ranking (`MeansCompare`: asymmetric, and "not better" is transitive, which for fractions is `FractionsCompare`); a
  ranking with ties broken by number orders the groups (`RanksOrder`), and such an order has a first element
  (`FirstInRank`) and a sorted list of all elements (`SortedByRank`, `RankedList`). What is off the front is beaten by
  something nothing beats, because beating is transitive (`BeatsTransitive`, `BeatenByBest`).

`ExperimentRunner_proofs` holds for any sets of experiments, clients and operators, any horizon and any number of
faults, from `RunnerAssumption` (ids are distinct, the horizon is positive).

- `RunnerTypeCorrect`, `RecorderStaysOpen`, `SummariesJustified`. The invariant `Inv` has a part per runner (`RunSound`:
  in its loop the thread has an open recorder, a row for each tick and no reason of its own; after its loop, or once
  stopped, the run has a reason; what it is about to write is justified), a part per request (`RequestSound`: it works on
  a started runner, gives a user's reason, and finalizes only after the thread has ended) and one for the holder.
  `StepInv` says what a step must respect of a runner (`Respects`) so that the requests that do not move stay sound, and
  there is a lemma per action.
- `OneControlled` and `HolderFollows`: `Spec => []Controlled` and `Spec => []HolderAgrees` where one operator starts and
  resets experiments (`OneOperator`, a hypothesis of the theorems: two overlapping starts leave an experiment behind),
  however many clients stop, pause and delete meanwhile. `ControlInv` adds to `Inv` what each request knows
  (`ControlSound`): who starts or lets go of a runner has seen that the held one will never tick again (`Calm`), since a
  stopped simulation stays stopped. `ControlKept` covers every step that starts nothing and leaves the holder alone
  (`Tame`), so that only `Launch` and the four writes of the holder need an argument of their own.

Only model-checked are the liveness properties `JobsSettle`, `BackInService`, `StopIsReported` and `StandoffsEnd`, which TLAPS
cannot prove. Every invariant and every other action property of a passing run is a theorem.

## Not modelled

Static data (layouts, configurations and their validation), floating-point results (KPIs, cost, statistics, confidence
intervals), formatting, read-only web pages, the front end's rendering and the command line tools. Of the experiment
runner, the contents of snapshots and summaries, requests that read, and the loop of the default simulation, which
`create_app` does not start. Of the job manager, validation and the code of the studies it calls; of the studies, Optuna's
proposals (any choice), caches of levels that repeat, and files; of the simulation, the start/pause/stop of its thread and
`get_state`. `reservations.py` is an unused duplicate of the table in `conflict.py`.

## Plan

1. `ExperimentRunner`: what overlapping starts of two operators leave of `Controlled`.
2. The auction: that no robot left over could have bid less for a task that was given away.
3. Contention for the station: who waits how long, and which batteries leave a robot idle for good.
4. Composition of Studies with ExperimentRunner: the trial's thread as the runner's, in place of its reduction to four
   states, and with DecisionJobs: the job's progress as the study's.
