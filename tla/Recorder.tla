------------------------------ MODULE Recorder ------------------------------
(***************************************************************************)
(* What is kept of a run, as functions of its snapshots: the rows and      *)
(* events of experiment/recorder.py, the task lifecycles that              *)
(* experiment/headless.py collects, and those that analysis/metrics.py     *)
(* reconstructs from the events.                                           *)
(*                                                                         *)
(* A snapshot s is a record with                                           *)
(*   tick      _tick_count, which the tick has advanced already            *)
(*   counts    [generated, completed, failed, replans, blocked]            *)
(*   tasks     [number -> [status, robot, created, done, ...]]             *)
(*   robots    [id -> [mode, blocked, replanning, ...]]                    *)
(* memory is what the recorder keeps from one snapshot to the next:        *)
(* [counts, tasks, robots].  An event is [tick, kind, robot, task].        *)
(***************************************************************************)
EXTENDS Integers, Sequences, FiniteSets, SequencesExt

None == 0       \* no robot, no task, no tick; ids and later ticks are positive

Count(S, P(_)) == Cardinality({x \in S : P(x)})

NoCounts == [generated |-> 0, completed |-> 0, failed |-> 0, replans |-> 0, blocked |-> 0]
NoMemory == [counts |-> NoCounts, tasks |-> <<>>, robots |-> <<>>]

-----------------------------------------------------------------------------
(* _record_time_series.                                                    *)

Buckets == {"active", "idle", "blocked", "charging", "to charger",
            "waiting for charger", "failed"}

Bucket(robot) ==
  CASE robot.mode \in {"Failed", "Repairing"}   -> "failed"
    [] robot.mode = "Charging"                  -> "charging"
    [] robot.mode = "Waiting for charger"       -> "waiting for charger"
    [] OTHER -> IF robot.blocked > 0            THEN "blocked"
                ELSE IF robot.mode = "To charger" THEN "to charger"
                ELSE IF robot.mode = "Moving"     THEN "active" ELSE "idle"

Outstanding(counts) ==
  LET left == counts.generated - counts.completed - counts.failed
  IN  IF left > 0 THEN left ELSE 0

Row(memory, s) ==
  LET delta(name) == s.counts[name] - memory.counts[name]
  IN  [pending     |-> Count(DOMAIN s.tasks, LAMBDA t : s.tasks[t].status = "Pending"),
       outstanding |-> Outstanding(s.counts),
       created     |-> delta("generated"),
       completed   |-> delta("completed"),
       replanned   |-> delta("replans"),
       held        |-> delta("blocked"),
       robots      |-> [b \in Buckets |->
                          Count(DOMAIN s.robots, LAMBDA r : Bucket(s.robots[r]) = b)]]

-----------------------------------------------------------------------------
(* _record_task_events.                                                    *)

Event(tick, kind, robot, task) ==
  [tick |-> tick, kind |-> kind, robot |-> robot, task |-> task]

\* What a status that a task has come to is reported as; Pending is not.
KindOf == [Assigned    |-> "task_assigned",  Completed |-> "task_completed",
           Interrupted |-> "task_interrupted", Failed  |-> "task_failed"]

Unknown == [status |-> "none", robot |-> None]

EventsOfTask(tick, id, before, task) ==
  LET robot == IF task.robot = None THEN before.robot ELSE task.robot
      event(kind) == <<Event(tick, kind, robot, id)>>
  IN  (IF before = Unknown THEN <<Event(tick, "task_created", None, id)>> ELSE <<>>)
      \o (IF task.status # before.status /\ task.status \in DOMAIN KindOf
          THEN event(KindOf[task.status]) ELSE <<>>)
      \o (IF /\ {task.status, before.status} = {"Assigned"}
             /\ None \notin {task.robot, before.robot} /\ task.robot # before.robot
          THEN event("task_reassigned") ELSE <<>>)

\* The events of each id, one list after the other in the order of the ids.
EventsOf(events) ==
  LET all == UNION {ToSet(events[id]) : id \in DOMAIN events}
      write[s \in [left : SUBSET DOMAIN events, written : Seq(all)]] ==
        IF s.left = {} THEN s.written
        ELSE LET id == CHOOSE i \in s.left : \A j \in s.left : i <= j
             IN  write[[left |-> s.left \ {id}, written |-> s.written \o events[id]]]
  IN  write[[left |-> DOMAIN events, written |-> <<>>]]

Before(memory, id) == IF id \in DOMAIN memory THEN memory[id] ELSE Unknown

TaskEvents(memory, s) ==
  EventsOf([id \in DOMAIN s.tasks |->
    EventsOfTask(s.tick, id, Before(memory.tasks, id), s.tasks[id])])

\* _prev_tasks: an ended task is forgotten once it is pruned.
TasksSeen(memory, s) ==
  LET old == {id \in DOMAIN memory.tasks \ DOMAIN s.tasks :
                memory.tasks[id].status \notin {"Completed", "Failed"}}
  IN  [id \in old \union DOMAIN s.tasks |->
         IF id \in old THEN memory.tasks[id]
         ELSE [status |-> s.tasks[id].status, robot |-> s.tasks[id].robot]]

-----------------------------------------------------------------------------
(* _record_robot_events.  Everything after the first test is inside it, as  *)
(* is the assignment to _prev_robots: a robot is compared with what was     *)
(* first seen of it until it is blocked, and with that block ever after.    *)

StartsBlock(before, robot) == before.blocked = 0 /\ robot.blocked > 0

Down == {"Failed", "Repairing"}

EventsOfRobot(tick, id, before, robot) ==
  LET event(condition, kind) ==
        IF condition THEN <<Event(tick, kind, id, None)>> ELSE <<>>
      changed == before.mode # robot.mode
  IN  IF ~StartsBlock(before, robot) THEN <<>>
      ELSE event(TRUE, "robot_blocked")
           \o event(~before.replanning /\ robot.replanning, "robot_replanned")
           \o event(changed /\ robot.mode = "Charging", "robot_started_charging")
           \o event(changed /\ before.mode = "Charging", "robot_finished_charging")
           \o event(robot.mode \in Down /\ before.mode \notin Down, "robot_faulted")
           \o event(before.mode \in Down /\ robot.mode \notin Down, "robot_recovered")
           \o event(changed /\ robot.mode = "Waiting for charger",
                    "robot_waiting_for_charger")

RobotEvents(memory, s) ==
  EventsOf([id \in DOMAIN s.robots |->
    IF id \in DOMAIN memory.robots
    THEN EventsOfRobot(s.tick, id, memory.robots[id], s.robots[id]) ELSE <<>>])

RobotsSeen(memory, s) ==
  [id \in DOMAIN s.robots |->
     IF id \in DOMAIN memory.robots /\ ~StartsBlock(memory.robots[id], s.robots[id])
     THEN memory.robots[id]
     ELSE [mode |-> s.robots[id].mode, blocked |-> s.robots[id].blocked,
           replanning |-> s.robots[id].replanning]]

-----------------------------------------------------------------------------
(* record.                                                                 *)

Remember(memory, s) ==
  [counts |-> s.counts, tasks |-> TasksSeen(memory, s), robots |-> RobotsSeen(memory, s)]

Events(memory, s) == TaskEvents(memory, s) \o RobotEvents(memory, s)

-----------------------------------------------------------------------------
(* TaskLifecycleCollector.observe: [id -> the ticks of its life].          *)

\* A fault: an assignment is the last one seen.
ObserveLatest(collected, s) ==
  [id \in DOMAIN collected \union DOMAIN s.tasks |->
     IF id \notin DOMAIN s.tasks THEN collected[id]
     ELSE LET t == s.tasks[id]
          IN  [created   |-> t.created,
               assigned  |-> IF t.status = "Assigned" THEN s.tick
                             ELSE IF id \in DOMAIN collected THEN collected[id].assigned
                             ELSE None,
               completed |-> IF t.status = "Completed" THEN t.done ELSE None,
               failed    |-> None]]

Observe(collected, s) ==
  LET record(id) ==
        IF id \in DOMAIN collected THEN collected[id]
        ELSE [created |-> s.tasks[id].created, assigned |-> None,
              completed |-> None, failed |-> None]
      first(old, holds, tick) == IF holds /\ old = None THEN tick ELSE old
      seen(id) ==
        LET c == record(id)
            t == s.tasks[id]
        IN  [c EXCEPT !.assigned  = first(@, t.status = "Assigned", s.tick),
                      !.completed = first(@, t.status = "Completed", t.done),
                      !.failed    = first(@, t.status = "Failed", s.tick)]
  IN  [id \in DOMAIN collected \union DOMAIN s.tasks |->
         IF id \in DOMAIN s.tasks THEN seen(id) ELSE collected[id]]

(* task_lifecycle_from_events: the first event of each kind.               *)

FirstTick(log, id, kind) ==
  LET ticks == {log[i].tick : i \in {j \in DOMAIN log :
                  log[j].task = id /\ log[j].kind = kind}}
  IN  IF ticks = {} THEN None ELSE CHOOSE t \in ticks : \A u \in ticks : t <= u

LifecycleFromEvents(log) ==
  [id \in {log[i].task : i \in DOMAIN log} \ {None} |->
     [created   |-> FirstTick(log, id, "task_created"),
      assigned  |-> FirstTick(log, id, "task_assigned"),
      completed |-> FirstTick(log, id, "task_completed"),
      failed    |-> FirstTick(log, id, "task_failed")]]
============================================================================
