------------------------- MODULE FleetAgrees_proofs -------------------------
(***************************************************************************)
(* Proofs about Fleet, for every warehouse, fleet, workload and battery:   *)
(* robots, tasks and the charging station tell the same story after every  *)
(* handler, no task fails, no load is teleported and nobody drives on an   *)
(* empty battery.                                                          *)
(*                                                                         *)
(* A handler concerns one robot and at most one task: it touches nothing   *)
(* else (Touches), so what it must be shown to keep is that robot's part   *)
(* and that task's part of the invariant.                                  *)
(***************************************************************************)
EXTENDS Fleet_proofs

\* Where a task sends its robot.
Target(s, t) == IF s.leg[t] = "TO_PICKUP" THEN s.pickup[t] ELSE Dropoff[t]

\* A robot on a charging cell is the only one there.
Alone(s, r) == s.cell[r] \in Chargers => s.cell[r] \notin OthersAt(s, r)

\* What r has reserved is reserved for r alone.
OwnCell(s, r) ==
  s.reserved[r] # NoCell => \A q \in Robots \ {r} : s.reserved[q] # s.reserved[r]

\* The station does not charge r.
Idle(s, r) == s.active[r] = 0 /\ s.slot[r] = NoCell

\* The station does not know r.
Unbooked(s, r) == Idle(s, r) /\ s.reserved[r] = NoCell /\ r \notin s.waiting

\* A robot between two modes: neither at work nor charged.
Loose(s, r) == s.task[r] = NoTask /\ Idle(s, r) /\ Alone(s, r)

\* A robot at work on task t, whatever its goal.
Working(s, r, t) ==
  /\ t \in Tasks /\ s.task[r] = t /\ s.status[t] = "ASSIGNED" /\ s.holder[t] = r
  /\ s.mode[r] = "MOVING" /\ Unbooked(s, r) /\ Alone(s, r)

\* Mode, books, goal and task of r tell the same story.
RobotFits(s, r) ==
  /\ s.active[r] > 0 <=> s.mode[r] = "CHARGING"
  /\ s.reserved[r] # NoCell <=> s.mode[r] = "TO_CHARGER"
  /\ r \in s.waiting <=> s.mode[r] = "WAITING"
  /\ s.slot[r] = IF s.active[r] > 0 THEN s.cell[r] ELSE NoCell
  /\ s.active[r] > 0 => s.cell[r] \in Chargers
  /\ s.reserved[r] # NoCell => s.reserved[r] = s.goal[r] /\ s.goal[r] \in Chargers
  /\ Alone(s, r) /\ OwnCell(s, r)
  /\ s.mode[r] = "MOVING" => s.goal[r] # NoCell
  /\ Engaged(s, r) => s.goal[r] # s.cell[r]
  /\ s.task[r] # NoTask =>
       Working(s, r, s.task[r]) /\ s.goal[r] = Target(s, s.task[r])

\* A robot that station.tick() has released and whose turn is due.
Finished(s, r) ==
  /\ s.mode[r] = "CHARGING" /\ s.task[r] = NoTask /\ Unbooked(s, r) /\ Alone(s, r)

\* Status, leg, load and robot of t tell the same story; a robot on its way to the
\* pickup will find a route from there.
TaskFits(s, t) ==
  /\ s.status[t] = "ASSIGNED" =>
       /\ s.holder[t] \in Robots /\ s.task[s.holder[t]] = t
       /\ s.leg[t] \in {"TO_PICKUP", "TO_DROPOFF"}
       /\ s.leg[t] = "TO_PICKUP" => Reachable(s.pickup[t], Dropoff[t])
  /\ s.status[t] \in {"ABSENT", "PENDING", "INTERRUPTED"} => s.leg[t] = "TO_PICKUP"
  /\ s.status[t] # "FAILED"
  /\ s.load[t] = "CARRIED" <=> s.status[t] = "ASSIGNED" /\ s.leg[t] = "TO_DROPOFF"
  /\ s.load[t] = "ON_SHELF" => s.pickup[t] = Source[t]
  /\ s.load[t] = "DELIVERED" <=> s.status[t] \in {"COMPLETED", "PRUNED"}

\* What a loop relies on for the robots and tasks it has yet to come to.
LoopFits ==
  /\ phase = "repairs" => \A r \in todo : w.mode[r] = "FAILED"
  /\ phase = "waiting" => \A r \in todo : w.mode[r] = "WAITING"
  /\ phase = "battery" => \A r \in todo : Mobile(w, r)
  /\ phase = "idle"    => \A r \in todo : w.mode[r] = "IDLE"
  /\ phase = "assign"  => \A t \in offer : w.status[t] \in {"PENDING", "INTERRUPTED"}
  /\ phase = "advance" => \A r \in Robots : w.cell[r] \in Chargers => w.cell[r] \in occupied

\* The robots whose batteries are known not to be empty, if they can move.
Powered ==
  \A r \in Robots :
    /\ \/ phase = "idle"
       \/ phase = "battery" /\ r \notin todo
       \/ phase = "advance" /\ r \in todo
    /\ Mobile(w, r)
    => w.battery[r] > 0

\* Every task fits, and every robot but those that wait to be taken off a charger.
Fits(s, released) ==
  /\ \A r \in Robots : IF r \in released THEN Finished(s, r) ELSE RobotFits(s, r)
  /\ \A t \in Tasks : TaskFits(s, t)

\* The robots that station.tick() has released.
Due == IF phase = "finished" THEN todo ELSE {}

\* The inductive invariant.
FleetInv == Books /\ Fits(w, Due) /\ LoopFits /\ Powered

-----------------------------------------------------------------------------
(* What a handler touches.                                                 *)

SameRobot(s, u, q) ==
  /\ u.mode[q] = s.mode[q] /\ u.task[q] = s.task[q] /\ u.cell[q] = s.cell[q]
  /\ u.goal[q] = s.goal[q] /\ u.battery[q] = s.battery[q]
  /\ u.active[q] = s.active[q] /\ u.slot[q] = s.slot[q]
  /\ u.reserved[q] = s.reserved[q] /\ (q \in u.waiting <=> q \in s.waiting)

SameTask(s, u, t) ==
  /\ u.status[t] = s.status[t] /\ u.leg[t] = s.leg[t] /\ u.load[t] = s.load[t]
  /\ u.holder[t] = s.holder[t] /\ u.pickup[t] = s.pickup[t]

\* From s to u no robot but r and no task but t is touched.
Touches(s, u, r, t) ==
  /\ \A q \in Robots \ {r} : SameRobot(s, u, q)
  /\ \A v \in Tasks \ {t} : SameTask(s, u, v)

\* r is put down, if at all, where it is in no charging robot's way.
Stays(s, u, r) == u.cell[r] = s.cell[r] \/ u.cell[r] \notin Chargers

\* r is on its way to new energy, or full of it.
Recharging(s, r) ==
  s.mode[r] \in {"FAILED", "TO_CHARGER", "WAITING", "CHARGING"} \/ s.battery[r] = Full

\* What a handler of r that may work on t comes to.
Comes(s, u, r, t) ==
  /\ u \in WorldType /\ Touches(s, u, r, t) /\ Stays(s, u, r) /\ RobotFits(u, r)
  /\ t # NoTask =>
       /\ TaskFits(u, t) /\ LoadCell(u, t) = LoadCell(s, t)
       /\ u.status[t] = "INTERRUPTED" => Recharging(u, r)

LEMMA TouchesTwice ==
  ASSUME NEW s, NEW u, NEW v, NEW r, NEW t, Touches(s, u, r, t), Touches(u, v, r, t)
  PROVE  Touches(s, v, r, t)
BY DEF Touches, SameRobot, SameTask

\* Who leaves all tasks alone leaves all but t alone.
LEMMA TouchesLess ==
  ASSUME NEW s, NEW u, NEW r, NEW t, Touches(s, u, r, NoTask)
  PROVE  Touches(s, u, r, t)
BY FleetAssumption DEF Touches

LEMMA TouchesOthersAt ==
  ASSUME NEW s, NEW u, NEW r \in Robots, NEW t, Touches(s, u, r, t)
  PROVE  OthersAt(u, r) = OthersAt(s, r)
BY DEF Touches, SameRobot, OthersAt

LEMMA StaysAlone ==
  ASSUME NEW s, NEW u, NEW r \in Robots, NEW t, Touches(s, u, r, t), Stays(s, u, r),
         Alone(s, r)
  PROVE  Alone(u, r)
BY TouchesOthersAt DEF Stays, Alone

\* What concerns another robot.
LEMMA OtherRobotFits ==
  ASSUME NEW s \in WorldType, NEW u \in WorldType, NEW r \in Robots, NEW t,
         Touches(s, u, r, t), Alone(u, r), OwnCell(u, r),
         NEW q \in Robots \ {r}, s.task[q] # t \/ s.task[q] = NoTask
  PROVE  /\ RobotFits(s, q) => RobotFits(u, q)
         /\ Finished(s, q) => Finished(u, q)
<1>1. SameRobot(s, u, q)
  BY DEF Touches
<1>2. Alone(s, q) => Alone(u, q)
  BY <1>1 DEF Touches, SameRobot, Alone, OthersAt
<1>3. OwnCell(s, q) => OwnCell(u, q)
  BY <1>1 DEF Touches, SameRobot, OwnCell
<1>4. s.task[q] # NoTask => s.task[q] \in Tasks /\ SameTask(s, u, s.task[q])
  BY Fields DEF Touches
<1>5. Engaged(u, q) <=> Engaged(s, q)
  BY <1>1 DEF SameRobot, Engaged
<1>6. ASSUME s.task[q] # NoTask, Working(s, q, s.task[q]), s.goal[q] = Target(s, s.task[q])
      PROVE  Working(u, q, u.task[q]) /\ u.goal[q] = Target(u, u.task[q])
  BY <1>1, <1>2, <1>4, <1>6 DEF SameRobot, SameTask, Working, Unbooked, Idle, Target
<1>7. RobotFits(s, q) => RobotFits(u, q)
  BY <1>1, <1>2, <1>3, <1>5, <1>6 DEF RobotFits, SameRobot
<1>8. Finished(s, q) => Finished(u, q)
  BY <1>1, <1>2 DEF Finished, Unbooked, Idle, SameRobot
<1> QED
  BY <1>7, <1>8

\* What concerns another task.
LEMMA OtherTaskFits ==
  ASSUME NEW s \in WorldType, NEW u \in WorldType, NEW r \in Robots, NEW t,
         Touches(s, u, r, t), s.task[r] \in {t, NoTask},
         NEW v \in Tasks \ {t}, TaskFits(s, v)
  PROVE  TaskFits(u, v) /\ LoadCell(u, v) = LoadCell(s, v)
<1>1. SameTask(s, u, v)
  BY DEF Touches
<1>2. ASSUME s.status[v] = "ASSIGNED"
      PROVE  s.holder[v] \in Robots /\ SameRobot(s, u, s.holder[v])
  BY <1>2, FleetAssumption DEF TaskFits, Touches
<1>3. TaskFits(u, v)
  BY <1>1, <1>2 DEF TaskFits, SameTask, SameRobot
<1>4. LoadCell(u, v) = LoadCell(s, v)
  BY <1>1, <1>2 DEF TaskFits, SameTask, SameRobot, LoadCell
<1> QED
  BY <1>3, <1>4

-----------------------------------------------------------------------------
(* Charging.                                                               *)

\* What a handler of a robot without a task comes to: no task is touched, and the
\* battery is left as it is.
Parks(s, u, r) == Comes(s, u, r, NoTask) /\ u.task[r] = NoTask /\ u.battery[r] = s.battery[r]

\* Putting r down on a cell where nobody charges.
SetDown(s, u, r) ==
  /\ u \in WorldType /\ Touches(s, u, r, NoTask) /\ Stays(s, u, r)
  /\ u.mode = s.mode /\ u.task = s.task /\ u.battery = s.battery
  /\ u.repair = s.repair /\ u.active = s.active /\ u.slot = s.slot
  /\ u.reserved = s.reserved /\ u.waiting = s.waiting
  /\ u.goal[r] \in {s.goal[r], NoCell}

LEMMA PutDown ==
  ASSUME NEW s \in WorldType, NEW r \in Robots, NEW c \in Cells \ Chargers
  PROVE  SetDown(s, [s EXCEPT !.cell[r] = c, !.goal[r] = NoCell], r)
BY DEF SetDown, WorldType, Touches, SameRobot, SameTask, Stays

LEMMA StayPut ==
  ASSUME NEW s \in WorldType, NEW r \in Robots
  PROVE  SetDown(s, s, r)
BY DEF SetDown, Touches, SameRobot, SameTask, Stays

LEMMA RelocateOffChargerSets ==
  ASSUME NEW s \in WorldType, NEW r \in Robots
  PROVE  SetDown(s, RelocateOffCharger(s, r), r)
<1> DEFINE free == (Cells \ Chargers) \ OthersAt(s, r)
           c == Closest(s.cell[r], free)
<1>1. CASE free # {}
  <2>1. s.cell[r] \in Cells /\ free \in SUBSET Cells
    BY Fields
  <2>2. c \in Cells \ Chargers
    BY <1>1, <2>1, ClosestCell
  <2> HIDE DEF c
  <2>3. SetDown(s, [s EXCEPT !.cell[r] = c, !.goal[r] = NoCell], r)
    BY <2>2, PutDown
  <2> QED
    BY <2>3, StayPut DEF RelocateOffCharger, c
<1>2. CASE free = {}
  BY <1>2, StayPut DEF RelocateOffCharger
<1> QED
  BY <1>1, <1>2

LEMMA EnterWaitingParks ==
  ASSUME NEW s \in WorldType, NEW r \in Robots, Loose(s, r), s.reserved[r] = NoCell
  PROVE  Parks(s, EnterWaiting(s, r), r) /\ EnterWaiting(s, r).mode[r] = "WAITING"
<1> DEFINE v == [s EXCEPT !.mode[r] = "WAITING", !.goal[r] = NoCell,
                          !.waiting = @ \union {r}]
           u == RelocateOffCharger(v, r)
<1>1. /\ v \in WorldType /\ Touches(s, v, r, NoTask) /\ v.cell[r] = s.cell[r]
      /\ v.mode[r] = "WAITING" /\ v.task[r] = NoTask /\ r \in v.waiting
      /\ v.battery[r] = s.battery[r] /\ Idle(v, r) /\ v.reserved[r] = NoCell
  <2>1. v \in WorldType
    BY Values, ZenonT(60) DEF WorldType
  <2>2. /\ v.mode = [s.mode EXCEPT ![r] = "WAITING"]
        /\ v.goal = [s.goal EXCEPT ![r] = NoCell] /\ v.waiting = s.waiting \union {r}
        /\ v.cell = s.cell /\ v.task = s.task /\ v.battery = s.battery
        /\ v.active = s.active /\ v.slot = s.slot /\ v.reserved = s.reserved
        /\ v.status = s.status /\ v.leg = s.leg
        /\ v.load = s.load /\ v.holder = s.holder /\ v.pickup = s.pickup
        /\ s.mode \in [Robots -> Modes] /\ s.goal \in [Robots -> Cells \union {NoCell}]
    BY DEF WorldType
  <2> HIDE DEF v
  <2> QED
    BY <2>1, <2>2 DEF Touches, SameRobot, SameTask, Loose, Idle
<1> HIDE DEF v
<1>2. /\ u \in WorldType /\ Touches(v, u, r, NoTask) /\ Stays(v, u, r)
      /\ u.mode[r] = "WAITING" /\ u.task[r] = NoTask /\ r \in u.waiting
      /\ u.battery[r] = s.battery[r] /\ Idle(u, r) /\ u.reserved[r] = NoCell
  BY <1>1, RelocateOffChargerSets DEF SetDown, Idle
<1> HIDE DEF u
<1>3. Touches(s, u, r, NoTask) /\ Stays(s, u, r)
  BY <1>1, <1>2, TouchesTwice DEF Stays
<1>4. Alone(u, r)
  BY <1>3, StaysAlone DEF Loose
<1>5. RobotFits(u, r)
  BY <1>2, <1>4 DEF RobotFits, Idle, OwnCell, Engaged
<1> QED
  BY <1>2, <1>3, <1>5 DEF EnterWaiting, u, v, Parks, Comes

LEMMA StartChargingParks ==
  ASSUME NEW s \in WorldType, NEW r \in Robots, Loose(s, r), s.cell[r] \in Chargers
  PROVE  /\ Parks(s, StartCharging(s, r, s.cell[r]), r)
         /\ StartCharging(s, r, s.cell[r]).mode[r] = "CHARGING"
<1> DEFINE c == s.cell[r]
           u == StartCharging(s, r, c)
<1>1. c \in Cells /\ s.battery[r] \in 0..Full
  BY Fields
<1>2. /\ u \in WorldType /\ Touches(s, u, r, NoTask) /\ u.cell[r] = s.cell[r]
      /\ u.mode[r] = "CHARGING" /\ u.task[r] = NoTask /\ r \notin u.waiting
      /\ u.battery[r] = s.battery[r] /\ u.active[r] = ChargeTicks /\ u.slot[r] = c
      /\ u.reserved[r] = NoCell
  <2> HIDE DEF c
  <2>1. u \in WorldType
    BY <1>1, Values, ZenonT(60) DEF StartCharging, BeginCharging, WorldType
  <2>2. /\ u.mode = [s.mode EXCEPT ![r] = "CHARGING"]
        /\ u.goal = [s.goal EXCEPT ![r] = c]
        /\ u.active = [s.active EXCEPT ![r] = ChargeTicks]
        /\ u.slot = [s.slot EXCEPT ![r] = c]
        /\ u.reserved = [s.reserved EXCEPT ![r] = NoCell]
        /\ u.waiting = s.waiting \ {r}
        /\ u.cell = s.cell /\ u.task = s.task /\ u.battery = s.battery
        /\ u.status = s.status /\ u.leg = s.leg
        /\ u.load = s.load /\ u.holder = s.holder /\ u.pickup = s.pickup
    BY DEF StartCharging, BeginCharging, WorldType
  <2>3. /\ s.mode \in [Robots -> Modes] /\ s.goal \in [Robots -> Cells \union {NoCell}]
        /\ s.active \in [Robots -> 0..ChargeTicks]
        /\ s.slot \in [Robots -> Cells \union {NoCell}]
        /\ s.reserved \in [Robots -> Cells \union {NoCell}]
    BY DEF WorldType
  <2> HIDE DEF u
  <2> QED
    BY <2>1, <2>2, <2>3 DEF Touches, SameRobot, SameTask, Loose
<1> HIDE DEF u
<1>3. Alone(u, r)
  BY <1>2, StaysAlone DEF Loose, Stays
<1>4. RobotFits(u, r)
  BY <1>2, <1>3, StationAssumption DEF RobotFits, OwnCell, Engaged
<1> QED
  BY <1>2, <1>4 DEF Parks, Comes, Stays, u

LEMMA ReleaseReservationTouches ==
  ASSUME NEW s \in WorldType, NEW r \in Robots
  PROVE  LET v == ReleaseReservation(s, r)
         IN /\ v \in WorldType /\ Touches(s, v, r, NoTask) /\ v.cell = s.cell
            /\ v.mode = s.mode /\ v.task = s.task /\ v.goal = s.goal
            /\ v.battery = s.battery /\ v.active = s.active /\ v.slot = s.slot
            /\ v.reserved[r] = NoCell
<1> DEFINE v == ReleaseReservation(s, r)
<1>1. v \in WorldType
  BY ZenonT(60) DEF ReleaseReservation, WorldType
<1>2. /\ v.cell = s.cell /\ v.mode = s.mode /\ v.task = s.task /\ v.goal = s.goal
      /\ v.battery = s.battery /\ v.active = s.active /\ v.slot = s.slot
      /\ v.reserved = [s.reserved EXCEPT ![r] = NoCell] /\ v.waiting = s.waiting
      /\ v.status = s.status /\ v.leg = s.leg /\ v.load = s.load
      /\ v.holder = s.holder /\ v.pickup = s.pickup
      /\ s.reserved \in [Robots -> Cells \union {NoCell}]
  BY DEF ReleaseReservation, WorldType
<1> QED
  BY <1>1, <1>2 DEF Touches, SameRobot, SameTask

LEMMA ChargingArrivalParks ==
  ASSUME NEW s \in WorldType, NEW r \in Robots, Loose(s, r),
         s.goal[r] = s.cell[r], s.cell[r] \in Chargers
  PROVE  /\ Parks(s, ChargingArrival(s, r), r)
         /\ ChargingArrival(s, r).mode[r] \in {"CHARGING", "WAITING"}
<1> DEFINE v == ReleaseReservation(s, r)
<1>1. /\ v \in WorldType /\ Touches(s, v, r, NoTask) /\ v.cell[r] = s.cell[r]
      /\ v.task[r] = NoTask /\ v.battery[r] = s.battery[r] /\ Idle(v, r)
      /\ v.reserved[r] = NoCell
  BY ReleaseReservationTouches DEF Loose, Idle
<1> HIDE DEF v
<1>2. Loose(v, r)
  BY <1>1, StaysAlone DEF Loose, Stays
<1>3. Parks(v, EnterWaiting(v, r), r) /\ EnterWaiting(v, r).mode[r] = "WAITING"
  BY <1>1, <1>2, EnterWaitingParks
<1>4. Parks(s, EnterWaiting(v, r), r)
  BY <1>1, <1>3, TouchesTwice DEF Parks, Comes, Stays
<1> QED
  BY <1>3, <1>4, StartChargingParks DEF ChargingArrival, v

\* A free charging cell is nobody else's, and nobody else is in it.
LEMMA FreeChargersOwn ==
  ASSUME NEW s \in WorldType, NEW r \in Robots, NEW c \in FreeChargers(s, r)
  PROVE  /\ c \in Chargers /\ c \in Cells /\ c # NoCell /\ c \notin OthersAt(s, r)
         /\ \A q \in Robots : s.reserved[q] # c
BY StationAssumption DEF FreeChargers, ReservedCells, Reserved

LEMMA ReserveAndGoParks ==
  ASSUME NEW s \in WorldType, NEW r \in Robots, NEW c \in FreeChargers(s, r), Loose(s, r)
  PROVE  /\ Parks(s, ReserveAndGo(s, r, c), r)
         /\ ReserveAndGo(s, r, c).mode[r] \in {"TO_CHARGER", "CHARGING", "WAITING"}
<1> DEFINE v == [Reserve(s, r, c) EXCEPT !.mode[r] = "TO_CHARGER", !.goal[r] = c]
<1>1. /\ c \in Chargers /\ c \in Cells /\ c # NoCell
      /\ \A q \in Robots : s.reserved[q] # c
  BY FreeChargersOwn
<1>2. /\ v \in WorldType /\ Touches(s, v, r, NoTask) /\ v.cell[r] = s.cell[r]
      /\ v.mode[r] = "TO_CHARGER" /\ v.goal[r] = c /\ v.reserved[r] = c
      /\ v.task[r] = NoTask /\ v.battery[r] = s.battery[r] /\ Idle(v, r)
      /\ r \notin v.waiting
  <2>1. v \in WorldType
    BY <1>1, Values, ZenonT(60) DEF Reserve, WorldType
  <2>2. /\ v.mode = [s.mode EXCEPT ![r] = "TO_CHARGER"]
        /\ v.goal = [s.goal EXCEPT ![r] = c] /\ v.waiting = s.waiting \ {r}
        /\ v.reserved = [s.reserved EXCEPT ![r] = c]
        /\ v.cell = s.cell /\ v.task = s.task /\ v.battery = s.battery
        /\ v.active = s.active /\ v.slot = s.slot
        /\ v.status = s.status /\ v.leg = s.leg
        /\ v.load = s.load /\ v.holder = s.holder /\ v.pickup = s.pickup
        /\ s.mode \in [Robots -> Modes] /\ s.goal \in [Robots -> Cells \union {NoCell}]
        /\ s.reserved \in [Robots -> Cells \union {NoCell}]
    BY DEF Reserve, WorldType
  <2> HIDE DEF v
  <2> QED
    BY <2>1, <2>2 DEF Touches, SameRobot, SameTask, Loose, Idle
<1> HIDE DEF v
<1>3. Loose(v, r)
  BY <1>2, StaysAlone DEF Loose, Stays
<1>4. CASE s.cell[r] = c
  <2>1. Parks(v, ChargingArrival(v, r), r)
        /\ ChargingArrival(v, r).mode[r] \in {"CHARGING", "WAITING"}
    BY <1>1, <1>2, <1>3, <1>4, ChargingArrivalParks
  <2>2. Parks(s, ChargingArrival(v, r), r)
    BY <1>2, <2>1, TouchesTwice DEF Parks, Comes, Stays
  <2> QED
    BY <1>4, <2>1, <2>2 DEF ReserveAndGo, v
<1>5. CASE s.cell[r] # c
  <2>1. OwnCell(v, r)
    BY <1>1, <1>2 DEF OwnCell, Touches, SameRobot
  <2>2. RobotFits(v, r)
    BY <1>1, <1>2, <1>3, <1>5, <2>1 DEF RobotFits, Idle, Loose
  <2> QED
    BY <1>2, <1>5, <2>2 DEF ReserveAndGo, v, Parks, Comes, Stays
<1> QED
  BY <1>4, <1>5

\* A robot that nothing keeps goes idle.
LEMMA GoIdleParks ==
  ASSUME NEW s \in WorldType, NEW r \in Robots,
         s.task[r] = NoTask, Unbooked(s, r), Alone(s, r)
  PROVE  LET u == [s EXCEPT !.mode[r] = "IDLE", !.goal[r] = NoCell]
         IN Parks(s, u, r) /\ u.mode[r] = "IDLE"
<1> DEFINE u == [s EXCEPT !.mode[r] = "IDLE", !.goal[r] = NoCell]
<1>1. u \in WorldType
  BY Values, ZenonT(60) DEF WorldType
<1>2. /\ u.mode = [s.mode EXCEPT ![r] = "IDLE"] /\ u.goal = [s.goal EXCEPT ![r] = NoCell]
      /\ u.cell = s.cell /\ u.task = s.task /\ u.battery = s.battery
      /\ u.active = s.active /\ u.slot = s.slot /\ u.reserved = s.reserved
      /\ u.waiting = s.waiting /\ u.status = s.status /\ u.leg = s.leg
      /\ u.load = s.load /\ u.holder = s.holder /\ u.pickup = s.pickup
      /\ s.mode \in [Robots -> Modes] /\ s.goal \in [Robots -> Cells \union {NoCell}]
  BY DEF WorldType
<1> HIDE DEF u
<1>3. Touches(s, u, r, NoTask) /\ u.cell[r] = s.cell[r]
  BY <1>2 DEF Touches, SameRobot, SameTask
<1>4. u.mode[r] = "IDLE" /\ u.task[r] = NoTask /\ Unbooked(u, r) /\ Alone(u, r)
  BY <1>2, <1>3, StaysAlone DEF Unbooked, Idle, Stays
<1>5. RobotFits(u, r)
  BY <1>4 DEF RobotFits, Unbooked, Idle, OwnCell, Engaged
<1> QED
  BY <1>1, <1>2, <1>3, <1>4, <1>5 DEF Parks, Comes, Stays, u

LEMMA EnterChargingParks ==
  ASSUME NEW s \in WorldType, NEW r \in Robots, Loose(s, r)
  PROVE  Parks(s, EnterCharging(s, r), r) /\ Recharging(EnterCharging(s, r), r)
<1> DEFINE freed == [ReleaseReservation(s, r) EXCEPT !.task[r] = NoTask,
                                                     !.waiting = @ \ {r}]
           full  == [freed EXCEPT !.mode[r] = "IDLE", !.goal[r] = NoCell]
           free  == FreeChargers(freed, r)
<1>1. /\ freed \in WorldType /\ Touches(s, freed, r, NoTask)
      /\ freed.cell[r] = s.cell[r] /\ freed.cell[r] \in Cells
      /\ freed.task[r] = NoTask /\ freed.battery[r] = s.battery[r]
      /\ freed.battery[r] \in 0..Full /\ Unbooked(freed, r)
  <2>1. freed \in WorldType
    BY ZenonT(60) DEF ReleaseReservation, WorldType
  <2>2. /\ freed.mode = s.mode /\ freed.goal = s.goal
        /\ freed.cell = s.cell /\ freed.battery = s.battery
        /\ freed.active = s.active /\ freed.slot = s.slot
        /\ freed.task = [s.task EXCEPT ![r] = NoTask]
        /\ freed.reserved = [s.reserved EXCEPT ![r] = NoCell]
        /\ freed.waiting = s.waiting \ {r} /\ freed.status = s.status
        /\ freed.leg = s.leg /\ freed.load = s.load
        /\ freed.holder = s.holder /\ freed.pickup = s.pickup
        /\ s.task \in [Robots -> Tasks \union {NoTask}]
        /\ s.reserved \in [Robots -> Cells \union {NoCell}]
    BY DEF ReleaseReservation, WorldType
  <2> HIDE DEF freed
  <2>3. Touches(s, freed, r, NoTask)
    BY <2>2 DEF Touches, SameRobot, SameTask, Loose
  <2>4. freed.task[r] = NoTask /\ Unbooked(freed, r)
    BY <2>2 DEF Loose, Idle, Unbooked
  <2> QED
    BY <2>1, <2>2, <2>3, <2>4, Fields
<1> HIDE DEF freed
<1>2. Loose(freed, r)
  BY <1>1, StaysAlone DEF Loose, Stays, Unbooked
<1>3. ASSUME NEW u, Parks(freed, u, r)
      PROVE  Parks(s, u, r)
  BY <1>1, <1>3, TouchesTwice DEF Parks, Comes, Stays
<1>4. CASE freed.battery[r] >= Full
  <2>1. Parks(freed, full, r)
    BY <1>1, <1>2, GoIdleParks DEF Loose
  <2>2. full.battery[r] = Full
    BY <1>1, <1>4, <2>1, FleetAssumption DEF Parks
  <2>3. EnterCharging(s, r) = full
    BY <1>4 DEF EnterCharging, freed, full
  <2> QED
    BY <1>3, <2>1, <2>2, <2>3 DEF Recharging
<1>5. CASE ~(freed.battery[r] >= Full)
  <2>1. free # {} => Closest(freed.cell[r], free) \in free
    BY <1>1, FreeChargersCells, ClosestCell
  <2>2. free # {} =>
          /\ Parks(freed, ReserveAndGo(freed, r, Closest(freed.cell[r], free)), r)
          /\ Recharging(ReserveAndGo(freed, r, Closest(freed.cell[r], free)), r)
    BY <1>1, <1>2, <2>1, ReserveAndGoParks DEF Recharging
  <2>3. Parks(freed, EnterWaiting(freed, r), r) /\ Recharging(EnterWaiting(freed, r), r)
    BY <1>1, <1>2, EnterWaitingParks DEF Recharging, Unbooked
  <2>4. EnterCharging(s, r)
          = IF HasCapacity(freed) /\ free # {}
               /\ Reachable(freed.cell[r], Closest(freed.cell[r], free))
            THEN ReserveAndGo(freed, r, Closest(freed.cell[r], free))
            ELSE EnterWaiting(freed, r)
    BY <1>5 DEF EnterCharging, freed
  <2> QED
    BY <1>3, <2>2, <2>3, <2>4
<1> QED
  BY <1>4, <1>5

\* A robot that waits goes on waiting, is on its way, or charges.
LEMMA TryDispatchParks ==
  ASSUME NEW s \in WorldType, NEW r \in Robots, RobotFits(s, r), s.mode[r] = "WAITING"
  PROVE  Parks(s, TryDispatch(s, r), r)
<1> DEFINE free == FreeChargers(s, r)
           c == Closest(s.cell[r], free)
           u == [s EXCEPT !.goal[r] = c]
<1>1. /\ s.cell[r] \in Cells /\ Loose(s, r) /\ s.reserved[r] = NoCell /\ r \in s.waiting
      /\ s.task[r] = NoTask
  BY Fields DEF RobotFits, Loose, Idle, Working
<1>2. Touches(s, s, r, NoTask) /\ Parks(s, s, r)
  BY <1>1 DEF Touches, SameRobot, SameTask, Parks, Comes, Stays
<1>3. free # {} => c \in free /\ c \in Cells
  BY <1>1, FreeChargersCells, ClosestCell
<1>4. ASSUME free # {} PROVE Parks(s, u, r)
  <2>1. /\ u \in WorldType /\ Touches(s, u, r, NoTask) /\ u.cell[r] = s.cell[r]
        /\ u.mode[r] = "WAITING" /\ u.task[r] = NoTask /\ r \in u.waiting
        /\ u.battery[r] = s.battery[r] /\ Idle(u, r) /\ u.reserved[r] = NoCell
    <3> HIDE DEF c
    <3>1. u \in WorldType
      BY <1>3, <1>4, ZenonT(60) DEF WorldType
    <3>2. /\ u.mode = s.mode /\ u.goal = [s.goal EXCEPT ![r] = c]
          /\ u.waiting = s.waiting /\ u.reserved = s.reserved
          /\ u.cell = s.cell /\ u.task = s.task /\ u.battery = s.battery
          /\ u.active = s.active /\ u.slot = s.slot
          /\ u.status = s.status /\ u.leg = s.leg
          /\ u.load = s.load /\ u.holder = s.holder /\ u.pickup = s.pickup
          /\ s.goal \in [Robots -> Cells \union {NoCell}]
      BY DEF WorldType
    <3> HIDE DEF u
    <3> QED
      BY <1>1, <3>1, <3>2 DEF Touches, SameRobot, SameTask, Loose, Idle
  <2> HIDE DEF u
  <2>2. Alone(u, r)
    BY <1>1, <2>1, StaysAlone DEF Loose, Stays
  <2>3. RobotFits(u, r)
    BY <2>1, <2>2 DEF RobotFits, Idle, OwnCell, Engaged
  <2> QED
    BY <2>1, <2>3 DEF Parks, Comes, Stays
<1>5. free # {} => Parks(s, ReserveAndGo(s, r, c), r)
  BY <1>1, <1>3, ReserveAndGoParks
<1>6. s.cell[r] \in Chargers => Parks(s, StartCharging(s, r, s.cell[r]), r)
  BY <1>1, StartChargingParks
<1> HIDE DEF u, c
<1> QED
  BY <1>2, <1>4, <1>5, <1>6 DEF TryDispatch, u, c

LEMMA WaitingTurnParks ==
  ASSUME NEW s \in WorldType, NEW r \in Robots, RobotFits(s, r), s.mode[r] = "WAITING"
  PROVE  Parks(s, WaitingTurn(s, r), r)
<1> DEFINE first == TryDispatch(s, r)
           v == RelocateOffCharger(first, r)
<1>1. Parks(s, first, r) /\ first \in WorldType /\ RobotFits(first, r)
  BY TryDispatchParks DEF Parks, Comes
<1> HIDE DEF first
<1>2. ASSUME first.mode[r] = "WAITING"
      PROVE  v.mode[r] = "WAITING" /\ Parks(first, v, r)
  <2>1. SetDown(first, v, r)
    BY <1>1, RelocateOffChargerSets
  <2> HIDE DEF v
  <2>2. Alone(v, r)
    BY <1>1, <2>1, StaysAlone DEF SetDown, RobotFits
  <2>3. RobotFits(v, r)
    BY <1>1, <1>2, <2>1, <2>2 DEF SetDown, RobotFits, OwnCell, Engaged, Working
  <2> QED
    BY <1>1, <1>2, <2>1, <2>3 DEF SetDown, Parks, Comes
<1>3. ASSUME NEW a, NEW b, Parks(s, a, r), Parks(a, b, r)
      PROVE  Parks(s, b, r)
  BY <1>3, TouchesTwice DEF Parks, Comes, Stays
<1> HIDE DEF v
<1>4. first.mode[r] = "WAITING" => Parks(v, TryDispatch(v, r), r)
  BY <1>2, TryDispatchParks DEF Parks, Comes
<1> QED
  BY <1>1, <1>2, <1>3, <1>4 DEF WaitingTurn, first, v

-----------------------------------------------------------------------------
(* Interruption and failure.                                               *)

\* One handler after another.
LEMMA ComesTwice ==
  ASSUME NEW s, NEW v, NEW u, NEW r, NEW t,
         Touches(s, v, r, t), Stays(s, v, r),
         t # NoTask => LoadCell(v, t) = LoadCell(s, t), Comes(v, u, r, t)
  PROVE  Comes(s, u, r, t)
BY TouchesTwice DEF Comes, Stays

\* A handler that touches no task, after t has been given up.
LEMMA ParksAfter ==
  ASSUME NEW s \in WorldType, NEW v \in WorldType, NEW u, NEW r \in Robots, NEW t \in Tasks,
         Touches(s, v, r, t), Stays(s, v, r), LoadCell(v, t) = LoadCell(s, t),
         v.task[r] = NoTask, TaskFits(v, t),
         Comes(v, u, r, NoTask), v.status[t] = "INTERRUPTED" => Recharging(u, r)
  PROVE  Comes(s, u, r, t)
<1>1. u \in WorldType /\ Touches(v, u, r, NoTask) /\ Touches(v, u, r, t)
  BY TouchesLess DEF Comes
<1>2. t \in Tasks \ {NoTask}
  BY FleetAssumption
<1>3. TaskFits(u, t) /\ LoadCell(u, t) = LoadCell(v, t)
  BY <1>1, <1>2, OtherTaskFits
<1>4. SameTask(v, u, t)
  BY <1>1, <1>2 DEF Touches
<1> QED
  BY <1>1, <1>3, <1>4, TouchesTwice DEF Comes, Stays, SameTask

\* What an interruption leaves: a robot without a task, a task without a robot and
\* its load where it was.
LEMMA InterruptFrees ==
  ASSUME NEW s \in WorldType, NEW r \in Robots, NEW t, Working(s, r, t), TaskFits(s, t)
  PROVE  LET u == Interrupt(s, r)
         IN /\ u \in WorldType /\ Touches(s, u, r, t) /\ u.cell[r] = s.cell[r]
            /\ u.battery[r] = s.battery[r] /\ u.task[r] = NoTask
            /\ Unbooked(u, r) /\ Loose(u, r)
            /\ u.status[t] = "INTERRUPTED" /\ TaskFits(u, t)
            /\ LoadCell(u, t) = LoadCell(s, t)
<1> DEFINE u == Interrupt(s, r)
           carried == s.leg[t] = "TO_DROPOFF" \/ s.load[t] = "CARRIED"
<1>1. s.task[r] = t /\ t \in Tasks /\ s.cell[r] \in Cells
  BY Fields DEF Working
<1>2. u \in WorldType
  BY <1>1, Values, ZenonT(60) DEF Interrupt, WorldType
<1>3. /\ u.mode = s.mode /\ u.cell = s.cell /\ u.battery = s.battery
      /\ u.active = s.active /\ u.slot = s.slot /\ u.reserved = s.reserved
      /\ u.waiting = s.waiting
      /\ u.task = [s.task EXCEPT ![r] = NoTask] /\ u.goal = [s.goal EXCEPT ![r] = NoCell]
      /\ u.status = [s.status EXCEPT ![t] = "INTERRUPTED"]
      /\ u.leg = [s.leg EXCEPT ![t] = "TO_PICKUP"]
      /\ u.holder = [s.holder EXCEPT ![t] = NoRobot]
      /\ u.load = [s.load EXCEPT ![t] = IF carried THEN "STAGED" ELSE @]
      /\ u.pickup = [s.pickup EXCEPT ![t] = IF carried THEN s.cell[r] ELSE @]
  BY <1>1 DEF Interrupt, WorldType
<1>4. /\ s.task \in [Robots -> Tasks \union {NoTask}]
      /\ s.goal \in [Robots -> Cells \union {NoCell}]
      /\ s.status \in [Tasks -> Statuses] /\ s.leg \in [Tasks -> Legs]
      /\ s.holder \in [Tasks -> Robots \union {NoRobot}]
      /\ s.load \in [Tasks -> Loads] /\ s.pickup \in [Tasks -> Cells]
  BY DEF WorldType
<1> HIDE DEF u
<1>5. Touches(s, u, r, t)
  BY <1>1, <1>3, <1>4 DEF Touches, SameRobot, SameTask
<1>6. u.task[r] = NoTask /\ Unbooked(u, r)
  BY <1>3, <1>4 DEF Working, Unbooked, Idle
<1>7. Alone(u, r)
  BY <1>3, <1>5, StaysAlone DEF Working, Stays
<1>8. /\ u.status[t] = "INTERRUPTED" /\ u.leg[t] = "TO_PICKUP"
      /\ u.load[t] = IF carried THEN "STAGED" ELSE s.load[t]
      /\ u.pickup[t] = IF carried THEN s.cell[r] ELSE s.pickup[t]
  BY <1>1, <1>3, <1>4
<1>9. TaskFits(u, t)
  BY <1>8 DEF TaskFits, Working
<1>10. LoadCell(u, t) = LoadCell(s, t)
  BY <1>1, <1>8 DEF TaskFits, Working, LoadCell
<1> QED
  BY <1>2, <1>3, <1>5, <1>6, <1>7, <1>8, <1>9, <1>10 DEF Loose, Unbooked, u

LEMMA RelocateToBaySets ==
  ASSUME NEW s \in WorldType, NEW r \in Robots
  PROVE  SetDown(s, RelocateToBay(s, r), r)
<1> DEFINE free == Bays \ OthersAt(s, r)
           c == Closest(s.cell[r], free)
<1>1. CASE free # {}
  <2>1. s.cell[r] \in Cells /\ free \in SUBSET Cells /\ Bays \intersect Chargers = {}
    BY Fields, FleetAssumption
  <2>2. c \in Cells \ Chargers
    BY <1>1, <2>1, ClosestCell
  <2> HIDE DEF c
  <2>3. SetDown(s, [s EXCEPT !.cell[r] = c, !.goal[r] = NoCell], r)
    BY <2>2, PutDown
  <2> QED
    BY <2>3, StayPut DEF RelocateToBay, c
<1>2. CASE free = {}
  BY <1>2, StayPut DEF RelocateToBay
<1> QED
  BY <1>1, <1>2

\* Going down, from whatever r was doing.
LEMMA GoDownComes ==
  ASSUME NEW s \in WorldType, NEW r \in Robots, NEW ticks \in 0..MaxDown, NEW t,
         s.task[r] = t, Alone(s, r), t # NoTask => Working(s, r, t) /\ TaskFits(s, t)
  PROVE  Comes(s, GoDown(s, r, ticks), r, t) /\ GoDown(s, r, ticks).mode[r] = "FAILED"
<1> DEFINE idle == IF t # NoTask THEN Interrupt(s, r) ELSE s
           down == [Release(idle, r) EXCEPT !.mode[r] = "FAILED", !.goal[r] = NoCell,
                                            !.repair[r] = ticks]
           u == RelocateToBay(down, r)
<1>1. /\ idle \in WorldType /\ Touches(s, idle, r, t) /\ idle.cell[r] = s.cell[r]
      /\ idle.task[r] = NoTask /\ Alone(idle, r)
      /\ t # NoTask => TaskFits(idle, t) /\ LoadCell(idle, t) = LoadCell(s, t)
  BY InterruptFrees DEF Touches, SameRobot, SameTask, Loose
<1>2. u = GoDown(s, r, ticks)
  BY DEF GoDown
<1> HIDE DEF idle
<1>3. /\ down \in WorldType /\ Touches(idle, down, r, NoTask)
      /\ down.cell[r] = idle.cell[r] /\ down.mode[r] = "FAILED"
      /\ down.task[r] = NoTask /\ Unbooked(down, r)
  <2>1. down \in WorldType
    BY <1>1, Values, ZenonT(60) DEF Release, WorldType
  <2>2. /\ down.task = idle.task /\ down.cell = idle.cell /\ down.battery = idle.battery
        /\ down.mode = [idle.mode EXCEPT ![r] = "FAILED"]
        /\ down.goal = [idle.goal EXCEPT ![r] = NoCell]
        /\ down.active = [idle.active EXCEPT ![r] = 0]
        /\ down.slot = [idle.slot EXCEPT ![r] = NoCell]
        /\ down.reserved = [idle.reserved EXCEPT ![r] = NoCell]
        /\ down.waiting = idle.waiting \ {r}
        /\ down.status = idle.status /\ down.leg = idle.leg /\ down.load = idle.load
        /\ down.holder = idle.holder /\ down.pickup = idle.pickup
    BY <1>1 DEF Release, WorldType
  <2>3. /\ idle.mode \in [Robots -> Modes]
        /\ idle.goal \in [Robots -> Cells \union {NoCell}]
        /\ idle.active \in [Robots -> 0..ChargeTicks]
        /\ idle.slot \in [Robots -> Cells \union {NoCell}]
        /\ idle.reserved \in [Robots -> Cells \union {NoCell}]
    BY <1>1 DEF WorldType
  <2> HIDE DEF down
  <2> QED
    BY <1>1, <2>1, <2>2, <2>3 DEF Touches, SameRobot, SameTask, Unbooked, Idle
<1> HIDE DEF down
<1>4. SetDown(down, u, r)
  BY <1>3, RelocateToBaySets
<1> HIDE DEF u
<1>5. u.mode[r] = "FAILED" /\ u.task[r] = NoTask /\ Unbooked(u, r)
  BY <1>3, <1>4 DEF SetDown, Unbooked, Idle
<1>6. /\ u \in WorldType /\ Touches(idle, u, r, NoTask) /\ Stays(idle, u, r)
  BY <1>3, <1>4, TouchesTwice DEF SetDown, Stays
<1>7. Alone(u, r)
  BY <1>1, <1>6, StaysAlone
<1>8. RobotFits(u, r)
  BY <1>5, <1>7 DEF RobotFits, Unbooked, Idle, OwnCell, Engaged
<1>9. Comes(idle, u, r, NoTask) /\ Recharging(u, r)
  BY <1>5, <1>6, <1>8 DEF Comes, Recharging
<1>10. Comes(s, u, r, t)
  <2>1. CASE t = NoTask
    BY <1>1, <1>9, <2>1, ComesTwice DEF Stays
  <2>2. CASE t # NoTask
    <3>1. t \in Tasks
      BY <2>2, Fields
    <3> QED
      BY <1>1, <1>9, <2>2, <3>1, ParksAfter DEF Stays
  <2> QED
    BY <2>1, <2>2
<1> QED
  BY <1>2, <1>5, <1>10

\* Edits of r's own timers and battery.
LEMMA DepleteComes ==
  ASSUME NEW s \in WorldType, NEW r \in Robots, NEW t, Mobile(s, r),
         s.task[r] = t, Alone(s, r), t # NoTask => Working(s, r, t) /\ TaskFits(s, t)
  PROVE  Comes(s, Deplete(s, r), r, t) /\ Deplete(s, r).mode[r] = "FAILED"
<1> DEFINE v == [s EXCEPT !.battery[r] = 0]
<1>1. v \in WorldType
  BY Values, ZenonT(60) DEF WorldType
<1>2. /\ v.mode = s.mode /\ v.task = s.task /\ v.cell = s.cell /\ v.goal = s.goal
      /\ v.active = s.active /\ v.slot = s.slot /\ v.reserved = s.reserved
      /\ v.waiting = s.waiting /\ v.status = s.status /\ v.leg = s.leg
      /\ v.load = s.load /\ v.holder = s.holder /\ v.pickup = s.pickup
      /\ v.battery = [s.battery EXCEPT ![r] = 0] /\ s.battery \in [Robots -> 0..Full]
  BY DEF WorldType
<1> HIDE DEF v
<1>3. Touches(s, v, r, t) /\ Stays(s, v, r) /\ LoadCell(v, t) = LoadCell(s, t)
  BY <1>2 DEF Touches, SameRobot, SameTask, Stays, LoadCell
<1>4. Alone(v, r)
  BY <1>3, StaysAlone
<1>5. t # NoTask => Working(v, r, t) /\ TaskFits(v, t)
  BY <1>2, <1>4 DEF Working, Unbooked, Idle, TaskFits
<1>6. Comes(v, GoDown(v, r, RecoveryTicks), r, t) /\ GoDown(v, r, RecoveryTicks).mode[r] = "FAILED"
  BY <1>1, <1>2, <1>4, <1>5, Values, GoDownComes
<1> QED
  BY <1>3, <1>6, ComesTwice DEF Deplete, Mobile, v

\* The check keeps the task, or gives it up for energy.
LEMMA CheckBatteryComes ==
  ASSUME NEW s \in WorldType, NEW r \in Robots, NEW t, Working(s, r, t), TaskFits(s, t)
  PROVE  LET u == CheckBattery(s, r)
         IN \/ u = s /\ s.battery[r] # 0
            \/ /\ Comes(s, u, r, t) /\ u.task[r] = NoTask
               /\ IF s.battery[r] = 0 THEN u.mode[r] = "FAILED"
                  ELSE u.battery[r] = s.battery[r]
<1> DEFINE v == Interrupt(s, r)
           u == EnterCharging(v, r)
<1>1. s.task[r] = t /\ t \in Tasks /\ t # NoTask /\ Alone(s, r)
  BY FleetAssumption DEF Working
<1>2. CASE s.battery[r] = 0
  <2>1. Comes(s, Deplete(s, r), r, t) /\ Deplete(s, r).mode[r] = "FAILED"
    BY <1>1, DepleteComes DEF Mobile, Working
  <2>2. Deplete(s, r).task[r] = NoTask
    BY <2>1 DEF Comes, RobotFits, Working
  <2> QED
    BY <1>1, <1>2, <2>1, <2>2 DEF CheckBattery
<1>3. CASE s.battery[r] # 0
  <2>1. /\ v \in WorldType /\ Touches(s, v, r, t) /\ v.cell[r] = s.cell[r]
        /\ v.battery[r] = s.battery[r] /\ v.task[r] = NoTask /\ Loose(v, r)
        /\ TaskFits(v, t) /\ LoadCell(v, t) = LoadCell(s, t)
    BY InterruptFrees
  <2> HIDE DEF v
  <2>2. Parks(v, u, r) /\ Recharging(u, r)
    BY <2>1, EnterChargingParks
  <2> HIDE DEF u
  <2>3. Comes(s, u, r, t) /\ u.task[r] = NoTask /\ u.battery[r] = s.battery[r]
    BY <1>1, <2>1, <2>2, ParksAfter DEF Parks, Stays
  <2>4. CheckBattery(s, r) \in {s, u}
    BY <1>1, <1>3 DEF CheckBattery, u, v
  <2> QED
    BY <1>3, <2>3, <2>4
<1> QED
  BY <1>2, <1>3

-----------------------------------------------------------------------------
(* Tasks.                                                                  *)

\* The delivery of a task.
LEMMA CompleteComes ==
  ASSUME NEW s \in WorldType, NEW r \in Robots, NEW t, Working(s, r, t), TaskFits(s, t),
         s.leg[t] = "TO_DROPOFF", s.cell[r] = Dropoff[t]
  PROVE  Comes(s, Complete(s, r), r, t) /\ Complete(s, r).task[r] = NoTask
<1> DEFINE u == Complete(s, r)
<1>1. s.task[r] = t /\ t \in Tasks
  BY DEF Working
<1>2. u \in WorldType
  BY <1>1, Values, ZenonT(60) DEF Complete, WorldType
<1>3. /\ u.cell = s.cell /\ u.battery = s.battery
      /\ u.active = s.active /\ u.slot = s.slot /\ u.reserved = s.reserved
      /\ u.waiting = s.waiting /\ u.holder = s.holder /\ u.pickup = s.pickup
      /\ u.mode = [s.mode EXCEPT ![r] = "IDLE"]
      /\ u.task = [s.task EXCEPT ![r] = NoTask] /\ u.goal = [s.goal EXCEPT ![r] = NoCell]
      /\ u.status = [s.status EXCEPT ![t] = "COMPLETED"]
      /\ u.leg = [s.leg EXCEPT ![t] = "DONE"]
      /\ u.load = [s.load EXCEPT ![t] = "DELIVERED"]
  BY <1>1 DEF Complete, WorldType
<1>4. /\ s.task \in [Robots -> Tasks \union {NoTask}] /\ s.mode \in [Robots -> Modes]
      /\ s.goal \in [Robots -> Cells \union {NoCell}]
      /\ s.status \in [Tasks -> Statuses] /\ s.leg \in [Tasks -> Legs]
      /\ s.load \in [Tasks -> Loads]
  BY DEF WorldType
<1> HIDE DEF u
<1>5. Touches(s, u, r, t) /\ Stays(s, u, r)
  BY <1>1, <1>3, <1>4 DEF Touches, SameRobot, SameTask, Stays
<1>6. u.task[r] = NoTask /\ u.mode[r] = "IDLE" /\ Unbooked(u, r) /\ Alone(u, r)
  BY <1>3, <1>4, <1>5, StaysAlone DEF Working, Unbooked, Idle
<1>7. RobotFits(u, r)
  BY <1>6 DEF RobotFits, Unbooked, Idle, OwnCell, Engaged
<1>8. /\ u.status[t] = "COMPLETED" /\ u.leg[t] = "DONE" /\ u.load[t] = "DELIVERED"
  BY <1>1, <1>3, <1>4
<1>9. TaskFits(u, t)
  BY <1>8 DEF TaskFits
<1>10. LoadCell(u, t) = LoadCell(s, t)
  BY <1>3, <1>8 DEF TaskFits, Working, LoadCell
<1> QED
  BY <1>2, <1>5, <1>6, <1>7, <1>8, <1>9, <1>10 DEF Comes, u

\* Loading, and all that follows in the same call: no route is missing.
LEMMA PickUpComes ==
  ASSUME NEW s \in WorldType, NEW r \in Robots, NEW t, Working(s, r, t), TaskFits(s, t),
         s.leg[t] = "TO_PICKUP", s.cell[r] = s.pickup[t]
  PROVE  Comes(s, PickUp(s, r), r, t)
<1> DEFINE v == [s EXCEPT !.leg[t] = "TO_DROPOFF", !.load[t] = "CARRIED",
                          !.mode[r] = "MOVING"]
           loaded == CheckBattery(v, r)
           bound == [v EXCEPT !.goal[r] = Dropoff[t]]
<1>1. /\ s.task[r] = t /\ t \in Tasks /\ t # NoTask
      /\ Dropoff[t] \in Cells /\ Dropoff[t] # NoCell
  BY FleetAssumption, StationAssumption DEF Working
<1>2. v \in WorldType
  BY <1>1, Values, ZenonT(60) DEF WorldType
<1>3. /\ v.cell = s.cell /\ v.battery = s.battery /\ v.task = s.task /\ v.goal = s.goal
      /\ v.active = s.active /\ v.slot = s.slot /\ v.reserved = s.reserved
      /\ v.waiting = s.waiting /\ v.holder = s.holder /\ v.pickup = s.pickup
      /\ v.status = s.status
      /\ v.mode = [s.mode EXCEPT ![r] = "MOVING"]
      /\ v.leg = [s.leg EXCEPT ![t] = "TO_DROPOFF"]
      /\ v.load = [s.load EXCEPT ![t] = "CARRIED"]
      /\ s.mode \in [Robots -> Modes] /\ s.leg \in [Tasks -> Legs]
      /\ s.load \in [Tasks -> Loads]
  BY <1>1 DEF WorldType
<1>4. PickUp(s, r) = IF loaded.task[r] # t THEN loaded
                     ELSE IF ~Reachable(loaded.cell[r], Dropoff[t]) THEN FailTask(loaded, r)
                     ELSE IF loaded.cell[r] = Dropoff[t] THEN Complete(loaded, r)
                     ELSE [loaded EXCEPT !.goal[r] = Dropoff[t]]
  BY <1>1 DEF PickUp
<1> HIDE DEF v
<1>5. Touches(s, v, r, t) /\ Stays(s, v, r)
  BY <1>1, <1>3 DEF Touches, SameRobot, SameTask, Stays
<1>6. Working(v, r, t)
  BY <1>3, <1>5, StaysAlone DEF Working, Unbooked, Idle
<1>7. TaskFits(v, t)
  BY <1>1, <1>3 DEF TaskFits, Working
<1>8. LoadCell(v, t) = LoadCell(s, t)
  BY <1>1, <1>3 DEF LoadCell, TaskFits, Working
<1>9. CASE loaded = v
  <2>1. /\ loaded.task[r] = t /\ loaded.cell[r] = s.cell[r] /\ v.leg[t] = "TO_DROPOFF"
        /\ Reachable(loaded.cell[r], Dropoff[t])
    BY <1>1, <1>3, <1>9 DEF TaskFits, Working
  <2>2. CASE s.cell[r] = Dropoff[t]
    <3>1. Comes(v, Complete(v, r), r, t)
      BY <1>2, <1>3, <1>6, <1>7, <2>1, <2>2, CompleteComes
    <3> QED
      BY <1>4, <1>5, <1>8, <1>9, <2>1, <2>2, <3>1, ComesTwice
  <2>3. CASE s.cell[r] # Dropoff[t]
    <3>1. bound \in WorldType
      BY <1>1, <1>2, ZenonT(60) DEF WorldType
    <3>2. /\ bound.cell = v.cell /\ bound.battery = v.battery /\ bound.task = v.task
          /\ bound.active = v.active /\ bound.slot = v.slot /\ bound.mode = v.mode
          /\ bound.reserved = v.reserved /\ bound.waiting = v.waiting
          /\ bound.holder = v.holder /\ bound.pickup = v.pickup
          /\ bound.status = v.status /\ bound.leg = v.leg /\ bound.load = v.load
          /\ bound.goal = [v.goal EXCEPT ![r] = Dropoff[t]]
          /\ v.goal \in [Robots -> Cells \union {NoCell}]
      BY <1>2 DEF WorldType
    <3> HIDE DEF bound
    <3>3. Touches(v, bound, r, t) /\ Stays(v, bound, r)
      BY <3>2 DEF Touches, SameRobot, SameTask, Stays
    <3>4. Working(bound, r, t)
      BY <1>6, <3>2, <3>3, StaysAlone DEF Working, Unbooked, Idle
    <3>5. RobotFits(bound, r)
      BY <1>1, <1>3, <2>1, <2>3, <3>2, <3>4
         DEF RobotFits, Working, Unbooked, Idle, OwnCell, Target
    <3>6. TaskFits(bound, t) /\ LoadCell(bound, t) = LoadCell(v, t)
      BY <1>7, <3>2 DEF TaskFits, LoadCell
    <3>7. Comes(v, bound, r, t)
      BY <3>1, <3>3, <3>4, <3>5, <3>6 DEF Comes, Working
    <3>8. PickUp(s, r) = bound
      BY <1>4, <1>9, <2>1, <2>3 DEF bound
    <3> QED
      BY <1>5, <1>8, <3>7, <3>8, ComesTwice
  <2> QED
    BY <2>2, <2>3
<1>10. CASE Comes(v, loaded, r, t) /\ loaded.task[r] = NoTask
  BY <1>1, <1>4, <1>5, <1>8, <1>10, ComesTwice
<1> QED
  BY <1>2, <1>6, <1>7, <1>9, <1>10, CheckBatteryComes

\* A feasible task has routes to its pickup and from there to its dropoff.
LEMMA FeasibleRoutes ==
  ASSUME NEW s \in WorldType, NEW r \in Robots, NEW t \in Tasks,
         s.leg[t] = "TO_PICKUP", Feasible(s, r, t)
  PROVE  Reachable(s.cell[r], s.pickup[t]) /\ Reachable(s.pickup[t], Dropoff[t])
<1>1. /\ s.cell[r] \in Cells /\ s.pickup[t] \in Cells /\ Dropoff[t] \in Cells
      /\ FailedCells(s, r) \in SUBSET Cells
  BY Fields, FleetAssumption DEF WorldType, FailedCells
<1>2. /\ PathLength(s.cell[r], s.pickup[t], FailedCells(s, r)) # NoPath
      /\ PathLength(s.pickup[t], Dropoff[t], FailedCells(s, r)) # NoPath
  BY DEF Feasible, CanFinish
<1>3. /\ Dist(s.cell[r], s.pickup[t], FailedCells(s, r)) # NoPath
      /\ Dist(s.pickup[t], Dropoff[t], FailedCells(s, r)) # NoPath
  BY <1>2 DEF PathLength
<1> QED
  BY <1>1, <1>3, DistAssumption DEF Reachable

\* An idle robot that is given a feasible task ends on its way to the pickup, to
\* the dropoff, idle again, or for energy: the assignment never fails the task.
LEMMA BeginComes ==
  ASSUME NEW s \in WorldType, NEW r \in Robots, NEW t \in Tasks,
         RobotFits(s, r), s.mode[r] = "IDLE", TaskFits(s, t),
         s.status[t] \in {"PENDING", "INTERRUPTED"}, Feasible(s, r, t)
  PROVE  Comes(s, Begin(s, r, t), r, t)
<1> DEFINE taken == [s EXCEPT !.status[t] = "ASSIGNED", !.holder[t] = r,
                              !.leg[t] = "TO_PICKUP",   !.task[r] = t,
                              !.memo[r] = NoTask,       !.goal[r] = s.pickup[t],
                              !.mode[r] = "MOVING",     !.idle[r] = 0]
           routed == IF ~Reachable(s.cell[r], s.pickup[t]) THEN FailTask(taken, r)
                     ELSE IF s.cell[r] = s.pickup[t] THEN PickUp(taken, r)
                     ELSE taken
<1>1. /\ s.pickup[t] \in Cells /\ s.pickup[t] # NoCell /\ t # NoTask
      /\ s.leg[t] = "TO_PICKUP" /\ s.task[r] = NoTask
      /\ Unbooked(s, r) /\ Alone(s, r)
  BY Fields, FleetAssumption, StationAssumption
     DEF WorldType, TaskFits, RobotFits, Working, Unbooked, Idle
<1>2. Reachable(s.cell[r], s.pickup[t]) /\ Reachable(s.pickup[t], Dropoff[t])
  BY <1>1, FeasibleRoutes
<1>3. taken \in WorldType
  BY <1>1, Values, ZenonT(60) DEF WorldType
<1>4. /\ taken.cell = s.cell /\ taken.battery = s.battery
      /\ taken.active = s.active /\ taken.slot = s.slot /\ taken.reserved = s.reserved
      /\ taken.waiting = s.waiting /\ taken.pickup = s.pickup /\ taken.load = s.load
      /\ taken.mode = [s.mode EXCEPT ![r] = "MOVING"]
      /\ taken.task = [s.task EXCEPT ![r] = t]
      /\ taken.goal = [s.goal EXCEPT ![r] = s.pickup[t]]
      /\ taken.status = [s.status EXCEPT ![t] = "ASSIGNED"]
      /\ taken.leg = [s.leg EXCEPT ![t] = "TO_PICKUP"]
      /\ taken.holder = [s.holder EXCEPT ![t] = r]
  BY <1>1 DEF WorldType
<1>5. /\ s.mode \in [Robots -> Modes] /\ s.task \in [Robots -> Tasks \union {NoTask}]
      /\ s.goal \in [Robots -> Cells \union {NoCell}]
      /\ s.status \in [Tasks -> Statuses] /\ s.leg \in [Tasks -> Legs]
      /\ s.holder \in [Tasks -> Robots \union {NoRobot}]
  BY DEF WorldType
<1> HIDE DEF taken
<1>6. Touches(s, taken, r, t) /\ Stays(s, taken, r)
  BY <1>1, <1>4, <1>5 DEF Touches, SameRobot, SameTask, Stays
<1>7. Working(taken, r, t)
  BY <1>1, <1>4, <1>5, <1>6, StaysAlone DEF Working, Unbooked, Idle
<1>8. TaskFits(taken, t) /\ LoadCell(taken, t) = LoadCell(s, t)
  BY <1>1, <1>2, <1>4, <1>5 DEF TaskFits, LoadCell
<1>9. Comes(s, routed, r, t)
  <2>1. CASE s.cell[r] = s.pickup[t]
    <3>1. Comes(taken, PickUp(taken, r), r, t)
      BY <1>3, <1>4, <1>5, <1>7, <1>8, <2>1, PickUpComes
    <3> QED
      BY <1>2, <1>6, <1>8, <2>1, <3>1, ComesTwice
  <2>2. CASE s.cell[r] # s.pickup[t]
    <3>1. RobotFits(taken, r)
      BY <1>1, <1>4, <1>5, <1>7, <2>2
         DEF RobotFits, Working, Unbooked, Idle, OwnCell, Target
    <3>2. Comes(s, taken, r, t)
      BY <1>3, <1>6, <1>7, <1>8, <3>1 DEF Comes, Working
    <3> QED
      BY <1>2, <2>2, <3>2
  <2> QED
    BY <2>1, <2>2
<1>10. Begin(s, r, t) = IF routed.task[r] = t THEN CheckBattery(routed, r) ELSE routed
  BY DEF Begin, taken
<1> HIDE DEF routed
<1>11. CASE routed.task[r] = t
  <2>1. routed \in WorldType /\ Working(routed, r, t) /\ TaskFits(routed, t)
    BY <1>1, <1>9, <1>11 DEF Comes, RobotFits
  <2>2. CheckBattery(routed, r) = routed \/ Comes(routed, CheckBattery(routed, r), r, t)
    BY <2>1, CheckBatteryComes
  <2>3. ASSUME NEW u, Comes(routed, u, r, t) PROVE Comes(s, u, r, t)
    BY <1>1, <1>9, <2>3, ComesTwice DEF Comes
  <2> QED
    BY <1>9, <1>10, <1>11, <2>2, <2>3
<1> QED
  BY <1>9, <1>10, <1>11

-----------------------------------------------------------------------------
(* The turns.                                                              *)

\* From s to v nothing changes that the invariant speaks of.
Alike(s, v) ==
  /\ \A q \in Robots : SameRobot(s, v, q)
  /\ \A t \in Tasks : SameTask(s, v, t)
  /\ v.cell = s.cell

LEMMA AlikeFits ==
  ASSUME NEW s \in WorldType, NEW v \in WorldType, Alike(s, v), NEW r \in Robots,
         RobotFits(s, r)
  PROVE  RobotFits(v, r)
<1>1. SameRobot(s, v, r) /\ \A q \in Robots : SameRobot(s, v, q)
  BY DEF Alike
<1>2. Alone(v, r) <=> Alone(s, r)
  BY <1>1 DEF SameRobot, Alone, OthersAt
<1>3. OwnCell(v, r) <=> OwnCell(s, r)
  BY <1>1 DEF SameRobot, OwnCell
<1>4. s.task[r] # NoTask => s.task[r] \in Tasks /\ SameTask(s, v, s.task[r])
  BY Fields DEF Alike
<1>5. Engaged(v, r) <=> Engaged(s, r)
  BY <1>1 DEF SameRobot, Engaged
<1>6. ASSUME s.task[r] # NoTask, Working(s, r, s.task[r]), s.goal[r] = Target(s, s.task[r])
      PROVE  Working(v, r, v.task[r]) /\ v.goal[r] = Target(v, v.task[r])
  BY <1>1, <1>2, <1>4, <1>6 DEF SameRobot, SameTask, Working, Unbooked, Idle, Target
<1> QED
  BY <1>1, <1>2, <1>3, <1>5, <1>6 DEF RobotFits, SameRobot

LEMMA AlikeTaskFits ==
  ASSUME NEW s \in WorldType, NEW v \in WorldType, Alike(s, v), NEW t \in Tasks,
         TaskFits(s, t)
  PROVE  TaskFits(v, t)
<1>1. SameTask(s, v, t) /\ \A q \in Robots : SameRobot(s, v, q)
  BY DEF Alike
<1> QED
  BY <1>1 DEF TaskFits, SameTask, SameRobot

\* The tasks a handler of r may work on: its own or nobody's.
MayWork(s, r, t) ==
  /\ s.task[r] \in {t, NoTask}
  /\ t # NoTask => t \in Tasks /\ (s.task[r] = t \/ s.status[t] # "ASSIGNED")

\* What a turn of r comes to.
Handles(s, u, r) == \E t : MayWork(s, r, t) /\ Comes(s, u, r, t)

LEMMA HandlesAfter ==
  ASSUME NEW s \in WorldType, NEW v \in WorldType, NEW u, NEW r \in Robots,
         Touches(s, v, r, NoTask), v.cell = s.cell, v.task[r] = s.task[r],
         Handles(v, u, r)
  PROVE  Handles(s, u, r)
<1>1. PICK t : MayWork(v, r, t) /\ Comes(v, u, r, t)
  BY DEF Handles
<1>2. t # NoTask => SameTask(s, v, t)
  BY <1>1, FleetAssumption DEF MayWork, Touches
<1>3. MayWork(s, r, t)
  BY <1>1, <1>2 DEF MayWork, SameTask
<1>4. t # NoTask => LoadCell(v, t) = LoadCell(s, t)
  BY <1>2 DEF SameTask, LoadCell
<1>5. Comes(s, u, r, t)
  BY <1>1, <1>4, TouchesLess, ComesTwice DEF Stays
<1> QED
  BY <1>3, <1>5 DEF Handles

\* A turn that does nothing.
LEMMA HandlesNothing ==
  ASSUME NEW s \in WorldType, NEW r \in Robots, RobotFits(s, r),
         \A t \in Tasks : TaskFits(s, t)
  PROVE  Comes(s, s, r, s.task[r]) /\ Handles(s, s, r)
<1> DEFINE t == s.task[r]
<1>1. t \in Tasks \union {NoTask} /\ (t # NoTask => s.status[t] = "ASSIGNED")
  BY Fields DEF RobotFits, Working
<1>2. Comes(s, s, r, t)
  BY <1>1 DEF Comes, Touches, SameRobot, SameTask, Stays
<1> QED
  BY <1>1, <1>2 DEF Handles, MayWork

\* A turn that concerns no task.
LEMMA HandlesParks ==
  ASSUME NEW s, NEW u, NEW r, s.task[r] = NoTask, Comes(s, u, r, NoTask)
  PROVE  Handles(s, u, r)
BY DEF Handles, MayWork

LEMMA ReclaimHandles ==
  ASSUME NEW s \in WorldType, NEW r \in Robots, RobotFits(s, r), s.mode[r] = "IDLE",
         \A t \in Tasks : TaskFits(s, t)
  PROVE  Handles(s, Reclaim(s, r), r)
<1> DEFINE t == s.memo[r]
           free == [s EXCEPT !.memo[r] = NoTask]
<1>1. free \in WorldType /\ Alike(s, free) /\ free.mode[r] = "IDLE"
  BY DEF WorldType, Alike, SameRobot, SameTask
<1>2. Touches(s, free, r, NoTask) /\ free.task[r] = s.task[r] /\ free.cell = s.cell
  BY <1>1 DEF Alike, Touches, SameRobot
<1>3. Reclaim(s, r) = IF /\ t # NoTask
                         /\ s.status[t] = "INTERRUPTED" /\ s.holder[t] = NoRobot
                         /\ CanAccept(free, r) /\ Feasible(free, r, t)
                      THEN Begin(free, r, t)
                      ELSE free
  BY DEF Reclaim
<1> HIDE DEF free
<1>4. RobotFits(free, r) /\ \A v \in Tasks : TaskFits(free, v)
  BY <1>1, AlikeFits, AlikeTaskFits
<1>5. Handles(free, free, r)
  BY <1>1, <1>4, HandlesNothing
<1>6. ASSUME t # NoTask, s.status[t] = "INTERRUPTED", Feasible(free, r, t)
      PROVE  Handles(free, Begin(free, r, t), r)
  <2>1. t \in Tasks /\ free.status[t] = "INTERRUPTED"
    BY <1>1, <1>6, Fields DEF Alike, SameTask
  <2>2. Comes(free, Begin(free, r, t), r, t)
    BY <1>1, <1>4, <1>6, <2>1, BeginComes
  <2>3. MayWork(free, r, t)
    BY <1>1, <1>4, <2>1 DEF MayWork, RobotFits, Working
  <2> QED
    BY <2>2, <2>3 DEF Handles
<1>7. Handles(free, Reclaim(s, r), r)
  BY <1>3, <1>5, <1>6
<1> QED
  BY <1>1, <1>2, <1>7, HandlesAfter

\* A robot whose arrival is due.
Arrived(s, r) ==
  /\ Alone(s, r) /\ s.goal[r] = s.cell[r]
  /\ IF s.task[r] = NoTask
     THEN Idle(s, r) /\ (s.goal[r] \notin Chargers => Unbooked(s, r))
     ELSE Working(s, r, s.task[r]) /\ s.goal[r] = Target(s, s.task[r])

LEMMA HandleArrivalComes ==
  ASSUME NEW s \in WorldType, NEW r \in Robots, Arrived(s, r),
         \A t \in Tasks : TaskFits(s, t)
  PROVE  Comes(s, HandleArrival(s, r), r, s.task[r])
<1> DEFINE t == s.task[r]
           u == [s EXCEPT !.mode[r] = "IDLE", !.goal[r] = NoCell]
<1>1. CASE t = NoTask
  <2>1. CASE s.goal[r] \in Chargers
    <3>1. Comes(s, ChargingArrival(s, r), r, NoTask)
      BY <1>1, <2>1, ChargingArrivalParks DEF Arrived, Loose, Parks
    <3> QED
      BY <1>1, <2>1, <3>1 DEF HandleArrival
  <2>2. CASE s.goal[r] \notin Chargers
    <3>1. Comes(s, u, r, NoTask)
      BY <1>1, <2>2, GoIdleParks DEF Arrived, Parks
    <3>2. HandleArrival(s, r) = u
      BY <1>1, <2>2 DEF HandleArrival
    <3> QED
      BY <1>1, <3>1, <3>2
  <2> QED
    BY <2>1, <2>2
<1>2. CASE t # NoTask
  <2>1. /\ t \in Tasks /\ Working(s, r, t) /\ TaskFits(s, t)
        /\ s.cell[r] = Target(s, t) /\ s.leg[t] \in {"TO_PICKUP", "TO_DROPOFF"}
    BY <1>2 DEF Arrived, Working, TaskFits
  <2>2. CASE s.leg[t] = "TO_PICKUP"
    <3>1. Comes(s, PickUp(s, r), r, t)
      BY <2>1, <2>2, PickUpComes DEF Target
    <3> QED
      BY <1>2, <2>2, <3>1 DEF HandleArrival
  <2>3. CASE s.leg[t] = "TO_DROPOFF"
    <3>1. Comes(s, Complete(s, r), r, t)
      BY <2>1, <2>3, CompleteComes DEF Target
    <3> QED
      BY <1>2, <2>3, <3>1 DEF HandleArrival
  <2> QED
    BY <2>1, <2>2, <2>3
<1> QED
  BY <1>1, <1>2

\* The way out of a bay leads to another cell.
LEMMA ExitBayParks ==
  ASSUME NEW s \in WorldType, NEW r \in Robots, RobotFits(s, r), s.mode[r] = "IDLE"
  PROVE  Parks(s, ExitBay(s, r), r)
<1> DEFINE free == (Cells \ Bays) \ OthersAt(s, r)
           c == Closest(s.cell[r], free)
           u == [s EXCEPT !.mode[r] = "MOVING", !.goal[r] = c]
<1>1. s.cell[r] \in Cells /\ s.task[r] = NoTask /\ Unbooked(s, r) /\ Alone(s, r)
  BY Fields DEF RobotFits, Working, Unbooked, Idle
<1>2. Parks(s, s, r)
  BY <1>1 DEF Parks, Comes, Touches, SameRobot, SameTask, Stays
<1>3. ASSUME free # {}, s.cell[r] \in Bays PROVE Parks(s, u, r)
  <2>1. c \in Cells /\ c # NoCell /\ c # s.cell[r]
    BY <1>1, <1>3, ClosestCell, StationAssumption
  <2> HIDE DEF c
  <2>2. u \in WorldType
    BY <2>1, Values, ZenonT(60) DEF WorldType
  <2>3. /\ u.mode = [s.mode EXCEPT ![r] = "MOVING"] /\ u.goal = [s.goal EXCEPT ![r] = c]
        /\ u.cell = s.cell /\ u.task = s.task /\ u.battery = s.battery
        /\ u.active = s.active /\ u.slot = s.slot /\ u.reserved = s.reserved
        /\ u.waiting = s.waiting /\ u.status = s.status /\ u.leg = s.leg
        /\ u.load = s.load /\ u.holder = s.holder /\ u.pickup = s.pickup
        /\ s.mode \in [Robots -> Modes] /\ s.goal \in [Robots -> Cells \union {NoCell}]
    BY DEF WorldType
  <2> HIDE DEF u
  <2>4. Touches(s, u, r, NoTask) /\ u.cell[r] = s.cell[r]
    BY <2>3 DEF Touches, SameRobot, SameTask
  <2>5. /\ u.mode[r] = "MOVING" /\ u.goal[r] = c /\ u.task[r] = NoTask
        /\ Unbooked(u, r) /\ Alone(u, r)
    BY <1>1, <2>3, <2>4, StaysAlone DEF Unbooked, Idle, Stays
  <2>6. RobotFits(u, r)
    BY <2>1, <2>3, <2>5 DEF RobotFits, Unbooked, Idle, OwnCell
  <2> QED
    BY <2>2, <2>3, <2>4, <2>5, <2>6 DEF Parks, Comes, Stays
<1> HIDE DEF c
<1>4. ExitBay(s, r) = IF s.cell[r] \notin Bays \/ free = {} \/ ~Reachable(s.cell[r], c)
                      THEN s ELSE u
  BY DEF ExitBay, c
<1> HIDE DEF u
<1> QED
  BY <1>2, <1>3, <1>4

\* A turn that ends idle, and what may follow it.
LEMMA HandlesThenParks ==
  ASSUME NEW s \in WorldType, NEW v, NEW u, NEW r \in Robots,
         Handles(s, v, r), v.mode[r] = "IDLE", Parks(v, u, r)
  PROVE  Handles(s, u, r)
<1>1. PICK t : MayWork(s, r, t) /\ Comes(s, v, r, t)
  BY DEF Handles
<1>2. v \in WorldType /\ v.task[r] = NoTask
  BY <1>1 DEF Comes, RobotFits, Working
<1>3. CASE t = NoTask
  BY <1>1, <1>3, TouchesTwice DEF Handles, Parks, Comes, Stays
<1>4. CASE t # NoTask
  <2>1. t \in Tasks
    BY <1>1, <1>4 DEF MayWork
  <2>2. v.status[t] = "INTERRUPTED" => Recharging(u, r)
    BY <1>1, <1>4 DEF Comes, Recharging, Parks
  <2>3. u \in WorldType /\ Touches(v, u, r, NoTask) /\ Touches(v, u, r, t)
    BY TouchesLess DEF Parks, Comes
  <2>4. t \in Tasks \ {NoTask}
    BY <2>1, <1>4
  <2>5. TaskFits(u, t) /\ LoadCell(u, t) = LoadCell(v, t)
    BY <1>1, <1>2, <2>3, <2>4, OtherTaskFits DEF Comes
  <2>6. SameTask(v, u, t)
    BY <2>3, <2>4 DEF Touches
  <2>7. Touches(s, u, r, t) /\ Stays(s, u, r) /\ RobotFits(u, r)
    BY <1>1, <2>3, TouchesTwice DEF Parks, Comes, Stays
  <2>8. Comes(s, u, r, t)
    BY <1>1, <1>4, <2>2, <2>3, <2>5, <2>6, <2>7 DEF Comes, SameTask
  <2> QED
    BY <1>1, <2>8 DEF Handles
<1> QED
  BY <1>3, <1>4

LEMMA RepairTurnHandles ==
  ASSUME NEW s \in WorldType, NEW r \in Robots, RobotFits(s, r), s.mode[r] = "FAILED",
         \A t \in Tasks : TaskFits(s, t)
  PROVE  Handles(s, RepairTurn(s, r), r)
<1> DEFINE sooner == [s EXCEPT !.repair[r] = @ - 1]
           v == [s EXCEPT !.mode[r] = "IDLE", !.goal[r] = NoCell]
           back == [s EXCEPT !.mode[r] = "IDLE", !.goal[r] = NoCell,
                             !.repair[r] = 0,    !.idle[r] = 0,
                             !.battery[r] = IF @ = 0 THEN Full ELSE @]
           busy == Reclaim(back, r)
<1>1. s.task[r] = NoTask /\ Unbooked(s, r) /\ Alone(s, r)
  BY Fields DEF RobotFits, Working, Unbooked, Idle
<1>2. CASE s.repair[r] > 1
  <2>1. s.repair[r] - 1 \in 0..MaxDown
    BY <1>2, Fields, FleetAssumption DEF MaxDown
  <2>2. sooner \in WorldType /\ Alike(s, sooner)
    BY <2>1 DEF WorldType, Alike, SameRobot, SameTask
  <2>3. RepairTurn(s, r) = sooner
    BY <1>2 DEF RepairTurn
  <2> HIDE DEF sooner
  <2>4. RobotFits(sooner, r)
    BY <2>2, AlikeFits
  <2>5. Comes(s, sooner, r, NoTask)
    BY <2>2, <2>4 DEF Comes, Alike, Touches, Stays
  <2> QED
    BY <1>1, <2>3, <2>5, HandlesParks
<1>3. CASE ~(s.repair[r] > 1)
  <2>1. back \in WorldType
    <3>1. (IF s.battery[r] = 0 THEN Full ELSE s.battery[r]) \in 0..Full
      BY Fields, Values
    <3> QED
      BY <3>1, Values DEF WorldType
  <2>2. /\ back.mode = [s.mode EXCEPT ![r] = "IDLE"]
        /\ back.goal = [s.goal EXCEPT ![r] = NoCell]
        /\ back.battery = [s.battery EXCEPT ![r] = IF @ = 0 THEN Full ELSE @]
        /\ back.cell = s.cell /\ back.task = s.task
        /\ back.active = s.active /\ back.slot = s.slot /\ back.reserved = s.reserved
        /\ back.waiting = s.waiting /\ back.status = s.status /\ back.leg = s.leg
        /\ back.load = s.load /\ back.holder = s.holder /\ back.pickup = s.pickup
        /\ s.mode \in [Robots -> Modes] /\ s.goal \in [Robots -> Cells \union {NoCell}]
        /\ s.battery \in [Robots -> 0..Full]
    BY DEF WorldType
  <2>3. RepairTurn(s, r) = IF busy.mode[r] = "IDLE" THEN ExitBay(busy, r) ELSE busy
    BY <1>3 DEF RepairTurn
  <2> HIDE DEF back
  <2>4. Touches(s, back, r, NoTask) /\ back.cell = s.cell
    BY <2>2 DEF Touches, SameRobot, SameTask
  <2>5. /\ back.mode[r] = "IDLE" /\ back.task[r] = NoTask
        /\ Unbooked(back, r) /\ Alone(back, r)
    BY <1>1, <2>2, <2>4, StaysAlone DEF Unbooked, Idle, Stays
  <2>6. RobotFits(back, r)
    BY <2>5 DEF RobotFits, Unbooked, Idle, OwnCell, Engaged
  <2>7. ASSUME NEW t \in Tasks PROVE TaskFits(back, t)
    BY <2>2, <2>7 DEF TaskFits
  <2>8. Handles(back, busy, r)
    BY <2>1, <2>5, <2>6, <2>7, ReclaimHandles
  <2> HIDE DEF busy
  <2>9. ASSUME busy.mode[r] = "IDLE" PROVE Handles(back, ExitBay(busy, r), r)
    <3>1. busy \in WorldType /\ RobotFits(busy, r)
      BY <2>8 DEF Handles, Comes
    <3>2. Parks(busy, ExitBay(busy, r), r)
      BY <2>9, <3>1, ExitBayParks
    <3> QED
      BY <2>1, <2>8, <2>9, <3>2, HandlesThenParks
  <2>10. Handles(back, RepairTurn(s, r), r)
    BY <2>3, <2>8, <2>9
  <2> QED
    BY <1>1, <2>1, <2>4, <2>5, <2>10, HandlesAfter
<1> QED
  BY <1>2, <1>3

LEMMA FinishTurnHandles ==
  ASSUME NEW s \in WorldType, NEW r \in Robots, Finished(s, r),
         \A t \in Tasks : TaskFits(s, t)
  PROVE  Handles(s, FinishTurn(s, r), r)
<1> DEFINE v == [s EXCEPT !.battery[r] = Full, !.mode[r] = "IDLE", !.idle[r] = 0,
                          !.goal[r] = NoCell,  !.start[r] = 0]
<1>1. v \in WorldType
  BY Values, ZenonT(60) DEF WorldType
<1>2. /\ v.mode = [s.mode EXCEPT ![r] = "IDLE"]
      /\ v.goal = [s.goal EXCEPT ![r] = NoCell]
      /\ v.battery = [s.battery EXCEPT ![r] = Full]
      /\ v.cell = s.cell /\ v.task = s.task
      /\ v.active = s.active /\ v.slot = s.slot /\ v.reserved = s.reserved
      /\ v.waiting = s.waiting /\ v.status = s.status /\ v.leg = s.leg
      /\ v.load = s.load /\ v.holder = s.holder /\ v.pickup = s.pickup
      /\ s.mode \in [Robots -> Modes] /\ s.goal \in [Robots -> Cells \union {NoCell}]
      /\ s.battery \in [Robots -> 0..Full]
  BY DEF WorldType
<1>3. FinishTurn(s, r) = Reclaim(v, r)
  BY DEF FinishTurn
<1> HIDE DEF v
<1>4. Touches(s, v, r, NoTask)
  BY <1>2 DEF Touches, SameRobot, SameTask
<1>5. /\ v.mode[r] = "IDLE" /\ v.task[r] = NoTask /\ v.task[r] = s.task[r]
      /\ Unbooked(v, r) /\ Alone(v, r)
  BY <1>2, <1>4, StaysAlone DEF Finished, Unbooked, Idle, Stays
<1>6. RobotFits(v, r)
  BY <1>5 DEF RobotFits, Unbooked, Idle, OwnCell, Engaged
<1>7. ASSUME NEW t \in Tasks PROVE TaskFits(v, t)
  BY <1>2, <1>7 DEF TaskFits
<1>8. Handles(v, FinishTurn(s, r), r)
  BY <1>1, <1>3, <1>5, <1>6, <1>7, ReclaimHandles
<1> QED
  BY <1>1, <1>2, <1>4, <1>5, <1>8, HandlesAfter

\* The task of a robot that is not being released.
LEMMA OwnTask ==
  ASSUME NEW s \in WorldType, NEW r \in Robots, RobotFits(s, r),
         \A t \in Tasks : TaskFits(s, t)
  PROVE  /\ Alone(s, r) /\ MayWork(s, r, s.task[r])
         /\ s.task[r] # NoTask => Working(s, r, s.task[r]) /\ TaskFits(s, s.task[r])
BY Fields DEF RobotFits, MayWork, Working

LEMMA FailHandles ==
  ASSUME NEW s \in WorldType, NEW r \in Robots, RobotFits(s, r),
         \A t \in Tasks : TaskFits(s, t)
  PROVE  Handles(s, Fail(s, r), r)
<1>1. Comes(s, GoDown(s, r, RepairTicks), r, s.task[r])
  BY OwnTask, GoDownComes, Values
<1> QED
  BY <1>1, OwnTask DEF Handles, Fail

LEMMA AssignTurnHandles ==
  ASSUME NEW s \in WorldType, NEW r \in Robots, RobotFits(s, r),
         \A t \in Tasks : TaskFits(s, t),
         NEW t \in Tasks, s.status[t] \in {"PENDING", "INTERRUPTED"}
  PROVE  /\ Handles(s, AssignTurn(s, r, t), r)
         /\ \A v \in Tasks \ {t} : SameTask(s, AssignTurn(s, r, t), v)
<1>1. CASE CanAccept(s, r) /\ Feasible(s, r, t)
  <2>1. s.mode[r] = "IDLE" /\ MayWork(s, r, t)
    BY <1>1 DEF CanAccept, MayWork
  <2>2. Comes(s, Begin(s, r, t), r, t)
    BY <1>1, <2>1, BeginComes
  <2> QED
    BY <1>1, <2>1, <2>2 DEF Handles, AssignTurn, Comes, Touches
<1>2. CASE ~(CanAccept(s, r) /\ Feasible(s, r, t))
  BY <1>2, HandlesNothing DEF AssignTurn, SameTask
<1> QED
  BY <1>1, <1>2

\* A check leaves the battery as it is, or the robot down.
LEMMA CheckBatteryHandles ==
  ASSUME NEW s \in WorldType, NEW r \in Robots, RobotFits(s, r),
         \A t \in Tasks : TaskFits(s, t)
  PROVE  LET u == CheckBattery(s, r)
         IN /\ Comes(s, u, r, s.task[r]) /\ Handles(s, u, r)
            /\ u.battery[r] = s.battery[r] \/ u.mode[r] = "FAILED"
<1> DEFINE t == s.task[r]
           u == CheckBattery(s, r)
<1>1. Comes(s, s, r, t) /\ MayWork(s, r, t)
  BY HandlesNothing, OwnTask
<1>2. CASE t = NoTask
  BY <1>1, <1>2 DEF CheckBattery, Handles
<1>3. CASE t # NoTask
  <2>1. Working(s, r, t) /\ TaskFits(s, t)
    BY <1>3, OwnTask
  <2>2. \/ u = s
        \/ Comes(s, u, r, t) /\ (u.battery[r] = s.battery[r] \/ u.mode[r] = "FAILED")
    BY <2>1, CheckBatteryComes
  <2> HIDE DEF u
  <2> QED
    BY <1>1, <2>2 DEF Handles, u
<1> QED
  BY <1>2, <1>3

LEMMA BatteryTurnHandles ==
  ASSUME NEW s \in WorldType, NEW r \in Robots, RobotFits(s, r), Mobile(s, r),
         \A t \in Tasks : TaskFits(s, t)
  PROVE  LET u == BatteryTurn(s, r)
         IN /\ Handles(s, u, r)
            /\ Mobile(u, r) => u.battery[r] > 0
<1>1. s.battery[r] \in 0..Full
  BY Fields
<1>2. CASE s.battery[r] = 0
  <2>1. Comes(s, Deplete(s, r), r, s.task[r]) /\ Deplete(s, r).mode[r] = "FAILED"
    BY OwnTask, DepleteComes
  <2> QED
    BY <1>2, <2>1, OwnTask DEF Handles, BatteryTurn, Mobile
<1>3. CASE s.battery[r] # 0
  <2>1. s.battery[r] > 0
    BY <1>1, <1>3
  <2>2. Handles(s, s, r)
    BY HandlesNothing
  <2>3. /\ Handles(s, CheckBattery(s, r), r)
        /\ \/ CheckBattery(s, r).battery[r] = s.battery[r]
           \/ CheckBattery(s, r).mode[r] = "FAILED"
    BY CheckBatteryHandles
  <2>4. ASSUME s.task[r] = NoTask, s.mode[r] \notin {"WAITING", "TO_CHARGER"}
        PROVE  /\ Handles(s, EnterCharging(s, r), r)
               /\ EnterCharging(s, r).battery[r] = s.battery[r]
    <3>1. Loose(s, r)
      BY <2>4, Fields DEF RobotFits, Loose, Idle, Mobile
    <3>2. Parks(s, EnterCharging(s, r), r)
      BY <3>1, EnterChargingParks
    <3> QED
      BY <2>4, <3>2, HandlesParks DEF Parks
  <2> QED
    BY <1>3, <2>1, <2>2, <2>3, <2>4 DEF BatteryTurn, Mobile
<1> QED
  BY <1>2, <1>3

LEMMA IdleTurnParks ==
  ASSUME NEW s \in WorldType, NEW r \in Robots, RobotFits(s, r), s.mode[r] = "IDLE"
  PROVE  Parks(s, IdleTurn(s, r), r) /\ s.task[r] = NoTask
<1> DEFINE longer == [s EXCEPT !.idle[r] = IF @ < IdleLimit THEN @ + 1 ELSE @]
<1>1. longer \in WorldType
  <2>1. (IF s.idle[r] < IdleLimit THEN s.idle[r] + 1 ELSE s.idle[r]) \in 0..IdleLimit
    BY Fields, FleetAssumption
  <2> QED
    BY <2>1 DEF WorldType
<1>2. Alike(s, longer)
  BY DEF WorldType, Alike, SameRobot, SameTask
<1>3. s.task[r] = NoTask /\ Loose(s, r)
  BY Fields DEF RobotFits, Loose, Idle, Working
<1>4. IdleTurn(s, r) \in {longer, EnterCharging(longer, r)}
  BY DEF IdleTurn
<1> HIDE DEF longer
<1>5. RobotFits(longer, r)
  BY <1>1, <1>2, AlikeFits
<1>6. /\ Touches(s, longer, r, NoTask) /\ longer.cell[r] = s.cell[r]
      /\ longer.task[r] = NoTask /\ longer.battery[r] = s.battery[r]
      /\ longer.active[r] = s.active[r] /\ longer.slot[r] = s.slot[r]
  BY <1>2, <1>3 DEF Alike, Touches, SameRobot
<1>7. Parks(s, longer, r)
  BY <1>1, <1>5, <1>6 DEF Parks, Comes, Stays
<1>8. Loose(longer, r)
  BY <1>3, <1>6, StaysAlone DEF Loose, Idle, Stays
<1>9. Parks(longer, EnterCharging(longer, r), r)
  BY <1>1, <1>8, EnterChargingParks
<1>10. Parks(s, EnterCharging(longer, r), r)
  BY <1>6, <1>9, TouchesTwice DEF Parks, Comes, Stays
<1> QED
  BY <1>3, <1>4, <1>7, <1>10

\* From s to m robot r has taken a step to c.
Moved(s, m, r, c) ==
  /\ m \in WorldType /\ Touches(s, m, r, NoTask)
  /\ m.cell = [s.cell EXCEPT ![r] = c] /\ m.cell[r] = c
  /\ m.mode = s.mode /\ m.task = s.task /\ m.goal = s.goal
  /\ m.active = s.active /\ m.slot = s.slot /\ m.reserved = s.reserved
  /\ m.waiting = s.waiting /\ m.status = s.status /\ m.leg = s.leg
  /\ m.load = s.load /\ m.holder = s.holder /\ m.pickup = s.pickup

LEMMA MoveTouches ==
  ASSUME NEW s \in WorldType, NEW r \in Robots, NEW c \in Cells
  PROVE  Moved(s, Move(s, r, c), r, c)
<1> DEFINE cost == MoveCost(s, r)
           left == IF s.battery[r] > cost THEN s.battery[r] - cost ELSE 0
           m == Move(s, r, c)
<1>1. s.battery[r] \in 0..Full /\ cost \in Nat
  BY Fields, FleetAssumption DEF MoveCost
<1>2. left \in 0..Full
  <2> HIDE DEF cost
  <2> QED BY <1>1, FleetAssumption
<1>3. m = [s EXCEPT !.cell[r] = c, !.idle[r] = 0, !.battery[r] = left]
  BY DEF Move
<1> HIDE DEF left, m
<1>4. m \in WorldType
  BY <1>2, <1>3, Values, ZenonT(60) DEF WorldType
<1>5. /\ m.cell = [s.cell EXCEPT ![r] = c]
      /\ m.battery = [s.battery EXCEPT ![r] = left]
      /\ m.mode = s.mode /\ m.task = s.task /\ m.goal = s.goal
      /\ m.active = s.active /\ m.slot = s.slot /\ m.reserved = s.reserved
      /\ m.waiting = s.waiting /\ m.status = s.status /\ m.leg = s.leg
      /\ m.load = s.load /\ m.holder = s.holder /\ m.pickup = s.pickup
      /\ s.cell \in [Robots -> Cells] /\ s.battery \in [Robots -> 0..Full]
  BY <1>3 DEF WorldType
<1>6. Touches(s, m, r, NoTask)
  BY <1>5 DEF Touches, SameRobot, SameTask
<1>7. m.cell[r] = c
  BY <1>5
<1> QED
  BY <1>4, <1>5, <1>6, <1>7 DEF Moved, m

\* What a step of a mobile robot that ends away from its goal, and the arrival it
\* may be, leave of the robot and its task.
LEMMA MoveFits ==
  ASSUME NEW s \in WorldType, NEW r \in Robots, NEW c \in Cells,
         RobotFits(s, r), Mobile(s, r), c \in Chargers => c \notin OthersAt(s, r),
         \A t \in Tasks : TaskFits(s, t)
  PROVE  LET m == Move(s, r, c)
         IN /\ Arrives(s, r, c) => Arrived(m, r)
            /\ ~Arrives(s, r, c) => RobotFits(m, r)
            /\ \A t \in Tasks : TaskFits(m, t)
<1> DEFINE m == Move(s, r, c)
<1>0. Moved(s, m, r, c)
  BY MoveTouches
<1> HIDE DEF m
<1>1. /\ m \in WorldType /\ Touches(s, m, r, NoTask)
      /\ m.cell[r] = c
      /\ m.mode = s.mode /\ m.task = s.task /\ m.goal = s.goal
      /\ m.active = s.active /\ m.slot = s.slot /\ m.reserved = s.reserved
      /\ m.waiting = s.waiting /\ m.status = s.status /\ m.leg = s.leg
      /\ m.load = s.load /\ m.holder = s.holder /\ m.pickup = s.pickup
  BY <1>0 DEF Moved
<1>2. Alone(m, r)
  BY <1>1, TouchesOthersAt DEF Alone
<1>3. s.task[r] # NoTask => Working(m, r, s.task[r]) /\ m.goal[r] = Target(m, s.task[r])
  BY <1>1, <1>2 DEF RobotFits, Working, Unbooked, Idle, Target
<1>4. s.active[r] = 0 /\ s.slot[r] = NoCell
  BY Fields DEF RobotFits, Mobile
<1>5. ASSUME Arrives(s, r, c) PROVE Arrived(m, r)
  <2>1. Engaged(s, r) /\ m.goal[r] = m.cell[r]
    BY <1>1, <1>5 DEF Arrives
  <2>2. ASSUME s.task[r] = NoTask, s.goal[r] \notin Chargers PROVE Unbooked(m, r)
    BY <1>1, <1>4, <2>1, <2>2 DEF RobotFits, Engaged, Unbooked, Idle
  <2> QED
    BY <1>1, <1>2, <1>3, <1>4, <2>1, <2>2 DEF Arrived, Idle
<1>6. ASSUME ~Arrives(s, r, c) PROVE RobotFits(m, r)
  <2>1. OwnCell(m, r) /\ (Engaged(m, r) => m.goal[r] # m.cell[r])
    BY <1>1, <1>6 DEF RobotFits, OwnCell, Engaged, Arrives
  <2> QED
    BY <1>1, <1>2, <1>3, <1>4, <2>1 DEF RobotFits
<1>7. ASSUME NEW t \in Tasks PROVE TaskFits(m, t)
  BY <1>1, <1>7 DEF TaskFits
<1> QED
  BY <1>5, <1>6, <1>7 DEF m

\* A step of the route or a yield step, and what follows it in the same call.
LEMMA StepComes ==
  ASSUME NEW s \in WorldType, NEW r \in Robots, NEW c \in Cells,
         RobotFits(s, r), Mobile(s, r), c \in Chargers => c \notin OthersAt(s, r),
         \A t \in Tasks : TaskFits(s, t)
  PROVE  LET m == Move(s, r, c)
         IN /\ Arrives(s, r, c) => Comes(m, HandleArrival(m, r), r, s.task[r])
            /\ ~Arrives(s, r, c) => /\ Comes(m, CheckBattery(m, r), r, s.task[r])
                                    /\ Comes(m, m, r, s.task[r])
<1> DEFINE m == Move(s, r, c)
<1>1. m \in WorldType /\ m.task = s.task
  BY MoveTouches DEF Moved
<1>2. /\ Arrives(s, r, c) => Arrived(m, r)
      /\ ~Arrives(s, r, c) => RobotFits(m, r)
      /\ \A t \in Tasks : TaskFits(m, t)
  BY MoveFits
<1> HIDE DEF m
<1> QED
  BY <1>1, <1>2, HandleArrivalComes, CheckBatteryHandles, HandlesNothing DEF m

-----------------------------------------------------------------------------
(* The invariant.                                                          *)

\* Nobody else is at work on what a handler of r may work on.
LEMMA OthersElsewhere ==
  ASSUME NEW s \in WorldType, NEW released, Fits(s, released),
         NEW r \in Robots, NEW t, MayWork(s, r, t), NEW q \in Robots \ {r}
  PROVE  s.task[q] # t \/ s.task[q] = NoTask
<1> SUFFICES ASSUME s.task[q] = t, t # NoTask PROVE FALSE
  OBVIOUS
<1>1. s.status[t] = "ASSIGNED" /\ s.holder[t] = q
  BY DEF Fits, Finished, RobotFits, Working
<1>2. s.task[r] = t
  BY <1>1 DEF MayWork
<1>3. s.holder[t] = r
  BY <1>2 DEF Fits, Finished, RobotFits, Working
<1> QED
  BY <1>1, <1>3

\* What is kept when only r and t are touched and they fit.
LEMMA TouchedFits ==
  ASSUME NEW s \in WorldType, NEW u \in WorldType, NEW released, Fits(s, released),
         NEW r \in Robots, NEW t, MayWork(s, r, t), Touches(s, u, r, t),
         RobotFits(u, r), t # NoTask => TaskFits(u, t)
  PROVE  /\ Fits(u, released \ {r})
         /\ \A v \in Tasks \ {t} : LoadCell(u, v) = LoadCell(s, v)
<1>1. Alone(u, r) /\ OwnCell(u, r)
  BY DEF RobotFits
<1>2. ASSUME NEW q \in Robots \ {r}
      PROVE  /\ RobotFits(s, q) => RobotFits(u, q)
             /\ Finished(s, q) => Finished(u, q)
  BY <1>1, <1>2, OthersElsewhere, OtherRobotFits
<1>3. ASSUME NEW q \in Robots
      PROVE  IF q \in released \ {r} THEN Finished(u, q) ELSE RobotFits(u, q)
  BY <1>2, <1>3 DEF Fits
<1>4. s.task[r] \in {t, NoTask}
  BY DEF MayWork
<1>5. ASSUME NEW v \in Tasks \ {t}
      PROVE  TaskFits(u, v) /\ LoadCell(u, v) = LoadCell(s, v)
  BY <1>4, <1>5, OtherTaskFits DEF Fits
<1>6. ASSUME NEW v \in Tasks PROVE TaskFits(u, v)
  BY <1>5, <1>6, FleetAssumption
<1> QED
  BY <1>3, <1>5, <1>6 DEF Fits

\* What a turn keeps: the invariant, the place of every load, and the promise made
\* to whoever loses a task.
Keeps(s, u, r, released) ==
  /\ Fits(u, released \ {r})
  /\ \A q \in Robots \ {r} : SameRobot(s, u, q)
  /\ \A q \in Robots, t \in Tasks :
       s.task[q] = t /\ u.status[t] = "INTERRUPTED" => Recharging(u, q)

LEMMA ComesKeeps ==
  ASSUME NEW s \in WorldType, NEW m, NEW u \in WorldType, NEW released, Fits(s, released),
         NEW r \in Robots, NEW t, MayWork(s, r, t),
         Touches(s, m, r, NoTask), Comes(m, u, r, t)
  PROVE  /\ Keeps(s, u, r, released)
         /\ \A v \in Tasks \ {t} : LoadCell(u, v) = LoadCell(s, v)
<1>1. Touches(s, m, r, t) /\ Touches(m, u, r, t) /\ RobotFits(u, r)
  BY TouchesLess DEF Comes
<1>2. Touches(s, u, r, t)
  BY <1>1, TouchesTwice
<1>3. /\ Fits(u, released \ {r})
      /\ \A v \in Tasks \ {t} : LoadCell(u, v) = LoadCell(s, v)
  BY <1>1, <1>2, TouchedFits DEF Comes
<1>4. ASSUME NEW q \in Robots, NEW v \in Tasks, s.task[q] = v, u.status[v] = "INTERRUPTED"
      PROVE  Recharging(u, q)
  <2>1. v # NoTask
    BY FleetAssumption
  <2>2. s.status[v] = "ASSIGNED"
    BY <1>4, <2>1 DEF Fits, Finished, RobotFits, Working
  <2>3. v = t
    BY <1>2, <1>4, <2>2 DEF Touches, SameTask
  <2>4. q = r
    BY <1>4, <2>1, <2>3, OthersElsewhere
  <2> QED
    BY <1>4, <2>1, <2>3, <2>4 DEF Comes
<1> QED
  BY <1>2, <1>3, <1>4 DEF Keeps, Touches

LEMMA HandlesKeeps ==
  ASSUME NEW s \in WorldType, NEW u, NEW released, Fits(s, released),
         NEW r \in Robots, Handles(s, u, r)
  PROVE  /\ Keeps(s, u, r, released) /\ Stays(s, u, r)
         /\ \A v \in Tasks : LoadCell(u, v) = LoadCell(s, v)
<1>1. PICK t : MayWork(s, r, t) /\ Comes(s, u, r, t)
  BY DEF Handles
<1>2. Touches(s, s, r, NoTask)
  BY DEF Touches, SameRobot, SameTask
<1>3. /\ Keeps(s, u, r, released)
      /\ \A v \in Tasks \ {t} : LoadCell(u, v) = LoadCell(s, v)
  BY <1>1, <1>2, ComesKeeps DEF Comes
<1>4. ASSUME NEW v \in Tasks PROVE LoadCell(u, v) = LoadCell(s, v)
  BY <1>1, <1>3, <1>4, FleetAssumption DEF Comes
<1> QED
  BY <1>1, <1>3, <1>4 DEF Comes

\* The station's tick: who finished is released, nobody else's story changes.
LEMMA ChargeTickFits ==
  ASSUME NEW s \in WorldType, Fits(s, {}), ChargeTick(s) \in WorldType
  PROVE  LET u == ChargeTick(s)
         IN /\ Fits(u, Finishing(s)) /\ u.task = s.task /\ u.status = s.status
            /\ \A t \in Tasks : LoadCell(u, t) = LoadCell(s, t)
<1> DEFINE stale == {r \in Reserved(s) : s.mode[r] \notin {"TO_CHARGER", "WAITING"}}
           reserved == [r \in Robots |-> IF r \in stale THEN NoCell ELSE s.reserved[r]]
           battery == [r \in Robots |-> IF r \in Active(s) THEN Charged(s, r)
                                        ELSE s.battery[r]]
           u == ChargeTick(s)
           done == Finishing(s)
<1>1. ASSUME NEW r \in Robots PROVE RobotFits(s, r)
  BY <1>1 DEF Fits
<1>2. stale = {}
  BY <1>1 DEF Reserved, RobotFits
<1>3. /\ u.mode = s.mode /\ u.cell = s.cell /\ u.task = s.task /\ u.goal = s.goal
      /\ u.status = s.status /\ u.leg = s.leg
      /\ u.load = s.load /\ u.holder = s.holder /\ u.pickup = s.pickup
      /\ u.active = [r \in Robots |-> IF s.active[r] > 0 THEN s.active[r] - 1 ELSE 0]
      /\ u.slot = [r \in Robots |-> IF r \in done THEN NoCell ELSE s.slot[r]]
      /\ u.reserved = [r \in Robots |-> IF r \in done THEN NoCell ELSE reserved[r]]
      /\ u.waiting = s.waiting \ done
  <2>1. u = TickTimers([s EXCEPT !.reserved = reserved, !.battery = battery])
    BY DEF ChargeTick
  <2> HIDE DEF reserved, battery, u
  <2> QED
    BY <2>1 DEF TickTimers, WorldType, Finishing
<1>4. ASSUME NEW r \in Robots
      PROVE  /\ s.active[r] \in Nat /\ s.slot[r] \in Cells \union {NoCell}
             /\ r \in done <=> s.active[r] = 1
             /\ u.active[r] = IF s.active[r] > 0 THEN s.active[r] - 1 ELSE 0
             /\ u.slot[r] = IF r \in done THEN NoCell ELSE s.slot[r]
             /\ u.reserved[r] = s.reserved[r]
             /\ r \in u.waiting <=> r \in s.waiting
  <2>1. r \in done => s.mode[r] = "CHARGING" /\ s.reserved[r] = NoCell /\ r \notin s.waiting
    BY <1>1 DEF RobotFits, Finishing
  <2>2. reserved[r] = s.reserved[r]
    BY <1>2
  <2> HIDE DEF u, reserved
  <2> QED
    BY <1>3, <2>1, <2>2, Fields DEF Finishing
<1>5. ASSUME NEW r \in Robots
      PROVE  (Alone(u, r) <=> Alone(s, r)) /\ (OwnCell(u, r) <=> OwnCell(s, r))
  <2> HIDE DEF u, reserved, battery, done
  <2>1. u.cell = s.cell /\ \A q \in Robots : u.reserved[q] = s.reserved[q]
    BY <1>3, <1>4
  <2> QED
    BY <2>1 DEF Alone, OthersAt, OwnCell
<1> HIDE DEF u, reserved, battery
<1>6. ASSUME NEW r \in done PROVE Finished(u, r)
  <2>1. r \in Robots /\ s.mode[r] = "CHARGING" /\ RobotFits(s, r) /\ s.active[r] = 1
    BY <1>1, <1>6 DEF Finishing, RobotFits
  <2> HIDE DEF done
  <2>2. /\ s.task[r] = NoTask /\ s.reserved[r] = NoCell /\ r \notin s.waiting
    BY <2>1 DEF RobotFits, Working
  <2> QED
    BY <1>3, <1>4, <1>5, <2>1, <2>2 DEF RobotFits, Finished, Unbooked, Idle
<1> HIDE DEF done
<1>7. ASSUME NEW r \in Robots \ done PROVE RobotFits(u, r)
  <2>1. RobotFits(s, r) /\ (s.active[r] = 0 \/ s.active[r] > 1)
    BY <1>1, <1>4, <1>7
  <2>2. /\ u.active[r] > 0 <=> s.active[r] > 0
        /\ s.active[r] = 0 => u.active[r] = 0
        /\ u.slot[r] = s.slot[r] /\ u.reserved[r] = s.reserved[r]
        /\ r \in u.waiting <=> r \in s.waiting
    BY <1>4, <1>7, <2>1
  <2>3. s.task[r] # NoTask => Working(u, r, s.task[r])
    BY <1>3, <1>5, <2>1, <2>2 DEF RobotFits, Working, Unbooked, Idle
  <2>4. Engaged(u, r) => u.goal[r] # u.cell[r]
    BY <1>3, <2>1 DEF RobotFits, Engaged
  <2> QED
    BY <1>3, <1>5, <2>1, <2>2, <2>3, <2>4 DEF RobotFits, Target
<1>8. ASSUME NEW t \in Tasks PROVE TaskFits(u, t) /\ LoadCell(u, t) = LoadCell(s, t)
  <2>1. TaskFits(s, t)
    BY <1>8 DEF Fits
  <2> QED
    BY <1>3, <2>1 DEF TaskFits, LoadCell
<1> QED
  BY <1>3, <1>6, <1>7, <1>8 DEF Fits, u, done

\* New tasks and pruned ones: no robot has either.
LEMMA StatusFits ==
  ASSUME NEW s \in WorldType, Fits(s, {}), NEW f \in [Tasks -> Statuses],
         \A t \in Tasks : \/ f[t] = s.status[t]
                          \/ s.status[t] = "ABSENT" /\ f[t] = "PENDING"
                          \/ s.status[t] = "COMPLETED" /\ f[t] = "PRUNED"
  PROVE  LET u == [s EXCEPT !.status = f]
         IN /\ Fits(u, {})
            /\ \A t \in Tasks : LoadCell(u, t) = LoadCell(s, t)
            /\ \A t \in Tasks : u.status[t] = "INTERRUPTED" => s.status[t] = "INTERRUPTED"
<1> DEFINE u == [s EXCEPT !.status = f]
<1>1. /\ u.mode = s.mode /\ u.cell = s.cell /\ u.task = s.task /\ u.goal = s.goal
      /\ u.status = f /\ u.leg = s.leg
      /\ u.load = s.load /\ u.holder = s.holder /\ u.pickup = s.pickup
      /\ u.active = s.active /\ u.slot = s.slot /\ u.reserved = s.reserved
      /\ u.waiting = s.waiting
  BY DEF WorldType
<1> HIDE DEF u
<1>2. ASSUME NEW t \in Tasks
      PROVE  /\ TaskFits(u, t) /\ LoadCell(u, t) = LoadCell(s, t)
             /\ u.status[t] = "INTERRUPTED" => s.status[t] = "INTERRUPTED"
             /\ s.status[t] = "ASSIGNED" => u.status[t] = "ASSIGNED"
  <2>1. TaskFits(s, t)
    BY <1>2 DEF Fits
  <2> QED
    BY <1>1, <1>2, <2>1 DEF TaskFits, LoadCell
<1>3. ASSUME NEW r \in Robots PROVE RobotFits(u, r)
  <2>1. RobotFits(s, r)
    BY <1>3 DEF Fits
  <2>2. (Alone(u, r) <=> Alone(s, r)) /\ (OwnCell(u, r) <=> OwnCell(s, r))
    BY <1>1 DEF Alone, OthersAt, OwnCell
  <2>3. s.task[r] # NoTask => Working(u, r, s.task[r])
    BY <1>1, <1>2, <2>1, <2>2 DEF RobotFits, Working, Unbooked, Idle
  <2>4. Engaged(u, r) => u.goal[r] # u.cell[r]
    BY <1>1, <2>1 DEF RobotFits, Engaged
  <2> QED
    BY <1>1, <2>1, <2>2, <2>3, <2>4 DEF RobotFits, Target
<1> QED
  BY <1>2, <1>3 DEF Fits, u

LEMMA ResetFits == Fits(ResetWorld, {})
<1> DEFINE s == ResetWorld
<1>1. ASSUME NEW r \in Robots
      PROVE  /\ s.mode[r] = "IDLE" /\ s.task[r] = NoTask /\ s.cell[r] = Start[r]
             /\ Unbooked(s, r)
  BY <1>1 DEF ResetWorld, Unbooked, Idle
<1>2. ASSUME NEW t \in Tasks
      PROVE  /\ s.status[t] = "ABSENT" /\ s.leg[t] = "TO_PICKUP"
             /\ s.load[t] = "ON_SHELF" /\ s.pickup[t] = Source[t]
  BY <1>2 DEF ResetWorld
<1> HIDE DEF s
<1>3. ASSUME NEW r \in Robots PROVE Alone(s, r)
  BY <1>1, <1>3, FleetAssumption DEF Alone, OthersAt
<1>4. ASSUME NEW r \in Robots PROVE RobotFits(s, r)
  BY <1>1, <1>3, <1>4 DEF RobotFits, Unbooked, Idle, OwnCell, Engaged
<1>5. ASSUME NEW t \in Tasks PROVE TaskFits(s, t)
  BY <1>2, <1>5 DEF TaskFits
<1> QED
  BY <1>4, <1>5 DEF Fits, s

\* The invariant about the robots and tasks there are.
LEMMA FleetFits ==
  ASSUME FleetInv
  PROVE  /\ w \in WorldType /\ Fits(w, Due)
         /\ \A t \in Tasks : TaskFits(w, t)
         /\ \A r \in Robots : IF r \in Due THEN Finished(w, r) ELSE RobotFits(w, r)
         /\ phase # "finished" => Due = {} /\ \A r \in Robots : RobotFits(w, r)
BY DEF FleetInv, Books, Sound, Fits, Due

\* A turn of a loop other than _advance_robots'.
LEMMA TurnHandles ==
  ASSUME FleetInv, NEW r \in Robots, RobotStep(r), phase # "advance"
  PROVE  /\ Handles(w, w', r)
         /\ r \in todo /\ phase' = phase /\ todo' = todo \ {r}
         /\ phase = "battery" => (Mobile(w', r) => w'.battery[r] > 0)
         /\ phase = "idle" => Mobile(w, r) /\ w'.battery[r] = w.battery[r]
         /\ phase = "assign" => \A t \in offer' : t \in offer /\ SameTask(w, w', t)
<1>1. /\ w \in WorldType /\ \A t \in Tasks : TaskFits(w, t)
      /\ phase # "finished" => RobotFits(w, r)
  BY FleetFits
<1>2. /\ LoopFits /\ todo \subseteq Robots /\ offer \subseteq Tasks
  BY DEF FleetInv, Books
<1>3. CASE RepairStep(r)
  <2>1. /\ phase = "repairs" /\ r \in todo /\ w' = RepairTurn(w, r)
        /\ phase' = phase /\ todo' = todo \ {r}
    BY <1>3 DEF RepairStep, Turn
  <2>2. Handles(w, w', r)
    BY <1>1, <1>2, <2>1, RepairTurnHandles DEF LoopFits
  <2> QED
    BY <2>1, <2>2
<1>4. CASE FailStep(r)
  <2>1. /\ phase = "failures" /\ r \in todo /\ w' = Fail(w, r)
        /\ phase' = phase /\ todo' = todo \ {r}
    BY <1>4 DEF FailStep, Turn
  <2>2. Handles(w, w', r)
    BY <1>1, <2>1, FailHandles
  <2> QED
    BY <2>1, <2>2
<1>5. CASE SurviveStep(r)
  <2>1. /\ phase = "failures" /\ r \in todo /\ w' = w
        /\ phase' = phase /\ todo' = todo \ {r}
    BY <1>5 DEF SurviveStep, Turn
  <2>2. Handles(w, w', r)
    BY <1>1, <2>1, HandlesNothing
  <2> QED
    BY <2>1, <2>2
<1>6. CASE FinishStep(r)
  <2>1. /\ phase = "finished" /\ r \in todo /\ w' = FinishTurn(w, r)
        /\ phase' = phase /\ todo' = todo \ {r}
    BY <1>6 DEF FinishStep
  <2>2. Finished(w, r)
    BY <2>1, FleetFits DEF Due
  <2>3. Handles(w, w', r)
    BY <1>1, <2>1, <2>2, FinishTurnHandles
  <2> QED
    BY <2>1, <2>3
<1>7. CASE WaitingStep(r)
  <2>1. /\ phase = "waiting" /\ r \in todo /\ w' = WaitingTurn(w, r)
        /\ phase' = phase /\ todo' = todo \ {r}
    BY <1>7 DEF WaitingStep, Turn
  <2>2. RobotFits(w, r) /\ w.mode[r] = "WAITING"
    BY <1>1, <1>2, <2>1 DEF LoopFits
  <2>3. w.task[r] = NoTask
    BY <2>2 DEF RobotFits, Working
  <2>4. Handles(w, w', r)
    BY <1>1, <2>1, <2>2, <2>3, WaitingTurnParks, HandlesParks DEF Parks
  <2> QED
    BY <2>1, <2>4
<1>8. ASSUME NEW t \in Tasks, AssignStep(r, t)
      PROVE  /\ Handles(w, w', r) /\ phase = "assign"
             /\ r \in todo /\ phase' = phase /\ todo' = todo \ {r}
             /\ \A v \in offer' : v \in offer /\ SameTask(w, w', v)
  <2>1. /\ phase = "assign" /\ r \in todo /\ t \in offer /\ w' = AssignTurn(w, r, t)
        /\ phase' = phase /\ todo' = todo \ {r} /\ offer' = offer \ {t}
    BY <1>8 DEF AssignStep
  <2>2. Handles(w, w', r) /\ \A v \in Tasks \ {t} : SameTask(w, w', v)
    BY <1>1, <1>2, <2>1, AssignTurnHandles DEF LoopFits
  <2> QED
    BY <1>2, <2>1, <2>2
<1>9. CASE BatteryStep(r)
  <2>1. /\ phase = "battery" /\ r \in todo /\ w' = BatteryTurn(w, r)
        /\ phase' = phase /\ todo' = todo \ {r}
    BY <1>9 DEF BatteryStep, Turn
  <2>2. Handles(w, w', r) /\ (Mobile(w', r) => w'.battery[r] > 0)
    BY <1>1, <1>2, <2>1, BatteryTurnHandles DEF LoopFits
  <2> QED
    BY <2>1, <2>2
<1>10. CASE IdleStep(r)
  <2>1. /\ phase = "idle" /\ r \in todo /\ (w' = IdleTurn(w, r) \/ w' = w)
        /\ phase' = phase /\ todo' = todo \ {r}
    BY <1>10 DEF IdleStep, Turn
  <2>2. RobotFits(w, r) /\ w.mode[r] = "IDLE"
    BY <1>1, <1>2, <2>1 DEF LoopFits
  <2>3. Handles(w, w', r) /\ w'.battery[r] = w.battery[r]
    BY <1>1, <2>1, <2>2, IdleTurnParks, HandlesParks, HandlesNothing DEF Parks
  <2> QED
    BY <2>1, <2>2, <2>3 DEF Mobile
<1> QED
  BY <1>3, <1>4, <1>5, <1>6, <1>7, <1>8, <1>9, <1>10
     DEF RobotStep, RouteStep, YieldStep, HoldStep, RecheckStep, AdvanceTurn

LEMMA TurnKeepsInv ==
  ASSUME FleetInv, NEW r \in Robots, RobotStep(r), phase # "advance", Books'
  PROVE  FleetInv'
<1>1. /\ Handles(w, w', r) /\ r \in todo /\ phase' = phase /\ todo' = todo \ {r}
      /\ phase = "battery" => (Mobile(w', r) => w'.battery[r] > 0)
      /\ phase = "idle" => Mobile(w, r) /\ w'.battery[r] = w.battery[r]
      /\ phase = "assign" => \A t \in offer' : t \in offer /\ SameTask(w, w', t)
  BY TurnHandles
<1>2. Fits(w', Due \ {r}) /\ \A q \in Robots \ {r} : SameRobot(w, w', q)
  BY <1>1, FleetFits, HandlesKeeps DEF Keeps
<1>3. Due' = Due \ {r}
  BY <1>1 DEF Due
<1>4. todo \subseteq Robots /\ LoopFits /\ Powered
  BY DEF FleetInv, Books
<1>5. LoopFits'
  <2>1. ASSUME NEW q \in todo' PROVE q \in todo /\ q \in Robots /\ w'.mode[q] = w.mode[q]
    BY <1>1, <1>2, <1>4, <2>1 DEF SameRobot
  <2>2. ASSUME phase = "assign", NEW t \in offer' PROVE w'.status[t] \in {"PENDING", "INTERRUPTED"}
    BY <1>1, <1>4, <2>2 DEF LoopFits, SameTask
  <2> QED
    BY <1>1, <1>4, <2>1, <2>2 DEF LoopFits, Mobile
<1>6. Powered'
  <2>1. ASSUME NEW q \in Robots, Mobile(w', q),
               phase = "idle" \/ (phase = "battery" /\ q \notin todo')
        PROVE  w'.battery[q] > 0
    <3>1. CASE q = r
      BY <1>1, <1>4, <2>1, <3>1 DEF Powered
    <3>2. CASE q # r
      BY <1>1, <1>2, <1>4, <2>1, <3>2 DEF Powered, SameRobot, Mobile
    <3> QED
      BY <3>1, <3>2
  <2> QED
    BY <1>1, <2>1 DEF Powered
<1> QED
  BY <1>2, <1>3, <1>5, <1>6 DEF FleetInv

\* A turn of _advance_robots in which nobody moves.
LEMMA AdvanceHandles ==
  ASSUME FleetInv, NEW r \in Robots, phase = "advance",
         HoldStep(r) \/ \E q \in Robots : RecheckStep(r, q)
  PROVE  \E q \in Robots :
           /\ Handles(w, w', q) /\ occupied' = occupied
           /\ Mobile(w', q) => w'.battery[q] = w.battery[q] /\ Mobile(w, q)
           /\ w'.cell[q] # w.cell[q] => Mobile(w, q)
<1>1. /\ w \in WorldType /\ \A t \in Tasks : TaskFits(w, t)
      /\ \A q \in Robots : RobotFits(w, q)
  BY FleetFits
<1>2. CASE HoldStep(r)
  BY <1>1, <1>2, HandlesNothing DEF HoldStep
<1>3. ASSUME NEW q \in Robots, RecheckStep(r, q)
      PROVE  /\ Handles(w, w', q) /\ occupied' = occupied /\ Mobile(w, q)
             /\ Mobile(w', q) => w'.battery[q] = w.battery[q]
  BY <1>1, <1>3, CheckBatteryHandles DEF RecheckStep, Mobile
<1> QED
  BY <1>2, <1>3

\* A turn of _advance_robots in which the robot moves. The cell is free, as far as
\* charging cells are concerned: those the loop's occupied set knows exactly.
LEMMA AdvanceMoves ==
  ASSUME FleetInv, NEW r \in Robots, NEW c \in Cells, phase = "advance",
         RouteStep(r, c) \/ YieldStep(r, c)
  PROVE  /\ c \in Chargers => c \notin OthersAt(w, r)
         /\ Comes(Move(w, r, c), w', r, w.task[r])
<1>1. /\ w \in WorldType /\ \A t \in Tasks : TaskFits(w, t)
      /\ RobotFits(w, r)
  BY FleetFits
<1>2. Mobile(w, r) /\ c \notin occupied
  BY DEF RouteStep, YieldStep, Enters
<1>3. c \in Chargers => c \notin OthersAt(w, r)
  BY <1>2 DEF FleetInv, LoopFits, OthersAt
<1>4. /\ RouteStep(r, c) =>
           w' = IF Arrives(w, r, c) THEN HandleArrival(Move(w, r, c), r)
                ELSE CheckBattery(Move(w, r, c), r)
      /\ YieldStep(r, c) => ~Arrives(w, r, c) /\ w' = Move(w, r, c)
  BY DEF RouteStep, YieldStep
<1> QED
  BY <1>1, <1>2, <1>3, <1>4, StepComes

LEMMA AdvanceKeepsInv ==
  ASSUME FleetInv, NEW r \in Robots, RobotStep(r), phase = "advance", Books'
  PROVE  FleetInv'
<1>1. AdvanceTurn(r) /\ phase' = phase /\ todo' = todo \ {r} /\ r \in todo
  BY DEF RobotStep, RepairStep, FailStep, SurviveStep, FinishStep, WaitingStep,
     AssignStep, BatteryStep, IdleStep, Turn, RouteStep, YieldStep, HoldStep,
     RecheckStep, AdvanceTurn
<1>2. w \in WorldType /\ Fits(w, {}) /\ Due = {} /\ Due' = {} /\ LoopFits /\ Powered
      /\ todo \subseteq Robots /\ w' \in WorldType
  BY <1>1, FleetFits DEF Due, FleetInv, Books, Sound
<1>3. CASE HoldStep(r) \/ \E q \in Robots : RecheckStep(r, q)
  <2>1. PICK q \in Robots :
           /\ Handles(w, w', q) /\ occupied' = occupied
           /\ Mobile(w', q) => w'.battery[q] = w.battery[q] /\ Mobile(w, q)
    BY <1>3, AdvanceHandles
  <2>2. /\ Fits(w', {} \ {q}) /\ \A p \in Robots \ {q} : SameRobot(w, w', p)
        /\ Stays(w, w', q)
    BY <1>2, <2>1, HandlesKeeps DEF Keeps
  <2>3. LoopFits'
    BY <1>1, <1>2, <2>1, <2>2 DEF LoopFits, Stays, SameRobot
  <2>4. Powered'
    BY <1>1, <1>2, <2>1, <2>2 DEF Powered, SameRobot, Mobile
  <2>5. {} \ {q} = {}
    OBVIOUS
  <2> QED
    BY <1>2, <2>2, <2>3, <2>4, <2>5 DEF FleetInv
<1>4. ASSUME NEW c \in Cells, RouteStep(r, c) \/ YieldStep(r, c) PROVE FleetInv'
  <2> DEFINE m == Move(w, r, c)
  <2>1. Comes(m, w', r, w.task[r])
    BY <1>4, AdvanceMoves
  <2>2. Touches(w, m, r, NoTask) /\ m.cell[r] = c
    BY <1>2, MoveTouches DEF Moved
  <2>3. MayWork(w, r, w.task[r])
    BY OwnTask, FleetFits
  <2> HIDE DEF m
  <2>4. Keeps(w, w', r, {})
    BY <1>2, <2>1, <2>2, <2>3, ComesKeeps
  <2>5. Fits(w', {} \ {r}) /\ \A q \in Robots \ {r} : SameRobot(w, w', q)
    BY <2>4 DEF Keeps
  <2>6. occupied' = (occupied \ {w.cell[r]}) \union {c}
    BY <1>4 DEF RouteStep, YieldStep, Enters
  <2>7. ASSUME NEW q \in Robots, w'.cell[q] \in Chargers PROVE w'.cell[q] \in occupied'
    <3>1. CASE q = r
      BY <2>1, <2>2, <2>6, <2>7, <3>1 DEF Comes, Stays
    <3>2. CASE q # r
      <4>1. w'.cell[q] = w.cell[q] /\ w.cell[q] \in occupied
        BY <1>2, <2>5, <2>7, <3>2 DEF LoopFits, SameRobot
      <4>2. Alone(w, q)
        BY FleetFits DEF RobotFits
      <4>3. w.cell[q] # w.cell[r]
        BY <2>7, <3>2, <4>1, <4>2 DEF Alone, OthersAt
      <4> QED
        BY <2>6, <4>1, <4>3
    <3> QED
      BY <3>1, <3>2
  <2>8. LoopFits'
    BY <1>1, <2>7 DEF LoopFits
  <2>9. Powered'
    BY <1>1, <1>2, <2>5 DEF Powered, SameRobot, Mobile
  <2>10. {} \ {r} = {}
    OBVIOUS
  <2> QED
    BY <1>2, <2>5, <2>8, <2>9, <2>10 DEF FleetInv
<1> QED
  BY <1>3, <1>4 DEF RobotStep, RepairStep, FailStep, SurviveStep, FinishStep, WaitingStep,
     AssignStep, BatteryStep, IdleStep, Turn

\* A new loop over the robots its phase is for.
LEMMA GotoLoop ==
  ASSUME NEW p \in {"repairs", "failures", "waiting", "battery", "idle"},
         phase' = p, todo' = Visits(w', p)
  PROVE  /\ LoopFits'
         /\ p # "idle" => Powered'
         /\ Due' = {}
BY DEF LoopFits, Powered, Visits, Due, Mobile

LEMMA TickKeepsInv ==
  ASSUME FleetInv, TickStep, Books'
  PROVE  FleetInv'
<1>1. /\ w \in WorldType /\ w.status \in [Tasks -> Statuses] /\ w' \in WorldType
      /\ phase # "finished" => Due = {}
      /\ Fits(w, Due) /\ LoopFits /\ Powered
  BY FleetFits DEF FleetInv, WorldType, Books, Sound
<1>2. CASE StartTick
  <2>1. /\ Due = {} /\ w' = w
        /\ \E p \in {"repairs", "failures"} : phase' = p /\ todo' = Visits(w', p)
    BY <1>1, <1>2 DEF StartTick, Goto
  <2> QED
    BY <1>1, <2>1, GotoLoop DEF FleetInv
<1>3. CASE ChargeStep
  <2>1. Due = {} /\ w' = ChargeTick(w)
    BY <1>1, <1>3 DEF ChargeStep
  <2>2. Fits(w', Finishing(w))
    BY <1>1, <2>1, ChargeTickFits
  <2>3. CASE Finishing(w) # {}
    <3>1. phase' = "finished" /\ todo' = Finishing(w)
      BY <1>3, <2>3 DEF ChargeStep
    <3> QED
      BY <2>2, <3>1 DEF FleetInv, Due, LoopFits, Powered
  <2>4. CASE Finishing(w) = {}
    <3>1. phase' = "waiting" /\ todo' = Visits(w', "waiting")
      BY <1>3, <2>4 DEF ChargeStep, Goto
    <3> QED
      BY <2>2, <2>4, <3>1, GotoLoop DEF FleetInv
  <2> QED
    BY <2>3, <2>4
<1>4. CASE GenerateTasks
  <2>1. PICK new \in SUBSET {t \in Tasks : w.status[t] = "ABSENT"} :
          w' = [w EXCEPT !.status = [t \in Tasks |-> IF t \in new THEN "PENDING"
                                                     ELSE @[t]]]
    BY <1>4 DEF GenerateTasks
  <2> DEFINE f == [t \in Tasks |-> IF t \in new THEN "PENDING" ELSE w.status[t]]
  <2>2. f \in [Tasks -> Statuses] /\ w' = [w EXCEPT !.status = f]
    BY <1>1, <2>1, Values
  <2>3. \A t \in Tasks : f[t] = w.status[t] \/ (w.status[t] = "ABSENT" /\ f[t] = "PENDING")
    OBVIOUS
  <2>4. Due = {} /\ phase' = "assign"
        /\ offer' = {t \in Tasks : w'.status[t] \in {"PENDING", "INTERRUPTED"}}
    BY <1>1, <1>4 DEF GenerateTasks
  <2> HIDE DEF f
  <2>5. Fits(w', {})
    BY <1>1, <2>2, <2>3, <2>4, StatusFits
  <2> QED
    BY <2>4, <2>5 DEF FleetInv, Due, LoopFits, Powered
<1>5. CASE EndAssign
  <2>1. Due = {} /\ w' = w /\ phase' = "battery" /\ todo' = Visits(w', "battery")
    BY <1>1, <1>5 DEF EndAssign, Goto
  <2> QED
    BY <1>1, <2>1, GotoLoop DEF FleetInv
<1>6. CASE BeginAdvance
  <2>1. /\ Due = {} /\ w' = w /\ phase = "idle" /\ phase' = "advance"
        /\ occupied' = {w.cell[r] : r \in Robots}
    BY <1>1, <1>6 DEF BeginAdvance, Goto
  <2>2. LoopFits'
    BY <2>1 DEF LoopFits
  <2>3. Powered'
    BY <1>1, <2>1 DEF Powered
  <2> QED
    BY <1>1, <2>1, <2>2, <2>3 DEF FleetInv, Due
<1>7. CASE EndTick
  <2>1. PICK old \in SUBSET {t \in Tasks : w.status[t] \in {"COMPLETED", "FAILED"}} :
          w' = [w EXCEPT !.status = [t \in Tasks |-> IF t \in old THEN "PRUNED"
                                                     ELSE @[t]]]
    BY <1>7 DEF EndTick
  <2> DEFINE f == [t \in Tasks |-> IF t \in old THEN "PRUNED" ELSE w.status[t]]
  <2>2. f \in [Tasks -> Statuses] /\ w' = [w EXCEPT !.status = f]
    BY <1>1, <2>1, Values
  <2>3. ASSUME NEW t \in Tasks
        PROVE  f[t] = w.status[t] \/ (w.status[t] = "COMPLETED" /\ f[t] = "PRUNED")
    <3>1. w.status[t] # "FAILED"
      BY <2>3, FleetFits DEF TaskFits
    <3> QED
      BY <2>3, <3>1
  <2>4. Due = {} /\ phase' = "between"
    BY <1>1, <1>7 DEF EndTick
  <2> HIDE DEF f
  <2>5. Fits(w', {})
    BY <1>1, <2>2, <2>3, <2>4, StatusFits
  <2> QED
    BY <2>4, <2>5 DEF FleetInv, Due, LoopFits, Powered
<1>8. CASE EndLoop
  <2>1. /\ todo = {} /\ Due = {} /\ w' = w
        /\ \/ phase = "repairs" /\ phase' = "failures" /\ todo' = Visits(w', "failures")
           \/ phase = "finished" /\ phase' = "waiting" /\ todo' = Visits(w', "waiting")
           \/ phase = "battery" /\ phase' = "idle" /\ todo' = Visits(w', "idle")
    BY <1>1, <1>8 DEF EndLoop, Goto, Due
  <2>2. LoopFits' /\ Due' = {}
    BY <2>1, GotoLoop
  <2>3. Powered'
    BY <1>1, <2>1 DEF Powered
  <2> QED
    BY <1>1, <2>1, <2>2, <2>3 DEF FleetInv
<1> QED
  BY <1>2, <1>3, <1>4, <1>5, <1>6, <1>7, <1>8 DEF TickStep

\* After every handler, robots, tasks and station fit together, and what the running
\* loop of the tick relies on for the turns to come holds.
THEOREM FleetInvariant == Spec => []FleetInv
<1>1. Books /\ Init => FleetInv
  <2> SUFFICES ASSUME Books, Init PROVE FleetInv
    OBVIOUS
  <2>1. Fits(w, Due) /\ phase = "between"
    BY ResetFits DEF Init, Due
  <2> QED
    BY <2>1 DEF FleetInv, LoopFits, Powered
<1>2. FleetInv /\ Books' /\ [Next]_vars => FleetInv'
  <2> SUFFICES ASSUME FleetInv, Books', [Next]_vars PROVE FleetInv'
    OBVIOUS
  <2>1. CASE Reset
    <3>1. w' = ResetWorld /\ phase' = "between"
      BY <2>1 DEF Reset
    <3> QED
      BY <3>1, ResetFits DEF FleetInv, Due, LoopFits, Powered
  <2>2. CASE TickStep
    BY <2>2, TickKeepsInv
  <2>3. ASSUME NEW r \in Robots, RobotStep(r) PROVE FleetInv'
    BY <2>3, TurnKeepsInv, AdvanceKeepsInv
  <2>4. CASE UNCHANGED vars
    BY <2>4 DEF vars, FleetInv, Due, LoopFits, Powered
  <2> QED
    BY <2>1, <2>2, <2>3, <2>4 DEF Next, Tick
<1> QED
  BY <1>1, <1>2, BooksInvariant, PTL DEF Spec

-----------------------------------------------------------------------------
(* The theorems.                                                           *)

\* The simulator's modes and the charging station's books never contradict each
\* other, however failures, relocations, arrivals and dispatches interleave.
THEOREM StationBooksAgree == Spec => []StationAgrees
<1>1. ASSUME FleetInv, NEW r \in Robots
      PROVE  /\ w.active[r] > 0 <=> w.mode[r] = "CHARGING" /\ ~Released(r)
             /\ w.reserved[r] # NoCell <=> w.mode[r] = "TO_CHARGER"
             /\ r \in w.waiting <=> w.mode[r] = "WAITING"
             /\ w.slot[r] = IF w.active[r] > 0 THEN w.cell[r] ELSE NoCell
             /\ w.active[r] > 0 => w.cell[r] \in Chargers
             /\ w.reserved[r] # NoCell =>
                  w.reserved[r] = w.goal[r] /\ w.goal[r] \in Chargers
  <2>1. Released(r) <=> r \in Due
    BY DEF Released, Due
  <2>2. CASE r \in Due
    <3>1. Finished(w, r)
      BY <1>1, <2>2, FleetFits
    <3> QED
      BY <2>1, <2>2, <3>1 DEF Finished, Unbooked, Idle
  <2>3. CASE r \notin Due
    <3>1. RobotFits(w, r)
      BY <1>1, <2>3, FleetFits
    <3> QED
      BY <2>1, <2>3, <3>1 DEF RobotFits
  <2> QED
    BY <2>2, <2>3
<1>2. FleetInv => StationAgrees
  BY <1>1 DEF StationAgrees
<1> QED
  BY <1>2, FleetInvariant, PTL

\* No second robot gets into the cell of a charging one, and no charging cell is
\* promised twice.
THEOREM ChargersNeverShared == Spec => []ChargersExclusive
<1>1. ASSUME FleetInv, NEW r \in Robots
      PROVE  /\ w.active[r] > 0 => w.cell[r] \in Chargers
             /\ Alone(w, r) /\ OwnCell(w, r)
  <2>1. CASE r \in Due
    BY <1>1, <2>1, FleetFits DEF Finished, Unbooked, Idle, OwnCell
  <2>2. CASE r \notin Due
    BY <1>1, <2>2, FleetFits DEF RobotFits
  <2> QED
    BY <2>1, <2>2
<1>2. FleetInv => ChargersExclusive
  BY <1>1 DEF ChargersExclusive, Active, Reserved, Alone, OwnCell
<1> QED
  BY <1>2, FleetInvariant, PTL

\* A task and the robot that works on it name each other, in every interleaving of
\* assignments, interruptions, failures and reclaims.
THEOREM TasksStayBound == Spec => []TaskBinding
<1>1. ASSUME FleetInv, NEW r \in Robots, w.task[r] # NoTask
      PROVE  Working(w, r, w.task[r])
  BY <1>1, FleetFits DEF Finished, RobotFits
<1>2. ASSUME FleetInv, NEW r \in Robots, NEW t \in Tasks
      PROVE  w.task[r] = t <=> w.status[t] = "ASSIGNED" /\ w.holder[t] = r
  <2>1. t # NoTask /\ TaskFits(w, t)
    BY <1>2, FleetFits, FleetAssumption
  <2> QED
    BY <1>1, <1>2, <2>1 DEF Working, TaskFits
<1>3. ASSUME FleetInv, NEW t \in Tasks
      PROVE  w.status[t] = "ASSIGNED" => w.holder[t] \in Robots
  BY <1>3, FleetFits DEF TaskFits
<1>4. FleetInv => TaskBinding
  BY <1>1, <1>2, <1>3 DEF TaskBinding, Working
<1> QED
  BY <1>4, FleetInvariant, PTL

\* No handler leaves a robot with a goal of a former task, without a goal, or on
\* its goal with nothing left that would make it arrive.
THEOREM GoalsFollowTasks == Spec => []GoalAgrees
<1>1. ASSUME FleetInv, NEW r \in Robots
      PROVE  /\ \A t \in Tasks : w.task[r] = t =>
                  w.goal[r] = IF w.leg[t] = "TO_PICKUP" THEN w.pickup[t] ELSE Dropoff[t]
             /\ w.mode[r] = "MOVING" => w.goal[r] # NoCell
             /\ Engaged(w, r) => w.goal[r] # w.cell[r]
  <2>1. CASE r \in Due
    BY <1>1, <2>1, FleetFits, FleetAssumption DEF Finished, Engaged
  <2>2. CASE r \notin Due
    BY <1>1, <2>2, FleetFits, FleetAssumption DEF RobotFits, Target
  <2> QED
    BY <2>1, <2>2
<1>2. FleetInv => GoalAgrees
  BY <1>1 DEF GoalAgrees
<1> QED
  BY <1>2, FleetInvariant, PTL

\* A load is carried exactly while its task is on the dropoff leg, and delivered
\* exactly when the task is done.
THEOREM LoadsFollowTasks == Spec => []LoadAgrees
<1>1. FleetInv => LoadAgrees
  BY FleetFits DEF LoadAgrees, TaskFits
<1> QED
  BY <1>1, FleetInvariant, PTL

\* The assignment's feasibility check rules out the failure branch of
\* _route_robot_to, wherever the task is picked up again.
THEOREM TasksNeverFail == Spec => []NoTaskFails
<1>1. FleetInv => NoTaskFails
  BY FleetFits DEF NoTaskFails, TaskFits
<1> QED
  BY <1>1, FleetInvariant, PTL

\* What a step of a robot does to loads and tasks, whoever's turn it is.
LEMMA RobotStepKeeps ==
  ASSUME FleetInv, Books', NEW r \in Robots, RobotStep(r)
  PROVE  /\ \A q \in Robots, t \in Tasks :
              w.task[q] = t /\ w'.status[t] = "INTERRUPTED" => Recharging(w', q)
         /\ \A t \in Tasks :
              \/ LoadCell(w', t) = LoadCell(w, t)
              \/ w.load[t] = "CARRIED" /\ LoadCell(w', t) \in Neighbours[LoadCell(w, t)]
<1>1. w \in WorldType /\ Fits(w, Due) /\ w' \in WorldType
  BY FleetFits DEF Books, Sound
<1>2. ASSUME NEW q \in Robots, Handles(w, w', q)
      PROVE  /\ Keeps(w, w', q, Due)
             /\ \A t \in Tasks : LoadCell(w', t) = LoadCell(w, t)
  BY <1>1, <1>2, HandlesKeeps
<1>3. CASE phase # "advance"
  BY <1>2, <1>3, TurnHandles DEF Keeps
<1>4. CASE phase = "advance" /\ (HoldStep(r) \/ \E q \in Robots : RecheckStep(r, q))
  <2>1. PICK q \in Robots : Handles(w, w', q)
    BY <1>4, AdvanceHandles
  <2> QED
    BY <1>2, <2>1 DEF Keeps
<1>5. ASSUME NEW c \in Cells, phase = "advance", RouteStep(r, c) \/ YieldStep(r, c)
      PROVE  /\ Keeps(w, w', r, Due)
             /\ \A t \in Tasks :
                  \/ LoadCell(w', t) = LoadCell(w, t)
                  \/ w.load[t] = "CARRIED" /\ LoadCell(w', t) \in Neighbours[LoadCell(w, t)]
  <2> DEFINE m == Move(w, r, c)
  <2>1. Comes(m, w', r, w.task[r])
    BY <1>5, AdvanceMoves
  <2>2. /\ Touches(w, m, r, NoTask) /\ m.cell[r] = c /\ m.load = w.load
        /\ m.holder = w.holder /\ m.pickup = w.pickup
    BY <1>1, MoveTouches DEF Moved
  <2>3. /\ MayWork(w, r, w.task[r])
        /\ w.task[r] # NoTask => Working(w, r, w.task[r])
    BY <1>5, OwnTask, FleetFits
  <2> HIDE DEF m
  <2>4. /\ Keeps(w, w', r, Due)
        /\ \A v \in Tasks \ {w.task[r]} : LoadCell(w', v) = LoadCell(w, v)
    BY <1>1, <2>1, <2>2, <2>3, ComesKeeps
  <2>5. ASSUME NEW t \in Tasks, w.task[r] = t
        PROVE  \/ LoadCell(w', t) = LoadCell(w, t)
               \/ w.load[t] = "CARRIED" /\ LoadCell(w', t) \in Neighbours[LoadCell(w, t)]
    <3>1. t # NoTask
      BY FleetAssumption
    <3>2. w.holder[t] = r /\ LoadCell(w', t) = LoadCell(m, t)
      BY <2>1, <2>3, <2>5, <3>1 DEF Comes, Working
    <3>3. c \in Neighbours[w.cell[r]]
      BY <1>5 DEF RouteStep, YieldStep, Enters
    <3> QED
      BY <2>2, <3>2, <3>3 DEF LoadCell
  <2> QED
    BY <2>4, <2>5
<1> QED
  BY <1>3, <1>4, <1>5 DEF RobotStep, RepairStep, FailStep, SurviveStep, FinishStep,
     WaitingStep, AssignStep, BatteryStep, IdleStep, Turn, Keeps

\* What the rest of a tick does to loads and tasks.
LEMMA TickStepKeeps ==
  ASSUME FleetInv, Books', TickStep
  PROVE  /\ \A q \in Robots, t \in Tasks : w.task[q] = t => w'.status[t] # "INTERRUPTED"
         /\ \A t \in Tasks : LoadCell(w', t) = LoadCell(w, t)
<1>1. /\ w \in WorldType /\ w.status \in [Tasks -> Statuses] /\ w' \in WorldType
      /\ phase # "finished" => Fits(w, {})
  BY FleetFits DEF WorldType, Books, Sound
<1>2. ASSUME NEW q \in Robots, NEW t \in Tasks, w.task[q] = t
      PROVE  w.status[t] = "ASSIGNED"
  <2>1. t # NoTask
    BY FleetAssumption
  <2> QED
    BY <1>2, <2>1, FleetFits DEF Finished, RobotFits, Working
<1>3. CASE w' = w
  BY <1>2, <1>3
<1>4. CASE ChargeStep
  <2>1. Fits(w, {}) /\ w' = ChargeTick(w)
    BY <1>1, <1>4 DEF ChargeStep
  <2> QED
    BY <1>1, <1>2, <2>1, ChargeTickFits
<1>5. ASSUME NEW f \in [Tasks -> Statuses], w' = [w EXCEPT !.status = f], Fits(w, {}),
             \A t \in Tasks : \/ f[t] = w.status[t]
                              \/ w.status[t] = "ABSENT" /\ f[t] = "PENDING"
                              \/ w.status[t] = "COMPLETED" /\ f[t] = "PRUNED"
      PROVE  /\ \A q \in Robots, t \in Tasks : w.task[q] = t => w'.status[t] # "INTERRUPTED"
             /\ \A t \in Tasks : LoadCell(w', t) = LoadCell(w, t)
  <2>1. /\ \A t \in Tasks : LoadCell(w', t) = LoadCell(w, t)
        /\ \A t \in Tasks : w'.status[t] = "INTERRUPTED" => w.status[t] = "INTERRUPTED"
    BY <1>1, <1>5, StatusFits
  <2> QED
    BY <1>2, <2>1
<1>6. CASE GenerateTasks
  <2>1. PICK new \in SUBSET {t \in Tasks : w.status[t] = "ABSENT"} :
          w' = [w EXCEPT !.status = [t \in Tasks |-> IF t \in new THEN "PENDING"
                                                     ELSE @[t]]]
    BY <1>6 DEF GenerateTasks
  <2> DEFINE f == [t \in Tasks |-> IF t \in new THEN "PENDING" ELSE w.status[t]]
  <2>2. f \in [Tasks -> Statuses] /\ w' = [w EXCEPT !.status = f] /\ Fits(w, {})
    BY <1>1, <1>6, <2>1, Values DEF GenerateTasks
  <2>3. \A t \in Tasks : f[t] = w.status[t] \/ (w.status[t] = "ABSENT" /\ f[t] = "PENDING")
    OBVIOUS
  <2> HIDE DEF f
  <2> QED
    BY <1>5, <2>2, <2>3
<1>7. CASE EndTick
  <2>1. PICK old \in SUBSET {t \in Tasks : w.status[t] \in {"COMPLETED", "FAILED"}} :
          w' = [w EXCEPT !.status = [t \in Tasks |-> IF t \in old THEN "PRUNED"
                                                     ELSE @[t]]]
    BY <1>7 DEF EndTick
  <2> DEFINE f == [t \in Tasks |-> IF t \in old THEN "PRUNED" ELSE w.status[t]]
  <2>2. f \in [Tasks -> Statuses] /\ w' = [w EXCEPT !.status = f] /\ Fits(w, {})
    BY <1>1, <1>7, <2>1, Values DEF EndTick
  <2>3. ASSUME NEW t \in Tasks
        PROVE  f[t] = w.status[t] \/ (w.status[t] = "COMPLETED" /\ f[t] = "PRUNED")
    <3>1. w.status[t] # "FAILED"
      BY <2>3, FleetFits DEF TaskFits
    <3> QED
      BY <2>3, <3>1
  <2> HIDE DEF f
  <2> QED
    BY <1>5, <2>2, <2>3
<1> QED
  BY <1>3, <1>4, <1>6, <1>7
     DEF TickStep, StartTick, EndAssign, BeginAdvance, EndLoop

\* Goods move only on a robot that steps: interruptions, tows, relocations and
\* reclaims leave every load where it is.
THEOREM LoadsStayPut == Spec => LoadNeverTeleports
<1> DEFINE Step == w' # ResetWorld =>
             \A t \in Tasks :
               LET a == LoadCell(w, t)
                   b == LoadCell(w', t)
               IN a = b \/ (w.load[t] = "CARRIED" /\ b \in Neighbours[a])
<1>1. FleetInv /\ Books' /\ [Next]_vars => [Step]_vars
  BY RobotStepKeeps, TickStepKeeps DEF Next, Tick, Reset, vars
<1> QED
  BY <1>1, FleetInvariant, BooksInvariant, PTL DEF Spec, LoadNeverTeleports

\* Whatever takes a task from its robot also sends the robot for energy or takes it
\* out of service.
THEOREM InterruptedRobotsRecharge == Spec => InterruptedSeeksCharge
<1> DEFINE Step == \A r \in Robots, t \in Tasks :
             w.task[r] = t /\ w'.status[t] = "INTERRUPTED"
               => w'.mode[r] \in {"FAILED", "TO_CHARGER", "WAITING", "CHARGING"}
                  \/ w'.battery[r] = Full
<1>1. ASSUME FleetInv, Books', Next PROVE Step
  <2>1. CASE Reset
    <3>1. \A t \in Tasks : w'.status[t] = "ABSENT"
      BY <2>1 DEF Reset, ResetWorld
    <3> QED
      BY <3>1
  <2>2. CASE TickStep
    BY <1>1, <2>2, TickStepKeeps
  <2>3. ASSUME NEW r \in Robots, RobotStep(r) PROVE Step
    BY <1>1, <2>3, RobotStepKeeps DEF Recharging
  <2> QED
    BY <1>1, <2>1, <2>2, <2>3 DEF Next, Tick
<1>2. FleetInv /\ Books' /\ [Next]_vars => [Step]_vars
  BY <1>1
<1> QED
  BY <1>2, FleetInvariant, BooksInvariant, PTL DEF Spec, InterruptedSeeksCharge

\* The battery checks leave no robot that can move with an empty battery, and
\* nothing between them and its turn empties it.
THEOREM NobodyDrivesEmpty == Spec => PoweredMoves
<1> DEFINE Step == \A r \in Robots :
             phase = "advance" /\ r \in todo \ todo' /\ w'.cell[r] # w.cell[r]
               => w.battery[r] > 0
<1>1. ASSUME FleetInv, Next, NEW r \in Robots,
             phase = "advance", r \in todo \ todo', w'.cell[r] # w.cell[r]
      PROVE  w.battery[r] > 0
  <2>1. PICK p \in Robots : RobotStep(p)
    BY <1>1 DEF Next, Tick, TickStep, Reset, StartTick, ChargeStep, GenerateTasks,
       EndAssign, BeginAdvance, EndTick, EndLoop, Goto
  <2>2. Mobile(w, r)
    <3>1. CASE HoldStep(p) \/ \E q \in Robots : RecheckStep(p, q)
      <4>1. PICK q \in Robots : Handles(w, w', q) /\ (w'.cell[q] # w.cell[q] => Mobile(w, q))
        BY <1>1, <2>1, <3>1, AdvanceHandles
      <4>2. \A x \in Robots \ {q} : SameRobot(w, w', x)
        BY <1>1, <4>1, FleetFits, HandlesKeeps DEF Keeps
      <4> QED
        BY <1>1, <4>1, <4>2 DEF SameRobot
    <3>2. ASSUME NEW c \in Cells, RouteStep(p, c) \/ YieldStep(p, c)
          PROVE  Mobile(w, r)
      <4>1. Mobile(w, p) /\ todo' = todo \ {p}
        BY <3>2 DEF RouteStep, YieldStep, Enters, AdvanceTurn
      <4> QED
        BY <1>1, <4>1
    <3> QED
      BY <1>1, <2>1, <3>1, <3>2 DEF RobotStep, RepairStep, FailStep, SurviveStep,
         FinishStep, WaitingStep, AssignStep, BatteryStep, IdleStep, Turn
  <2> QED
    BY <1>1, <2>2 DEF FleetInv, Powered
<1>2. FleetInv /\ [Next]_vars => [Step]_vars
  BY <1>1
<1> QED
  BY <1>2, FleetInvariant, PTL DEF Spec, PoweredMoves
=============================================================================
