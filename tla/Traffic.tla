------------------------------ MODULE Traffic ------------------------------
(***************************************************************************)
(* The movement loop Simulation._advance_robots with the routes it follows *)
(* and the conflict managers of simulation/conflict.py: the local yield    *)
(* manager, and the zone locks and prioritized reservations built on it.   *)
(*                                                                         *)
(* Fleet lets a robot step to any free neighbouring cell; here routes are  *)
(* those of the planner and a blocked robot does what its manager decides. *)
(* In exchange the rest of the simulation is reduced to what the traffic   *)
(* sees of it: jobs are handed out, batteries fail to suffice (an input,   *)
(* "fate"), robots break down, are put down elsewhere and come back.       *)
(* Left to Fleet: a full battery that does not suffice for a job.          *)
(*                                                                         *)
(* Handlers are operators from the state s of the robots and their manager *)
(* to its next state.                                                      *)
(***************************************************************************)
EXTENDS Routing, Functions

CONSTANTS
  Robots,       \* robot ids, numbers in the order of the ids
  NoRobot,      \* Python's None where a robot id is expected
  Open,         \* the passable cells
  Start,        \* [Robots -> Open]
  Jobs,         \* the tasks that may be handed out: <<pickup, dropoff, priority>>
  Depots,       \* the charging cells
  Bays,         \* the maintenance cells, if failed robots are towed
  Closest(_, _),   \* the cell of a non-empty set a search picks
  Weak,         \* the robots whose battery is critical when they seek a charger
  Fates,        \* what a battery check may find, see Check
  Failing,      \* the robots that may break down
  Managers,     \* the conflict managers a simulation may be built with
  Threshold,    \* blocked_replan_threshold_ticks
  Cooldown,     \* replan_cooldown_ticks
  Lookahead,    \* ZoneLockConflictManager's lookahead
  Horizon,      \* PrioritizedReservationConflictManager's horizon
  MaxBlocked    \* blocked_ticks are counted up to this bound

Carry == <<-2, -2>>   \* the battery suffices
Dead  == <<-3, -3>>   \* the battery is empty
NoJob == <<Nowhere, Nowhere, 0>>

ASSUME TrafficAssumption ==
  /\ IsFiniteSet(Robots) /\ Robots \subseteq Nat /\ NoRobot \notin Robots
  /\ IsFiniteSet(Open) /\ Open \subseteq Nat \X Nat
  /\ Start \in [Robots -> Open]
  /\ \A r, q \in Robots : r # q => Start[r] # Start[q]
  /\ Jobs \subseteq Open \X Open \X Nat
  /\ Depots \subseteq Open /\ Bays \subseteq Open /\ Bays \intersect Depots = {}
  /\ Weak \subseteq Robots /\ Failing \subseteq Robots
  /\ Fates \subseteq Depots \union {Nowhere, Carry, Dead}
  /\ Managers \subseteq {"local", "zones", "reservations"}
  /\ {Threshold, Cooldown, Lookahead, Horizon} \subseteq Nat \ {0}
  /\ MaxBlocked \in Nat /\ MaxBlocked >= 3 * Threshold /\ MaxBlocked >= Threshold + 2

\* A search over a non-empty set of cells returns one of them.
ASSUME NearestAssumption ==
  \A c \in Open, S \in SUBSET Open : S # {} => Closest(c, S) \in S

VARIABLES
  s,         \* robots and conflict manager, see StateType
  manager,   \* which manager the simulation was built with
  stage,     \* the part of the tick that runs
  todo       \* the robots the movement loop has yet to visit

vars == <<s, manager, stage, todo>>

Pairs == {{a, b} : a, b \in Robots} \ {{a} : a \in Robots}
Modes == {"IDLE", "MOVING", "TO_CHARGER", "WAITING", "STILL"}

StateType ==
  [ cell     : [Robots -> Open],
    path     : [Robots -> Seq(Open)],
    goal     : [Robots -> Open \union {Nowhere}],     \* route_goal
    mode     : [Robots -> Modes],      \* STILL: failed or charging
    leg      : [Robots -> 0..2],       \* 0 no task, 1 to pickup, 2 to dropoff
    job      : [Robots -> Jobs \union {NoJob}],      \* current_task_id
    blocked  : [Robots -> 0..MaxBlocked],
    cool     : [Robots -> 0..(Cooldown + 1)],     \* replan_cooldown
    replan   : [Robots -> BOOLEAN],    \* replanning
    yields   : [Robots -> Robots \union {NoRobot}],   \* yielding_to
    pairs    : [Pairs -> Robots \union {NoRobot}],    \* _active_conflict_yielder
    claims   : SUBSET (Open \X Nat \X Robots),       \* locks or reservations
    seen     : SUBSET Open,   \* the movement loop's set of occupied cells
    stray    : BOOLEAN ]      \* history: see OnlyPutRobotsMeet

Reset ==
  [ cell    |-> Start,
    path    |-> [r \in Robots |-> <<>>],
    goal    |-> [r \in Robots |-> Nowhere],
    mode    |-> [r \in Robots |-> "IDLE"],
    leg     |-> [r \in Robots |-> 0],
    job     |-> [r \in Robots |-> NoJob],
    blocked |-> [r \in Robots |-> 0],
    cool    |-> [r \in Robots |-> 0],
    replan  |-> [r \in Robots |-> FALSE],
    yields  |-> [r \in Robots |-> NoRobot],
    pairs   |-> [p \in Pairs |-> NoRobot],
    claims  |-> {},
    seen    |-> {},
    stray   |-> FALSE ]

Init ==
  /\ s = Reset /\ manager \in Managers
  /\ stage = "repairs" /\ todo = <<>>

-----------------------------------------------------------------------------
(* What the handlers look at.                                              *)

Occupied(t, r) == {t.cell[q] : q \in Robots \ {r}}
Claimed(t, r)  == {t.path[q][1] : q \in {p \in Robots \ {r} : t.path[p] # <<>>}}

Least(m, n) == IF m < n THEN m ELSE n

Route(from, to, blocked) == BFSPath(Open, from, to, blocked)
\* A fault: no second try through the robots.
RouteAroundOnly(t, r, to) == Route(t.cell[r], to, Occupied(t, r))
RouteAround(t, r, to) ==
  LET p == Route(t.cell[r], to, Occupied(t, r))
  IN  IF p # NoPath THEN p ELSE Route(t.cell[r], to, {})

Critical(t, r) == r \in Weak /\ t.mode[r] \in {"TO_CHARGER", "WAITING"}

\* _yield_score: the higher, the more willing to yield.
YieldScore(t, r) ==
  IF t.mode[r] = "STILL" THEN -1000000
  ELSE (IF t.leg[r] = 0 THEN 10000 ELSE 20 * Least(t.job[r][3], 10))
       + 10 * Least(t.blocked[r], 20)
       - (IF Critical(t, r) THEN 13000 ELSE 0)

\* _robot_priority: the higher, the earlier it reserves.  Priority 0 counts as 3.
ReservePriority(t, r) ==
  IF t.mode[r] = "STILL" THEN -1000000
  ELSE (IF t.mode[r] = "TO_CHARGER" THEN 800000 ELSE 0)
       + (IF Critical(t, r) /\ t.mode[r] = "TO_CHARGER" THEN 400000 ELSE 0)
       + (IF t.leg[r] = 2 THEN 500000 ELSE 0)
       + (IF t.leg[r] = 0 THEN -100000
          ELSE -10000 * (IF t.job[r][3] = 0 THEN 3 ELSE t.job[r][3]))
       + 100 * Least(t.blocked[r], 20)
       + (IF Critical(t, r) THEN 200000 ELSE 0)

InConflict(t, r) == \E p \in Pairs : r \in p /\ t.pairs[p] # NoRobot

CanYield(t, r) ==
  /\ t.mode[r] # "STILL"
  /\ ~t.replan[r] /\ t.cool[r] = 0
  /\ ~InConflict(t, r)

\* _select_yielding_robot.
Preferred(t, r, b) ==
  LET key(q) == <<YieldScore(t, q), t.blocked[q], -q>>
  IN  IF \E i \in 1..3 : /\ key(r)[i] > key(b)[i]
                         /\ \A j \in 1..(i - 1) : key(r)[j] = key(b)[j]
      THEN r ELSE b

-----------------------------------------------------------------------------
(* Pair records.                                                           *)

Drop(t, p) == [t EXCEPT !.pairs[p] = NoRobot]

\* A fault: the record of the pair is left behind.
ReleaseFlagsOnly(t, r) ==
  IF t.yields[r] = NoRobot THEN t ELSE [t EXCEPT !.replan[r] = FALSE, !.yields[r] = NoRobot]

\* release_conflict.
Release(t, r) ==
  LET p == {r, t.yields[r]}
  IN  IF t.yields[r] = NoRobot THEN t
      ELSE [t EXCEPT !.pairs = [q \in Pairs |->
                        IF q = p /\ t.pairs[q] = r THEN NoRobot ELSE t.pairs[q]],
                     !.replan[r] = FALSE, !.yields[r] = NoRobot]

\* clear_conflicts_for_robot: a yielder with a path to go keeps yielding.
Clear(t, r) ==
  LET mine == {p \in Pairs : r \in p /\ t.pairs[p] # NoRobot}
      calm == {q \in {t.pairs[p] : p \in mine} : q = r \/ t.path[q] = <<>>}
  IN  [t EXCEPT !.pairs  = [p \in Pairs |-> IF p \in mine THEN NoRobot ELSE t.pairs[p]],
                !.replan = [q \in Robots |-> t.replan[q] /\ q \notin calm],
                !.yields = [q \in Robots |-> IF q \in calm THEN NoRobot ELSE t.yields[q]]]

-----------------------------------------------------------------------------
(* Charging and breakdown, as far as traffic sees them.                    *)

Settle(t, r, mode) ==
  [t EXCEPT !.leg[r] = 0, !.job[r] = NoJob, !.path[r] = <<>>, !.goal[r] = Nowhere,
            !.mode[r] = mode, !.blocked[r] = 0, !.cool[r] = 0,
            !.replan[r] = FALSE, !.yields[r] = NoRobot]

\* A robot is taken from its cell and put down in another one.  The movement
\* loop is not told: its set of occupied cells stays as it is.
PutDown(t, r, c) ==
  [t EXCEPT !.cell[r] = c, !.path[r] = <<>>, !.goal[r] = Nowhere,
            !.stray = @ \/ stage = "move"]

\* A fault: it is not looked whether the cell is free.
OffChargerAnyway(t, r) ==
  IF t.cell[r] \in Depots /\ Open # Depots
  THEN PutDown(t, r, Closest(t.cell[r], Open \ Depots)) ELSE t

\* _relocate_waiting_robot_off_charger.
OffCharger(t, r) ==
  LET free == (Open \ Depots) \ Occupied(t, r)
  IN  IF t.cell[r] \in Depots /\ free # {}
      THEN PutDown(t, r, Closest(t.cell[r], free)) ELSE t

\* _relocate_robot_to_maintenance.
Tow(t, r) ==
  LET free == Bays \ Occupied(t, r)
  IN  IF free # {} THEN PutDown(t, r, Closest(t.cell[r], free)) ELSE t

\* _enter_waiting_without_reservation, and the end of _enter_charging.
EnterWaiting(t, r) ==
  OffCharger([t EXCEPT !.mode[r] = "WAITING", !.goal[r] = Nowhere], r)

\* _handle_charging_arrival: it waits if another robot is there, or it has come
\* out of a bay, without a reservation, and finds no slot.
ChargingArrival(t, r, slot) ==
  LET u == [t EXCEPT !.path[r] = <<>>]
  IN  IF u.goal[r] \in Occupied(u, r) \/ (u.mode[r] = "MOVING" /\ ~slot)
      THEN EnterWaiting(u, r) ELSE [u EXCEPT !.mode[r] = "STILL"]

\* _route_robot_to_cell.
SetOff(t, r, cell, mode) ==
  [t EXCEPT !.goal[r] = cell, !.mode[r] = mode, !.path[r] = RouteAround(t, r, cell),
            !.replan[r] = FALSE, !.yields[r] = NoRobot]

\* ... to a charging cell, which the robot may stand on.
RouteToCell(t, r, cell) ==
  LET u == SetOff(t, r, cell, "TO_CHARGER")
  IN  IF u.path[r] = <<>> THEN ChargingArrival(Clear(u, r), r, TRUE) ELSE u

\* _choose_free_charging_cell.
FreeDepots(t, r) == Depots \ (Occupied(t, r) \union {t.goal[q] : q \in Robots \ {r}})

\* _interrupt_current_task and _enter_charging.
Interrupt(t, r, depot) ==
  LET u == Clear(Settle(t, r, "WAITING"), r)
  IN  IF depot \in FreeDepots(t, r) THEN RouteToCell(u, r, depot) ELSE OffCharger(u, r)

\* _handle_battery_depleted and _fail_robot.
Breakdown(t, r) ==
  LET u == Tow(Clear(Settle(t, r, "STILL"), r), r)
  IN  [u EXCEPT !.claims = {c \in u.claims : c[3] # r}]

\* _check_battery_for_active_task: Carry, Dead, a charging cell, or Nowhere to wait.
Check(t, r, fate) ==
  IF t.leg[r] = 0 \/ fate = Carry THEN t
  ELSE IF fate = Dead THEN Breakdown(t, r)
  ELSE IF t.leg[r] = 2 /\ t.cell[r] = t.job[r][2] THEN t
  ELSE Interrupt(t, r, fate)

-----------------------------------------------------------------------------
(* Routes and arrivals.                                                    *)

SetRoute(t, r, p) ==
  [t EXCEPT !.path[r] = p, !.replan[r] = FALSE, !.yields[r] = NoRobot]

\* _handle_arrival at a dropoff.
Deliver(t, r) ==
  Clear([t EXCEPT !.leg[r] = 0, !.job[r] = NoJob, !.goal[r] = Nowhere, !.mode[r] = "IDLE",
                  !.blocked[r] = 0, !.cool[r] = 0, !.path[r] = <<>>], r)

\* _handle_arrival.
Arrive(t, r, fate) ==
  LET c == Clear(t, r)
      u == Check([c EXCEPT !.leg[r] = 2, !.blocked[r] = 0, !.mode[r] = "MOVING"], r, fate)
      p == RouteAround(u, r, u.job[r][2])
      v == SetRoute([u EXCEPT !.goal[r] = u.job[r][2]], r, p)
  IN  CASE t.leg[r] = 0 /\ t.goal[r] \in Depots ->
             ChargingArrival(c, r, fate # Nowhere)
        [] t.leg[r] = 0 /\ t.goal[r] \notin Depots ->
             [c EXCEPT !.path[r] = <<>>, !.goal[r] = Nowhere,
                       !.mode[r] = IF @ \in {"WAITING", "STILL"} THEN @ ELSE "IDLE"]
        [] t.leg[r] = 1 -> IF u.leg[r] = 0 THEN u
                           ELSE IF p = <<>> THEN Deliver(v, r) ELSE v
        [] OTHER -> Deliver(c, r)

\* _attempt_resume_route.
Resume(t, r, fate) ==
  LET occ   == Occupied(t, r)
      taken == Claimed(t, r)
      wide  == Route(t.cell[r], t.goal[r], (occ \union taken) \ {t.cell[r]})
      near  == Route(t.cell[r], t.goal[r], occ)
      p     == IF (wide = NoPath \/ wide[1] \in taken) /\ near # NoPath THEN near ELSE wide
  IN  IF t.goal[r] = Nowhere THEN t
      ELSE IF t.cell[r] = t.goal[r] THEN Arrive(t, r, fate)
      ELSE IF p = NoPath \/ p[1] \in occ \union taken THEN t
      ELSE Check([SetRoute(t, r, p) EXCEPT !.blocked[r] = 0], r, fate)

WantsRoute(t, r) ==
  t.goal[r] # Nowhere /\ (t.leg[r] # 0 \/ t.mode[r] \in {"TO_CHARGER", "MOVING"})

Stuck(t, r) == [t EXCEPT !.blocked[r] = Least(@ + 1, MaxBlocked)]

\* A fault: the cell that is entered is not added.
StepUnseen(t, r) ==
  Release([t EXCEPT !.cell[r] = Head(t.path[r]), !.path[r] = Tail(@), !.blocked[r] = 0,
                    !.seen = @ \ {t.cell[r]}], r)

\* _step_robot_forward.
Step(t, r) ==
  Release([t EXCEPT !.cell[r] = Head(t.path[r]), !.path[r] = Tail(@), !.blocked[r] = 0,
                    !.seen = (@ \ {t.cell[r]}) \union {Head(t.path[r])}], r)

-----------------------------------------------------------------------------
(* Yielding.                                                               *)

\* The index in I with the least key, the first one of several.
Foremost(I, key) ==
  CHOOSE i \in I : \A j \in I \ {i} :
    \/ key[i][1] < key[j][1]
    \/ key[i][1] = key[j][1] /\ key[i][2] < key[j][2]
    \/ key[i] = key[j] /\ i < j

\* _choose_yield_step, for a set of occupied cells.  hint stands for the
\* backtracking in travel_history.
YieldStep(t, r, b, occupied, hint) ==
  LET around  == Around(t.cell[r])
      blocked == (occupied \union Claimed(t, r)) \ {t.cell[r]}
      safe    == {i \in 1..4 : around[i] \in Open \ blocked}
      goal    == t.goal[r]
      onward  == IF goal \in blocked \union {Nowhere, t.cell[r]} THEN {}
                 ELSE {i \in safe : Route(around[i], goal, blocked \ {around[i]}) # NoPath}
      ahead(i) == IF goal = Nowhere THEN 0 ELSE Manhattan(around[i], goal)
      away(i)  == Manhattan(around[i], t.cell[b])
  IN  IF safe = {} THEN Nowhere
      ELSE IF onward # {}
           THEN around[Foremost(onward, [i \in onward |-> <<ahead(i), 0>>])]
      ELSE IF \E i \in safe : around[i] = hint THEN hint
      ELSE around[Foremost(safe, [i \in safe |-> <<ahead(i), -away(i)>>])]

\* _make_robot_yield.
MakeYield(t, r, b, hint, fate) ==
  LET step == YieldStep(t, r, b, Occupied(t, r), hint)
  IN  IF ~CanYield(t, r) THEN t
      ELSE IF step = Nowhere THEN [t EXCEPT !.cool[r] = 1]
      ELSE Check([t EXCEPT !.pairs[{r, b}] = r, !.replan[r] = TRUE, !.yields[r] = b,
                           !.path[r] = <<step>>, !.blocked[r] = 0, !.cool[r] = Cooldown],
                 r, fate)

\* A fault: only the preferred robot yields.
ContendOnce(t, r, b, hint, fate) ==
  LET pushed == /\ t.path[b] = <<>> \/ t.blocked[b] >= Threshold
                /\ CanYield(t, b)
      u == IF pushed THEN MakeYield(t, b, r, hint, fate) ELSE t
  IN  IF t.blocked[r] < Threshold THEN t
      ELSE IF Preferred(t, r, b) = r THEN MakeYield(t, r, b, hint, fate)
      ELSE IF pushed /\ YieldStep(t, b, r, Occupied(t, b), hint) # Nowhere THEN u
      ELSE u

\* The part of handle_blocked_robot for a pair without a record.
Contend(t, r, b, hint, fate) ==
  LET pushed == /\ t.path[b] = <<>> \/ t.blocked[b] >= Threshold
                /\ CanYield(t, b)
      u == IF pushed THEN MakeYield(t, b, r, hint, fate) ELSE t
  IN  IF t.blocked[r] < Threshold THEN t
      ELSE IF Preferred(t, r, b) = r THEN MakeYield(t, r, b, hint, fate)
      ELSE IF pushed /\ YieldStep(t, b, r, Occupied(t, b), hint) # Nowhere THEN u
      ELSE IF \/ u.path[b] = <<>> \/ u.cool[b] > 0
              \/ u.blocked[r] >= Threshold + 2
      THEN MakeYield(u, r, b, hint, fate) ELSE u

\* handle_blocked_robot.  No robot is in the next cell (NoRobot) if one was when
\* the loop began and has been put down elsewhere since.
HandleBlocked(t, r, b, hint, fate) ==
  LET u == Stuck(t, r)
      y == u.pairs[{r, b}]
  IN  IF b = NoRobot
      THEN IF u.blocked[r] >= Threshold /\ u.cool[r] = 0 THEN Resume(u, r, fate) ELSE u
      ELSE CASE y = r -> MakeYield(Drop(u, {r, b}), r, b, hint, fate)
             [] y = b -> IF /\ u.blocked[r] >= 3 * Threshold
                            /\ ~u.replan[b] /\ CanYield(u, r)
                         THEN MakeYield(Drop(u, {r, b}), r, b, hint, fate)
                         ELSE u
             [] OTHER -> Contend(u, r, b, hint, fate)

\* _complete_yield.
Complete(t, r, fate) ==
  LET u == Release(t, r)
      v == [u EXCEPT !.replan[r] = FALSE, !.path[r] = <<>>,
                     !.mode[r] = IF t.leg[r] # 0 /\ @ = "IDLE" THEN "MOVING" ELSE @]
  IN  IF WantsRoute(t, r) THEN Resume(v, r, fate) ELSE v

\* advance_replanning_robot.
AdvanceYield(t, r, hint, fate) ==
  LET u == Stuck(t, r)
      b == t.yields[r]
      step == YieldStep(u, r, b, t.seen, hint)
      v == Step(t, r)
  IN  IF t.path[r] = <<>> THEN Complete(t, r, fate)
      ELSE IF t.path[r][1] \notin t.seen
      THEN IF v.path[r] = <<>> THEN Complete(v, r, fate) ELSE Check(v, r, fate)
      ELSE IF u.blocked[r] < 2 \/ u.cool[r] > 0 THEN u
      ELSE IF b = NoRobot THEN Complete(u, r, fate)
      ELSE IF step = Nowhere THEN u
      ELSE Check([u EXCEPT !.path[r] = <<step>>, !.blocked[r] = 0, !.cool[r] = Cooldown],
                 r, fate)

-----------------------------------------------------------------------------
(* Claims of the proactive managers, rebuilt in every tick and of no use   *)
(* after it.                                                               *)

\* The robots of a set in an order: each has so many before it.
InOrder(S, Before(_, _)) ==
  [i \in 1..Cardinality(S) |->
     CHOOSE r \in S : Cardinality({q \in S : Before(q, r)}) = i - 1]

\* The robots that may claim, in the order in which they do.
ClaimOrder(t, score) ==
  LET Before(r, q) == score[r] < score[q] \/ (score[r] = score[q] /\ r < q)
  IN  InOrder({r \in Robots : t.mode[r] # "STILL"}, Before)

Holder(claims, c, k) ==
  IF \E q \in Robots : <<c, k, q>> \in claims
  THEN CHOOSE q \in Robots : <<c, k, q>> \in claims ELSE NoRobot

\* A robot claims a prefix of its wishes, up to the first one that is refused.
ClaimPrefix(claims, r, wishes) ==
  LET refused(w) == Holder(claims, w[1], w[2]) \notin {NoRobot, r}
  IN  claims \union {<<wishes[i][1], wishes[i][2], r>> : i \in
        {n \in DOMAIN wishes : \A m \in 1..n : ~refused(wishes[m])}}

\* ZoneLockConflictManager.tick: the next cells of the path.
ZoneWishes(t, r) ==
  [i \in 1..Least(Lookahead, Len(t.path[r])) |-> <<t.path[r][i], 0>>]

\* PrioritizedReservationConflictManager.tick: its cell now, then cell by cell.
ReserveWishes(t, r) ==
  <<<<t.cell[r], 0>>>> \o
  [i \in 1..Least(Horizon, Len(t.path[r])) |-> <<t.path[r][i], i>>]

\* One robot after the other claims.
ClaimsAfter(wishes) ==
  LET claim[c \in [left : Seq(Robots), held : SUBSET (Open \X Nat \X Robots)]] ==
        IF c.left = <<>> THEN c.held
        ELSE claim[[left |-> Tail(c.left),
                    held |-> ClaimPrefix(c.held, Head(c.left), wishes[Head(c.left)])]]
  IN  claim

Claims(t) ==
  LET zones  == manager = "zones"
      score  == [r \in Robots |-> IF zones THEN YieldScore(t, r) ELSE -ReservePriority(t, r)]
      wishes == [r \in Robots |-> IF zones THEN ZoneWishes(t, r) ELSE ReserveWishes(t, r)]
  IN  IF manager = "local" THEN {}
      ELSE ClaimsAfter(wishes)[[left |-> ClaimOrder(t, score), held |-> {}]]

\* allow_step.
Allowed(t, r) ==
  LET k == IF manager = "zones" THEN 0 ELSE 1
  IN  \/ manager = "local"
      \/ t.blocked[r] >= 2 * Threshold
      \/ Holder(t.claims, t.path[r][1], k) \in {NoRobot, r}

-----------------------------------------------------------------------------
(* A tick.                                                                 *)

\* _fail_robot.
Fail(r) ==
  /\ stage = "repairs" /\ r \in Failing
  /\ s' = Breakdown(s, r)
  /\ UNCHANGED <<manager, stage, todo>>

\* The robot is repaired or charged; _try_exit_maintenance sends it out of a bay.
Revive(r) ==
  /\ stage = "repairs" /\ s.mode[r] = "STILL"
  /\ LET t == [s EXCEPT !.mode[r] = "IDLE", !.goal[r] = Nowhere]
         exits == (Open \ Bays) \ Occupied(t, r)
     IN  s' = IF s.cell[r] \in Bays /\ exits # {}
              THEN SetOff(t, r, Closest(s.cell[r], exits), "MOVING") ELSE t
  /\ UNCHANGED <<manager, stage, todo>>

EndRepairs == stage = "repairs" /\ stage' = "assign" /\ UNCHANGED <<s, manager, todo>>

\* A turn of _update_charger_waiting: with a slot the robot charges where it is,
\* with whatever path and flags it has, or sets off for a cell; if it stands on a
\* charging cell and gets neither, it is put down next to it.
Dispatch(r) ==
  /\ stage = "assign" /\ s.mode[r] = "WAITING"
  /\ \/ IF s.cell[r] \in Depots \ Occupied(s, r)
        THEN s' = [s EXCEPT !.mode[r] = "STILL", !.goal[r] = s.cell[r]]
        ELSE \E c \in FreeDepots(s, r) : s' = RouteToCell(s, r, c)
     \/ s' = OffCharger(s, r)
  /\ UNCHANGED <<manager, stage, todo>>

\* _update_battery_checks and _update_idle_and_opportunistic_charging.
CheckBattery(r) ==
  /\ stage = "assign" /\ s.mode[r] # "STILL"
  /\ \E fate \in Fates \ {Carry} :
       /\ s.mode[r] \in {"TO_CHARGER", "WAITING"} => fate = Dead
       /\ s' = IF fate = Dead THEN Breakdown(s, r)
               ELSE IF s.leg[r] = 0 THEN Interrupt(s, r, fate)
               ELSE Check(s, r, fate)
  /\ UNCHANGED <<manager, stage, todo>>

\* _begin_task.
Assign(r) ==
  /\ stage = "assign"
  /\ s.mode[r] = "IDLE" /\ s.leg[r] = 0 /\ s.path[r] = <<>>
  /\ \E job \in Jobs, fate \in Fates :
       LET t == Clear([s EXCEPT !.leg[r] = 1, !.job[r] = job, !.goal[r] = job[1],
                                !.mode[r] = "MOVING", !.blocked[r] = 0,
                                !.replan[r] = FALSE, !.yields[r] = NoRobot], r)
           p == RouteAround(t, r, job[1])
           u == SetRoute(t, r, p)
       IN  s' = IF p = <<>> THEN Arrive(u, r, fate) ELSE Check(u, r, fate)
  /\ UNCHANGED <<manager, stage, todo>>

\* The order of _advance_robots: those that yield first.
MoveOrder(t) ==
  LET Before(r, q) == \/ t.replan[r] /\ ~t.replan[q]
                      \/ t.replan[r] = t.replan[q] /\ r < q
  IN  InOrder(Robots, Before)

\* No two robots are in one cell.
Apart == \A r, q \in Robots : r # q => s.cell[r] # s.cell[q]

\* The manager's tick, then the movement loop begins: it reads the occupied cells.
Sync ==
  /\ stage = "assign" /\ stage' = "move"
  /\ s' = [s EXCEPT !.claims = Claims(s), !.seen = {s.cell[r] : r \in Robots},
                    !.stray = ~Apart]
  /\ todo' = MoveOrder(s)
  /\ UNCHANGED manager

\* One turn of _advance_robots; the cooldown runs first.
Cooled(r) == [s EXCEPT !.cool[r] = IF @ > 0 THEN @ - 1 ELSE 0]
MyTurn(r) ==
  /\ stage = "move" /\ todo # <<>> /\ r = Head(todo)
  /\ todo' = Tail(todo)
  /\ UNCHANGED <<manager, stage>>
Driving(r) == s.mode[r] # "STILL" /\ ~s.replan[r] /\ s.path[r] # <<>>

\* Where a robot in cell c may have come from, if it has moved at all.
Hints(c) == (ToSet(Around(c)) \intersect Open) \union {Nowhere}

StandStill(r) == MyTurn(r) /\ s.mode[r] = "STILL" /\ s' = Cooled(r)

YieldTurn(r) ==
  /\ MyTurn(r) /\ s.mode[r] # "STILL" /\ s.replan[r]
  /\ \E hint \in Hints(s.cell[r]), fate \in Fates :
       s' = AdvanceYield(Cooled(r), r, hint, fate)

RouteTurn(r) ==
  /\ MyTurn(r) /\ s.mode[r] # "STILL" /\ ~s.replan[r] /\ s.path[r] = <<>>
  /\ \E fate \in Fates :
       s' = IF WantsRoute(s, r) THEN Resume(Cooled(r), r, fate) ELSE Cooled(r)

DeniedTurn(r) ==
  MyTurn(r) /\ Driving(r) /\ ~Allowed(s, r) /\ s' = Stuck(Cooled(r), r)

BlockedTurn(r) ==
  /\ MyTurn(r) /\ Driving(r) /\ Allowed(s, r)
  /\ s.path[r][1] \in s.seen
  /\ LET there == {q \in Robots \ {r} : s.cell[q] = s.path[r][1]}
     IN  \E b \in IF there = {} THEN {NoRobot} ELSE there :
         \E hint \in Hints(s.cell[r]) \union Hints(s.path[r][1]), fate \in Fates :
           s' = HandleBlocked(Cooled(r), r, b, hint, fate)

StepTurn(r) ==
  /\ MyTurn(r) /\ Driving(r) /\ Allowed(s, r)
  /\ s.path[r][1] \notin s.seen
  /\ \E fate \in Fates :
       LET t == Step(Cooled(r), r)
       IN  s' = IF t.path[r] = <<>> THEN Arrive(t, r, fate) ELSE Check(t, r, fate)

EndTick ==
  /\ stage = "move" /\ todo = <<>> /\ stage' = "repairs"
  /\ s' = [s EXCEPT !.seen = {}, !.claims = {}, !.stray = ~Apart]
  /\ UNCHANGED <<manager, todo>>

Move(r) ==
  \/ StandStill(r) \/ YieldTurn(r) \/ RouteTurn(r)
  \/ DeniedTurn(r) \/ BlockedTurn(r) \/ StepTurn(r)

Tick == EndRepairs \/ Sync \/ (\E r \in Robots : Move(r)) \/ EndTick
Outside ==
  \E r \in Robots : Fail(r) \/ Revive(r) \/ Dispatch(r) \/ CheckBattery(r) \/ Assign(r)
Next == Tick \/ Outside

Spec == Init /\ [][Next]_vars

\* The thread of the simulation keeps ticking; nothing else has to happen.
\* A part of a tick can always run, so this is weak fairness of Tick.
FairSpec == Spec /\ []<><<Tick>>_vars

-----------------------------------------------------------------------------
(* What routes are good for.                                               *)

\* p leads from cell c over open cells, one step at a time.
Walk(c, p) ==
  /\ p \in Seq(Open)
  /\ \A i \in DOMAIN p : Adjacent(IF i = 1 THEN c ELSE p[i - 1], p[i])

\* There is a way between any two cells.
Connected == \A a, b \in Open : b \in WithinSteps(Open, a, Cardinality(Open))

-----------------------------------------------------------------------------
(* Properties.                                                             *)

\* Robots, records and claims keep their types: every route that a handler
\* sets leads over open cells, and a job, its leg and its counters stay in range.
TypeOK ==
  /\ s \in StateType
  /\ manager \in Managers /\ stage \in {"repairs", "assign", "move"}
  /\ todo \in Seq(Robots)

\* Two robots share a cell only because a robot was put down while the movement
\* loop ran: the loop's set of occupied cells knows of all others, whatever routes,
\* yields, denied steps and interruptions there are.
OnlyPutRobotsMeet == s.stray \/ Apart

\* The movement loop implements Motion: however its route was planned or thrown
\* away, a robot goes to a neighbouring cell that the loop takes to be free, or is
\* put down in one that is free.
Abstract == INSTANCE Motion WITH cell <- s.cell, seen <- s.seen, looking <- stage = "move"
MovesFreely == Abstract!Spec

\* A robot is recorded as the yielder of one pair only, one it belongs to, and
\* then it yields to the other robot of that pair, or is under way to charge:
\* records and flags are set and cleared in different handlers.
RecordsHold ==
  /\ \A p, q \in Pairs : s.pairs[p] # NoRobot /\ s.pairs[p] = s.pairs[q] => p = q
  /\ \A p \in Pairs, r \in Robots : s.pairs[p] = r =>
        \/ s.replan[r] /\ p = {r, s.yields[r]}
        \/ r \in p /\ s.mode[r] = "TO_CHARGER"

\* "For each blocking pair, only one robot may replan at a time"
\* (docs/API_SURFACE.md).
OneYielder ==
  \A a, b \in Robots : ~(/\ s.replan[a] /\ s.yields[a] = b
                          /\ s.replan[b] /\ s.yields[b] = a)

\* "If the preferred yielder cannot act quickly enough, the blocked robot yields
\* instead" (docs/API_SURFACE.md): two robots that want each other's cell do not
\* stand there for good while one of them has somewhere to go.
Facing(r, b) ==
  /\ {s.mode[r], s.mode[b]} \intersect {"STILL"} = {} /\ ~s.replan[r] /\ ~s.replan[b]
  /\ s.path[r] # <<>> /\ s.path[r][1] = s.cell[b]
  /\ s.path[b] # <<>> /\ s.path[b][1] = s.cell[r]

BoxedIn(r) ==
  ToSet(Around(s.cell[r])) \intersect Open \subseteq Occupied(s, r) \union Claimed(s, r)

StandoffsEnd ==
  \A r, b \in Robots : r < b => []<>(~Facing(r, b) \/ (BoxedIn(r) /\ BoxedIn(b)))
============================================================================
