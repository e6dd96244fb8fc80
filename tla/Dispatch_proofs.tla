-------------------------- MODULE Dispatch_proofs --------------------------
(***************************************************************************)
(* A trial keeps its types and its books balance, for any floor that is    *)
(* connected, any fleet, scheduler, demand and length: a robot and its     *)
(* task name each other through every handler of a tick, each handler      *)
(* counts what it does to a task, every planner keeps its word, the event  *)
(* log, the table of tasks and the counters tell the same story, each      *)
(* order is released once, and no sequential scheduler lets a task be      *)
(* overtaken.                                                              *)
(***************************************************************************)
EXTENDS Dispatch, Routing_proofs

\* The worlds with tasks ids, of issued ones that the generator has made.
CountsType(issued) ==
  [generated : Nat \cap {issued}, assigned : Nat, completed : Nat,
   waiting : Int, cycle : Int, blocked : Nat, replans : Nat, interrupted : Nat, reassigned : Nat,
   failures : 0..MaxFailures]

Worlds(ids, issued) ==
  [tasks : [ids -> TaskType], robots : [Robots -> RobotType], counts : CountsType(issued),
   tick : 0..Duration]

\* The tasks of a world that are under way, and those that are left to be done.
UnderWay(w) == {t \in DOMAIN w.tasks : w.tasks[t].status = "Assigned"}
Undone(w)   == {t \in DOMAIN w.tasks : w.tasks[t].status # "Completed"}

\* A robot with a route or a task has both or is about to arrive, one that has
\* failed has neither and has a while to go, and a robot and its task name each
\* other.
Linked(ids, w) ==
  /\ \A r \in Robots :
       /\ w.robots[r].route # <<>> => w.robots[r].task # None
       /\ w.robots[r].mode = "Failed" => w.robots[r].task = None /\ w.robots[r].repair > 0
       /\ w.robots[r].task # None =>
            /\ w.robots[r].task \in ids
            /\ w.tasks[w.robots[r].task].status = "Assigned"
            /\ w.tasks[w.robots[r].task].robot = r
  /\ \A t \in ids : w.tasks[t].status = "Assigned" =>
       w.tasks[t].robot \in Robots /\ w.robots[w.tasks[t].robot].task = t

\* The counters account for the tasks.  Failures alone interrupt tasks.
Balanced(ids, w) ==
  /\ w.counts.assigned = w.counts.completed + w.counts.interrupted + Cardinality(UnderWay(w))
  /\ Cardinality(Undone(w)) = w.counts.generated - w.counts.completed
  /\ \A t \in ids : w.tasks[t].interruptions <= w.counts.interrupted
  /\ w.counts.interrupted <= w.counts.failures

Sound(ids, issued, w) == w \in Worlds(ids, issued) /\ Linked(ids, w) /\ Balanced(ids, w)

\* The numbers of tasks.
Numbers(ids) == IsFiniteSet(ids) /\ ids \subseteq Nat \ {0}

-----------------------------------------------------------------------------
(* One robot and its task change.                                          *)

One(P) == IF P THEN 1 ELSE 0

\* The size of a set that gains, loses or keeps an element.
LEMMA OneMore ==
  ASSUME NEW S, IsFiniteSet(S), NEW T, NEW x,
         T \ {x} = S \ {x}
  PROVE  /\ IsFiniteSet(T) /\ Cardinality(S) \in Nat /\ Cardinality(T) \in Nat
         /\ Cardinality(T) = Cardinality(S) + One(x \in T) - One(x \in S)
<1> DEFINE R == S \ {x}
<1>1. IsFiniteSet(R) /\ Cardinality(R) \in Nat /\ x \notin R
  BY FS_Subset, FS_CardinalityType
<1>2. Cardinality(R \union {x}) = Cardinality(R) + 1 /\ IsFiniteSet(R \union {x})
  BY <1>1, FS_AddElement
<1>3. S = (IF x \in S THEN R \union {x} ELSE R) /\ T = (IF x \in T THEN R \union {x} ELSE R)
  OBVIOUS
<1> HIDE DEF R
<1>4. /\ Cardinality(S) = Cardinality(R) + One(x \in S)
      /\ Cardinality(T) = Cardinality(R) + One(x \in T)
      /\ IsFiniteSet(T)
  BY <1>1, <1>2, <1>3 DEF One
<1> QED
  BY <1>1, <1>4 DEF One

LEMMA WithCounts ==
  ASSUME NEW ids, NEW issued, Numbers(ids), NEW w, w \in Worlds(ids, issued),
         NEW t \in ids, NEW task,
         NEW r, NEW robot, NEW tally
  PROVE  LET u == With(w, r, robot, t, task, tally)
         IN  /\ Cardinality(UnderWay(w)) \in Nat /\ Cardinality(Undone(w)) \in Nat
             /\ Cardinality(UnderWay(u)) = Cardinality(UnderWay(w))
                  + One(task.status = "Assigned") - One(w.tasks[t].status = "Assigned")
             /\ Cardinality(Undone(u)) = Cardinality(Undone(w))
                  + One(task.status # "Completed") - One(w.tasks[t].status # "Completed")
<1> DEFINE u == With(w, r, robot, t, task, tally)
<1>1. /\ DOMAIN w.tasks = ids /\ DOMAIN u.tasks = ids
      /\ u.tasks[t] = task /\ \A s \in ids \ {t} : u.tasks[s] = w.tasks[s]
  BY DEF With, Worlds
<1>2. /\ IsFiniteSet(UnderWay(w)) /\ IsFiniteSet(Undone(w))
      /\ UnderWay(u) \ {t} = UnderWay(w) \ {t} /\ Undone(u) \ {t} = Undone(w) \ {t}
  <2>1. UnderWay(w) \subseteq ids /\ Undone(w) \subseteq ids
    BY <1>1 DEF UnderWay, Undone
  <2> HIDE DEF u
  <2> QED
    BY <1>1, <2>1, FS_Subset DEF UnderWay, Undone, Numbers
<1>3. /\ t \in UnderWay(w) <=> w.tasks[t].status = "Assigned"
      /\ t \in UnderWay(u) <=> task.status = "Assigned"
      /\ t \in Undone(w) <=> w.tasks[t].status # "Completed"
      /\ t \in Undone(u) <=> task.status # "Completed"
  BY <1>1 DEF UnderWay, Undone
<1> HIDE DEF u
<1>4. /\ Cardinality(UnderWay(w)) \in Nat
      /\ Cardinality(UnderWay(u)) = Cardinality(UnderWay(w))
           + One(t \in UnderWay(u)) - One(t \in UnderWay(w))
  BY <1>2, OneMore
<1>5. /\ Cardinality(Undone(w)) \in Nat
      /\ Cardinality(Undone(u)) = Cardinality(Undone(w))
           + One(t \in Undone(u)) - One(t \in Undone(w))
  BY <1>2, OneMore
<1> QED
  BY <1>3, <1>4, <1>5 DEF u, One

LEMMA InterruptionsTyped ==
  ASSUME NEW ids, NEW issued, NEW w \in Worlds(ids, issued), NEW t \in ids
  PROVE  w.tasks[t].interruptions \in Nat
<1>1. w.tasks[t].interruptions \in 0..MaxFailures
  BY DEF Worlds, TaskType
<1> QED
  BY <1>1

\* A change keeps a world sound if the robot and the task that change name each
\* other, if at all, and nobody else, and the counters follow the task.
LEMMA WithSound ==
  ASSUME NEW ids, NEW issued, Numbers(ids), NEW w, Sound(ids, issued, w),
         NEW r \in Robots, NEW robot \in RobotType,
         NEW t \in ids, NEW task \in TaskType, NEW tally \in CountsType(issued),
         w.robots[r].task \in {None, t},
         w.tasks[t].status = "Assigned" => w.tasks[t].robot = r,
         robot.task # None => robot.task = t,
         robot.task = t <=> task.status = "Assigned",
         task.status = "Assigned" => task.robot = r,
         robot.route # <<>> => robot.task # None,
         robot.mode = "Failed" => robot.task = None /\ robot.repair > 0,
         task.interruptions <= tally.interrupted,
         w.counts.interrupted <= tally.interrupted,
         tally.interrupted <= tally.failures,
         tally.assigned - tally.completed - tally.interrupted =
           w.counts.assigned - w.counts.completed - w.counts.interrupted
             + One(task.status = "Assigned") - One(w.tasks[t].status = "Assigned"),
         tally.generated - tally.completed =
           w.counts.generated - w.counts.completed
             + One(task.status # "Completed") - One(w.tasks[t].status # "Completed")
  PROVE  Sound(ids, issued, With(w, r, robot, t, task, tally))
<1> DEFINE u == With(w, r, robot, t, task, tally)
<1>0. w \in Worlds(ids, issued) /\ Linked(ids, w) /\ Balanced(ids, w) /\ t # None
  BY DEF Sound, Numbers, None
<1>1. /\ u \in Worlds(ids, issued) /\ u.counts = tally
      /\ u.tasks[t] = task /\ \A s \in ids \ {t} : u.tasks[s] = w.tasks[s]
      /\ u.robots[r] = robot /\ \A q \in Robots \ {r} : u.robots[q] = w.robots[q]
  BY <1>0 DEF With, Worlds
<1>2. Linked(ids, u)
  <2> HIDE DEF u
  <2>1. ASSUME NEW q \in Robots
        PROVE  /\ u.robots[q].route # <<>> => u.robots[q].task # None
               /\ u.robots[q].mode = "Failed" =>
                    u.robots[q].task = None /\ u.robots[q].repair > 0
               /\ u.robots[q].task # None =>
                    /\ u.robots[q].task \in ids
                    /\ u.tasks[u.robots[q].task].status = "Assigned"
                    /\ u.tasks[u.robots[q].task].robot = q
    <3>1. CASE q = r
      BY <1>1, <3>1
    <3>2. CASE q # r
      <4>1. u.robots[q] = w.robots[q]
        BY <1>1, <3>2
      <4>2. w.robots[q].task # t
        BY <1>0, <3>2 DEF Linked
      <4> QED
        BY <1>0, <1>1, <4>1, <4>2 DEF Linked
    <3> QED
      BY <3>1, <3>2
  <2>2. ASSUME NEW s \in ids, u.tasks[s].status = "Assigned"
        PROVE  u.tasks[s].robot \in Robots /\ u.robots[u.tasks[s].robot].task = s
    <3>1. CASE s = t
      BY <1>1, <2>2, <3>1
    <3>2. CASE s # t
      <4>1. u.tasks[s] = w.tasks[s]
        BY <1>1, <3>2
      <4>2. w.tasks[s].robot \in Robots /\ w.robots[w.tasks[s].robot].task = s
        BY <1>0, <2>2, <4>1 DEF Linked
      <4>3. s # None
        BY DEF Numbers, None
      <4>4. w.tasks[s].robot # r
        BY <3>2, <4>2, <4>3
      <4> QED
        BY <1>1, <4>1, <4>2, <4>4
    <3> QED
      BY <3>1, <3>2
  <2> QED
    BY <2>1, <2>2 DEF Linked
<1>3. Balanced(ids, u)
  <2>1. /\ Cardinality(UnderWay(w)) \in Nat /\ Cardinality(Undone(w)) \in Nat
        /\ Cardinality(UnderWay(u)) = Cardinality(UnderWay(w))
             + One(task.status = "Assigned") - One(w.tasks[t].status = "Assigned")
        /\ Cardinality(Undone(u)) = Cardinality(Undone(w))
             + One(task.status # "Completed") - One(w.tasks[t].status # "Completed")
    BY <1>0, WithCounts
  <2> HIDE DEF u
  <2>2. \A P \in BOOLEAN : One(P) \in Nat
    BY DEF One
  <2> DEFINE x1 == w.counts.assigned   x2 == tally.assigned
             y1 == w.counts.completed  y2 == tally.completed
             z1 == w.counts.interrupted z2 == tally.interrupted
             g1 == w.counts.generated  g2 == tally.generated
             n1 == Cardinality(UnderWay(w)) n2 == Cardinality(UnderWay(u))
             m1 == Cardinality(Undone(w)) m2 == Cardinality(Undone(u))
  <2>3. /\ x1 \in Nat /\ y1 \in Nat /\ z1 \in Nat /\ g1 \in Nat
        /\ x2 \in Nat /\ y2 \in Nat /\ z2 \in Nat /\ g2 \in Nat
    BY <1>0 DEF Worlds, CountsType
  <2>4. x2 = y2 + z2 + n2
    <3> DEFINE a == One(task.status = "Assigned")
               b == One(w.tasks[t].status = "Assigned")
    <3>1. a \in Nat /\ b \in Nat
      BY <2>2
    <3>2. x1 = y1 + z1 + n1 /\ n1 \in Nat /\ n2 = n1 + a - b
      BY <1>0, <2>1 DEF Balanced
    <3>3. x2 - y2 - z2 = x1 - y1 - z1 + a - b
      OBVIOUS
    <3> HIDE DEF a, b, x1, x2, y1, y2, z1, z2, n1, n2
    <3> QED
      BY <2>3, <3>1, <3>2, <3>3
  <2>5. m2 = g2 - y2
    <3> DEFINE a == One(task.status # "Completed")
               b == One(w.tasks[t].status # "Completed")
    <3>1. a \in Nat /\ b \in Nat
      BY <2>2
    <3>2. m1 = g1 - y1 /\ m2 = m1 + a - b
      BY <1>0, <2>1 DEF Balanced
    <3>3. g2 - y2 = g1 - y1 + a - b
      OBVIOUS
    <3> HIDE DEF a, b, g1, g2, y1, y2, m1, m2
    <3> QED
      BY <2>3, <3>1, <3>2, <3>3
  <2>6. ASSUME NEW s \in ids PROVE u.tasks[s].interruptions <= z2
    <3>1. w.tasks[s].interruptions <= z1 /\ z1 <= z2
      BY <1>0 DEF Balanced
    <3>2. w.tasks[s].interruptions \in Nat
      BY <1>0, InterruptionsTyped
    <3>3. s # t => u.tasks[s] = w.tasks[s]
      BY <1>1
    <3>4. s = t => u.tasks[s] = task
      BY <1>1
    <3> HIDE DEF z1
    <3> QED
      BY <2>3, <3>1, <3>2, <3>3, <3>4
  <2> QED
    BY <1>1, <2>4, <2>5, <2>6 DEF Balanced
<1> QED
  BY <1>1, <1>2, <1>3 DEF Sound

\* The same for a robot that keeps its task, or has none.
LEMMA RobotSound ==
  ASSUME NEW ids, NEW issued, NEW w, Sound(ids, issued, w),
         NEW r \in Robots, NEW robot \in RobotType, NEW tally \in CountsType(issued),
         robot.task = w.robots[r].task,
         robot.route # <<>> => robot.task # None,
         robot.mode = "Failed" => robot.task = None /\ robot.repair > 0,
         tally.assigned = w.counts.assigned, tally.completed = w.counts.completed,
         tally.interrupted = w.counts.interrupted, tally.generated = w.counts.generated,
         w.counts.failures <= tally.failures
  PROVE  Sound(ids, issued, WithRobot(w, r, robot, tally))
<1> DEFINE u == WithRobot(w, r, robot, tally)
<1>0. w \in Worlds(ids, issued) /\ Linked(ids, w) /\ Balanced(ids, w)
  BY DEF Sound
<1>1. /\ u \in Worlds(ids, issued) /\ u.counts = tally /\ u.tasks = w.tasks
      /\ u.robots[r] = robot /\ \A q \in Robots \ {r} : u.robots[q] = w.robots[q]
      /\ \A q \in Robots : u.robots[q].task = w.robots[q].task
  BY <1>0 DEF Worlds, WithRobot
<1> HIDE DEF u
<1>2. Linked(ids, u)
  BY <1>0, <1>1 DEF Linked
<1>3. Balanced(ids, u)
  <2>1. UnderWay(u) = UnderWay(w) /\ Undone(u) = Undone(w)
    BY <1>1 DEF UnderWay, Undone
  <2>2. u.counts.failures \in Int /\ w.counts.failures \in Int /\ w.counts.interrupted \in Nat
    BY <1>0, <1>1 DEF Worlds, CountsType
  <2> QED
    BY <1>0, <1>1, <2>1, <2>2 DEF Balanced
<1> QED
  BY <1>1, <1>2, <1>3 DEF Sound, u

-----------------------------------------------------------------------------
(* Handlers.                                                               *)

\* On a connected floor a robot that is sent anywhere gets a route.
LEMMA PlansTyped ==
  ASSUME NEW from \in Open, NEW to \in Open, NEW blocked
  PROVE  LET p == BFSPath(Open, from, to, blocked)
         IN  /\ p # NoPath => p \in Seq(Open)
             /\ Connected /\ blocked = {} => p # NoPath
<1> DEFINE free == Free(Open, from, to, blocked)
           p == BFSPath(Open, from, to, blocked)
           size == Cardinality(Open)
<1>1. IsFiniteSet(Open) /\ Open \subseteq Nat \X Nat /\ size \in Nat
  BY DispatchAssumption, FS_CardinalityType
<1>2. IF p = NoPath THEN \A n \in Nat : to \notin Ball(free, from, n)
      ELSE Leads(free, from, p, to)
  BY <1>1, BFSPathFinds DEF Finds
<1>3. free \subseteq Open /\ (blocked = {} => free = Open)
  BY DEF Free
<1>4. Connected => to \in Ball(Open, from, size)
  BY <1>1, WithinStepsIsBall DEF Connected
<1> HIDE DEF free, p, size
<1>5. p # NoPath => p \in Seq(free)
  BY <1>2 DEF Leads
<1>6. p # NoPath => p \in Seq(Open)
  BY <1>3, <1>5
<1> QED
  BY <1>1, <1>2, <1>3, <1>4, <1>6 DEF p

LEMMA RouteTyped ==
  ASSUME Connected, NEW from \in Open, NEW to \in Open, NEW blocked
  PROVE  RouteOrThrough([open |-> Open], from, to, blocked) \in Seq(Open)
BY PlansTyped DEF RouteOrThrough, FirstRoute

\* What a robot and its task are known to be.
LEMMA TypesOf ==
  ASSUME NEW ids, NEW issued, NEW w \in Worlds(ids, issued)
  PROVE  /\ \A r \in Robots : w.robots[r] \in RobotType
         /\ \A t \in ids : w.tasks[t] \in TaskType
         /\ w.counts \in CountsType(issued) /\ w.tick \in 0..Duration /\ w.tick \in Nat
BY DispatchAssumption DEF Worlds

\* Two changes of a robot that keep its type, and what sums of counters are.
LEMMA Changes ==
  ASSUME NEW robot \in RobotType
  PROVE  /\ \A p \in Seq(Open) : [robot EXCEPT !.route = p] \in RobotType
         /\ [robot EXCEPT !.blocked = 0] \in RobotType
<1>1. \A p \in Seq(Open) : [robot EXCEPT !.route = p] \in RobotType
  BY DEF RobotType
<1>2. [robot EXCEPT !.blocked = 0] \in RobotType
  BY DEF RobotType
<1> QED
  BY <1>1, <1>2

LEMMA CompleteSound ==
  ASSUME NEW ids, NEW issued, Numbers(ids), NEW w, Sound(ids, issued, w), NEW r \in Robots,
         w.robots[r].task # None
  PROVE  Sound(ids, issued, Complete(w, r))
<1> DEFINE t == w.robots[r].task
           completed == w.counts.completed + 1
           cycle == w.counts.cycle + w.tick - w.tasks[t].created
           robot == [w.robots[r] EXCEPT !.task = None, !.mode = "Idle", !.memo = None,
                                        !.blocked = 0, !.route = <<>>]
           task == [w.tasks[t] EXCEPT !.status = "Completed", !.done = w.tick]
           tally == [w.counts EXCEPT !.completed = completed, !.cycle = cycle]
<1>1. /\ w \in Worlds(ids, issued) /\ t \in ids /\ w.tasks[t].status = "Assigned"
      /\ w.tasks[t].robot = r
  BY DEF Sound, Linked
<1>2. Complete(w, r) = With(w, r, robot, t, task, tally)
  BY DEF Complete
<1>3. /\ w.robots[r] \in RobotType /\ w.tasks[t] \in TaskType
      /\ w.counts \in CountsType(issued)
      /\ w.tick \in 0..Duration /\ w.tick \in Nat /\ t # None
  <2>1. t \in ids
    BY <1>1
  <2> HIDE DEF t
  <2> QED
    BY <1>1, <2>1, TypesOf DEF Numbers, None
<1>4. robot \in RobotType /\ robot.task = None /\ robot.mode = "Idle" /\ robot.route = <<>>
  <2>1. <<>> \in Seq(Open)
    OBVIOUS
  <2> QED
    BY <1>3, <2>1 DEF RobotType, None
<1>5. /\ task \in TaskType /\ task.status = "Completed"
      /\ task.interruptions = w.tasks[t].interruptions
  <2> HIDE DEF t
  <2> QED
    BY <1>3 DEF TaskType
<1>6. /\ tally \in CountsType(issued) /\ tally.completed = completed
      /\ tally.assigned = w.counts.assigned /\ tally.interrupted = w.counts.interrupted
      /\ tally.generated = w.counts.generated /\ tally.failures = w.counts.failures
  <2>1. completed \in Nat /\ cycle \in Int
    <3> HIDE DEF t
    <3>1. w.tasks[t].created \in Int
      <4>1. w.tasks[t].created \in 0..Duration
        BY <1>3 DEF TaskType
      <4> QED
        BY <4>1
    <3>2. w.counts.cycle \in Int /\ w.counts.completed \in Nat
      BY <1>3 DEF CountsType
    <3> QED
      BY <1>3, <3>1, <3>2
  <2> HIDE DEF completed, cycle
  <2> QED
    BY <1>3, <2>1 DEF CountsType
<1>7. /\ w.tasks[t].interruptions <= w.counts.interrupted
      /\ w.counts.interrupted <= w.counts.failures
  BY <1>1 DEF Sound, Balanced
<1> HIDE DEF robot, task
<1>8. /\ tally.assigned - tally.completed - tally.interrupted =
           w.counts.assigned - w.counts.completed - w.counts.interrupted
             + One(task.status = "Assigned") - One(w.tasks[t].status = "Assigned")
      /\ tally.generated - tally.completed = w.counts.generated - w.counts.completed
             + One(task.status # "Completed") - One(w.tasks[t].status # "Completed")
      /\ w.counts.interrupted \in Nat
  <2>1. /\ w.counts.assigned \in Nat /\ w.counts.completed \in Nat
        /\ w.counts.interrupted \in Nat /\ w.counts.generated \in Nat
    BY <1>3 DEF CountsType
  <2>2. /\ One(task.status = "Assigned") = 0 /\ One(w.tasks[t].status = "Assigned") = 1
        /\ One(task.status # "Completed") = 0 /\ One(w.tasks[t].status # "Completed") = 1
    BY <1>1, <1>5 DEF One
  <2> HIDE DEF tally
  <2> QED
    BY <1>6, <2>1, <2>2
<1>9. /\ w.robots[r].task \in {None, t}
      /\ robot.task = t <=> task.status = "Assigned"
      /\ robot.mode # "Failed" /\ robot.route = <<>> /\ task.status # "Assigned"
      /\ task.interruptions <= tally.interrupted
      /\ w.counts.interrupted <= tally.interrupted
      /\ tally.interrupted <= tally.failures
  <2> HIDE DEF tally
  <2> QED
    BY <1>3, <1>4, <1>5, <1>6, <1>7, <1>8
<1> HIDE DEF tally, t
<1> QED
  BY <1>1, <1>2, <1>4, <1>5, <1>6, <1>8, <1>9, WithSound

\* What is known of a sound world.
LEMMA SoundFacts ==
  ASSUME NEW ids, NEW issued, NEW w, Sound(ids, issued, w), NEW r \in Robots
  PROVE  /\ w \in Worlds(ids, issued) /\ w.robots[r] \in RobotType
         /\ w.counts \in CountsType(issued)
         /\ w.tick \in 0..Duration /\ w.tick \in Nat /\ w.robots[r].cell \in Open
         /\ w.robots[r].route \in Seq(Open)
         /\ w.robots[r].route # <<>> => w.robots[r].task # None
         /\ w.robots[r].mode = "Failed" =>
              w.robots[r].task = None /\ w.robots[r].repair > 0
         /\ w.robots[r].task # None =>
              /\ w.robots[r].task \in ids /\ w.tasks[w.robots[r].task] \in TaskType
              /\ w.tasks[w.robots[r].task].status = "Assigned"
              /\ w.tasks[w.robots[r].task].robot = r
         /\ w.counts.interrupted \in Nat /\ w.counts.failures \in Nat
         /\ w.counts.interrupted <= w.counts.failures
<1>1. w \in Worlds(ids, issued) /\ Linked(ids, w) /\ Balanced(ids, w)
  BY DEF Sound
<1>2. /\ w.robots[r] \in RobotType /\ w.counts \in CountsType(issued)
      /\ w.tick \in 0..Duration /\ w.tick \in Nat
      /\ \A t \in ids : w.tasks[t] \in TaskType
  BY <1>1, TypesOf
<1>3. w.robots[r].cell \in Open /\ w.robots[r].route \in Seq(Open)
  BY <1>2 DEF RobotType
<1>4. w.counts.interrupted \in Nat /\ w.counts.failures \in Nat
  <2>1. w.counts.interrupted \in Nat /\ w.counts.failures \in 0..MaxFailures
    BY <1>2 DEF CountsType
  <2> QED
    BY <2>1
<1> QED
  BY <1>1, <1>2, <1>3, <1>4 DEF Linked, Balanced

LEMMA RouteToSound ==
  ASSUME Connected, NEW ids, NEW issued, NEW w, Sound(ids, issued, w), NEW r \in Robots,
         NEW goal \in Open,
         w.robots[r].task # None
  PROVE  LET u == RouteTo(w, r, goal)
         IN  /\ Sound(ids, issued, u) /\ u.tasks = w.tasks
             /\ u.robots[r].task = w.robots[r].task /\ u.robots[r].mode = w.robots[r].mode
<1> DEFINE d == [open |-> Open]
           route == RouteOrThrough(d, w.robots[r].cell, goal, CellsOf(w, Others(r)))
           robot == [w.robots[r] EXCEPT !.route = route]
<1>1. /\ w \in Worlds(ids, issued) /\ w.robots[r] \in RobotType
      /\ w.counts \in CountsType(issued)
      /\ w.robots[r].cell \in Open /\ w.counts.failures \in Nat
      /\ w.robots[r].mode = "Failed" => w.robots[r].task = None
  BY SoundFacts
<1>2. RouteTo(w, r, goal) = WithRobot(w, r, robot, w.counts)
  BY DEF RouteTo
<1>3. route \in Seq(Open)
  BY <1>1, RouteTyped
<1> HIDE DEF route
<1>4. /\ robot \in RobotType /\ robot.task = w.robots[r].task
      /\ robot.mode = w.robots[r].mode
  BY <1>1, <1>3 DEF RobotType
<1> HIDE DEF robot
<1>5. Sound(ids, issued, WithRobot(w, r, robot, w.counts))
  BY <1>1, <1>4, RobotSound
<1>6. /\ WithRobot(w, r, robot, w.counts).tasks = w.tasks
      /\ WithRobot(w, r, robot, w.counts).robots[r] = robot
  BY <1>1 DEF WithRobot, Worlds
<1> QED
  BY <1>2, <1>4, <1>5, <1>6

LEMMA LoadSound ==
  ASSUME NEW ids, NEW issued, Numbers(ids), NEW w, Sound(ids, issued, w), NEW r \in Robots,
         w.robots[r].task # None
  PROVE  Sound(ids, issued, Load(w, r)) /\ Load(w, r).robots[r].task = w.robots[r].task
<1> DEFINE t == w.robots[r].task
           robot == [w.robots[r] EXCEPT !.blocked = 0]
           task == [w.tasks[t] EXCEPT !.leg = "dropoff", !.load = "Carried"]
<1>1. /\ w \in Worlds(ids, issued) /\ t \in ids /\ w.tasks[t].status = "Assigned"
      /\ w.tasks[t].robot = r /\ w.robots[r] \in RobotType /\ w.tasks[t] \in TaskType
      /\ w.counts \in CountsType(issued) /\ w.robots[r].mode # "Failed"
      /\ w.counts.interrupted \in Nat /\ w.counts.interrupted <= w.counts.failures
  BY SoundFacts
<1>2. Load(w, r) = With(w, r, robot, t, task, w.counts)
  BY DEF Load
<1>3. w.tasks[t].interruptions <= w.counts.interrupted
  BY <1>1 DEF Sound, Balanced
<1>4. /\ robot \in RobotType /\ robot.task = t /\ robot.mode = w.robots[r].mode
  BY <1>1 DEF RobotType
<1>5. /\ task \in TaskType /\ task.status = "Assigned" /\ task.robot = r
      /\ task.interruptions = w.tasks[t].interruptions
  <2> HIDE DEF t
  <2> QED
    BY <1>1 DEF TaskType
<1>6. w.robots[r].task \in {None, t} /\ t # None
  OBVIOUS
<1> HIDE DEF robot, task, t
<1>7. /\ w.counts.assigned - w.counts.completed - w.counts.interrupted =
           w.counts.assigned - w.counts.completed - w.counts.interrupted
             + One(task.status = "Assigned") - One(w.tasks[t].status = "Assigned")
      /\ w.counts.generated - w.counts.completed = w.counts.generated - w.counts.completed
             + One(task.status # "Completed") - One(w.tasks[t].status # "Completed")
  <2>1. /\ One(task.status = "Assigned") = 1 /\ One(w.tasks[t].status = "Assigned") = 1
        /\ One(task.status # "Completed") = 1 /\ One(w.tasks[t].status # "Completed") = 1
    BY <1>1, <1>5 DEF One
  <2>2. /\ w.counts.assigned \in Nat /\ w.counts.completed \in Nat
        /\ w.counts.interrupted \in Nat /\ w.counts.generated \in Nat
    BY <1>1 DEF CountsType
  <2> QED
    BY <2>1, <2>2
<1>8. Sound(ids, issued, With(w, r, robot, t, task, w.counts))
  BY <1>1, <1>3, <1>4, <1>5, <1>6, <1>7, WithSound
<1>9. With(w, r, robot, t, task, w.counts).robots[r] = robot
  BY <1>1 DEF With, Worlds
<1> QED
  BY <1>2, <1>4, <1>6, <1>8, <1>9 DEF t

LEMMA ArriveSound ==
  ASSUME Connected, NEW ids, NEW issued, Numbers(ids), NEW w, Sound(ids, issued, w),
         NEW r \in Robots,
         w.robots[r].task # None
  PROVE  Sound(ids, issued, Arrive(w, r)) /\ Sound(ids, issued, ArriveIfThere(w, r))
<1> DEFINE task == w.tasks[w.robots[r].task]
           loaded == RouteTo(Load(w, r), r, task.dropoff)
<1>1. task.dropoff \in Open
  <2>1. task \in TaskType
    BY SoundFacts
  <2> QED
    BY <2>1 DEF TaskType
<1>2. Sound(ids, issued, Load(w, r)) /\ Load(w, r).robots[r].task = w.robots[r].task
  BY LoadSound
<1>3. Sound(ids, issued, loaded) /\ loaded.robots[r].task # None
  BY <1>1, <1>2, RouteToSound
<1>4. Sound(ids, issued, Complete(w, r)) /\ Sound(ids, issued, Complete(loaded, r))
  BY <1>3, CompleteSound
<1>5. Arrive(w, r) =
        IF task.leg = "dropoff" THEN Complete(w, r) ELSE CompleteIfThere(loaded, r)
  BY DEF Arrive
<1> HIDE DEF loaded
<1>6. Sound(ids, issued, Arrive(w, r))
  BY <1>3, <1>4, <1>5 DEF CompleteIfThere
<1> QED
  BY <1>6 DEF ArriveIfThere

LEMMA TakeSound ==
  ASSUME NEW ids, NEW issued, Numbers(ids), NEW w, Sound(ids, issued, w), NEW r \in Robots,
         NEW t \in ids,
         w.robots[r].task = None, Waiting(w.tasks[t])
  PROVE  Sound(ids, issued, Take(w, r, t)) /\ Take(w, r, t).robots[r].task = t /\ t # None
<1> DEFINE before == w.tasks[t]
           changes == before.interruptions > 0 /\ before.last \notin {None, r}
           assigned == w.counts.assigned + 1
           waited == w.counts.waiting + w.tick - before.created
           reassigned == w.counts.reassigned + IF changes THEN 1 ELSE 0
           robot == [w.robots[r] EXCEPT !.task = t, !.mode = "Moving", !.blocked = 0,
                                        !.memo = None]
           task == [before EXCEPT !.status = "Assigned", !.robot = r, !.leg = "pickup",
                                  !.last = r]
           tally == [w.counts EXCEPT !.assigned = assigned, !.waiting = waited,
                                     !.reassigned = reassigned]
<1>1. /\ w \in Worlds(ids, issued) /\ w.robots[r] \in RobotType
      /\ w.counts \in CountsType(issued)
      /\ w.tick \in Nat
      /\ w.counts.interrupted \in Nat /\ w.counts.interrupted <= w.counts.failures
  BY SoundFacts
<1>2. before \in TaskType /\ r \in Nat /\ t \in Nat /\ t # None
      /\ before.interruptions <= w.counts.interrupted
      /\ before.status \in {"Pending", "Interrupted"}
  BY <1>1, TypesOf, DispatchAssumption DEF Numbers, None, Sound, Balanced, Waiting
<1>3. Take(w, r, t) = With(w, r, robot, t, task, tally)
  BY DEF Take
<1> HIDE DEF before, changes
<1>4. /\ robot \in RobotType /\ robot.task = t /\ robot.mode = "Moving"
  BY <1>1, <1>2 DEF RobotType, None
<1>5. /\ task \in TaskType /\ task.status = "Assigned" /\ task.robot = r
      /\ task.interruptions = before.interruptions
  BY <1>2 DEF TaskType
<1>6. /\ tally \in CountsType(issued) /\ tally.assigned = assigned
      /\ tally.completed = w.counts.completed /\ tally.interrupted = w.counts.interrupted
      /\ tally.generated = w.counts.generated /\ tally.failures = w.counts.failures
  <2>1. /\ w.counts.assigned \in Nat /\ w.counts.waiting \in Int
        /\ w.counts.reassigned \in Nat
    BY <1>1 DEF CountsType
  <2>2. before.created \in 0..Duration
    BY <1>2 DEF TaskType
  <2>3. assigned \in Nat /\ waited \in Int /\ reassigned \in Nat
    BY <1>1, <2>1, <2>2
  <2> HIDE DEF assigned, waited, reassigned
  <2> QED
    BY <1>1, <2>3 DEF CountsType
<1> HIDE DEF robot, task
<1>7. /\ tally.assigned - tally.completed - tally.interrupted =
           w.counts.assigned - w.counts.completed - w.counts.interrupted
             + One(task.status = "Assigned") - One(w.tasks[t].status = "Assigned")
      /\ tally.generated - tally.completed = w.counts.generated - w.counts.completed
             + One(task.status # "Completed") - One(w.tasks[t].status # "Completed")
  <2>1. /\ w.counts.assigned \in Nat /\ w.counts.completed \in Nat
        /\ w.counts.interrupted \in Nat /\ w.counts.generated \in Nat
    BY <1>1 DEF CountsType
  <2>2. /\ One(task.status = "Assigned") = 1 /\ One(w.tasks[t].status = "Assigned") = 0
        /\ One(task.status # "Completed") = 1 /\ One(w.tasks[t].status # "Completed") = 1
    BY <1>2, <1>5 DEF One, before
  <2> HIDE DEF tally
  <2> QED
    BY <1>6, <2>1, <2>2
<1>8. /\ w.robots[r].task \in {None, t} /\ w.tasks[t].status # "Assigned"
      /\ task.interruptions <= tally.interrupted
      /\ w.counts.interrupted <= tally.interrupted /\ tally.interrupted <= tally.failures
  <2> HIDE DEF tally
  <2> QED
    BY <1>1, <1>2, <1>5, <1>6 DEF before
<1> HIDE DEF tally
<1>9. Sound(ids, issued, With(w, r, robot, t, task, tally))
  BY <1>2, <1>4, <1>5, <1>6, <1>7, <1>8, WithSound
<1>10. With(w, r, robot, t, task, tally).robots[r] = robot
  BY <1>1 DEF With, Worlds
<1> QED
  BY <1>2, <1>3, <1>4, <1>9, <1>10

LEMMA BeginSound ==
  ASSUME Connected, NEW ids, NEW issued, Numbers(ids), NEW w, Sound(ids, issued, w),
         NEW r \in Robots,
         NEW t \in ids, w.robots[r].task = None, Waiting(w.tasks[t])
  PROVE  Sound(ids, issued, BeginTask(w, r, t))
<1> DEFINE taken == Take(w, r, t)
           sent == RouteTo(taken, r, w.tasks[t].pickup)
<1>1. w.tasks[t].pickup \in Open
  <2>1. w.tasks[t] \in TaskType
    BY TypesOf DEF Sound
  <2> QED
    BY <2>1 DEF TaskType
<1>2. Sound(ids, issued, taken) /\ taken.robots[r].task # None
  BY TakeSound
<1>3. Sound(ids, issued, sent) /\ sent.robots[r].task # None
  BY <1>1, <1>2, RouteToSound
<1>4. BeginTask(w, r, t) = ArriveIfThere(sent, r)
  BY DEF BeginTask
<1> QED
  BY <1>3, <1>4, ArriveSound

LEMMA FailSound ==
  ASSUME NEW ids, NEW issued, Numbers(ids), NEW w, Sound(ids, issued, w), NEW r \in Robots,
         w.robots[r].mode # "Failed", w.counts.failures < MaxFailures
  PROVE  Sound(ids, issued, Fail(w, r))
<1> DEFINE t == w.robots[r].task
           failures == w.counts.failures + 1
           stopped == IF t = None THEN w ELSE Interrupt(w, r)
           Broken(robot) == [robot EXCEPT !.mode = "Failed", !.route = <<>>, !.blocked = 0,
                                          !.repair = RepairTicks]
<1>1. /\ w \in Worlds(ids, issued) /\ w.robots[r] \in RobotType
      /\ w.counts \in CountsType(issued)
      /\ w.robots[r].cell \in Open /\ w.tick \in 0..Duration
      /\ w.counts.interrupted \in Nat /\ w.counts.failures \in Nat
      /\ w.counts.interrupted <= w.counts.failures
      /\ t # None => /\ t \in ids /\ w.tasks[t] \in TaskType
                     /\ w.tasks[t].status = "Assigned" /\ w.tasks[t].robot = r
  BY SoundFacts
<1>2. /\ failures \in 0..MaxFailures /\ failures \in Nat /\ w.counts.failures <= failures
      /\ RepairTicks \in 0..RepairTicks /\ RepairTicks > 0 /\ <<>> \in Seq(Open)
  BY <1>1, DispatchAssumption
<1>3. Fail(w, r) = WithRobot(stopped, r, Broken(stopped.robots[r]),
                             [stopped.counts EXCEPT !.failures = @ + 1])
  BY DEF Fail
<1>4. ASSUME NEW robot \in RobotType
      PROVE  /\ Broken(robot) \in RobotType /\ Broken(robot).task = robot.task
             /\ Broken(robot).mode = "Failed" /\ Broken(robot).route = <<>>
             /\ Broken(robot).repair = RepairTicks
  BY <1>2 DEF RobotType
<1>5. CASE t = None
  <2> DEFINE tally == [w.counts EXCEPT !.failures = failures]
  <2>1. /\ tally \in CountsType(issued) /\ tally.failures = failures
        /\ tally.assigned = w.counts.assigned /\ tally.completed = w.counts.completed
        /\ tally.interrupted = w.counts.interrupted /\ tally.generated = w.counts.generated
    BY <1>1, <1>2 DEF CountsType
  <2>2. Fail(w, r) = WithRobot(w, r, Broken(w.robots[r]), tally)
    BY <1>3, <1>5
  <2> HIDE DEF tally, failures, Broken
  <2> QED
    BY <1>1, <1>2, <1>4, <1>5, <2>1, <2>2, RobotSound
<1>6. CASE t # None
  <2> DEFINE carried == w.tasks[t].leg = "dropoff" \/ w.tasks[t].load = "Carried"
             interruptions == w.tasks[t].interruptions + 1
             interrupted == w.counts.interrupted + 1
             load == IF carried THEN "Staged" ELSE w.tasks[t].load
             pickup == IF carried THEN w.robots[r].cell ELSE w.tasks[t].pickup
             robot == [w.robots[r] EXCEPT !.task = None, !.route = <<>>, !.memo = t]
             task == [w.tasks[t] EXCEPT
                        !.status = "Interrupted", !.robot = None, !.leg = "pickup",
                        !.interruptions = interruptions, !.last = r, !.load = load,
                        !.pickup = pickup]
             once == [w.counts EXCEPT !.interrupted = interrupted]
             tally == [w.counts EXCEPT !.interrupted = interrupted, !.failures = failures]
  <2>1. t \in ids /\ t \in Nat /\ w.tasks[t] \in TaskType /\ r \in Nat
        /\ w.tasks[t].status = "Assigned" /\ w.tasks[t].robot = r
        /\ w.tasks[t].interruptions <= w.counts.interrupted
        /\ w.tasks[t].interruptions \in Nat
    <3>1. t \in ids /\ w \in Worlds(ids, issued) /\ Balanced(ids, w)
      BY <1>1, <1>6 DEF Sound
    <3> HIDE DEF t
    <3> QED
      BY <1>1, <1>6, <3>1, InterruptionsTyped, DispatchAssumption DEF Numbers, Balanced
  <2>2. Interrupt(w, r) = With(w, r, robot, t, task, once)
    BY DEF Interrupt
  <2>3. stopped = Interrupt(w, r)
    BY <1>6
  <2>4. /\ stopped.robots[r] = robot /\ stopped.counts = once /\ stopped.tick = w.tick
        /\ stopped.tasks = [w.tasks EXCEPT ![t] = task]
        /\ stopped.robots = [w.robots EXCEPT ![r] = robot]
    <3>1. DOMAIN w.robots = Robots
      BY <1>1 DEF Worlds
    <3> HIDE DEF stopped, robot, task, once
    <3> QED
      BY <2>2, <2>3, <3>1 DEF With
  <2> HIDE DEF t, stopped
  <2>5. /\ interruptions \in 0..MaxFailures /\ interrupted \in Nat
        /\ interruptions <= interrupted /\ w.counts.interrupted <= interrupted
        /\ interrupted <= failures
    <3> DEFINE i == w.tasks[t].interruptions
               m == w.counts.interrupted
               f == w.counts.failures
    <3>1. /\ i \in Nat /\ m \in Nat /\ f \in Nat /\ MaxFailures \in Nat
          /\ i <= m /\ m <= f
      BY <1>1, <2>1, DispatchAssumption
    <3>2. f < MaxFailures
      OBVIOUS
    <3>3. /\ interruptions = i + 1 /\ interrupted = m + 1 /\ failures = f + 1
          /\ w.counts.interrupted = m
      OBVIOUS
    <3> HIDE DEF i, m, f, interruptions, interrupted, failures
    <3> QED
      BY <3>1, <3>2, <3>3
  <2>6. robot \in RobotType /\ robot.task = None
    BY <1>1, <1>2, <2>1 DEF RobotType, None
  <2>7. /\ task \in TaskType /\ task.status = "Interrupted"
        /\ task.interruptions = interruptions
    <3>1. load \in {"On shelf", "Carried", "Staged"} /\ pickup \in Open
      BY <1>1, <2>1 DEF TaskType
    <3> HIDE DEF load, pickup, interruptions
    <3> QED
      BY <2>1, <2>5, <3>1 DEF TaskType, None
  <2>8. /\ tally \in CountsType(issued) /\ tally.failures = failures
        /\ tally.assigned = w.counts.assigned /\ tally.completed = w.counts.completed
        /\ tally.interrupted = interrupted /\ tally.generated = w.counts.generated
        /\ [once EXCEPT !.failures = @ + 1] = tally
    <3>1. [once EXCEPT !.failures = @ + 1] = tally
      BY <1>1 DEF CountsType
    <3> HIDE DEF interrupted, failures
    <3> QED
      BY <1>1, <1>2, <2>5, <3>1 DEF CountsType
  <2>9. Fail(w, r) = With(w, r, Broken(robot), t, task, tally)
    <3>1. Fail(w, r) = [tasks |-> [w.tasks EXCEPT ![t] = task],
                        robots |-> [[w.robots EXCEPT ![r] = robot] EXCEPT ![r] = Broken(robot)],
                        counts |-> tally, tick |-> w.tick]
      <4> HIDE DEF robot, task, once, tally, Broken
      <4> QED
        BY <1>3, <2>4, <2>8 DEF WithRobot
    <3>2. [[w.robots EXCEPT ![r] = robot] EXCEPT ![r] = Broken(robot)]
            = [w.robots EXCEPT ![r] = Broken(robot)]
      <4>1. DOMAIN w.robots = Robots
        BY <1>1 DEF Worlds
      <4> HIDE DEF robot, Broken
      <4> QED
        BY <4>1
    <3> HIDE DEF robot, task, tally, Broken
    <3> QED
      BY <3>1, <3>2 DEF With
  <2>10. /\ tally.assigned - tally.completed - tally.interrupted =
              w.counts.assigned - w.counts.completed - w.counts.interrupted
                + One(task.status = "Assigned") - One(w.tasks[t].status = "Assigned")
         /\ tally.generated - tally.completed = w.counts.generated - w.counts.completed
                + One(task.status # "Completed") - One(w.tasks[t].status # "Completed")
    <3>1. /\ w.counts.assigned \in Nat /\ w.counts.completed \in Nat
          /\ w.counts.interrupted \in Nat /\ w.counts.generated \in Nat
      BY <1>1 DEF CountsType
    <3> HIDE DEF task, tally
    <3>2. /\ One(task.status = "Assigned") = 0 /\ One(w.tasks[t].status = "Assigned") = 1
          /\ One(task.status # "Completed") = 1 /\ One(w.tasks[t].status # "Completed") = 1
      BY <2>1, <2>7 DEF One
    <3> QED
      BY <2>8, <3>1, <3>2
  <2> HIDE DEF robot
  <2>11. /\ Broken(robot) \in RobotType /\ Broken(robot).task = None
         /\ Broken(robot).route = <<>> /\ Broken(robot).repair > 0
    BY <1>2, <1>4, <2>6
  <2>12. w.robots[r].task \in {None, t} /\ t # None
    BY <1>6 DEF t
  <2> DEFINE down == Broken(robot)
  <2>13. down \in RobotType /\ down.task = None /\ down.route = <<>> /\ down.repair > 0
    BY <2>11
  <2>14. Fail(w, r) = With(w, r, down, t, task, tally)
    BY <2>9
  <2> HIDE DEF down, task, tally, interrupted, failures, interruptions, Broken, once
  <2>15. /\ task.interruptions <= tally.interrupted
         /\ w.counts.interrupted <= tally.interrupted
         /\ tally.interrupted <= tally.failures
    BY <2>5, <2>7, <2>8
  <2> QED
    BY <2>1, <2>7, <2>8, <2>10, <2>12, <2>13, <2>14, <2>15, WithSound
<1> QED
  BY <1>5, <1>6

\* A robot that has failed and has its repair counted down.
LEMMA MendTyped ==
  ASSUME NEW ids, NEW issued, NEW w, Sound(ids, issued, w), NEW r \in Robots,
         w.robots[r].mode = "Failed"
  PROVE  LET left == w.robots[r].repair - 1
         IN  /\ left \in 0..RepairTicks /\ (w.robots[r].repair > 1 => left > 0)
             /\ [w.robots[r] EXCEPT !.repair = @ - 1] =
                  [w.robots[r] EXCEPT !.repair = left]
             /\ [w.robots[r] EXCEPT !.repair = @ - 1, !.mode = "Idle", !.memo = None] =
                  [w.robots[r] EXCEPT !.repair = left, !.mode = "Idle", !.memo = None]
<1>1. w.robots[r] \in RobotType /\ w.robots[r].repair > 0
  BY SoundFacts
<1>2. w.robots[r].repair \in 0..RepairTicks /\ RepairTicks \in Nat
  BY <1>1, DispatchAssumption DEF RobotType
<1>3. /\ [w.robots[r] EXCEPT !.repair = @ - 1] =
            [w.robots[r] EXCEPT !.repair = w.robots[r].repair - 1]
      /\ [w.robots[r] EXCEPT !.repair = @ - 1, !.mode = "Idle", !.memo = None] =
            [w.robots[r] EXCEPT !.repair = w.robots[r].repair - 1, !.mode = "Idle",
                                !.memo = None]
  BY <1>1 DEF RobotType
<1> QED
  BY <1>1, <1>2, <1>3

LEMMA MendSound ==
  ASSUME NEW ids, NEW issued, NEW w, Sound(ids, issued, w), NEW r \in Robots,
         w.robots[r].mode = "Failed"
  PROVE  /\ w.robots[r].repair > 1 => Sound(ids, issued, Mend(w, r))
         /\ Sound(ids, issued, Mended(w, r))
         /\ Mended(w, r).tasks = w.tasks /\ Mended(w, r).robots[r].task = None
<1> DEFINE left == w.robots[r].repair - 1
           robot == [w.robots[r] EXCEPT !.repair = left]
           idle == [w.robots[r] EXCEPT !.repair = left, !.mode = "Idle", !.memo = None]
<1>1. /\ w \in Worlds(ids, issued) /\ w.robots[r] \in RobotType
      /\ w.counts \in CountsType(issued)
      /\ w.robots[r].task = None /\ w.robots[r].route = <<>> /\ w.counts.failures \in Nat
  BY SoundFacts
<1>2. /\ left \in 0..RepairTicks /\ (w.robots[r].repair > 1 => left > 0)
      /\ Mend(w, r) = WithRobot(w, r, robot, w.counts)
      /\ Mended(w, r) = WithRobot(w, r, idle, w.counts)
  BY MendTyped DEF Mend, Mended
<1> HIDE DEF left
<1>3. /\ robot \in RobotType /\ robot.task = None /\ robot.route = <<>>
      /\ robot.repair = left
  BY <1>1, <1>2 DEF RobotType
<1>4. /\ idle \in RobotType /\ idle.task = None /\ idle.route = <<>>
      /\ idle.mode = "Idle"
  BY <1>1, <1>2 DEF RobotType, None
<1> HIDE DEF robot, idle
<1>5. w.robots[r].repair > 1 => Sound(ids, issued, Mend(w, r))
  BY <1>1, <1>2, <1>3, RobotSound
<1>6. Sound(ids, issued, Mended(w, r))
  BY <1>1, <1>2, <1>4, RobotSound
<1>7. Mended(w, r).tasks = w.tasks /\ Mended(w, r).robots[r] = idle
  BY <1>1, <1>2 DEF WithRobot, Worlds
<1> QED
  BY <1>4, <1>5, <1>6, <1>7

LEMMA RepairSound ==
  ASSUME Connected, NEW ids, NEW issued, Numbers(ids), NEW w, Sound(ids, issued, w),
         NEW r \in Robots
  PROVE  Sound(ids, issued, Repair(w, r))
<1> DEFINE t == w.robots[r].memo
           up == Mended(w, r)
<1>1. CASE w.robots[r].mode = "Failed"
  <2>1. DOMAIN w.tasks = ids
    BY DEF Sound, Worlds
  <2>2. /\ w.robots[r].repair > 1 => Sound(ids, issued, Mend(w, r))
        /\ Sound(ids, issued, up) /\ up.tasks = w.tasks /\ up.robots[r].task = None
    BY <1>1, MendSound
  <2> HIDE DEF up, t
  <2>3. t \in ids /\ w.tasks[t].status = "Interrupted" => Sound(ids, issued, BeginTask(up, r, t))
    BY <2>2, BeginSound DEF Waiting
  <2> QED
    BY <1>1, <2>1, <2>2, <2>3 DEF Repair, up, t
<1>2. CASE w.robots[r].mode # "Failed"
  BY <1>2 DEF Repair
<1> QED
  BY <1>1, <1>2

LEMMA HeldSound ==
  ASSUME NEW ids, NEW issued, NEW w, Sound(ids, issued, w), NEW r \in Robots
  PROVE  /\ Sound(ids, issued, Held(w, r))
         /\ Held(w, r).robots[r].task = w.robots[r].task
         /\ Held(w, r).robots[r].mode = w.robots[r].mode
<1> DEFINE blocked == w.robots[r].blocked + 1
           held == w.counts.blocked + 1
           robot == [w.robots[r] EXCEPT !.blocked = blocked]
           tally == [w.counts EXCEPT !.blocked = held]
<1>1. /\ w \in Worlds(ids, issued) /\ w.robots[r] \in RobotType
      /\ w.counts \in CountsType(issued)
      /\ w.robots[r].mode = "Failed" => w.robots[r].task = None /\ w.robots[r].repair > 0
      /\ w.robots[r].route # <<>> => w.robots[r].task # None
      /\ w.counts.failures \in Nat
  BY SoundFacts
<1>2. blocked \in Nat /\ held \in Nat
  <2>1. w.robots[r].blocked \in Nat
    BY <1>1 DEF RobotType
  <2>2. w.counts.blocked \in Nat
    BY <1>1 DEF CountsType
  <2> QED
    BY <2>1, <2>2
<1>3. Held(w, r) = WithRobot(w, r, robot, tally)
  BY <1>1 DEF Held, RobotType, CountsType
<1> HIDE DEF blocked, held
<1>4. /\ robot \in RobotType /\ robot.task = w.robots[r].task
      /\ robot.mode = w.robots[r].mode /\ robot.route = w.robots[r].route
      /\ robot.repair = w.robots[r].repair
  BY <1>1, <1>2 DEF RobotType
<1>5. /\ tally \in CountsType(issued) /\ tally.assigned = w.counts.assigned
      /\ tally.completed = w.counts.completed /\ tally.interrupted = w.counts.interrupted
      /\ tally.generated = w.counts.generated /\ tally.failures = w.counts.failures
  BY <1>1, <1>2 DEF CountsType
<1> HIDE DEF robot, tally
<1>6. Sound(ids, issued, WithRobot(w, r, robot, tally))
  BY <1>1, <1>4, <1>5, RobotSound
<1>7. WithRobot(w, r, robot, tally).robots[r] = robot
  BY <1>1 DEF WithRobot, Worlds
<1> QED
  BY <1>3, <1>4, <1>6, <1>7

LEMMA ReplannedSound ==
  ASSUME NEW ids, NEW issued, NEW w, Sound(ids, issued, w), NEW r \in Robots,
         NEW route \in Seq(Open),
         w.robots[r].task # None
  PROVE  Sound(ids, issued, Replanned(w, r, route))
<1> DEFINE replans == w.counts.replans + 1
           robot == [w.robots[r] EXCEPT !.route = route]
           tally == [w.counts EXCEPT !.replans = replans]
<1>1. /\ w \in Worlds(ids, issued) /\ w.robots[r] \in RobotType
      /\ w.counts \in CountsType(issued)
      /\ w.robots[r].mode = "Failed" => w.robots[r].task = None
      /\ w.counts.failures \in Nat
  BY SoundFacts
<1>2. replans \in Nat
  BY <1>1 DEF CountsType
<1>3. Replanned(w, r, route) = WithRobot(w, r, robot, tally)
  BY <1>1 DEF Replanned, CountsType
<1> HIDE DEF replans
<1>4. /\ robot \in RobotType /\ robot.task = w.robots[r].task
      /\ robot.mode = w.robots[r].mode
  BY <1>1 DEF RobotType
<1>5. /\ tally \in CountsType(issued) /\ tally.assigned = w.counts.assigned
      /\ tally.completed = w.counts.completed /\ tally.interrupted = w.counts.interrupted
      /\ tally.generated = w.counts.generated /\ tally.failures = w.counts.failures
  BY <1>1, <1>2 DEF CountsType
<1> HIDE DEF robot, tally
<1> QED
  BY <1>1, <1>3, <1>4, <1>5, RobotSound

LEMMA MovedSound ==
  ASSUME NEW ids, NEW issued, NEW w, Sound(ids, issued, w), NEW r \in Robots,
         w.robots[r].route # <<>>
  PROVE  Sound(ids, issued, Moved(w, r)) /\ Moved(w, r).robots[r].task # None
<1> DEFINE cell == Head(w.robots[r].route)
           route == Tail(w.robots[r].route)
           robot == [w.robots[r] EXCEPT !.cell = cell, !.blocked = 0, !.route = route]
<1>1. /\ w \in Worlds(ids, issued) /\ w.robots[r] \in RobotType
      /\ w.counts \in CountsType(issued)
      /\ w.robots[r].route \in Seq(Open) /\ w.robots[r].task # None
      /\ w.robots[r].mode = "Failed" => w.robots[r].task = None
      /\ w.counts.failures \in Nat
  BY SoundFacts
<1>2. cell \in Open /\ route \in Seq(Open)
  BY <1>1, HeadAndTail
<1>3. Moved(w, r) = WithRobot(w, r, robot, w.counts)
  BY <1>1 DEF Moved, RobotType
<1> HIDE DEF cell, route
<1>4. /\ robot \in RobotType /\ robot.task = w.robots[r].task
      /\ robot.mode = w.robots[r].mode
  BY <1>1, <1>2 DEF RobotType
<1> HIDE DEF robot
<1>5. Sound(ids, issued, WithRobot(w, r, robot, w.counts))
  BY <1>1, <1>4, RobotSound
<1>6. WithRobot(w, r, robot, w.counts).robots[r] = robot
  BY <1>1 DEF WithRobot, Worlds
<1> QED
  BY <1>1, <1>3, <1>4, <1>5, <1>6

LEMMA TurnsSound ==
  ASSUME Connected, NEW ids, NEW issued, Numbers(ids), NEW w, Sound(ids, issued, w),
         NEW r \in Robots
  PROVE  \A v \in Turns(w, r) : Sound(ids, issued, v)
<1> DEFINE robot == w.robots[r]
           taken == CellsOf(w, Others(r))
           other == BFSPath(Open, robot.cell, Last(robot.route), taken)
<1>1. CASE robot.route = <<>>
  BY <1>1 DEF Turns
<1>2. CASE robot.route # <<>>
  <2>1. /\ robot.cell \in Open /\ robot.route \in Seq(Open) /\ robot.task # None
    BY <1>2, SoundFacts
  <2>2. Last(robot.route) \in Open
    BY <1>2, <2>1 DEF Last
  <2>3. other # NoPath => other \in Seq(Open)
    BY <2>1, <2>2, PlansTyped
  <2>4. Sound(ids, issued, Held(w, r)) /\ Held(w, r).robots[r].task # None
    BY <2>1, HeldSound
  <2>5. other # NoPath => Sound(ids, issued, Replanned(Held(w, r), r, other))
    BY <2>3, <2>4, ReplannedSound
  <2>6. Sound(ids, issued, ArriveIfThere(Moved(w, r), r))
    BY <1>2, MovedSound, ArriveSound
  <2> HIDE DEF other
  <2> QED
    BY <1>2, <2>4, <2>5, <2>6 DEF Turns, other
<1> QED
  BY <1>1, <1>2

-----------------------------------------------------------------------------
(* What the generator makes.                                               *)

IsOrder(e) == e.type \in TypeSet /\ (e.priority # Default => e.priority \in Int)

\* A task of the generator, whose places are known.
IsMade(task, number, tau) ==
  /\ task.number = number /\ task.created = tau /\ task.priority \in Int
  /\ task.pickup \in DOMAIN Resolve /\ task.dropoff \in DOMAIN Resolve

GeneratorType == [number : Nat \ {0}, due : [TypeSet -> Nat \ {0}], index : Nat]

IsGenerator(demand, g) ==
  /\ g \in GeneratorType
  /\ demand.mode = "csv_orders" => g.index <= Len(demand.events)

LEMMA TypesAre == TypeSet = {"PUTAWAY", "PICK", "PACK", "SHIP"}
<1>1. /\ DOMAIN Types = 1..4 /\ Types[1] = "PUTAWAY" /\ Types[2] = "PICK"
      /\ Types[3] = "PACK" /\ Types[4] = "SHIP"
  BY DEF Types
<1>2. \A i \in 1..4 : i = 1 \/ i = 2 \/ i = 3 \/ i = 4
  OBVIOUS
<1>3. 1 \in 1..4 /\ 2 \in 1..4 /\ 3 \in 1..4 /\ 4 \in 1..4
  OBVIOUS
<1> QED
  BY <1>1, <1>2, <1>3 DEF TypeSet, ToSet

LEMMA PriorityTyped == PriorityFor \in [TypeSet -> 0..3]
BY TypesAre DEF PriorityFor

LEMMA PickedIsNamed ==
  ASSUME NEW S, NEW names \in Seq(S), NEW number \in Nat
  PROVE  PickOne(names, number) \subseteq S
<1>1. CASE names = <<>>
  BY <1>1 DEF PickOne
<1>2. CASE names # <<>>
  <2>1. Len(names) \in Nat \ {0} /\ DOMAIN names = 1..Len(names)
    BY <1>2
  <2>2. (number % Len(names)) + 1 \in 1..Len(names)
    <3> DEFINE n == Len(names)
    <3>1. n \in Nat \ {0} /\ number \in Int
      BY <2>1
    <3> HIDE DEF n
    <3>2. number % n \in 0..(n - 1)
      BY <3>1
    <3> QED
      BY <3>1, <3>2 DEF n
  <2>3. \A i \in DOMAIN names : names[i] \in S
    BY <2>1
  <2> QED
    BY <1>2, <2>1, <2>2, <2>3 DEF PickOne, ToSet
<1> QED
  BY <1>1, <1>2

LEMMA CreatedMade ==
  ASSUME NEW type \in TypeSet, NEW number \in Nat, NEW tau,
         NEW task \in CreateTask(type, number, tau)
  PROVE  IsMade(task, number, tau)
<1>1. /\ task.number = number /\ task.created = tau /\ task.priority = PriorityFor[type]
      /\ task.pickup \in PickUps(type, number) /\ task.dropoff \in DropOffs(type, number)
  BY DEF CreateTask
<1>2. PriorityFor[type] \in Int
  <2>1. PriorityFor[type] \in 0..3
    BY PriorityTyped
  <2> QED
    BY <2>1
<1>3. /\ Locations.receiving \in Seq(DOMAIN Resolve)
      /\ Locations.storage \in Seq(DOMAIN Resolve)
      /\ Locations.picking \in Seq(DOMAIN Resolve)
      /\ Locations.packing \in Seq(DOMAIN Resolve)
      /\ Locations.staging \in Seq(DOMAIN Resolve)
      /\ Locations.shipping \in Seq(DOMAIN Resolve)
      /\ Locations.receiving = <<>> => "RECV" \in DOMAIN Resolve
  BY DemandAssumption
<1>4. /\ PickOne(Locations.receiving, number) \subseteq DOMAIN Resolve
      /\ PickOne(Locations.storage, number) \subseteq DOMAIN Resolve
      /\ PickOne(Locations.picking, number) \subseteq DOMAIN Resolve
      /\ PickOne(Locations.packing, number) \subseteq DOMAIN Resolve
      /\ PickOne(Locations.staging, number) \subseteq DOMAIN Resolve
      /\ PickOne(Locations.shipping, number) \subseteq DOMAIN Resolve
  BY <1>3, PickedIsNamed
<1>5. type \in {"PUTAWAY", "PICK", "PACK", "SHIP"}
  BY TypesAre
<1>6. PickUps(type, number) \subseteq DOMAIN Resolve
  BY <1>3, <1>4, <1>5 DEF PickUps
<1>7. DropOffs(type, number) \subseteq DOMAIN Resolve
  <2>1. /\ type = "PUTAWAY" => DropOffs(type, number) = PickOne(Locations.storage, number)
        /\ type = "PICK" => DropOffs(type, number) = PickOne(Locations.picking, number)
        /\ type = "PACK" => DropOffs(type, number) = PickOne(Locations.packing, number)
        /\ type = "SHIP" => DropOffs(type, number) = PickOne(Locations.shipping, number)
    BY DEF DropOffs
  <2> QED
    BY <1>4, <1>5, <2>1
<1> QED
  BY <1>1, <1>2, <1>6, <1>7 DEF IsMade

LEMMA SelectionTyped ==
  ASSUME NEW n \in Nat, NEW sets, DOMAIN sets = 1..n, NEW s \in Selections(sets)
  PROVE  /\ s \in Seq(UNION ToSet(sets)) /\ Len(s) = n /\ DOMAIN s = 1..n
         /\ \A i \in 1..n : s[i] \in sets[i]
<1>1. s \in [1..n -> UNION ToSet(sets)] /\ \A i \in 1..n : s[i] \in sets[i]
  BY DEF Selections
<1> QED
  BY <1>1

LEMMA DueTyped ==
  ASSUME NEW g, NEW tau
  PROVE  Due(g, tau) \in Seq(TypeSet)
<1> DEFINE only(type) == IF g.due[type] = tau THEN <<type>> ELSE <<>>
<1>1. \A type \in TypeSet : only(type) \in Seq(TypeSet)
  OBVIOUS
<1>2. /\ Types[1] \in TypeSet /\ Types[2] \in TypeSet /\ Types[3] \in TypeSet
      /\ Types[4] \in TypeSet
  BY TypesAre DEF Types
<1>3. Due(g, tau) = only(Types[1]) \o only(Types[2]) \o only(Types[3]) \o only(Types[4])
  BY DEF Due
<1> HIDE DEF only
<1>4. only(Types[1]) \o only(Types[2]) \in Seq(TypeSet)
  BY <1>1, <1>2
<1>5. only(Types[1]) \o only(Types[2]) \o only(Types[3]) \in Seq(TypeSet)
  BY <1>1, <1>2, <1>4
<1> QED
  BY <1>1, <1>2, <1>3, <1>5

\* A sequence, of whatever.
IsList(s) == s \in Seq(ToSet(s))

LEMMA SequenceIsList ==
  ASSUME NEW S, NEW s \in Seq(S)
  PROVE  IsList(s)
<1>1. Len(s) \in Nat /\ DOMAIN s = 1..Len(s) /\ s = [i \in 1..Len(s) |-> s[i]]
  OBVIOUS
<1>2. s \in [1..Len(s) -> ToSet(s)]
  BY <1>1 DEF ToSet
<1> QED
  BY <1>1, <1>2 DEF IsList

\* The tasks of a call of step, and the state after it.
AreMade(made, number, tau) ==
  IsList(made) /\ \A i \in 1..Len(made) : IsMade(made[i], number + i - 1, tau)

IsOutcome(demand, g, made, next, tau) ==
  /\ IsGenerator(demand, next) /\ next.number = g.number + Len(made)
  /\ AreMade(made, g.number, tau)

LEMMA LegacyOutcome ==
  ASSUME NEW demand, demand.mode = "legacy", NEW g, IsGenerator(demand, g),
         NEW tau \in Nat, NEW made \in LegacyTasks(g, tau)
  PROVE  IsOutcome(demand, g, made, LegacyNext(g, tau), tau)
<1> DEFINE due == Due(g, tau)
           n == Len(due)
           sets == [i \in DOMAIN due |-> CreateTask(due[i], g.number + i - 1, tau)]
           next == LegacyNext(g, tau)
           number == g.number + n
           dues == [type \in TypeSet |->
                      IF g.due[type] = tau THEN tau + Intervals[type] ELSE g.due[type]]
<1>1. due \in Seq(TypeSet) /\ n \in Nat /\ DOMAIN due = 1..n /\ \A i \in 1..n : due[i] \in TypeSet
  <2>1. due \in Seq(TypeSet)
    BY DueTyped
  <2> HIDE DEF due
  <2> QED
    BY <2>1
<1>2. g \in GeneratorType /\ g.number \in Nat \ {0} /\ g.due \in [TypeSet -> Nat \ {0}]
  BY DEF IsGenerator, GeneratorType
<1>3. made \in Selections(sets) /\ DOMAIN sets = 1..n
  BY <1>1 DEF LegacyTasks
<1>4. /\ made \in Seq(UNION ToSet(sets)) /\ Len(made) = n /\ DOMAIN made = 1..n
      /\ \A i \in 1..n : made[i] \in sets[i]
  <2> HIDE DEF sets, n
  <2> QED
    BY <1>1, <1>3, SelectionTyped
<1>5. ASSUME NEW i \in 1..n PROVE IsMade(made[i], g.number + i - 1, tau)
  <2>1. g.number + i - 1 \in Nat
    BY <1>1, <1>2
  <2>2. sets[i] = CreateTask(due[i], g.number + i - 1, tau)
    BY <1>1
  <2> HIDE DEF sets, due, n
  <2> QED
    BY <1>1, <1>4, <2>1, <2>2, CreatedMade
<1>6. next = [g EXCEPT !.number = number, !.due = dues]
  BY <1>2 DEF LegacyNext, GeneratorType
<1>7. number \in Nat \ {0}
  BY <1>1, <1>2
<1>8. dues \in [TypeSet -> Nat \ {0}]
  <2>1. \A type \in TypeSet : tau + Intervals[type] \in Nat \ {0} /\ g.due[type] \in Nat \ {0}
    BY <1>2, DemandAssumption
  <2> QED
    BY <2>1
<1> HIDE DEF number, dues, next, due
<1>9. next \in GeneratorType /\ next.number = number
  BY <1>2, <1>6, <1>7, <1>8 DEF GeneratorType
<1>10. IsList(made)
  BY <1>4, SequenceIsList
<1> QED
  BY <1>4, <1>5, <1>9, <1>10 DEF IsOutcome, AreMade, IsGenerator, number, next

LEMMA OrderedMade ==
  ASSUME NEW order, IsOrder(order), NEW number \in Nat, NEW tau,
         NEW task \in TasksOf(order, number, tau)
  PROVE  IsMade(task, number, tau)
<1>1. PICK plain \in CreateTask(order.type, number, tau) : task = DemandTask(plain, order)
  BY DEF TasksOf
<1>2. {task.pickup, task.dropoff} \subseteq DOMAIN Resolve
  BY DEF TasksOf
<1>3. IsMade(plain, number, tau)
  BY CreatedMade DEF IsOrder
<1>4. PICK p, d : plain = [number |-> number, type |-> order.type, pickup |-> p, dropoff |-> d,
                           priority |-> PriorityFor[order.type], created |-> tau]
  BY DEF CreateTask
<1>5. /\ task.number = number /\ task.created = tau
      /\ task.priority = Given(order.priority, plain.priority)
  BY <1>1, <1>4 DEF DemandTask
<1> QED
  BY <1>2, <1>3, <1>5 DEF IsMade, IsOrder, Given

\* The state after some orders, and a place in the file of them.
Further(g, orders, index) ==
  [g EXCEPT !.number = g.number + Len(orders), !.index = index]

LEMMA DemandOutcome ==
  ASSUME NEW demand, NEW g, IsGenerator(demand, g), NEW tau \in Nat,
         NEW orders, IsList(orders),
         \A i \in 1..Len(orders) : IsOrder(orders[i]),
         NEW index \in Nat, demand.mode = "csv_orders" => index <= Len(demand.events),
         DemandNext(demand, g, orders, tau) =
           Further(g, orders, index),
         NEW made \in DemandTasks(g, orders, tau)
  PROVE  IsOutcome(demand, g, made, DemandNext(demand, g, orders, tau), tau)
<1> DEFINE n == Len(orders)
           sets == [i \in DOMAIN orders |-> TasksOf(orders[i], g.number + i - 1, tau)]
           next == DemandNext(demand, g, orders, tau)
           number == g.number + n
<1>1. n \in Nat /\ DOMAIN orders = 1..n
  BY DEF IsList
<1>2. g \in GeneratorType /\ g.number \in Nat \ {0}
  BY DEF IsGenerator, GeneratorType
<1>3. made \in Selections(sets) /\ DOMAIN sets = 1..n
  BY <1>1 DEF DemandTasks
<1>4. /\ made \in Seq(UNION ToSet(sets)) /\ Len(made) = n /\ DOMAIN made = 1..n
      /\ \A i \in 1..n : made[i] \in sets[i]
  <2> HIDE DEF sets, n
  <2> QED
    BY <1>1, <1>3, SelectionTyped
<1>5. ASSUME NEW i \in 1..n PROVE IsMade(made[i], g.number + i - 1, tau)
  <2>1. g.number + i - 1 \in Nat
    BY <1>1, <1>2
  <2>2. sets[i] = TasksOf(orders[i], g.number + i - 1, tau) /\ IsOrder(orders[i])
    BY <1>1
  <2> HIDE DEF sets, n
  <2> QED
    BY <1>4, <2>1, <2>2, OrderedMade
<1>6. next = [g EXCEPT !.number = number, !.index = index]
  BY <1>2 DEF GeneratorType, Further
<1>7. number \in Nat \ {0}
  BY <1>1, <1>2
<1> HIDE DEF number, next
<1>8. next \in GeneratorType /\ next.number = number /\ next.index = index
  BY <1>2, <1>6, <1>7 DEF GeneratorType
<1>9. IsList(made)
  BY <1>4, SequenceIsList
<1> QED
  BY <1>4, <1>5, <1>8, <1>9 DEF IsOutcome, AreMade, IsGenerator, number, next

\* A list of orders.
IsOrders(s) == IsList(s) /\ \A i \in 1..Len(s) : IsOrder(s[i])

LEMMA ResolvedTyped ==
  ASSUME NEW events, IsOrders(events), \A i \in 1..Len(events) : events[i].tick \in Nat
  PROVE  /\ IsOrders(ResolvedEvents(events))
         /\ Len(ResolvedEvents(events)) = Len(events)
         /\ \A i \in 1..Len(events) : ResolvedEvents(events)[i].tick \in Nat
<1> DEFINE n == Len(events)
           S == 1..n
           less(j, i) == \/ events[j].tick < events[i].tick
                         \/ events[j].tick = events[i].tick /\ j < i
           below == [i \in S |-> {j \in S : less(j, i)}]
           pick == [k \in S |-> CHOOSE i \in S : Cardinality({j \in S : less(j, i)}) = k - 1]
           sorted == [k \in S |-> events[pick[k]]]
<1>1. n \in Nat /\ DOMAIN events = S /\ \A i \in S : IsOrder(events[i])
  BY DEF IsOrders, IsList
<1>2. IsFiniteSet(S) /\ Cardinality(S) = n
  BY <1>1, FS_Interval
<1>3. \A k \in S : \E i \in S : Cardinality(below[i]) = k - 1
  <2>1. below \in [S -> SUBSET S]
    OBVIOUS
  <2>2. \A i \in S : i \in Nat /\ events[i].tick \in Nat
    OBVIOUS
  <2>3. \A i \in S : i \notin below[i]
    BY <2>2
  <2>4. \A j, i \in S : j # i => j \in below[i] \/ i \in below[j]
    BY <2>2
  <2>5. \A j, i \in S : j \in below[i] => below[j] \subseteq below[i]
    BY <2>2
  <2> HIDE DEF below
  <2>6. \A i \in 1..Cardinality(S) : \E r \in S : Cardinality(below[r]) = i - 1
    <3> HIDE DEF S
    <3> QED
      BY <1>2, <2>1, <2>3, <2>4, <2>5, PlacesTaken
  <2> QED
    BY <1>2, <2>6
<1>4. \A k \in S : pick[k] \in S
  <2>1. \A i \in S : below[i] = {j \in S : less(j, i)}
    OBVIOUS
  <2> HIDE DEF below, less
  <2> QED
    BY <1>3, <2>1
<1>5. ResolvedEvents(events) = sorted
  BY <1>1 DEF ResolvedEvents
<1> HIDE DEF pick
<1>6. /\ DOMAIN sorted = S /\ Len(sorted) = n /\ sorted \in Seq(ToSet(sorted))
      /\ \A k \in S : IsOrder(sorted[k]) /\ sorted[k].tick \in Nat
  <2>1. DOMAIN sorted = S /\ \A k \in S : sorted[k] = events[pick[k]]
    OBVIOUS
  <2>2. \A k \in S : IsOrder(sorted[k]) /\ sorted[k].tick \in Nat
    BY <1>1, <1>4, <2>1
  <2>3. sorted \in [S -> ToSet(sorted)]
    BY <2>1 DEF ToSet
  <2>4. sorted \in Seq(ToSet(sorted))
    BY <1>1, <2>3
  <2>5. Len(sorted) = n
    BY <1>1, <2>1, <2>4
  <2> QED
    BY <2>1, <2>2, <2>4, <2>5
<1> HIDE DEF sorted
<1> QED
  BY <1>1, <1>5, <1>6 DEF IsOrders, IsList

LEMMA CsvIndexTyped ==
  ASSUME NEW events, IsList(events), NEW index \in Nat, index <= Len(events), NEW tau
  PROVE  CsvIndex(events, index, tau) \in Nat /\ CsvIndex(events, index, tau) <= Len(events)
<1> DEFINE n == Len(events)
           due == {i \in DOMAIN events : i > index /\ events[i].tick <= tau}
           size == Cardinality(due)
<1>1. n \in Nat /\ DOMAIN events = 1..n
  BY DEF IsList
<1>2. due \subseteq (index + 1)..n
  BY <1>1
<1>3. /\ IsFiniteSet((index + 1)..n)
      /\ Cardinality((index + 1)..n) = IF index + 1 > n THEN 0 ELSE n - (index + 1) + 1
  <2> DEFINE m == index + 1
  <2>1. m \in Int /\ n \in Int
    BY <1>1
  <2> HIDE DEF m, n
  <2>2. IsFiniteSet(m..n) /\ Cardinality(m..n) = IF m > n THEN 0 ELSE n - m + 1
    BY <2>1, FS_Interval
  <2> QED
    BY <2>2 DEF m
<1> HIDE DEF due
<1>4. size \in Nat /\ size <= Cardinality((index + 1)..n)
  BY <1>2, <1>3, FS_Subset, FS_CardinalityType
<1>5. CsvIndex(events, index, tau) = index + size
  BY DEF CsvIndex, due
<1> HIDE DEF size, n
<1> QED
  BY <1>1, <1>3, <1>4, <1>5 DEF n

LEMMA CsvOrdersTyped ==
  ASSUME NEW events, IsOrders(events), NEW index \in Nat, index <= Len(events), NEW tau
  PROVE  IsOrders(CsvOrders(events, index, tau))
<1> DEFINE first == CsvIndex(events, index, tau - 1) + 1
           last == CsvIndex(events, index, tau)
           some == SubSeq(events, first, last)
<1>1. first \in Nat \ {0} /\ last \in Nat /\ last <= Len(events) /\ Len(events) \in Nat
  <2>1. CsvIndex(events, index, tau - 1) \in Nat /\ last \in Nat /\ last <= Len(events)
    BY CsvIndexTyped DEF IsOrders
  <2> HIDE DEF last
  <2> QED
    BY <2>1 DEF IsOrders, IsList
<1>2. CsvOrders(events, index, tau) = some
  BY DEF CsvOrders
<1> HIDE DEF first, last
<1>3. /\ Len(some) \in Nat /\ DOMAIN some = 1..Len(some) /\ some \in Seq(ToSet(events))
      /\ \A i \in 1..Len(some) : i + first - 1 \in 1..Len(events)
                                 /\ some[i] = events[i + first - 1]
  <2>1. events \in Seq(ToSet(events))
    BY DEF IsOrders, IsList
  <2>2. CASE first > last
    BY <1>1, <2>1, <2>2
  <2>3. CASE first <= last
    BY <1>1, <2>1, <2>3
  <2> QED
    BY <1>1, <2>2, <2>3
<1>4. some \in Seq(ToSet(some)) /\ \A i \in 1..Len(some) : IsOrder(some[i])
  <2> HIDE DEF some
  <2>1. some \in [1..Len(some) -> ToSet(some)]
    BY <1>3 DEF ToSet
  <2> QED
    BY <1>3, <2>1 DEF IsOrders
<1> QED
  BY <1>2, <1>4 DEF IsOrders, IsList

\* The orders that may be drawn at a tick.
Orders(tau) == {Order(type, tau) : type \in TypeSet}

LEMMA DrawnOrders ==
  ASSUME NEW tau, NEW s \in Seq(Orders(tau))
  PROVE  IsOrders(s)
<1>1. \A i \in 1..Len(s) : s[i] \in Orders(tau)
  OBVIOUS
<1>2. \A e \in Orders(tau) : IsOrder(e)
  BY DEF Orders, Order, IsOrder
<1> QED
  BY <1>1, <1>2, SequenceIsList DEF IsOrders

\* DemandConfig.validate, of a rate and of weights.
IsRate(rate) == rate \in Nat \X (Nat \ {0})

LEMMA BatchesTyped ==
  ASSUME NEW rate, IsRate(rate), NEW weights, DOMAIN weights \subseteq TypeSet, NEW tau
  PROVE  Batches(rate, weights, tau) \subseteq Seq(Orders(tau))
<1> DEFINE drawn == {Order(type, tau) : type \in Drawn(weights)}
<1>1. Counts(rate) \subseteq Nat
  <2>1. rate[1] \in Nat /\ rate[2] \in Nat \ {0}
    BY DEF IsRate
  <2>2. rate[1] \div rate[2] \in Nat
    <3> DEFINE a == rate[1]
               b == rate[2]
    <3>1. a \in Nat /\ b \in Nat \ {0}
      BY <2>1
    <3> HIDE DEF a, b
    <3>2. a \div b \in Nat
      BY <3>1
    <3> QED
      BY <3>2 DEF a, b
  <2> QED
    BY <2>2 DEF Counts
<1>2. drawn \subseteq Orders(tau)
  BY DEF Drawn, Orders
<1> HIDE DEF drawn
<1>3. ASSUME NEW n \in Nat PROVE [1..n -> drawn] \subseteq Seq(Orders(tau))
  BY <1>2
<1>4. Batches(rate, weights, tau) = UNION {[1..n -> drawn] : n \in Counts(rate)}
  BY DEF Batches, drawn
<1> QED
  BY <1>1, <1>3, <1>4

IsSegment(x) == IsRate(x.rate) /\ DOMAIN x.weights \subseteq TypeSet

LEMMA ExtendedTyped ==
  ASSUME NEW tau, NEW lists \in SUBSET Seq(Orders(tau)), NEW x, IsSegment(x)
  PROVE  Extended(lists, x, tau) \in SUBSET Seq(Orders(tau))
<1>1. Batches(x.rate, x.weights, tau) \subseteq Seq(Orders(tau))
  BY BatchesTyped DEF IsSegment
<1>2. \A list \in lists, batch \in Batches(x.rate, x.weights, tau) :
        list \o batch \in Seq(Orders(tau))
  BY <1>1
<1> DEFINE longer == {list \o batch : list \in lists,
                                   batch \in Batches(x.rate, x.weights, tau)}
<1>3. Extended(lists, x, tau) = IF ~Active(x, tau) THEN lists ELSE longer
  BY DEF Extended
<1>4. ASSUME NEW e \in longer PROVE e \in Seq(Orders(tau))
  <2>1. PICK list \in lists, batch \in Batches(x.rate, x.weights, tau) : e = list \o batch
    OBVIOUS
  <2> QED
    BY <1>2, <2>1
<1> HIDE DEF longer
<1> QED
  BY <1>3, <1>4

LEMMA ScheduleTyped ==
  ASSUME NEW segments, IsList(segments),
         \A i \in 1..Len(segments) : IsSegment(segments[i]), NEW tau
  PROVE  ScheduleBatches(segments, tau) \subseteq Seq(Orders(tau))
<1> DEFINE D == [left : Seq(ToSet(segments)), lists : SUBSET Seq(Orders(tau))]
           Halt == {c \in D : c.left = <<>>}
           Next1(c) == [left |-> Tail(c.left), lists |-> Extended(c.lists, Head(c.left), tau)]
           Step == [c \in D |-> Next1(c)]
           Result == [c \in D |-> c.lists]
           M == [c \in D |-> Len(c.left)]
           Good == SUBSET Seq(Orders(tau))
           body(f, c) == IF c.left = <<>> THEN c.lists ELSE f[Next1(c)]
           F == CHOOSE f : f = [c \in D |-> body(f, c)]
           first == [left |-> segments, lists |-> {<<>>}]
<1>1. \A x \in ToSet(segments) : IsSegment(x)
  BY DEF IsList, ToSet
<1>2. ASSUME NEW c \in D \ Halt
      PROVE  Step[c] \in D /\ M[Step[c]] < M[c] /\ M[c] \in Nat
  <2>1. c.left \in Seq(ToSet(segments)) /\ c.left # <<>> /\ c.lists \in SUBSET Seq(Orders(tau))
    OBVIOUS
  <2>2. /\ Head(c.left) \in ToSet(segments) /\ Tail(c.left) \in Seq(ToSet(segments))
        /\ Len(Tail(c.left)) = Len(c.left) - 1 /\ Len(c.left) \in Nat
    <3> DEFINE q == c.left
               S == ToSet(segments)
    <3>1. q \in Seq(S) /\ q # <<>>
      BY <2>1
    <3> HIDE DEF q, S
    <3>2. Head(q) \in S /\ Tail(q) \in Seq(S) /\ Len(Tail(q)) = Len(q) - 1 /\ Len(q) \in Nat
      BY <3>1
    <3> QED
      BY <3>2 DEF q, S
  <2>3. Extended(c.lists, Head(c.left), tau) \in SUBSET Seq(Orders(tau))
    BY <1>1, <2>1, <2>2, ExtendedTyped
  <2>4. Next1(c) \in D /\ Next1(c).left = Tail(c.left)
    BY <2>2, <2>3
  <2>5. Step[c] = Next1(c) /\ M[c] = Len(c.left) /\ M[Next1(c)] = Len(Next1(c).left)
    BY <2>4
  <2> HIDE DEF Step, M, Next1, D
  <2> QED
    BY <2>2, <2>4, <2>5
<1>3. IsLoop(F, D, Halt, Step, Result)
  <2>1. \A f : f = [c \in D |-> body(f, c)] <=> IsLoop(f, D, Halt, Step, Result)
    <3> TAKE f
    <3>1. ASSUME NEW c \in D
          PROVE  body(f, c) = (IF c \in Halt THEN Result[c] ELSE f[Step[c]])
      OBVIOUS
    <3> HIDE DEF Halt, Result, Step, body, D
    <3> QED
      BY <3>1 DEF IsLoop
  <2>2. \E f : IsLoop(f, D, Halt, Step, Result)
    <3> HIDE DEF D, Halt, Step, Result
    <3> QED
      BY <1>2, LoopExists
  <2> HIDE DEF D, Halt, Step, Result, body
  <2>3. F = [c \in D |-> body(F, c)]
    BY <2>1, <2>2
  <2> HIDE DEF F
  <2> QED
    BY <2>1, <2>3
<1>4. first \in D
  <2>1. segments \in Seq(ToSet(segments)) /\ <<>> \in Seq(Orders(tau))
    BY DEF IsList
  <2> QED
    BY <2>1
<1>5. ScheduleBatches(segments, tau) = F[first]
  BY DEF ScheduleBatches, Orders
<1>6. \A c \in D : M[c] \in Nat /\ Result[c] \in Good
  OBVIOUS
<1> HIDE DEF D, Halt, Step, Result, F, M, first
<1>7. \A c \in D : F[c] \in Good
  <2> HIDE DEF Good
  <2>1. Descends(D, M, D, Halt, Step)
    BY <1>2, <1>6 DEF Descends
  <2> QED
    BY <1>3, <1>6, <2>1, LoopEnds
<1> QED
  BY <1>4, <1>5, <1>7

\* The orders of a tick, and how far a file of them has been read.
LEMMA OrdersTyped ==
  ASSUME NEW demand, IsDemand(demand), demand.mode # "legacy",
         NEW g, IsGenerator(demand, g), NEW tau \in Nat,
         NEW orders \in OrdersAt(demand, g, tau)
  PROVE  /\ IsOrders(orders)
         /\ \E index \in Nat :
              /\ demand.mode = "csv_orders" => index <= Len(demand.events)
              /\ DemandNext(demand, g, orders, tau) =
                   Further(g, orders, index)
<1>1. g \in GeneratorType /\ g.index \in Nat
  BY DEF IsGenerator, GeneratorType
<1>2. CASE demand.mode = "uniform"
  <2>1. IsRate(demand.rate) /\ DOMAIN demand.weights \subseteq TypeSet
    BY <1>2 DEF IsDemand, IsRate
  <2>2. orders \in Batches(demand.rate, demand.weights, tau)
    BY <1>2 DEF OrdersAt
  <2>3. orders \in Seq(Orders(tau))
    BY <2>1, <2>2, BatchesTyped
  <2>4. DemandNext(demand, g, orders, tau) =
          Further(g, orders, g.index)
    BY <1>1, <1>2 DEF DemandNext, GeneratorType, Further
  <2> QED
    BY <1>1, <1>2, <2>3, <2>4, DrawnOrders
<1>3. CASE demand.mode = "rate_schedule"
  <2>1. /\ IsList(demand.segments)
        /\ \A i \in DOMAIN demand.segments : IsSegment(demand.segments[i])
    BY <1>3 DEF IsDemand, IsRate, IsSegment, IsList
  <2>2. \A i \in 1..Len(demand.segments) : IsSegment(demand.segments[i])
    BY <2>1 DEF IsList
  <2>3. orders \in ScheduleBatches(demand.segments, tau)
    BY <1>3 DEF OrdersAt
  <2>4. orders \in Seq(Orders(tau))
    BY <2>1, <2>2, <2>3, ScheduleTyped
  <2>5. DemandNext(demand, g, orders, tau) =
          Further(g, orders, g.index)
    BY <1>1, <1>3 DEF DemandNext, GeneratorType, Further
  <2> QED
    BY <1>1, <1>3, <2>4, <2>5, DrawnOrders
<1>4. CASE demand.mode = "csv_orders"
  <2> DEFINE events == demand.events
             sorted == ResolvedEvents(events)
             index == CsvIndex(sorted, g.index, tau)
  <2>1. IsOrders(events) /\ \A i \in 1..Len(events) : events[i].tick \in Nat
    <3>1. /\ IsList(events)
          /\ \A i \in DOMAIN events : IsOrder(events[i]) /\ events[i].tick \in Nat
      BY <1>4 DEF IsDemand, IsOrder, IsList
    <3> HIDE DEF events
    <3> QED
      BY <3>1 DEF IsOrders, IsList
  <2>2. IsOrders(sorted) /\ Len(sorted) = Len(events)
    BY <2>1, ResolvedTyped
  <2>3. g.index <= Len(sorted)
    BY <1>4, <2>2 DEF IsGenerator
  <2>4. orders = CsvOrders(sorted, g.index, tau)
    BY <1>4 DEF OrdersAt
  <2>5. DemandNext(demand, g, orders, tau) =
          Further(g, orders, index)
    BY <1>1, <1>4 DEF DemandNext, GeneratorType, Further
  <2> HIDE DEF sorted
  <2>6. IsOrders(orders) /\ index \in Nat /\ index <= Len(events)
    BY <1>1, <2>2, <2>3, <2>4, CsvOrdersTyped, CsvIndexTyped DEF IsOrders
  <2> QED
    BY <2>5, <2>6
<1> QED
  BY <1>2, <1>3, <1>4 DEF IsDemand

LEMMA StepsTyped ==
  ASSUME NEW demand, IsDemand(demand), NEW g, IsGenerator(demand, g), NEW tau \in Nat,
         NEW step \in Steps(demand, g, tau), ~step.raised
  PROVE  IsOutcome(demand, g, step.tasks, step.g, tau)
<1> DEFINE Outcome(lists, next) ==
             IF lists = {} THEN {[raised |-> TRUE, tasks |-> <<>>, g |-> next]}
             ELSE {[raised |-> FALSE, tasks |-> ts, g |-> next] : ts \in lists}
<1>1. ASSUME NEW lists, NEW next, step \in Outcome(lists, next)
      PROVE  step.tasks \in lists /\ step.g = next
  BY <1>1
<1>2. CASE demand.mode = "legacy"
  <2>1. step \in Outcome(LegacyTasks(g, tau), LegacyNext(g, tau))
    BY <1>2 DEF Steps
  <2> HIDE DEF Outcome
  <2>2. step.tasks \in LegacyTasks(g, tau) /\ step.g = LegacyNext(g, tau)
    BY <1>1, <2>1
  <2> QED
    BY <1>2, <2>2, LegacyOutcome
<1>3. CASE demand.mode # "legacy" /\ tau < StartTick
  <2>1. step.tasks = <<>> /\ step.g = g
    BY <1>3 DEF Steps
  <2>2. g.number \in Nat
    BY DEF IsGenerator, GeneratorType
  <2>3. IsList(<<>>) /\ Len(<<>>) = 0
    BY DEF IsList
  <2> QED
    BY <2>1, <2>2, <2>3 DEF IsOutcome, AreMade
<1>4. CASE demand.mode # "legacy" /\ ~(tau < StartTick)
  <2>1. PICK orders \in OrdersAt(demand, g, tau) :
          step \in Outcome(DemandTasks(g, orders, tau), DemandNext(demand, g, orders, tau))
    BY <1>4 DEF Steps
  <2> HIDE DEF Outcome
  <2>2. /\ step.tasks \in DemandTasks(g, orders, tau)
        /\ step.g = DemandNext(demand, g, orders, tau)
    BY <1>1, <2>1
  <2>3. IsOrders(orders)
    BY <1>4, OrdersTyped
  <2>4. PICK index \in Nat :
          /\ demand.mode = "csv_orders" => index <= Len(demand.events)
          /\ DemandNext(demand, g, orders, tau) =
               Further(g, orders, index)
    BY <1>4, OrdersTyped
  <2> QED
    BY <2>2, <2>3, <2>4, DemandOutcome DEF IsOrders
<1> QED
  BY <1>2, <1>3, <1>4

\* Nothing is made at the tick zero: it comes before the generator's first.
LEMMA NothingAtZero ==
  ASSUME NEW demand, NEW g, IsGenerator(demand, g),
         NEW step \in Steps(demand, g, 0), ~step.raised
  PROVE  step.tasks = <<>>
<1> DEFINE Outcome(lists, next) ==
             IF lists = {} THEN {[raised |-> TRUE, tasks |-> <<>>, g |-> next]}
             ELSE {[raised |-> FALSE, tasks |-> ts, g |-> next] : ts \in lists}
<1>1. CASE demand.mode = "legacy"
  <2>1. step \in Outcome(LegacyTasks(g, 0), LegacyNext(g, 0))
    BY <1>1 DEF Steps
  <2>2. step.tasks \in LegacyTasks(g, 0)
    BY <2>1
  <2>3. \A type \in TypeSet : g.due[type] # 0
    BY DEF IsGenerator, GeneratorType
  <2>4. Types[1] \in TypeSet /\ Types[2] \in TypeSet /\ Types[3] \in TypeSet /\ Types[4] \in TypeSet
    BY TypesAre DEF Types
  <2>5. Due(g, 0) = <<>>
    BY <2>3, <2>4 DEF Due
  <2>6. step.tasks \in Selections([i \in {} |-> CreateTask(<<>>[i], g.number + i - 1, 0)])
    BY <2>2, <2>5 DEF LegacyTasks
  <2>7. DOMAIN step.tasks = {}
    BY <2>6 DEF Selections
  <2>8. step.tasks \in [{} -> {}]
    BY <2>6 DEF Selections, ToSet
  <2> QED
    BY <2>8
<1>2. CASE demand.mode # "legacy"
  <2>1. 0 < StartTick
    BY DemandAssumption
  <2> QED
    BY <1>2, <2>1 DEF Steps
<1> QED
  BY <1>1, <1>2

LEMMA FreshTyped ==
  ASSUME NEW task, NEW number, NEW tau \in 0..Duration, IsMade(task, number, tau)
  PROVE  /\ Fresh(task) \in TaskType /\ Fresh(task).status = "Pending"
         /\ Fresh(task).interruptions = 0 /\ Fresh(task).created = tau
<1>1. /\ task.pickup \in DOMAIN Resolve /\ task.dropoff \in DOMAIN Resolve
      /\ task.priority \in Int /\ task.created = tau
  BY DEF IsMade
<1>2. Resolve[task.pickup] \in Open /\ Resolve[task.dropoff] \in Open
  BY <1>1, DispatchAssumption
<1>3. 0 \in 0..Duration /\ 0 \in 0..MaxFailures /\ 0 \in Nat
  BY DispatchAssumption
<1> QED
  BY <1>1, <1>2, <1>3 DEF Fresh, TaskType, None

\* u is w with fresh tasks of these numbers, the first of which is m.
HasAdded(ids, w, u, m, n) ==
  LET nums == m..(m + n - 1)
  IN  /\ DOMAIN u.tasks = ids \union nums
      /\ nums \cap ids = {} /\ IsFiniteSet(nums) /\ Cardinality(nums) = n
      /\ Numbers(ids \union nums) /\ \A t \in ids \union nums : t < m + n
      /\ \A t \in ids : u.tasks[t] = w.tasks[t]
      /\ \A t \in nums : /\ u.tasks[t] \in TaskType /\ u.tasks[t].status = "Pending"
                         /\ u.tasks[t].interruptions = 0 /\ u.tasks[t].created = w.tick

LEMMA EnteringAdds ==
  ASSUME NEW w, NEW ids, NEW issued, w \in Worlds(ids, issued), Numbers(ids),
         NEW m \in Nat \ {0}, \A t \in ids : t < m, NEW made, AreMade(made, m, w.tick)
  PROVE  HasAdded(ids, w, Entering(w, made), m, Len(made))
<1> DEFINE n == Len(made)
           last == m + n - 1
           nums == m..last
           new == {made[i] : i \in DOMAIN made}
           task(k) == CHOOSE t \in new : t.number = k
           fresh == [k \in nums |-> Fresh(task(k))]
           u == Entering(w, made)
<1>1. n \in Nat /\ DOMAIN made = 1..n /\ last \in Nat
  BY DEF AreMade, IsList
<1>2. \A i \in 1..n : made[i].number = m + i - 1
  BY DEF AreMade, IsMade
<1>3. {t.number : t \in new} = nums
  <2>1. ASSUME NEW t \in new PROVE t.number \in nums
    <3>1. PICK i \in 1..n : t = made[i]
      BY <1>1
    <3>2. m + i - 1 \in nums
      BY <1>1
    <3> QED
      BY <1>2, <3>1, <3>2
  <2>2. ASSUME NEW k \in nums PROVE \E t \in new : t.number = k
    <3> DEFINE i == k - m + 1
    <3>1. i \in 1..n /\ m + i - 1 = k
      BY <1>1
    <3> HIDE DEF i
    <3> QED
      BY <1>1, <1>2, <3>1
  <2> HIDE DEF new, nums
  <2> QED
    BY <2>1, <2>2
<1>4. ASSUME NEW k \in nums PROVE IsMade(task(k), k, w.tick)
  <2>1. task(k) \in new /\ task(k).number = k
    <3>1. \E t \in new : t.number = k
      BY <1>3
    <3> HIDE DEF new
    <3> QED
      BY <3>1
  <2>2. PICK i \in 1..n : task(k) = made[i]
    BY <1>1, <2>1
  <2>3. IsMade(made[i], m + i - 1, w.tick) /\ m + i - 1 = k
    BY <1>2, <2>1, <2>2 DEF AreMade
  <2> HIDE DEF task
  <2> QED
    BY <2>2, <2>3
<1>5. u.tasks = [k \in DOMAIN w.tasks \union nums |->
                   IF k \in nums THEN fresh[k] ELSE w.tasks[k]]
  <2>1. u.tasks = [k \in DOMAIN w.tasks \union nums |->
                     IF k \in nums THEN Fresh(task(k)) ELSE w.tasks[k]]
    BY <1>3 DEF Entering
  <2>2. \A k \in nums : fresh[k] = Fresh(task(k))
    OBVIOUS
  <2> HIDE DEF fresh, task, u, nums
  <2> QED
    BY <2>1, <2>2
<1>6. w.tick \in 0..Duration /\ DOMAIN w.tasks = ids
  BY DEF Worlds
<1>7. \A k \in nums : /\ fresh[k] \in TaskType /\ fresh[k].status = "Pending"
                      /\ fresh[k].interruptions = 0 /\ fresh[k].created = w.tick
  <2> HIDE DEF task, nums
  <2> QED
    BY <1>4, <1>6, FreshTyped
<1> HIDE DEF fresh
<1>8. DOMAIN fresh = nums
  BY DEF fresh
<1>9. nums \cap ids = {}
  <2>1. \A t \in ids : t \in Nat /\ t < m
    BY DEF Numbers
  <2> QED
    BY <2>1
<1>10. IsFiniteSet(nums) /\ Cardinality(nums) = n
  <2>1. m \in Int /\ last \in Int
    BY <1>1
  <2>2. IsFiniteSet(nums) /\ Cardinality(nums) = IF m > last THEN 0 ELSE last - m + 1
    <3> HIDE DEF last
    <3> QED
      BY <2>1, FS_Interval
  <2> QED
    BY <1>1, <2>2
<1>11. Numbers(ids \union nums)
  <2>1. nums \subseteq Nat \ {0}
    BY <1>1
  <2> HIDE DEF nums
  <2> QED
    BY <1>10, <2>1, FS_Union DEF Numbers
<1>12. \A t \in ids \union nums : t < m + n
  <2>1. \A t \in ids : t \in Nat /\ t < m
    BY DEF Numbers
  <2> HIDE DEF n
  <2> QED
    BY <1>1, <2>1
<1> HIDE DEF u, nums, n
<1>13. /\ DOMAIN u.tasks = ids \union nums
       /\ \A t \in ids : u.tasks[t] = w.tasks[t]
       /\ \A t \in nums : u.tasks[t] = fresh[t]
  BY <1>5, <1>6, <1>9
<1> QED
  BY <1>7, <1>9, <1>10, <1>11, <1>12, <1>13 DEF u, nums, n, HasAdded

LEMMA EnteringSound ==
  ASSUME NEW w, NEW ids, NEW issued, Numbers(ids), Sound(ids, issued, w),
         NEW m \in Nat \ {0}, \A t \in ids : t < m, NEW made, AreMade(made, m, w.tick)
  PROVE  LET u == Entering(w, made)
             nums == m..(m + Len(made) - 1)
         IN  /\ DOMAIN u.tasks = ids \union nums /\ Numbers(ids \union nums)
             /\ Sound(ids \union nums, issued + Len(made), u)
             /\ \A t \in ids \union nums : t < m + Len(made)
<1> DEFINE u == Entering(w, made)
           n == Len(made)
           nums == m..(m + n - 1)
           all == ids \union nums
           generated == w.counts.generated + n
<1>1. w \in Worlds(ids, issued) /\ Linked(ids, w) /\ Balanced(ids, w) /\ n \in Nat
  BY DEF Sound, AreMade, IsList
<1>2. /\ DOMAIN u.tasks = all
      /\ nums \cap ids = {} /\ IsFiniteSet(nums) /\ Cardinality(nums) = n
      /\ Numbers(all) /\ \A t \in all : t < m + n
      /\ \A t \in ids : u.tasks[t] = w.tasks[t]
      /\ \A t \in nums : /\ u.tasks[t] \in TaskType /\ u.tasks[t].status = "Pending"
                         /\ u.tasks[t].interruptions = 0
  <2>1. HasAdded(ids, w, u, m, n)
    BY <1>1, EnteringAdds
  <2> HIDE DEF u, n
  <2> QED
    BY <2>1 DEF HasAdded
<1>3. /\ u.robots = w.robots /\ u.tick = w.tick
      /\ u.counts = [w.counts EXCEPT !.generated = generated]
  BY <1>1 DEF Entering, Worlds, CountsType
<1>4. /\ u.tasks = [t \in all |-> u.tasks[t]]
      /\ u = [tasks |-> u.tasks, robots |-> u.robots, counts |-> u.counts, tick |-> u.tick]
  <2>1. DOMAIN u.tasks = all
    BY <1>2
  <2> HIDE DEF all
  <2> QED
    BY <2>1 DEF Entering
<1> HIDE DEF u, n, nums
<1>5. /\ w.counts.generated = issued /\ issued \in Nat /\ w.counts.interrupted \in Nat
      /\ w.counts \in CountsType(issued) /\ w.counts.completed \in Nat
  BY <1>1 DEF Worlds, CountsType
<1>6. /\ u.counts \in CountsType(issued + n)
      /\ u.counts.assigned = w.counts.assigned /\ u.counts.completed = w.counts.completed
      /\ u.counts.interrupted = w.counts.interrupted /\ u.counts.failures = w.counts.failures
      /\ u.counts.generated = generated
  <2>1. generated \in Nat /\ generated = issued + n
    BY <1>1, <1>5
  <2> HIDE DEF generated
  <2> QED
    BY <1>3, <1>5, <2>1 DEF CountsType
<1>7. u \in Worlds(all, issued + n)
  <2>1. \A t \in all : u.tasks[t] \in TaskType
    BY <1>1, <1>2 DEF Worlds
  <2>2. u.robots \in [Robots -> RobotType] /\ u.tick \in 0..Duration
    BY <1>1, <1>3 DEF Worlds
  <2>3. u.tasks \in [all -> TaskType]
    BY <1>4, <2>1
  <2> HIDE DEF all
  <2> QED
    BY <1>4, <1>6, <2>2, <2>3 DEF Worlds
<1>8. Linked(all, u)
  <2>1. \A r \in Robots : u.robots[r].task # None =>
          /\ u.robots[r].task \in ids
          /\ u.tasks[u.robots[r].task] = w.tasks[u.robots[r].task]
    BY <1>1, <1>2, <1>3 DEF Linked
  <2>2. \A t \in all : u.tasks[t].status = "Assigned" => t \in ids /\ u.tasks[t] = w.tasks[t]
    BY <1>2
  <2> QED
    BY <1>1, <1>3, <2>1, <2>2 DEF Linked
<1>9. UnderWay(u) = UnderWay(w) /\ Undone(u) = Undone(w) \union nums /\ Undone(w) \subseteq ids
  <2>1. DOMAIN w.tasks = ids
    BY <1>1 DEF Worlds
  <2> QED
    BY <1>2, <2>1 DEF UnderWay, Undone
<1>10. Cardinality(Undone(u)) = Cardinality(Undone(w)) + n /\ Cardinality(Undone(w)) \in Nat
  <2>1. IsFiniteSet(Undone(w)) /\ Undone(w) \cap nums = {}
    BY <1>2, <1>9, FS_Subset DEF Numbers
  <2>2. Cardinality(Undone(w)) \in Nat /\ Cardinality({}) = 0
    BY <2>1, FS_CardinalityType, FS_EmptySet
  <2>3. Cardinality(Undone(w) \union nums) =
          Cardinality(Undone(w)) + Cardinality(nums) - Cardinality(Undone(w) \cap nums)
    BY <1>2, <2>1, FS_Union
  <2>4. Cardinality(Undone(w) \cap nums) = 0
    BY <2>1, <2>2
  <2>5. Cardinality(Undone(u)) = Cardinality(Undone(w) \union nums) /\ Cardinality(nums) = n
    BY <1>2, <1>9
  <2> QED
    BY <1>1, <2>2, <2>3, <2>4, <2>5
<1>11. Balanced(all, u)
  <2>1. /\ w.counts.assigned = w.counts.completed + w.counts.interrupted + Cardinality(UnderWay(w))
        /\ Cardinality(Undone(w)) = w.counts.generated - w.counts.completed
        /\ \A t \in ids : w.tasks[t].interruptions <= w.counts.interrupted
        /\ w.counts.interrupted <= w.counts.failures
    BY <1>1 DEF Balanced
  <2>2. \A t \in all : u.tasks[t].interruptions <= u.counts.interrupted
    BY <1>2, <1>5, <1>6, <2>1
  <2>3. Cardinality(Undone(u)) = u.counts.generated - u.counts.completed
    BY <1>1, <1>5, <1>6, <1>10, <2>1
  <2> QED
    BY <1>6, <1>9, <2>1, <2>2, <2>3 DEF Balanced
<1> QED
  BY <1>2, <1>7, <1>8, <1>11 DEF Sound, u, n, nums

\* Ended tasks may be dropped, and the tick may pass.
LEMMA KeptSound ==
  ASSUME NEW w, NEW ids, NEW issued, Sound(ids, issued, w), NEW S \in SUBSET ids,
         \A t \in ids \ S : w.tasks[t].status = "Completed", NEW tau \in 0..Duration
  PROVE  Sound(S, issued, [tasks |-> [t \in S |-> w.tasks[t]], robots |-> w.robots,
                           counts |-> w.counts, tick |-> tau])
<1> DEFINE u == [tasks |-> [t \in S |-> w.tasks[t]], robots |-> w.robots,
                 counts |-> w.counts, tick |-> tau]
<1>1. w \in Worlds(ids, issued) /\ Linked(ids, w) /\ Balanced(ids, w)
  BY DEF Sound
<1>2. /\ u.robots = w.robots /\ u.counts = w.counts /\ DOMAIN u.tasks = S
      /\ \A t \in S : u.tasks[t] = w.tasks[t]
  OBVIOUS
<1>3. u \in Worlds(S, issued)
  BY <1>1 DEF Worlds
<1> HIDE DEF u
<1>4. Linked(S, u)
  <2>1. \A t \in ids : w.tasks[t].status = "Assigned" => t \in S
    OBVIOUS
  <2>2. \A r \in Robots : w.robots[r].task # None => w.robots[r].task \in S
    BY <1>1, <2>1 DEF Linked
  <2> QED
    BY <1>1, <1>2, <2>2 DEF Linked
<1>5. UnderWay(u) = UnderWay(w) /\ Undone(u) = Undone(w)
  <2>1. DOMAIN w.tasks = ids
    BY <1>1 DEF Worlds
  <2> QED
    BY <1>2, <2>1 DEF UnderWay, Undone
<1>6. Balanced(S, u)
  BY <1>1, <1>2, <1>5 DEF Balanced
<1> QED
  BY <1>3, <1>4, <1>6 DEF Sound, u

-----------------------------------------------------------------------------
(* A trial.                                                                *)

Parts == {"repairs", "failures", "generate", "assign", "follow", "advance", "record"}
Ends  == {"raised", "target_reached", "max_ticks_reached"}

\* The numbers of the tasks lie below the generator's next one, and the world
\* is sound.
Orderly ==
  /\ plan.demand \in Demands /\ IsGenerator(plan.demand, generator)
  /\ Numbers(DOMAIN tasks) /\ \A t \in DOMAIN tasks : t < generator.number
  /\ IsList(released) /\ Sound(DOMAIN tasks, Len(released), World)

\* A trial that goes on has ticks left.
OnTime ==
  /\ phase \in Parts \union Ends /\ todo \in (SUBSET Robots) \ {{}}
  /\ phase \in Parts => tick < Duration

\* The inductive invariant.
Inv == Orderly /\ OnTime

LEMMA InitOrderly == Init => Inv
<1> SUFFICES ASSUME Init PROVE Inv
  OBVIOUS
<1>1. plan.demand \in Demands
  BY DEF Init
<1>2. IsGenerator(plan.demand, generator) /\ generator.number = 1
  <2> DEFINE due == [type \in TypeSet |-> StartTick + 2 * (3 - PriorityFor[type])]
  <2>1. due \in [TypeSet -> Nat \ {0}]
    <3>1. \A type \in TypeSet : PriorityFor[type] \in 0..3
      BY PriorityTyped
    <3>2. StartTick \in Nat \ {0}
      BY DemandAssumption
    <3>3. \A p \in 0..3 : StartTick + 2 * (3 - p) \in Nat \ {0}
      BY <3>2
    <3>4. \A type \in TypeSet : StartTick + 2 * (3 - PriorityFor[type]) \in Nat \ {0}
      BY <3>1, <3>3
    <3> QED
      BY <3>4
  <2>2. generator = [number |-> 1, due |-> due, index |-> 0]
    BY DEF Init, NewGenerator
  <2> HIDE DEF due
  <2>3. generator \in GeneratorType /\ generator.index = 0
    BY <2>1, <2>2 DEF GeneratorType
  <2>4. plan.demand.mode = "csv_orders" => Len(plan.demand.events) \in Nat
    BY <1>1, DispatchAssumption DEF IsDemand
  <2> QED
    BY <2>2, <2>3, <2>4 DEF IsGenerator
<1>3. DOMAIN tasks = {} /\ Len(released) = 0 /\ IsList(released)
  BY DEF Init, IsList
<1>4. Numbers({})
  BY FS_EmptySet DEF Numbers
<1>5. /\ World \in Worlds({}, 0) /\ World.counts = counts
      /\ counts.assigned = 0 /\ counts.completed = 0 /\ counts.interrupted = 0
      /\ counts.generated = 0 /\ counts.failures = 0
  <2>1. counts \in CountsType(0)
    <3>1. 0 \in 0..MaxFailures /\ 0 \in Nat
      BY DispatchAssumption
    <3> QED
      BY <3>1 DEF Init, CountsType
  <2>2. robots \in [Robots -> RobotType]
    <3>1. 0 \in 0..RepairTicks /\ 0 \in Nat /\ <<>> \in Seq(Open)
      BY DispatchAssumption
    <3>2. \A r \in Robots : [cell |-> Start[r], task |-> None, mode |-> "Idle",
                             memo |-> None, blocked |-> 0, repair |-> 0,
                             route |-> <<>>] \in RobotType
      BY <3>1, DispatchAssumption DEF RobotType, None
    <3> QED
      BY <3>2 DEF Init
  <2>3. tasks \in [{} -> TaskType] /\ tick \in 0..Duration
    <3>1. tasks = <<>> /\ tick = 0
      BY DEF Init
    <3> QED
      BY <3>1, DispatchAssumption
  <2>4. World \in Worlds({}, 0) /\ World.counts = counts
    BY <2>1, <2>2, <2>3 DEF World, Worlds
  <2> QED
    BY <2>4 DEF Init
<1>6. Linked({}, World)
  BY DEF Init, Linked, World, None
<1>7. Balanced({}, World)
  <2>1. UnderWay(World) = {} /\ Undone(World) = {}
    BY <1>3 DEF UnderWay, Undone, World
  <2> QED
    BY <1>5, <2>1, FS_EmptySet DEF Balanced
<1>8. OnTime
  <2>1. phase \in Parts /\ todo = Robots /\ tick = 0
    BY DEF Init, Parts
  <2>2. 0 < Duration /\ Robots # {}
    BY DispatchAssumption
  <2> QED
    BY <2>1, <2>2 DEF OnTime
<1> QED
  BY <1>1, <1>2, <1>3, <1>4, <1>5, <1>6, <1>7, <1>8 DEF Inv, Orderly, Sound

LEMMA BecomesOrderly ==
  ASSUME Orderly, NEW w, Sound(DOMAIN tasks, Len(released), w), Becomes(w),
         UNCHANGED <<plan, generator, tick, released>>
  PROVE  Orderly'
<1> DEFINE ids == DOMAIN tasks
           n == Len(released)
<1>1. /\ w \in Worlds(ids, n) /\ Linked(ids, w) /\ Balanced(ids, w)
      /\ tick \in 0..Duration
  BY DEF Sound, Orderly, World, Worlds
<1>2. /\ World' = [tasks |-> w.tasks, robots |-> w.robots, counts |-> w.counts, tick |-> tick]
      /\ DOMAIN tasks' = DOMAIN w.tasks
  BY DEF World, Becomes
<1>3. DOMAIN w.tasks = ids
  BY <1>1 DEF Worlds
<1> DEFINE u == [tasks |-> w.tasks, robots |-> w.robots, counts |-> w.counts, tick |-> tick]
<1>4. u \in Worlds(ids, n)
  BY <1>1 DEF Worlds
<1>5. Linked(ids, u) /\ Balanced(ids, u)
  <2>1. UnderWay(u) = UnderWay(w) /\ Undone(u) = Undone(w)
    BY DEF UnderWay, Undone
  <2> QED
    BY <1>1, <2>1 DEF Linked, Balanced
<1>6. Sound(ids, n, World')
  BY <1>2, <1>4, <1>5 DEF Sound
<1> QED
  BY <1>2, <1>3, <1>6 DEF Orderly

\* A turn leaves somebody to be served next.
LEMMA TurnOnTime ==
  ASSUME OnTime, NEW part \in Parts, NEW r \in Robots, NEW next \in Parts,
         Turn(part, r, next), tick' = tick
  PROVE  OnTime'
<1>1. phase = part /\ r \in todo /\ tick < Duration /\ todo \in SUBSET Robots
  BY DEF OnTime, Turn
<1>2. phase' \in Parts
  BY DEF Turn
<1>3. todo' \in (SUBSET Robots) \ {{}}
  <2>1. CASE todo = {r}
    BY <2>1, DispatchAssumption DEF Turn
  <2>2. CASE todo # {r}
    BY <1>1, <2>2 DEF Turn
  <2> QED
    BY <2>1, <2>2
<1> QED
  BY <1>1, <1>2, <1>3 DEF OnTime

LEMMA WorldIs ==
  /\ World.tasks = tasks /\ World.robots = robots /\ World.counts = counts
  /\ World.tick = tick
BY DEF World

LEMMA RepairTurnKeeps ==
  ASSUME Connected, Inv, NEW r \in Robots, RepairTurn(r)
  PROVE  Inv'
<1>1. OnTime'
  BY TurnOnTime DEF Inv, RepairTurn, Parts
<1>2. Sound(DOMAIN tasks, Len(released), Repair(World, r))
  BY RepairSound DEF Inv, Orderly
<1>3. Orderly'
  BY <1>2, BecomesOrderly DEF Inv, RepairTurn
<1> QED
  BY <1>1, <1>3 DEF Inv

LEMMA FailureTurnKeeps ==
  ASSUME Inv, NEW r \in Robots, FailureTurn(r)
  PROVE  Inv'
<1>1. OnTime'
  BY TurnOnTime DEF Inv, FailureTurn, Parts
<1>2. Sound(DOMAIN tasks, Len(released), World) /\ Numbers(DOMAIN tasks)
  BY DEF Inv, Orderly
<1>3. CASE robots[r].mode # "Failed" /\ counts.failures < MaxFailures /\ Becomes(Fail(World, r))
  <2>1. Sound(DOMAIN tasks, Len(released), Fail(World, r))
    BY <1>2, <1>3, FailSound, WorldIs
  <2> QED
    BY <1>1, <1>3, <2>1, BecomesOrderly DEF Inv, FailureTurn
<1>4. CASE Becomes(World)
  BY <1>1, <1>2, <1>4, BecomesOrderly DEF Inv, FailureTurn
<1> QED
  BY <1>3, <1>4 DEF FailureTurn

LEMMA AdvanceTurnKeeps ==
  ASSUME Connected, Inv, NEW r \in Robots, AdvanceTurn(r)
  PROVE  Inv'
<1>1. OnTime'
  BY TurnOnTime DEF Inv, AdvanceTurn, Parts
<1>2. PICK w \in Turns(World, r) : Becomes(w)
  BY DEF AdvanceTurn
<1>3. Sound(DOMAIN tasks, Len(released), w)
  BY TurnsSound DEF Inv, Orderly
<1>4. Orderly'
  BY <1>2, <1>3, BecomesOrderly DEF Inv, AdvanceTurn
<1> QED
  BY <1>1, <1>4 DEF Inv

\* The phase moves on in the same tick.
LEMMA LaterOnTime ==
  ASSUME OnTime, phase \in Parts, phase' \in Parts \union Ends, todo' = todo, tick' = tick
  PROVE  OnTime'
BY DEF OnTime

LEMMA GenerateKeeps ==
  ASSUME Inv, Generate
  PROVE  Inv'
<1> DEFINE ids == DOMAIN tasks
           m == generator.number
<1>1. /\ plan.demand \in Demands /\ IsGenerator(plan.demand, generator) /\ Numbers(ids)
      /\ \A t \in ids : t < m
      /\ IsList(released) /\ Sound(ids, Len(released), World) /\ OnTime
  BY DEF Inv, Orderly
<1>2. m \in Nat \ {0} /\ tick \in Nat /\ IsDemand(plan.demand)
  <2>1. tick \in 0..Duration
    BY <1>1 DEF Sound, World, Worlds
  <2> QED
    BY <1>1, <2>1, DispatchAssumption DEF IsGenerator, GeneratorType
<1>3. PICK step \in Steps(plan.demand, generator, tick) :
        /\ ~step.raised
        /\ generator' = step.g
        /\ Becomes(Entering(World, step.tasks))
        /\ released' = released \o step.tasks
  BY DEF Generate
<1> DEFINE made == step.tasks
           u == Entering(World, made)
           nums == m..(m + Len(made) - 1)
<1>4. /\ IsGenerator(plan.demand, generator') /\ generator'.number = m + Len(made)
      /\ AreMade(made, m, World.tick)
  BY <1>1, <1>2, <1>3, StepsTyped, WorldIs DEF IsOutcome
<1>5. /\ DOMAIN u.tasks = ids \union nums /\ Numbers(ids \union nums)
      /\ Sound(ids \union nums, Len(released) + Len(made), u)
      /\ \A t \in ids \union nums : t < m + Len(made)
  <2> HIDE DEF made, m
  <2> QED
    BY <1>1, <1>2, <1>4, EnteringSound
<1>6. IsList(released') /\ Len(released') = Len(released) + Len(made)
  <2>1. IsList(made)
    BY <1>4 DEF AreMade
  <2> DEFINE S == ToSet(released) \union ToSet(made)
  <2>2. released \in Seq(S) /\ made \in Seq(S)
    BY <1>1, <2>1 DEF IsList
  <2> HIDE DEF S, made
  <2>3. released \o made \in Seq(S) /\ Len(released \o made) = Len(released) + Len(made)
    BY <2>2
  <2> QED
    BY <1>3, <2>3, SequenceIsList DEF made
<1>7. World' = u
  BY <1>3 DEF World, Becomes, Entering, Generate
<1>8. OnTime'
  <2>1. phase \in Parts /\ phase' \in Parts /\ todo' = todo /\ tick' = tick
    BY DEF Generate, Parts, loops
  <2> QED
    BY <1>1, <2>1, LaterOnTime
<1>9. tasks' = u.tasks /\ plan' = plan
  BY <1>3 DEF Becomes, Generate
<1> HIDE DEF made, u, nums, m
<1>10. Orderly'
  BY <1>1, <1>4, <1>5, <1>6, <1>7, <1>9 DEF Orderly
<1> QED
  BY <1>8, <1>10 DEF Inv

LEMMA SameOrderly ==
  ASSUME Orderly, UNCHANGED <<plan, generator, tasks, robots, counts, tick, released>>
  PROVE  Orderly'
<1>1. Becomes(World) /\ Sound(DOMAIN tasks, Len(released), World)
  BY WorldIs DEF Becomes, Orderly
<1> QED
  BY <1>1, BecomesOrderly

LEMMA QuietKeeps ==
  ASSUME Inv, GenerateRaises \/ Ask \/ UNCHANGED vars
  PROVE  Inv'
<1>1. UNCHANGED <<plan, generator, tasks, robots, counts, tick, released, todo>>
  BY DEF GenerateRaises, Ask, vars, world, loops
<1>2. Orderly'
  BY <1>1, SameOrderly DEF Inv
<1>3. CASE GenerateRaises
  <2>1. phase \in Parts /\ phase' \in Ends
    BY <1>3 DEF GenerateRaises, Parts, Ends
  <2> QED
    BY <1>1, <1>2, <2>1, LaterOnTime DEF Inv
<1>4. CASE Ask
  <2>1. phase \in Parts /\ phase' \in Parts
    BY <1>4 DEF Ask, Left, Parts
  <2> QED
    BY <1>1, <1>2, <2>1, LaterOnTime DEF Inv
<1>5. CASE UNCHANGED vars
  BY <1>1, <1>2, <1>5 DEF Inv, OnTime, vars
<1> QED
  BY <1>3, <1>4, <1>5

LEMMA FollowKeeps ==
  ASSUME Connected, Inv, Follow
  PROVE  Inv'
<1> DEFINE t == Head(answer)[1]
           r == Head(answer)[2]
           may == /\ t \in DOMAIN tasks /\ r \in Robots
                  /\ Waiting(tasks[t]) /\ CanAccept(robots[r])
           can == may /\ FeasibleTask(World, r, t)
           w == IF can THEN BeginTask(World, r, t) ELSE World
<1>1. /\ Becomes(w) /\ UNCHANGED <<plan, generator, tick, released, todo>>
      /\ phase \in Parts /\ phase' \in Parts
  BY DEF Follow, Left, Parts
<1>2. Sound(DOMAIN tasks, Len(released), World) /\ Numbers(DOMAIN tasks)
  BY DEF Inv, Orderly
<1> HIDE DEF t, r
<1>3. may => Sound(DOMAIN tasks, Len(released), BeginTask(World, r, t))
  BY <1>2, BeginSound, WorldIs DEF CanAccept
<1>4. Sound(DOMAIN tasks, Len(released), w)
  BY <1>2, <1>3
<1> HIDE DEF w
<1> QED
  BY <1>1, <1>4, BecomesOrderly, LaterOnTime DEF Inv

LEMMA RecordKeeps ==
  ASSUME Inv, Record
  PROVE  Inv'
<1>1. /\ plan.demand \in Demands /\ IsGenerator(plan.demand, generator)
      /\ Numbers(DOMAIN tasks) /\ \A t \in DOMAIN tasks : t < generator.number
      /\ IsList(released) /\ Sound(DOMAIN tasks, Len(released), World)
      /\ OnTime
  BY DEF Inv, Orderly
<1>2. phase \in Parts /\ tick \in Nat /\ tick < Duration /\ Duration \in Nat
  <2>1. tick \in 0..Duration
    BY <1>1 DEF Sound, World, Worlds
  <2> QED
    BY <1>1, <2>1, DispatchAssumption DEF Record, Parts, OnTime
<1>3. /\ UNCHANGED <<plan, generator, robots, counts, todo, released>>
      /\ tasks' = [t \in Kept |-> tasks[t]] /\ tick' = tick + 1 /\ phase' = Stop(Snapshot)
  BY DEF Record, Snapshot, loops
<1>4. Kept \in SUBSET DOMAIN tasks /\ \A t \in (DOMAIN tasks) \ Kept : tasks[t].status = "Completed"
  BY DEF Kept
<1>5. tick + 1 \in 0..Duration
  BY <1>2
<1>6. Sound(Kept, Len(released), World')
  <2>1. World' = [tasks |-> [t \in Kept |-> World.tasks[t]], robots |-> World.robots,
                  counts |-> World.counts, tick |-> tick + 1]
    BY <1>3 DEF World
  <2>2. DOMAIN World.tasks = DOMAIN tasks
    BY WorldIs
  <2> QED
    BY <1>1, <1>4, <1>5, <2>1, KeptSound, WorldIs
<1>7. DOMAIN tasks' = Kept
  BY <1>3
<1>8. Numbers(Kept) /\ \A t \in Kept : t < generator.number
  <2>1. IsFiniteSet(DOMAIN tasks) /\ DOMAIN tasks \subseteq Nat \ {0}
    BY <1>1 DEF Numbers
  <2>2. IsFiniteSet(Kept)
    BY <1>4, <2>1, FS_Subset
  <2> QED
    BY <1>1, <1>4, <2>1, <2>2 DEF Numbers
<1>9. Orderly'
  BY <1>1, <1>3, <1>6, <1>7, <1>8 DEF Orderly
<1>10. phase' \in Parts \union Ends /\ (phase' \in Parts => tick' < Duration)
  <2>1. Snapshot.tick = tick + 1
    BY DEF Snapshot
  <2>2. \/ Stop(Snapshot) = "target_reached"
        \/ Stop(Snapshot) = "max_ticks_reached"
        \/ Stop(Snapshot) = "repairs" /\ ~(Snapshot.tick >= Duration)
    BY DEF Stop
  <2> QED
    BY <1>2, <1>3, <2>1, <2>2 DEF Parts, Ends
<1> QED
  BY <1>1, <1>3, <1>9, <1>10 DEF Inv, OnTime

LEMMA NextKeeps ==
  ASSUME Connected, Inv, [Next]_vars
  PROVE  Inv'
<1>1. CASE \E r \in Robots : RepairTurn(r) \/ FailureTurn(r) \/ AdvanceTurn(r)
  BY <1>1, RepairTurnKeeps, FailureTurnKeeps, AdvanceTurnKeeps
<1>2. CASE Generate \/ Follow \/ Record
  BY <1>2, GenerateKeeps, FollowKeeps, RecordKeeps
<1>3. CASE GenerateRaises \/ Ask \/ Ended \/ UNCHANGED vars
  BY <1>3, QuietKeeps DEF Ended
<1> QED
  BY <1>1, <1>2, <1>3 DEF Next

LEMMA InvTyped ==
  ASSUME Inv
  PROVE  TypeOK
<1>1. World \in Worlds(DOMAIN tasks, Len(released)) /\ Linked(DOMAIN tasks, World) /\ OnTime
  BY DEF Inv, Orderly, Sound
<1>2. /\ robots \in [Robots -> RobotType] /\ tick \in 0..Duration
      /\ \A t \in DOMAIN tasks : tasks[t] \in TaskType
  BY <1>1, WorldIs DEF Worlds
<1>3. \A r \in Robots : robots[r].task # None =>
        /\ robots[r].task \in DOMAIN tasks
        /\ tasks[robots[r].task].status = "Assigned"
        /\ tasks[robots[r].task].robot = r
  BY <1>1, WorldIs DEF Linked
<1> QED
  BY <1>1, <1>2, <1>3 DEF TypeOK, OnTime, Parts, Ends

LEMMA InvBalanced ==
  ASSUME Inv
  PROVE  BooksBalance
<1>1. /\ Balanced(DOMAIN tasks, World) /\ World \in Worlds(DOMAIN tasks, Len(released))
  BY DEF Inv, Orderly, Sound
<1>2. /\ UnderWay(World) = {t \in DOMAIN tasks : tasks[t].status = "Assigned"}
      /\ Undone(World) =
           DOMAIN tasks \ {t \in DOMAIN tasks : tasks[t].status = "Completed"}
  BY WorldIs DEF UnderWay, Undone
<1>3. counts.generated = Len(released)
  BY <1>1, WorldIs DEF Worlds, CountsType
<1> QED
  BY <1>1, <1>2, <1>3, WorldIs DEF Balanced, BooksBalance

LEMMA InvHolds == ASSUME Connected PROVE Spec => []Inv
<1>1. Init => Inv
  BY InitOrderly
<1>2. Inv /\ [Next]_vars => Inv'
  BY NextKeeps
<1> QED
  BY <1>1, <1>2, PTL DEF Spec

\* Whatever the demand, the scheduler and the faults are, every part of a trial
\* keeps the values the code gives it, and a robot that has a task and that
\* task name each other at every moment: no handler leaves half of an
\* assignment behind (simulation.py, task_generator.py).
THEOREM DispatchTypeCorrect == ASSUME Connected PROVE Spec => []TypeOK
<1>1. Inv => TypeOK
  BY InvTyped
<1> QED
  BY <1>1, InvHolds, PTL

\* The counters and the tasks that are left account for the same work at every
\* moment: an assignment that is not under way was completed or interrupted,
\* every task that was generated is waiting, under way or completed, and none
\* is dropped before it is (metrics.py, simulation.py).
THEOREM BooksStayBalanced == ASSUME Connected PROVE Spec => []BooksBalance
<1>1. Inv => BooksBalance
  BY InvBalanced
<1> QED
  BY <1>1, InvHolds, PTL

LEMMA TypedDelivers ==
  ASSUME TypeOK
  PROVE  PlannersDeliver
<1> SUFFICES ASSUME NEW r \in Robots, NEW t \in DOMAIN tasks
             PROVE  LET start == robots[r].cell
                        goal  == IF tasks[t].leg = "pickup" THEN tasks[t].pickup
                                 ELSE tasks[t].dropoff
                        next  == {robots[q].route[1] :
                                    q \in {p \in Others(r) : robots[p].route # <<>>}}
                        taken == CellsOf(World, Others(r)) \union next
                        owes(path, num, den) == IsPlan(path, Free(Open, start, goal, taken),
                                                       start, goal, num, den)
                    IN  /\ owes(BFSPath(Open, start, goal, taken), 1, 1)
                        /\ owes(AStarPath(Open, start, goal, taken, 1, 1), 1, 1)
                        /\ owes(AStarPath(Open, start, goal, taken, 3, 2), 3, 2)
  BY DEF PlannersDeliver
<1> DEFINE start == robots[r].cell
           goal == IF tasks[t].leg = "pickup" THEN tasks[t].pickup ELSE tasks[t].dropoff
           next == {robots[q].route[1] : q \in {p \in Others(r) : robots[p].route # <<>>}}
           taken == CellsOf(World, Others(r)) \union next
           free == Free(Open, start, goal, taken)
<1>1. start \in Open /\ goal \in Open
  BY DEF TypeOK, RobotType, TaskType
<1>2. IsFiniteSet(Open) /\ Open \subseteq Nat \X Nat
  BY DispatchAssumption
<1> HIDE DEF start, goal, taken
<1>3. IsPlan(BFSPath(Open, start, goal, taken), free, start, goal, 1, 1)
  BY <1>1, <1>2, BFSDelivers
<1>4. /\ IsPlan(AStarPath(Open, start, goal, taken, 1, 1), free, start, goal,
                Bound(1, 1), 1)
      /\ IsPlan(AStarPath(Open, start, goal, taken, 3, 2), free, start, goal,
                Bound(3, 2), 2)
  BY <1>1, <1>2, AStarDelivers
<1>5. Bound(1, 1) = 1 /\ Bound(3, 2) = 3
  BY DEF Bound
<1>6. /\ IsPlan(AStarPath(Open, start, goal, taken, 1, 1), free, start, goal, 1, 1)
      /\ IsPlan(AStarPath(Open, start, goal, taken, 3, 2), free, start, goal, 3, 2)
  BY <1>4, <1>5, Zenon
<1> QED
  BY <1>3, <1>6 DEF start, goal, taken

\* Whatever is asked of the planners in a trial, wherever the robots are and
\* whichever cells they or their next steps take, A* and the breadth-first
\* planner end with a shortest route and weighted A* with one that is longer by
\* at most its weight, and they say None only if there is no way (pathfinding.py).
THEOREM PlannersKeepTheirWord == ASSUME Connected PROVE Spec => []PlannersDeliver
<1>1. TypeOK => PlannersDeliver
  BY TypedDelivers
<1> QED
  BY <1>1, DispatchTypeCorrect, PTL

-----------------------------------------------------------------------------
(* Lists without repetitions, and what is in them.                         *)

Distinct(s) == IsList(s) /\ \A i, j \in DOMAIN s : s[i] = s[j] => i = j

LEMMA ListFacts ==
  ASSUME NEW s, IsList(s)
  PROVE  /\ Len(s) \in Nat /\ DOMAIN s = 1..Len(s)
         /\ ToSet(s) = {s[i] : i \in DOMAIN s}
BY DEF IsList, ToSet

\* Two lists one after the other.
LEMMA Joins ==
  ASSUME NEW s, NEW t, IsList(s), IsList(t)
  PROVE  IsList(s \o t) /\ ToSet(s \o t) = ToSet(s) \union ToSet(t)
<1> DEFINE S == ToSet(s) \union ToSet(t)
           m == Len(s)
           n == Len(t)
<1>1. s \in Seq(S) /\ t \in Seq(S)
  BY DEF IsList
<1>2. /\ m \in Nat /\ n \in Nat /\ DOMAIN s = 1..m /\ DOMAIN t = 1..n
      /\ s \o t \in Seq(S) /\ DOMAIN (s \o t) = 1..(m + n)
      /\ \A i \in 1..m : (s \o t)[i] = s[i]
      /\ \A i \in 1..n : (s \o t)[m + i] = t[i]
  <2> HIDE DEF S
  <2> QED
    BY <1>1
<1>3. \A k \in 1..(m + n) : k \in 1..m \/ \E i \in 1..n : k = m + i
  <2> TAKE k \in 1..(m + n)
  <2>1. CASE k <= m
    BY <1>2, <2>1
  <2>2. CASE ~(k <= m)
    <3>1. k - m \in 1..n /\ k = m + (k - m)
      BY <1>2, <2>2
    <3> QED
      BY <3>1
  <2> QED
    BY <2>1, <2>2
<1>4. \A i \in 1..m : i \in 1..(m + n)
  BY <1>2
<1>5. \A i \in 1..n : m + i \in 1..(m + n)
  BY <1>2
<1>6. IsList(s \o t)
  <2> HIDE DEF S
  <2> QED
    BY <1>2, SequenceIsList
<1> HIDE DEF m, n
<1>7. ToSet(s \o t) = S
  <2>1. ASSUME NEW e \in ToSet(s \o t) PROVE e \in S
    <3>1. PICK k \in 1..(m + n) : e = (s \o t)[k]
      BY <1>2 DEF ToSet
    <3>2. CASE k \in 1..m
      BY <1>2, <3>1, <3>2 DEF ToSet
    <3>3. CASE \E i \in 1..n : k = m + i
      BY <1>2, <3>1, <3>3 DEF ToSet
    <3> QED
      BY <1>3, <3>2, <3>3
  <2>2. ASSUME NEW e \in S PROVE e \in ToSet(s \o t)
    <3>1. CASE e \in ToSet(s)
      BY <1>2, <1>4, <3>1 DEF ToSet
    <3>2. CASE e \in ToSet(t)
      BY <1>2, <1>5, <3>2 DEF ToSet
    <3> QED
      BY <3>1, <3>2
  <2> QED
    BY <2>1, <2>2
<1> QED
  BY <1>6, <1>7

LEMMA JoinsDistinct ==
  ASSUME NEW s, NEW t, Distinct(s), Distinct(t), ToSet(s) \cap ToSet(t) = {}
  PROVE  Distinct(s \o t)
<1> DEFINE S == ToSet(s) \union ToSet(t)
           m == Len(s)
           n == Len(t)
<1>1. s \in Seq(S) /\ t \in Seq(S)
  BY DEF IsList, Distinct
<1>2. /\ m \in Nat /\ n \in Nat /\ DOMAIN s = 1..m /\ DOMAIN t = 1..n
      /\ DOMAIN (s \o t) = 1..(m + n)
      /\ \A i \in 1..m : (s \o t)[i] = s[i]
      /\ \A i \in 1..n : (s \o t)[m + i] = t[i]
  <2> HIDE DEF S
  <2> QED
    BY <1>1
<1>3. \A k \in 1..(m + n) : k \in 1..m \/ \E i \in 1..n : k = m + i
  <2> TAKE k \in 1..(m + n)
  <2>1. CASE k <= m
    BY <1>2, <2>1
  <2>2. CASE ~(k <= m)
    <3>1. k - m \in 1..n /\ k = m + (k - m)
      BY <1>2, <2>2
    <3> QED
      BY <3>1
  <2> QED
    BY <2>1, <2>2
<1>4. /\ \A i \in 1..m : s[i] \in ToSet(s)
      /\ \A i \in 1..n : t[i] \in ToSet(t)
  BY <1>2 DEF ToSet
<1>5. IsList(s \o t)
  BY Joins DEF Distinct
<1> HIDE DEF m, n, S
<1>6. ASSUME NEW i \in 1..(m + n), NEW j \in 1..(m + n), (s \o t)[i] = (s \o t)[j]
      PROVE  i = j
  <2>1. CASE i \in 1..m /\ j \in 1..m
    BY <1>2, <1>6, <2>1 DEF Distinct
  <2>2. CASE \E a, b \in 1..n : i = m + a /\ j = m + b
    <3>1. PICK a \in 1..n, b \in 1..n : i = m + a /\ j = m + b
      BY <2>2
    <3>2. t[a] = t[b]
      BY <1>2, <1>6, <3>1
    <3> QED
      BY <1>2, <3>1, <3>2 DEF Distinct
  <2>3. CASE i \in 1..m /\ \E b \in 1..n : j = m + b
    BY <1>2, <1>4, <1>6, <2>3
  <2>4. CASE j \in 1..m /\ \E b \in 1..n : i = m + b
    BY <1>2, <1>4, <1>6, <2>4
  <2> QED
    BY <1>3, <2>1, <2>2, <2>3, <2>4
<1> QED
  BY <1>2, <1>5, <1>6 DEF Distinct

\* A list of one element, and of none.
LEMMA OneInList ==
  ASSUME NEW e
  PROVE  Distinct(<<e>>) /\ ToSet(<<e>>) = {e}
BY DEF Distinct, IsList, ToSet

LEMMA NoneInList == Distinct(<<>>) /\ ToSet(<<>>) = {}
BY DEF Distinct, IsList, ToSet

\* How often something is in a list without repetitions.
LEMMA CountsDistinct ==
  ASSUME NEW s, Distinct(s), NEW S \in SUBSET ToSet(s)
  PROVE  /\ IsFiniteSet(S)
         /\ Cardinality({i \in DOMAIN s : s[i] \in S}) = Cardinality(S)
<1> DEFINE P == {i \in DOMAIN s : s[i] \in S}
           f == [i \in P |-> s[i]]
<1>1. Len(s) \in Nat /\ DOMAIN s = 1..Len(s) /\ ToSet(s) = {s[i] : i \in DOMAIN s}
  BY ListFacts DEF Distinct
<1>2. IsFiniteSet(1..Len(s))
  <2> DEFINE n == Len(s)
  <2>1. n \in Nat
    BY <1>1
  <2> HIDE DEF n
  <2> QED
    BY <2>1, UpToFinite DEF n
<1>3. IsFiniteSet(P)
  BY <1>1, <1>2, FS_Subset
<1>4. f \in Bijection(P, S)
  <2>1. f \in [P -> S]
    OBVIOUS
  <2>2. \A i, j \in P : f[i] = f[j] => i = j
    BY DEF Distinct
  <2>3. \A e \in S : \E i \in P : f[i] = e
    BY <1>1
  <2> HIDE DEF f, P
  <2> QED
    BY <2>1, <2>2, <2>3 DEF Bijection, Injection, Surjection, IsInjective
<1>5. ExistsBijection(P, S)
  BY <1>4 DEF ExistsBijection
<1> HIDE DEF P, f
<1> QED
  BY <1>3, <1>5, FS_Bijection DEF P

-----------------------------------------------------------------------------
(* What the recorder writes.                                               *)

\* The least of some numbers.
LEMMA LeastNumber ==
  ASSUME NEW S \in SUBSET Nat, S # {}
  PROVE  \E i \in S : \A j \in S : i <= j
<1> DEFINE M == [i \in S |-> i]
<1>1. \A i \in S : M[i] \in Nat
  OBVIOUS
<1>2. \E i \in S : \A j \in S : M[i] <= M[j]
  BY <1>1, LeastMeasure
<1> QED
  BY <1>2

\* The events of all ids are written, once, if those of each are and if no two
\* ids have one in common.
LEMMA EventsWritten ==
  ASSUME NEW events, IsFiniteSet(DOMAIN events), DOMAIN events \subseteq Nat,
         \A id \in DOMAIN events : Distinct(events[id]),
         \A i, j \in DOMAIN events : i # j => ToSet(events[i]) \cap ToSet(events[j]) = {}
  PROVE  /\ Distinct(EventsOf(events))
         /\ ToSet(EventsOf(events)) = UNION {ToSet(events[id]) : id \in DOMAIN events}
<1> DEFINE ids == DOMAIN events
           of(I) == UNION {ToSet(events[id]) : id \in I}
           all == of(ids)
           least(I) == CHOOSE i \in I : \A j \in I : i <= j
           Next1(s) == [left |-> s.left \ {least(s.left)},
                        written |-> s.written \o events[least(s.left)]]
           D == [left : SUBSET ids, written : Seq(all)]
           Halt == {s \in D : s.left = {}}
           Step == [s \in D |-> Next1(s)]
           Result == [s \in D |-> s.written]
           I == {s \in D : Distinct(s.written) /\ ToSet(s.written) = of(ids \ s.left)}
           M == [s \in D |-> Cardinality(s.left)]
           Good == {w \in Seq(all) : Distinct(w) /\ ToSet(w) = all}
           body(f, s) == IF s.left = {} THEN s.written ELSE f[Next1(s)]
           F == CHOOSE f : f = [s \in D |-> body(f, s)]
           first == [left |-> ids, written |-> <<>>]
<1>1. ASSUME NEW J \in SUBSET ids, J # {} PROVE least(J) \in J
  <2>1. \E i \in J : \A j \in J : i <= j
    BY <1>1, LeastNumber
  <2> QED
    BY <2>1
<1>2. ASSUME NEW id \in ids PROVE events[id] \in Seq(all) /\ ToSet(events[id]) \subseteq all
  <2>1. IsList(events[id])
    BY DEF Distinct
  <2>2. ToSet(events[id]) \subseteq all
    OBVIOUS
  <2> HIDE DEF all
  <2> QED
    BY <2>1, <2>2 DEF IsList
<1>3. ASSUME NEW s \in D \ Halt
      PROVE  /\ least(s.left) \in s.left /\ s.left \in SUBSET ids
             /\ s.written \in Seq(all) /\ Next1(s) \in D /\ Step[s] = Next1(s)
  <2>1. least(s.left) \in s.left /\ s.left \in SUBSET ids /\ s.written \in Seq(all)
    BY <1>1
  <2>2. events[least(s.left)] \in Seq(all)
    BY <1>2, <2>1
  <2> HIDE DEF all, least
  <2>3. s.written \o events[least(s.left)] \in Seq(all)
    BY <2>1, <2>2
  <2> QED
    BY <2>1, <2>3
<1>4. ASSUME NEW s \in I \ Halt
      PROVE  /\ Step[s] \in I /\ M[Step[s]] < M[s]
  <2> DEFINE id == least(s.left)
  <2>1. /\ id \in s.left /\ s.left \in SUBSET ids /\ id \in ids
        /\ Next1(s) \in D /\ Step[s] = Next1(s)
    BY <1>3
  <2>2. /\ Distinct(s.written) /\ ToSet(s.written) = of(ids \ s.left)
        /\ Distinct(events[id])
    BY <2>1
  <2> HIDE DEF least
  <2>3. ToSet(s.written) \cap ToSet(events[id]) = {}
    BY <2>1, <2>2
  <2>4. /\ Distinct(s.written \o events[id])
        /\ ToSet(s.written \o events[id]) = ToSet(s.written) \union ToSet(events[id])
    <3> HIDE DEF id
    <3> QED
      BY <2>2, <2>3, Joins, JoinsDistinct DEF Distinct
  <2>5. of(ids \ (s.left \ {id})) = of(ids \ s.left) \union ToSet(events[id])
    BY <2>1
  <2>6. Next1(s).written = s.written \o events[id] /\ Next1(s).left = s.left \ {id}
    OBVIOUS
  <2>7. Next1(s) \in I
    <3> HIDE DEF of, id, D, Next1
    <3> QED
      BY <2>1, <2>2, <2>4, <2>5, <2>6
  <2>8. Cardinality(s.left \ {id}) < Cardinality(s.left)
    <3>1. IsFiniteSet(s.left)
      BY <2>1, FS_Subset
    <3> HIDE DEF id
    <3>2. Cardinality(s.left \ {id}) = Cardinality(s.left) - 1 /\ Cardinality(s.left) \in Nat
      BY <2>1, <3>1, FS_RemoveElement, FS_CardinalityType
    <3> QED
      BY <3>2
  <2>9. M[s] = Cardinality(s.left) /\ M[Next1(s)] = Cardinality(s.left \ {id})
    BY <2>1, <2>6
  <2> HIDE DEF I, M, Next1, id
  <2> QED
    BY <2>1, <2>7, <2>8, <2>9
<1>5. \A s \in I : M[s] \in Nat
  <2> TAKE s \in I
  <2>1. IsFiniteSet(s.left) /\ M[s] = Cardinality(s.left)
    BY FS_Subset
  <2> QED
    BY <2>1, FS_CardinalityType
<1>6. IsLoop(F, D, Halt, Step, Result)
  <2>1. \A f : f = [s \in D |-> body(f, s)] <=> IsLoop(f, D, Halt, Step, Result)
    <3> TAKE f
    <3>1. ASSUME NEW s \in D
          PROVE  body(f, s) = (IF s \in Halt THEN Result[s] ELSE f[Step[s]])
      OBVIOUS
    <3> HIDE DEF Halt, Result, Step, body, D
    <3> QED
      BY <3>1 DEF IsLoop
  <2>2. \A s \in D \ Halt : Step[s] \in D
    BY <1>3
  <2>3. \E f : IsLoop(f, D, Halt, Step, Result)
    <3> HIDE DEF D, Halt, Step, Result
    <3> QED
      BY <2>2, LoopExists
  <2> HIDE DEF D, Halt, Step, Result, body
  <2>4. F = [s \in D |-> body(F, s)]
    BY <2>1, <2>3
  <2> HIDE DEF F
  <2> QED
    BY <2>1, <2>4
<1>7. first \in I
  <2>1. <<>> \in Seq(all) /\ Distinct(<<>>) /\ ToSet(<<>>) = {}
    <3> HIDE DEF all
    <3> QED
      BY NoneInList
  <2>2. of(ids \ ids) = {}
    OBVIOUS
  <2> HIDE DEF of
  <2> QED
    BY <2>1, <2>2
<1>8. EventsOf(events) = F[first]
  BY DEF EventsOf
<1>9. \A s \in I \cap Halt : Result[s] \in Good
  <2> TAKE s \in I \cap Halt
  <2>1. s \in D /\ s.left = {} /\ Result[s] = s.written /\ s.written \in Seq(all)
    OBVIOUS
  <2>2. Distinct(s.written) /\ ToSet(s.written) = of(ids \ s.left)
    OBVIOUS
  <2>3. ids \ s.left = ids
    BY <2>1
  <2> HIDE DEF I, Halt, Result, D, of
  <2> QED
    BY <2>1, <2>2, <2>3
<1>10. I \subseteq D
  OBVIOUS
<1> HIDE DEF D, Halt, Step, Result, F, M, first, I
<1>11. \A s \in I : F[s] \in Good
  <2> HIDE DEF Good
  <2>1. Descends(I, M, D, Halt, Step)
    BY <1>4, <1>5, <1>10 DEF Descends
  <2> QED
    BY <1>6, <1>9, <2>1, LoopEnds
<1> QED
  BY <1>7, <1>8, <1>11

\* A list that goes on with an element, on a condition.
LEMMA GoesOn ==
  ASSUME NEW s, Distinct(s), NEW c \in BOOLEAN, NEW e, c => e \notin ToSet(s)
  PROVE  LET t == s \o (IF c THEN <<e>> ELSE <<>>)
         IN  Distinct(t) /\ \A x : x \in ToSet(t) <=> x \in ToSet(s) \/ (c /\ x = e)
<1> DEFINE t == IF c THEN <<e>> ELSE <<>>
<1>1. Distinct(t) /\ ToSet(t) = IF c THEN {e} ELSE {}
  BY OneInList, NoneInList
<1>2. ToSet(s) \cap ToSet(t) = {}
  BY <1>1
<1> HIDE DEF t
<1>3. Distinct(s \o t) /\ ToSet(s \o t) = ToSet(s) \union ToSet(t)
  BY <1>1, <1>2, Joins, JoinsDistinct DEF Distinct
<1> QED
  BY <1>1, <1>3 DEF t

\* The events of a task, from its last snapshot to this one.
Changed(before, task) == task.status # before.status /\ task.status \in DOMAIN KindOf
Handed(before, task) ==
  /\ {task.status, before.status} = {"Assigned"}
  /\ None \notin {task.robot, before.robot} /\ task.robot # before.robot
By(before, task) == IF task.robot = None THEN before.robot ELSE task.robot

TellsOf(e, tau, id, before, task) ==
  \/ before = Unknown /\ e = Event(tau, "task_created", None, id)
  \/ Changed(before, task) /\ e = Event(tau, KindOf[task.status], By(before, task), id)
  \/ Handed(before, task) /\ e = Event(tau, "task_reassigned", By(before, task), id)

LEMMA TaskTells ==
  ASSUME NEW tau, NEW id, NEW before, NEW task
  PROVE  LET es == EventsOfTask(tau, id, before, task)
         IN  Distinct(es) /\ \A e : e \in ToSet(es) <=> TellsOf(e, tau, id, before, task)
<1> DEFINE e1 == Event(tau, "task_created", None, id)
           e2 == Event(tau, KindOf[task.status], By(before, task), id)
           e3 == Event(tau, "task_reassigned", By(before, task), id)
           c1 == before = Unknown
           c2 == Changed(before, task)
           c3 == Handed(before, task)
           s1 == <<>> \o (IF c1 THEN <<e1>> ELSE <<>>)
           s2 == s1 \o (IF c2 THEN <<e2>> ELSE <<>>)
           s3 == s2 \o (IF c3 THEN <<e3>> ELSE <<>>)
<1>1. /\ c2 => e2.kind \in {"task_assigned", "task_completed", "task_interrupted", "task_failed"}
      /\ e1.kind = "task_created" /\ e3.kind = "task_reassigned"
      /\ c1 \in BOOLEAN /\ c2 \in BOOLEAN /\ c3 \in BOOLEAN
  BY DEF Changed, Handed, KindOf, Event
<1>2. EventsOfTask(tau, id, before, task) = s3
  <2>1. (IF before = Unknown THEN <<Event(tau, "task_created", None, id)>> ELSE <<>>) = s1
    OBVIOUS
  <2> QED
    BY <2>1 DEF EventsOfTask, Changed, Handed, By
<1> HIDE DEF e1, e2, e3, c1, c2, c3
<1>3. Distinct(s1) /\ \A x : x \in ToSet(s1) <=> (c1 /\ x = e1)
  BY <1>1, NoneInList, GoesOn
<1> HIDE DEF s1
<1>4. Distinct(s2) /\ \A x : x \in ToSet(s2) <=> x \in ToSet(s1) \/ (c2 /\ x = e2)
  <2>1. c2 => e2 \notin ToSet(s1)
    BY <1>1, <1>3
  <2> QED
    BY <1>1, <1>3, <2>1, GoesOn
<1> HIDE DEF s2
<1>5. Distinct(s3) /\ \A x : x \in ToSet(s3) <=> x \in ToSet(s2) \/ (c3 /\ x = e3)
  <2>1. c3 => e3 \notin ToSet(s2)
    BY <1>1, <1>3, <1>4
  <2> QED
    BY <1>1, <1>4, <2>1, GoesOn
<1> HIDE DEF s3
<1> QED
  BY <1>2, <1>3, <1>4, <1>5 DEF e1, e2, e3, c1, c2, c3, TellsOf

\* The events of a robot: some of some kinds, each once.
RobotKinds == {"robot_blocked", "robot_replanned", "robot_started_charging",
               "robot_finished_charging", "robot_faulted", "robot_recovered",
               "robot_waiting_for_charger"}
IsOfRobot(s, tau, id, kinds) ==
  Distinct(s) /\ \A x \in ToSet(s) : \E k \in kinds : x = Event(tau, k, id, None)

LEMMA RobotGoesOn ==
  ASSUME NEW s, NEW tau, NEW id, NEW kinds, IsOfRobot(s, tau, id, kinds),
         NEW c \in BOOLEAN, NEW k, k \notin kinds
  PROVE  LET t == s \o (IF c THEN <<Event(tau, k, id, None)>> ELSE <<>>)
         IN  IsOfRobot(t, tau, id, kinds \union {k})
<1> DEFINE e == Event(tau, k, id, None)
           t == s \o (IF c THEN <<e>> ELSE <<>>)
<1>1. e \notin ToSet(s)
  BY DEF IsOfRobot, Event
<1>2. Distinct(t) /\ \A x : x \in ToSet(t) <=> x \in ToSet(s) \/ (c /\ x = e)
  <2> HIDE DEF e
  <2> QED
    BY <1>1, GoesOn DEF IsOfRobot
<1> HIDE DEF t
<1> QED
  BY <1>2 DEF IsOfRobot, t

LEMMA RobotTells ==
  ASSUME NEW tau, NEW id, NEW before, NEW robot
  PROVE  IsOfRobot(EventsOfRobot(tau, id, before, robot), tau, id, RobotKinds)
<1> DEFINE es == EventsOfRobot(tau, id, before, robot)
           changed == before.mode # robot.mode
           on(s, c, k) == s \o (IF c THEN <<Event(tau, k, id, None)>> ELSE <<>>)
           c2 == ~before.replanning /\ robot.replanning
           c3 == changed /\ robot.mode = "Charging"
           c4 == changed /\ before.mode = "Charging"
           c5 == robot.mode \in Down /\ before.mode \notin Down
           c6 == before.mode \in Down /\ robot.mode \notin Down
           c7 == changed /\ robot.mode = "Waiting for charger"
           s1 == <<Event(tau, "robot_blocked", id, None)>>
           s2 == on(s1, c2, "robot_replanned")
           s3 == on(s2, c3, "robot_started_charging")
           s4 == on(s3, c4, "robot_finished_charging")
           s5 == on(s4, c5, "robot_faulted")
           s6 == on(s5, c6, "robot_recovered")
           s7 == on(s6, c7, "robot_waiting_for_charger")
           k1 == {"robot_blocked"}
           k2 == k1 \union {"robot_replanned"}
           k3 == k2 \union {"robot_started_charging"}
           k4 == k3 \union {"robot_finished_charging"}
           k5 == k4 \union {"robot_faulted"}
           k6 == k5 \union {"robot_recovered"}
           k7 == k6 \union {"robot_waiting_for_charger"}
<1>1. CASE ~StartsBlock(before, robot)
  <2>1. es = <<>>
    BY <1>1 DEF EventsOfRobot
  <2> QED
    BY <1>1, <2>1, NoneInList DEF IsOfRobot
<1>2. CASE StartsBlock(before, robot)
  <2>1. es = s7
    BY <1>2 DEF EventsOfRobot
  <2>2. IsOfRobot(s1, tau, id, k1)
    BY OneInList DEF IsOfRobot
  <2>3. c2 \in BOOLEAN /\ c3 \in BOOLEAN /\ c4 \in BOOLEAN /\ c5 \in BOOLEAN
        /\ c6 \in BOOLEAN /\ c7 \in BOOLEAN
    OBVIOUS
  <2>4. /\ "robot_replanned" \notin k1 /\ "robot_started_charging" \notin k2
        /\ "robot_finished_charging" \notin k3 /\ "robot_faulted" \notin k4
        /\ "robot_recovered" \notin k5 /\ "robot_waiting_for_charger" \notin k6
        /\ k7 = RobotKinds
    BY DEF RobotKinds
  <2> HIDE DEF c2, c3, c4, c5, c6, c7, s1, k1, es
  <2>5. IsOfRobot(s2, tau, id, k2)
    BY <2>2, <2>3, <2>4, RobotGoesOn
  <2> HIDE DEF s2, k2
  <2>6. IsOfRobot(s3, tau, id, k3)
    BY <2>3, <2>4, <2>5, RobotGoesOn
  <2> HIDE DEF s3, k3
  <2>7. IsOfRobot(s4, tau, id, k4)
    BY <2>3, <2>4, <2>6, RobotGoesOn
  <2> HIDE DEF s4, k4
  <2>8. IsOfRobot(s5, tau, id, k5)
    BY <2>3, <2>4, <2>7, RobotGoesOn
  <2> HIDE DEF s5, k5
  <2>9. IsOfRobot(s6, tau, id, k6)
    BY <2>3, <2>4, <2>8, RobotGoesOn
  <2> HIDE DEF s6, k6
  <2>10. IsOfRobot(s7, tau, id, k7)
    BY <2>3, <2>4, <2>9, RobotGoesOn
  <2> HIDE DEF s7, k7
  <2>11. IsOfRobot(es, tau, id, RobotKinds)
    BY <2>1, <2>4, <2>10
  <2> QED
    BY <2>11 DEF es
<1> QED
  BY <1>1, <1>2

\* The events of a snapshot.
LEMMA TaskEventsAre ==
  ASSUME NEW mem, NEW s, IsFiniteSet(DOMAIN s.tasks), DOMAIN s.tasks \subseteq Nat
  PROVE  /\ Distinct(TaskEvents(mem, s))
         /\ \A e : e \in ToSet(TaskEvents(mem, s)) <=>
              \E id \in DOMAIN s.tasks :
                TellsOf(e, s.tick, id, Before(mem.tasks, id), s.tasks[id])
<1> DEFINE ids == DOMAIN s.tasks
           Of(id) == EventsOfTask(s.tick, id, Before(mem.tasks, id), s.tasks[id])
           Has(e, id) == TellsOf(e, s.tick, id, Before(mem.tasks, id), s.tasks[id])
           events == [id \in ids |-> Of(id)]
<1>1. ASSUME NEW id \in ids
      PROVE  Distinct(Of(id)) /\ \A e : e \in ToSet(Of(id)) <=> Has(e, id)
  <2> DEFINE before == Before(mem.tasks, id)
             task == s.tasks[id]
             tau == s.tick
  <2> HIDE DEF before, task, tau
  <2>1. LET es == EventsOfTask(tau, id, before, task)
        IN  Distinct(es) /\ \A e : e \in ToSet(es) <=> TellsOf(e, tau, id, before, task)
    BY TaskTells
  <2> QED
    BY <2>1 DEF before, task, tau
<1>2. \A id \in ids : \A e : Has(e, id) => e.task = id
  BY DEF TellsOf, Event
<1> HIDE DEF Of, Has
<1>3. \A i, j \in ids : i # j => ToSet(Of(i)) \cap ToSet(Of(j)) = {}
  BY <1>1, <1>2
<1>4. TaskEvents(mem, s) = EventsOf(events)
  BY DEF TaskEvents, Of
<1>5. DOMAIN events = ids /\ \A id \in ids : events[id] = Of(id)
  OBVIOUS
<1> HIDE DEF events
<1>6. /\ Distinct(EventsOf(events))
      /\ ToSet(EventsOf(events)) = UNION {ToSet(events[id]) : id \in ids}
  BY <1>1, <1>3, <1>5, EventsWritten
<1> QED
  BY <1>1, <1>4, <1>5, <1>6 DEF Has

LEMMA RobotEventsAre ==
  ASSUME NEW mem, NEW s, IsFiniteSet(DOMAIN s.robots), DOMAIN s.robots \subseteq Nat
  PROVE  /\ Distinct(RobotEvents(mem, s))
         /\ \A e \in ToSet(RobotEvents(mem, s)) :
              \E id \in DOMAIN s.robots, k \in RobotKinds : e = Event(s.tick, k, id, None)
<1> DEFINE ids == DOMAIN s.robots
           Of(id) == IF id \in DOMAIN mem.robots
                     THEN EventsOfRobot(s.tick, id, mem.robots[id], s.robots[id]) ELSE <<>>
           events == [id \in ids |-> Of(id)]
<1>1. ASSUME NEW id \in ids
      PROVE  /\ Distinct(Of(id))
             /\ \A x \in ToSet(Of(id)) : \E k \in RobotKinds : x = Event(s.tick, k, id, None)
  <2>1. CASE id \in DOMAIN mem.robots
    <3> DEFINE before == mem.robots[id]
               robot == s.robots[id]
               tau == s.tick
    <3> HIDE DEF before, robot, tau
    <3>1. IsOfRobot(EventsOfRobot(tau, id, before, robot), tau, id, RobotKinds)
      BY RobotTells
    <3> QED
      BY <2>1, <3>1 DEF before, robot, tau, IsOfRobot
  <2>2. CASE id \notin DOMAIN mem.robots
    BY <2>2, NoneInList
  <2> QED
    BY <2>1, <2>2
<1>2. \A k, id : Event(s.tick, k, id, None).robot = id
  BY DEF Event
<1> HIDE DEF Of
<1>3. \A i, j \in ids : i # j => ToSet(Of(i)) \cap ToSet(Of(j)) = {}
  <2> SUFFICES ASSUME NEW i \in ids, NEW j \in ids, NEW x,
                      x \in ToSet(Of(i)), x \in ToSet(Of(j))
               PROVE  i = j
    OBVIOUS
  <2>1. x.robot = i /\ x.robot = j
    BY <1>1, <1>2
  <2> QED
    BY <2>1
<1>4. RobotEvents(mem, s) = EventsOf(events)
  BY DEF RobotEvents, Of
<1>5. DOMAIN events = ids /\ \A id \in ids : events[id] = Of(id)
  OBVIOUS
<1> HIDE DEF events
<1>6. /\ Distinct(EventsOf(events))
      /\ ToSet(EventsOf(events)) = UNION {ToSet(events[id]) : id \in ids}
  BY <1>1, <1>3, <1>5, EventsWritten
<1>7. \A e : e \in ToSet(EventsOf(events)) <=> \E id \in ids : e \in ToSet(Of(id))
  BY <1>5, <1>6
<1> QED
  BY <1>1, <1>4, <1>6, <1>7

TaskKinds == {"task_created", "task_assigned", "task_completed", "task_interrupted",
              "task_failed", "task_reassigned"}

LEMMA KindsAre ==
  /\ DOMAIN KindOf = {"Assigned", "Completed", "Interrupted", "Failed"}
  /\ KindOf["Assigned"] = "task_assigned" /\ KindOf["Completed"] = "task_completed"
  /\ KindOf["Interrupted"] = "task_interrupted" /\ KindOf["Failed"] = "task_failed"
  /\ TaskKinds \cap RobotKinds = {}
BY DEF KindOf, TaskKinds, RobotKinds

LEMMA TellsOfKind ==
  ASSUME NEW e, NEW tau, NEW id, NEW before, NEW task, TellsOf(e, tau, id, before, task)
  PROVE  e.kind \in TaskKinds /\ e.task = id /\ e.tick = tau
BY KindsAre DEF TellsOf, Event, TaskKinds, Changed

\* What a set of events tells of tasks: one event of this kind for each.
Tells(L, kind, S) ==
  /\ \A e \in L : e.kind = kind => e.task \in S
  /\ \A t \in S : \E e \in L : e.kind = kind /\ e.task = t
  /\ \A e, f \in L : e.kind = kind /\ f.kind = kind /\ e.task = f.task => e = f

\* The tasks that have come to a status since the last snapshot.
Newly(mem, s, status) ==
  {id \in DOMAIN s.tasks : s.tasks[id].status = status /\ Before(mem.tasks, id).status # status}
FirstSeen(mem, s) == {id \in DOMAIN s.tasks : Before(mem.tasks, id) = Unknown}

\* The events of a snapshot: of this tick, of its tasks or of its robots.
EventsTell(N, mem, s) ==
  /\ \A e \in N : /\ e.tick = s.tick
                  /\ \/ e.kind \in TaskKinds /\ e.task \in DOMAIN s.tasks
                     \/ e.kind \in RobotKinds /\ e.task = None
  /\ \A e : e.kind \in TaskKinds => (e \in N <=>
       \E id \in DOMAIN s.tasks :
         TellsOf(e, s.tick, id, Before(mem.tasks, id), s.tasks[id]))

LEMMA EventsAre ==
  ASSUME NEW mem, NEW s, IsFiniteSet(DOMAIN s.tasks), DOMAIN s.tasks \subseteq Nat,
         IsFiniteSet(DOMAIN s.robots), DOMAIN s.robots \subseteq Nat
  PROVE  Distinct(Events(mem, s)) /\ EventsTell(ToSet(Events(mem, s)), mem, s)
<1> DEFINE T == ToSet(TaskEvents(mem, s))
           R == ToSet(RobotEvents(mem, s))
           N == ToSet(Events(mem, s))
           Has(e) == \E id \in DOMAIN s.tasks :
                       TellsOf(e, s.tick, id, Before(mem.tasks, id), s.tasks[id])
<1>1. /\ Distinct(TaskEvents(mem, s)) /\ Distinct(RobotEvents(mem, s))
      /\ \A e : e \in T <=> Has(e)
      /\ \A e \in R : \E id \in DOMAIN s.robots, k \in RobotKinds :
                        e = Event(s.tick, k, id, None)
  BY TaskEventsAre, RobotEventsAre
<1>2. \A e \in T : e.kind \in TaskKinds /\ e.task \in DOMAIN s.tasks /\ e.tick = s.tick
  BY <1>1, TellsOfKind
<1>3. \A e \in R : e.kind \in RobotKinds /\ e.task = None /\ e.tick = s.tick
  BY <1>1 DEF Event
<1>4. T \cap R = {}
  BY <1>2, <1>3, KindsAre
<1>5. Distinct(Events(mem, s)) /\ N = T \union R
  BY <1>1, <1>4, Joins, JoinsDistinct DEF Events, Distinct
<1> HIDE DEF T, R, N, Has
<1>6. \A e : e.kind \in TaskKinds => (e \in N <=> Has(e))
  BY <1>1, <1>3, <1>5, KindsAre
<1>7. \A e \in N : /\ e.tick = s.tick
                   /\ \/ e.kind \in TaskKinds /\ e.task \in DOMAIN s.tasks
                      \/ e.kind \in RobotKinds /\ e.task = None
  BY <1>2, <1>3, <1>5, KindsAre
<1>8. EventsTell(N, mem, s)
  BY <1>6, <1>7 DEF EventsTell, Has
<1> QED
  BY <1>5, <1>8 DEF N

LEMMA SnapshotTells ==
  ASSUME NEW mem, NEW s, NEW N, EventsTell(N, mem, s)
  PROVE  /\ Tells(N, "task_created", FirstSeen(mem, s))
         /\ Tells(N, "task_assigned", Newly(mem, s, "Assigned"))
         /\ Tells(N, "task_completed", Newly(mem, s, "Completed"))
         /\ Tells(N, "task_interrupted", Newly(mem, s, "Interrupted"))
<1> DEFINE Has(e, id) == TellsOf(e, s.tick, id, Before(mem.tasks, id), s.tasks[id])
<1>1. \A e : e.kind \in TaskKinds => (e \in N <=> \E id \in DOMAIN s.tasks : Has(e, id))
  BY DEF EventsTell
<1>2. \A e, id : Has(e, id) => e.task = id
  BY TellsOfKind
<1>3. Tells(N, "task_created", FirstSeen(mem, s))
  <2>1. \A e, id : Has(e, id) /\ e.kind = "task_created" =>
          /\ Before(mem.tasks, id) = Unknown
          /\ e = Event(s.tick, "task_created", None, id)
    BY KindsAre DEF TellsOf, Event, Changed
  <2>2. ASSUME NEW id \in FirstSeen(mem, s)
        PROVE  \E e \in N : e.kind = "task_created" /\ e.task = id
    <3> DEFINE e == Event(s.tick, "task_created", None, id)
    <3>1. Has(e, id)
      BY DEF TellsOf, FirstSeen
    <3>2. e.kind = "task_created" /\ e.kind \in TaskKinds /\ e.task = id
      BY DEF Event, TaskKinds
    <3> QED
      BY <1>1, <3>1, <3>2 DEF FirstSeen
  <2>3. "task_created" \in TaskKinds
    BY DEF TaskKinds
  <2> HIDE DEF Has
  <2>4. \A e \in N : e.kind = "task_created" =>
          /\ e.task \in FirstSeen(mem, s)
          /\ e = Event(s.tick, "task_created", None, e.task)
    BY <1>1, <1>2, <2>1, <2>3 DEF FirstSeen
  <2> QED
    BY <2>2, <2>4 DEF Tells
<1>4. ASSUME NEW status \in DOMAIN KindOf
      PROVE  Tells(N, KindOf[status], Newly(mem, s, status))
  <2> DEFINE kind == KindOf[status]
             event(id) == Event(s.tick, kind, By(Before(mem.tasks, id), s.tasks[id]), id)
  <2>1. kind \in TaskKinds /\ kind \notin {"task_created", "task_reassigned"}
        /\ \A x \in DOMAIN KindOf : KindOf[x] = kind => x = status
    BY KindsAre DEF TaskKinds
  <2>2. \A e, id : Has(e, id) /\ e.kind = kind =>
          /\ s.tasks[id].status = status /\ Before(mem.tasks, id).status # status
          /\ e = event(id)
    <3> HIDE DEF kind
    <3> QED
      BY <2>1 DEF TellsOf, Event, Changed
  <2>3. ASSUME NEW id \in Newly(mem, s, status)
        PROVE  \E e \in N : e.kind = kind /\ e.task = id
    <3>1. Has(event(id), id) /\ id \in DOMAIN s.tasks
      BY DEF TellsOf, Newly, Changed
    <3>2. event(id).kind = kind /\ event(id).task = id
      BY DEF Event
    <3> HIDE DEF Has, kind, event
    <3> QED
      BY <1>1, <2>1, <3>1, <3>2
  <2> HIDE DEF Has, kind, event
  <2>4. \A e \in N : e.kind = kind => e.task \in Newly(mem, s, status) /\ e = event(e.task)
    BY <1>1, <1>2, <2>1, <2>2 DEF Newly
  <2>5. Tells(N, kind, Newly(mem, s, status))
    BY <2>3, <2>4 DEF Tells
  <2> QED
    BY <2>5 DEF kind
<1> QED
  BY <1>3, <1>4, KindsAre

\* More events tell of more tasks.
LEMMA TellsMore ==
  ASSUME NEW L, NEW N, NEW kind, NEW S, NEW T,
         Tells(L, kind, S), Tells(N, kind, T), S \cap T = {}
  PROVE  Tells(L \union N, kind, S \union T)
BY DEF Tells

\* There are as many events as tasks they tell of.
LEMMA TellsCount ==
  ASSUME NEW L, NEW kind, NEW S, Tells(L, kind, S), IsFiniteSet(L)
  PROVE  IsFiniteSet(S) /\ Cardinality({e \in L : e.kind = kind}) = Cardinality(S)
<1> DEFINE P == {e \in L : e.kind = kind}
           f == [e \in P |-> e.task]
<1>1. f \in Bijection(P, S)
  <2>1. f \in [P -> S]
    BY DEF Tells
  <2>2. \A d, e \in P : f[d] = f[e] => d = e
    BY DEF Tells
  <2>3. \A t \in S : \E e \in P : f[e] = t
    BY DEF Tells
  <2> HIDE DEF f, P
  <2> QED
    BY <2>1, <2>2, <2>3 DEF Bijection, Injection, Surjection, IsInjective
<1>2. ExistsBijection(P, S)
  BY <1>1 DEF ExistsBijection
<1>3. IsFiniteSet(P)
  BY FS_Subset
<1> HIDE DEF P, f
<1> QED
  BY <1>2, <1>3, FS_Bijection DEF P

-----------------------------------------------------------------------------
(* What handlers do to the life of a task.                                 *)

\* A world in which nothing has happened yet.
Dormant(w) == DOMAIN w.tasks = {} /\ \A r \in Robots : w.robots[r].blocked = 0

\* u is w, some handlers later: a task keeps the tick of its creation and, once
\* it is completed, that of its end; the tasks of X alone are interrupted.
Lives(w, u, X) ==
  /\ u.tick = w.tick /\ DOMAIN u.tasks = DOMAIN w.tasks
  /\ \A t \in DOMAIN w.tasks :
       /\ u.tasks[t].created = w.tasks[t].created
       /\ w.tasks[t].status = "Completed" =>
            u.tasks[t].status = "Completed" /\ u.tasks[t].done = w.tasks[t].done
       /\ u.tasks[t].status = "Completed" =>
            w.tasks[t].status = "Completed" \/ u.tasks[t].done = w.tick
       /\ u.tasks[t].status = "Interrupted" => w.tasks[t].status = "Interrupted" \/ t \in X
  /\ u.counts.interrupted = w.counts.interrupted + Cardinality(X)

LEMMA LivesRefl ==
  ASSUME NEW w, w.counts.interrupted \in Nat
  PROVE  Lives(w, w, {})
<1>1. Cardinality({}) = 0
  BY FS_EmptySet
<1> QED
  BY <1>1 DEF Lives

LEMMA LivesOn ==
  ASSUME NEW u, NEW v, NEW w, Lives(w, u, {}), Lives(u, v, {}), w.counts.interrupted \in Nat
  PROVE  Lives(w, v, {})
<1>1. Cardinality({}) = 0
  BY FS_EmptySet
<1>2. v.counts.interrupted = w.counts.interrupted + Cardinality({})
  BY <1>1 DEF Lives
<1> QED
  BY <1>2 DEF Lives

\* One handler gives a task a new record, or leaves all alone.
LEMMA WithLives ==
  ASSUME NEW w, NEW r, NEW robot, NEW t \in DOMAIN w.tasks, NEW task, NEW tally,
         task.created = w.tasks[t].created, w.tasks[t].status # "Completed",
         task.status = "Completed" => task.done = w.tick,
         NEW X, task.status = "Interrupted" => w.tasks[t].status = "Interrupted" \/ t \in X,
         tally.interrupted = w.counts.interrupted + Cardinality(X)
  PROVE  Lives(w, With(w, r, robot, t, task, tally), X)
<1> DEFINE u == With(w, r, robot, t, task, tally)
<1>1. /\ u.tick = w.tick /\ u.counts = tally /\ DOMAIN u.tasks = DOMAIN w.tasks
      /\ \A x \in DOMAIN w.tasks : u.tasks[x] = IF x = t THEN task ELSE w.tasks[x]
  BY DEF With
<1> HIDE DEF u
<1>2. Lives(w, u, X)
  BY <1>1 DEF Lives
<1> QED
  BY <1>2 DEF u

LEMMA RobotLives ==
  ASSUME NEW w, NEW r, NEW robot, NEW tally,
         w.counts.interrupted \in Nat, tally.interrupted = w.counts.interrupted
  PROVE  Lives(w, WithRobot(w, r, robot, tally), {})
<1> DEFINE u == WithRobot(w, r, robot, tally)
<1>1. u.tick = w.tick /\ u.counts = tally /\ u.tasks = w.tasks
  BY DEF WithRobot
<1>2. Cardinality({}) = 0
  BY FS_EmptySet
<1> HIDE DEF u
<1>3. Lives(w, u, {})
  BY <1>1, <1>2 DEF Lives
<1> QED
  BY <1>3 DEF u

LEMMA RouteToLives ==
  ASSUME NEW w, NEW r, NEW goal, w.counts.interrupted \in Nat
  PROVE  Lives(w, RouteTo(w, r, goal), {})
BY RobotLives DEF RouteTo

LEMMA CompleteLives ==
  ASSUME NEW ids, NEW issued, NEW w, Sound(ids, issued, w), NEW r \in Robots,
         w.robots[r].task # None
  PROVE  Lives(w, Complete(w, r), {})
<1> DEFINE t == w.robots[r].task
           robot == [w.robots[r] EXCEPT !.task = None, !.mode = "Idle", !.memo = None,
                                        !.blocked = 0, !.route = <<>>]
           task == [w.tasks[t] EXCEPT !.status = "Completed", !.done = w.tick]
           tally == [w.counts EXCEPT !.completed = @ + 1,
                                     !.cycle     = @ + w.tick - w.tasks[t].created]
<1>1. /\ t \in DOMAIN w.tasks /\ w.tasks[t] \in TaskType /\ w.tasks[t].status = "Assigned"
      /\ w.counts \in CountsType(issued) /\ w.counts.interrupted \in Nat
  BY SoundFacts DEF Worlds
<1>2. Complete(w, r) = With(w, r, robot, t, task, tally)
  BY DEF Complete
<1> HIDE DEF t
<1>3. task.created = w.tasks[t].created /\ task.status = "Completed" /\ task.done = w.tick
  BY <1>1 DEF TaskType
<1>4. tally.interrupted = w.counts.interrupted + Cardinality({})
  <2>1. tally.interrupted = w.counts.interrupted
    BY <1>1 DEF CountsType
  <2>2. Cardinality({}) = 0
    BY FS_EmptySet
  <2> QED
    BY <1>1, <2>1, <2>2
<1> HIDE DEF task, tally, robot
<1> QED
  BY <1>1, <1>2, <1>3, <1>4, WithLives

LEMMA LoadLives ==
  ASSUME NEW ids, NEW issued, NEW w, Sound(ids, issued, w), NEW r \in Robots,
         w.robots[r].task # None
  PROVE  Lives(w, Load(w, r), {})
<1> DEFINE t == w.robots[r].task
           robot == [w.robots[r] EXCEPT !.blocked = 0]
           task == [w.tasks[t] EXCEPT !.leg = "dropoff", !.load = "Carried"]
<1>1. /\ t \in DOMAIN w.tasks /\ w.tasks[t] \in TaskType /\ w.tasks[t].status = "Assigned"
      /\ w.counts.interrupted \in Nat
  BY SoundFacts DEF Worlds
<1>2. Load(w, r) = With(w, r, robot, t, task, w.counts)
  BY DEF Load
<1> HIDE DEF t
<1>3. task.created = w.tasks[t].created /\ task.status = "Assigned"
  BY <1>1 DEF TaskType
<1>4. w.counts.interrupted = w.counts.interrupted + Cardinality({})
  <2>1. Cardinality({}) = 0
    BY FS_EmptySet
  <2> QED
    BY <1>1, <2>1
<1> HIDE DEF task, robot
<1> QED
  BY <1>1, <1>2, <1>3, <1>4, WithLives

LEMMA TakeLives ==
  ASSUME NEW ids, NEW issued, NEW w, Sound(ids, issued, w), NEW r \in Robots,
         NEW t \in ids, Waiting(w.tasks[t])
  PROVE  Lives(w, Take(w, r, t), {})
<1> DEFINE before == w.tasks[t]
           changes == before.interruptions > 0 /\ before.last \notin {None, r}
           robot == [w.robots[r] EXCEPT !.task = t, !.mode = "Moving", !.blocked = 0,
                                        !.memo = None]
           task == [before EXCEPT !.status = "Assigned", !.robot = r, !.leg = "pickup",
                                  !.last = r]
           tally == [w.counts EXCEPT !.assigned   = @ + 1,
                                     !.waiting    = @ + w.tick - before.created,
                                     !.reassigned = @ + IF changes THEN 1 ELSE 0]
<1>1. /\ w \in Worlds(ids, issued) /\ w.counts \in CountsType(issued)
      /\ w.counts.interrupted \in Nat
  BY SoundFacts
<1>2. t \in DOMAIN w.tasks /\ before \in TaskType /\ before.status # "Completed"
  BY <1>1, TypesOf DEF Worlds, Waiting
<1>3. Take(w, r, t) = With(w, r, robot, t, task, tally)
  BY DEF Take
<1>4. task.created = before.created /\ task.status = "Assigned"
  <2> HIDE DEF before
  <2> QED
    BY <1>2 DEF TaskType
<1>5. tally.interrupted = w.counts.interrupted + Cardinality({})
  <2>1. tally.interrupted = w.counts.interrupted
    <3> HIDE DEF before, changes
    <3> QED
      BY <1>1 DEF CountsType
  <2>2. Cardinality({}) = 0
    BY FS_EmptySet
  <2> HIDE DEF tally
  <2> QED
    BY <1>1, <2>1, <2>2
<1> HIDE DEF task, tally, robot
<1> QED
  BY <1>2, <1>3, <1>4, <1>5, WithLives

LEMMA ArriveLives ==
  ASSUME Connected, NEW ids, NEW issued, Numbers(ids), NEW w, Sound(ids, issued, w),
         NEW r \in Robots, w.robots[r].task # None
  PROVE  Lives(w, ArriveIfThere(w, r), {})
<1> DEFINE task == w.tasks[w.robots[r].task]
           load == Load(w, r)
           sent == RouteTo(load, r, task.dropoff)
<1>1. task.dropoff \in Open /\ w.counts.interrupted \in Nat
  <2>1. task \in TaskType /\ w.counts.interrupted \in Nat
    BY SoundFacts
  <2> QED
    BY <2>1 DEF TaskType
<1>2. /\ Sound(ids, issued, load) /\ load.robots[r].task = w.robots[r].task
      /\ Lives(w, load, {})
  BY LoadSound, LoadLives
<1>3. load.counts.interrupted \in Nat
  BY <1>2, SoundFacts
<1> HIDE DEF load
<1>4. /\ Sound(ids, issued, sent) /\ sent.robots[r].task # None /\ Lives(load, sent, {})
  BY <1>1, <1>2, <1>3, RouteToSound, RouteToLives
<1>5. sent.counts.interrupted \in Nat
  BY <1>4, SoundFacts
<1> HIDE DEF sent
<1>6. /\ Lives(w, Complete(w, r), {}) /\ Lives(sent, Complete(sent, r), {})
      /\ Lives(w, w, {})
  BY <1>1, <1>4, CompleteLives, LivesRefl
<1>7. Lives(w, sent, {}) /\ Lives(w, Complete(sent, r), {})
  BY <1>1, <1>2, <1>4, <1>6, LivesOn
<1>8. Arrive(w, r) =
        IF task.leg = "dropoff" THEN Complete(w, r) ELSE CompleteIfThere(sent, r)
  BY DEF Arrive, sent, load
<1> HIDE DEF task
<1> QED
  BY <1>6, <1>7, <1>8 DEF CompleteIfThere, ArriveIfThere

LEMMA BeginLives ==
  ASSUME Connected, NEW ids, NEW issued, Numbers(ids), NEW w, Sound(ids, issued, w),
         NEW r \in Robots,
         NEW t \in ids, w.robots[r].task = None, Waiting(w.tasks[t])
  PROVE  Lives(w, BeginTask(w, r, t), {})
<1> DEFINE taken == Take(w, r, t)
           sent == RouteTo(taken, r, w.tasks[t].pickup)
<1>1. w.tasks[t].pickup \in Open
  <2>1. w.tasks[t] \in TaskType
    BY TypesOf DEF Sound
  <2> QED
    BY <2>1 DEF TaskType
<1>2. Sound(ids, issued, taken) /\ taken.robots[r].task # None /\ Lives(w, taken, {})
  BY TakeSound, TakeLives
<1>3. w.counts.interrupted \in Nat /\ taken.counts.interrupted \in Nat
  BY <1>2, SoundFacts
<1> HIDE DEF taken
<1>4. Sound(ids, issued, sent) /\ sent.robots[r].task # None /\ Lives(taken, sent, {})
  BY <1>1, <1>2, <1>3, RouteToSound, RouteToLives
<1> HIDE DEF sent
<1>5. Lives(sent, ArriveIfThere(sent, r), {})
  BY <1>4, ArriveLives
<1>6. BeginTask(w, r, t) = ArriveIfThere(sent, r)
  BY DEF BeginTask, sent, taken
<1> QED
  BY <1>2, <1>3, <1>4, <1>5, <1>6, LivesOn

LEMMA RepairLives ==
  ASSUME Connected, NEW ids, NEW issued, Numbers(ids), NEW w, Sound(ids, issued, w),
         NEW r \in Robots
  PROVE  Lives(w, Repair(w, r), {}) /\ (Dormant(w) => Dormant(Repair(w, r)))
<1> DEFINE t == w.robots[r].memo
           up == Mended(w, r)
           mend == Mend(w, r)
<1>1. /\ DOMAIN w.tasks = ids /\ w.counts.interrupted \in Nat
      /\ w.robots \in [Robots -> RobotType]
  BY SoundFacts DEF Worlds
<1>2. Lives(w, w, {}) /\ Lives(w, mend, {}) /\ Lives(w, up, {})
  BY <1>1, LivesRefl, RobotLives DEF Mend, Mended
<1>3. ASSUME Dormant(w)
      PROVE  Dormant(mend) /\ Dormant(up)
  <2>1. /\ \A q \in Robots : /\ mend.robots[q].blocked = w.robots[q].blocked
                             /\ up.robots[q].blocked = w.robots[q].blocked
        /\ mend.tasks = w.tasks /\ up.tasks = w.tasks
    BY <1>1 DEF Mend, Mended, WithRobot, RobotType
  <2> HIDE DEF mend, up
  <2> QED
    BY <1>3, <2>1 DEF Dormant
<1>4. CASE w.robots[r].mode = "Failed"
  <2>1. Sound(ids, issued, up) /\ up.tasks = w.tasks /\ up.robots[r].task = None
    BY <1>4, MendSound
  <2>2. up.counts.interrupted \in Nat
    BY <2>1, SoundFacts
  <2> HIDE DEF up, t
  <2>3. ASSUME t \in ids, w.tasks[t].status = "Interrupted"
        PROVE  Lives(w, BeginTask(up, r, t), {})
    <3>1. Lives(up, BeginTask(up, r, t), {})
      BY <2>1, <2>3, BeginLives DEF Waiting
    <3> QED
      BY <1>1, <1>2, <3>1, LivesOn
  <2>4. Dormant(w) => t \notin ids
    BY <1>1 DEF Dormant
  <2> HIDE DEF mend
  <2>5. Repair(w, r) = IF w.robots[r].repair > 1 THEN mend
                       ELSE IF /\ t \in DOMAIN w.tasks /\ w.tasks[t].status = "Interrupted"
                               /\ FeasibleTask(up, r, t)
                       THEN BeginTask(up, r, t) ELSE up
    BY <1>4 DEF Repair, mend, up, t
  <2> QED
    BY <1>1, <1>2, <1>3, <2>3, <2>4, <2>5
<1>5. CASE w.robots[r].mode # "Failed"
  BY <1>2, <1>5 DEF Repair
<1> QED
  BY <1>4, <1>5

LEMMA TurnsLives ==
  ASSUME Connected, NEW ids, NEW issued, Numbers(ids), NEW w, Sound(ids, issued, w),
         NEW r \in Robots
  PROVE  \A v \in Turns(w, r) : Lives(w, v, {}) /\ (Dormant(w) => Dormant(v))
<1> DEFINE robot == w.robots[r]
           taken == CellsOf(w, Others(r))
           other == BFSPath(Open, robot.cell, Last(robot.route), taken)
           held == Held(w, r)
           replanned == Replanned(held, r, other)
           moved == Moved(w, r)
<1>1. /\ DOMAIN w.tasks = ids /\ w.counts \in CountsType(issued)
      /\ w.counts.interrupted \in Nat
      /\ robot.route # <<>> => robot.task \in ids
  BY SoundFacts DEF Worlds
<1>2. CASE robot.route = <<>>
  BY <1>1, <1>2, LivesRefl DEF Turns
<1>3. CASE robot.route # <<>>
  <2>1. ~Dormant(w)
    BY <1>1, <1>3 DEF Dormant
  <2>2. Lives(w, held, {}) /\ Sound(ids, issued, held)
    <3> DEFINE tally == [w.counts EXCEPT !.blocked = @ + 1]
    <3>1. tally.interrupted = w.counts.interrupted
      BY <1>1 DEF CountsType
    <3> HIDE DEF tally
    <3>2. Lives(w, WithRobot(w, r, [w.robots[r] EXCEPT !.blocked = @ + 1], tally), {})
      BY <1>1, <3>1, RobotLives
    <3> QED
      BY <3>2, HeldSound DEF Held, tally
  <2> HIDE DEF held, other
  <2>3. Lives(held, replanned, {})
    <3> DEFINE tally == [held.counts EXCEPT !.replans = @ + 1]
    <3>1. held.counts \in CountsType(issued) /\ held.counts.interrupted \in Nat
      BY <2>2, SoundFacts
    <3>2. tally.interrupted = held.counts.interrupted
      BY <3>1 DEF CountsType
    <3> HIDE DEF tally
    <3>3. Lives(held, WithRobot(held, r, [held.robots[r] EXCEPT !.route = other], tally), {})
      BY <3>1, <3>2, RobotLives
    <3> QED
      BY <3>3 DEF Replanned, tally
  <2>4. /\ Lives(w, moved, {}) /\ Sound(ids, issued, moved) /\ moved.robots[r].task # None
    BY <1>1, <1>3, RobotLives, MovedSound DEF Moved
  <2> HIDE DEF moved, replanned
  <2>5. Lives(moved, ArriveIfThere(moved, r), {})
    BY <2>4, ArriveLives
  <2>6. Lives(w, replanned, {}) /\ Lives(w, ArriveIfThere(moved, r), {})
    BY <1>1, <2>2, <2>3, <2>4, <2>5, LivesOn
  <2>7. Turns(w, r) \subseteq {held, replanned, ArriveIfThere(moved, r)}
    <3>1. Turns(w, r) \subseteq
            {Held(w, r), Replanned(Held(w, r), r, BFSPath(Open, robot.cell, Last(robot.route), taken)),
             ArriveIfThere(Moved(w, r), r)}
      BY <1>3 DEF Turns
    <3> QED
      BY <3>1 DEF held, replanned, moved, other
  <2> QED
    BY <2>1, <2>2, <2>6, <2>7
<1> QED
  BY <1>2, <1>3

\* A failure interrupts the task of its robot, if it has one.
LEMMA FailLives ==
  ASSUME NEW ids, NEW issued, Numbers(ids), NEW w, Sound(ids, issued, w), NEW r \in Robots
  PROVE  /\ Lives(w, Fail(w, r), {w.robots[r].task} \ {None})
         /\ Dormant(w) => Dormant(Fail(w, r))
<1> DEFINE t == w.robots[r].task
           X == {t} \ {None}
           stopped == IF t = None THEN w ELSE Interrupt(w, r)
           robot == [stopped.robots[r] EXCEPT !.mode = "Failed", !.route = <<>>,
                                              !.blocked = 0, !.repair = RepairTicks]
           tally == [stopped.counts EXCEPT !.failures = @ + 1]
<1>1. /\ DOMAIN w.tasks = ids /\ w.counts \in CountsType(issued)
      /\ w.counts.interrupted \in Nat /\ w.robots \in [Robots -> RobotType]
      /\ t # None => t \in ids /\ w.tasks[t] \in TaskType /\ w.tasks[t].status = "Assigned"
  BY SoundFacts DEF Worlds
<1>2. Fail(w, r) = WithRobot(stopped, r, robot, tally)
  BY DEF Fail
<1>3. CASE t = None
  <2>1. stopped = w /\ X = {}
    BY <1>3
  <2>2. tally.interrupted = w.counts.interrupted
    BY <1>1, <2>1 DEF CountsType
  <2>3. \A q \in Robots : robot.blocked = 0
    BY <1>1, <2>1 DEF RobotType
  <2> HIDE DEF tally, robot, stopped, X
  <2>4. Lives(w, WithRobot(w, r, robot, tally), {})
    BY <1>1, <2>2, RobotLives
  <2>5. Dormant(w) => Dormant(WithRobot(w, r, robot, tally))
    BY <1>1, <2>3 DEF Dormant, WithRobot
  <2> QED
    BY <1>2, <2>1, <2>4, <2>5 DEF X
<1>4. CASE t # None
  <2> DEFINE carried == w.tasks[t].leg = "dropoff" \/ w.tasks[t].load = "Carried"
             free == [w.robots[r] EXCEPT !.task = None, !.route = <<>>, !.memo = t]
             task == [w.tasks[t] EXCEPT
                        !.status = "Interrupted", !.robot = None, !.leg = "pickup",
                        !.interruptions = @ + 1, !.last = r,
                        !.load   = IF carried THEN "Staged" ELSE @,
                        !.pickup = IF carried THEN w.robots[r].cell ELSE @]
             count == [w.counts EXCEPT !.interrupted = @ + 1]
  <2>1. stopped = With(w, r, free, t, task, count) /\ X = {t}
    BY <1>4 DEF Interrupt
  <2>2. Cardinality(X) = 1
    BY <2>1, FS_Singleton
  <2>3. stopped.tasks = [w.tasks EXCEPT ![t] = task] /\ stopped.counts = count
        /\ stopped.tick = w.tick
    BY <2>1 DEF With
  <2>4. count \in CountsType(issued) /\ count.interrupted = w.counts.interrupted + Cardinality(X)
    <3> HIDE DEF X
    <3> QED
      BY <1>1, <2>2 DEF CountsType
  <2>5. tally.interrupted = w.counts.interrupted + Cardinality(X)
    <3>1. tally.interrupted = count.interrupted
      <4> HIDE DEF stopped, count
      <4> QED
        BY <2>3, <2>4 DEF CountsType
    <3> QED
      BY <2>4, <3>1
  <2>6. task.created = w.tasks[t].created /\ task.status = "Interrupted"
    <3> HIDE DEF t
    <3> QED
      BY <1>1, <1>4 DEF TaskType
  <2>7. t \in X
    BY <1>4
  <2> HIDE DEF task, count, free, X, tally, robot, stopped, t
  <2>8. Lives(w, With(w, r, free, t, task, count), X)
    BY <1>1, <1>4, <2>4, <2>6, <2>7, WithLives
  <2>9. Lives(w, WithRobot(stopped, r, robot, tally), X)
    <3> DEFINE u == WithRobot(stopped, r, robot, tally)
               v == With(w, r, free, t, task, count)
    <3>1. u.tick = v.tick /\ u.tasks = v.tasks /\ u.counts = tally
      BY <2>1 DEF WithRobot
    <3> HIDE DEF u, v
    <3>2. Lives(w, v, X)
      BY <2>8 DEF v
    <3>3. Lives(w, u, X)
      BY <2>5, <3>1, <3>2 DEF Lives
    <3> QED
      BY <3>3 DEF u
  <2>10. ~Dormant(w)
    BY <1>1, <1>4 DEF Dormant
  <2> QED
    BY <1>2, <2>9, <2>10 DEF X, t
<1> QED
  BY <1>3, <1>4

-----------------------------------------------------------------------------
(* What the books say of a trial.                                          *)

\* What the last snapshot showed of a task, and the tasks that a snapshot has
\* shown, that one has shown completed, and that the next will show interrupted.
Shown(t)  == Before(memory.tasks, t).status
Seen      == (1..Len(released)) \ (DOMAIN tasks \ DOMAIN memory.tasks)
Finished  == (1..Len(released)) \ {t \in DOMAIN tasks : Shown(t) # "Completed"}
Broken    == {t \in DOMAIN tasks : tasks[t].status = "Interrupted" /\ Shown(t) # "Interrupted"}

\* The events of a kind, and those of a task.
EventsOfKind(kind) == {e \in ToSet(log) : e.kind = kind}
EventsAbout(t, kind) == {e \in EventsOfKind(kind) : e.task = t}

\* A task that the recorder does not know was made in this tick, and one that
\* has been completed since the last snapshot was completed in it.
Remembered ==
  /\ generator.number = Len(released) + 1 /\ DOMAIN memory.tasks \subseteq DOMAIN tasks
  /\ \A t \in DOMAIN memory.tasks : memory.tasks[t].status # "none"
  /\ \A t \in DOMAIN tasks :
       /\ tasks[t].created = released[t].created
       /\ t \notin DOMAIN memory.tasks => tasks[t].created = tick
       /\ Shown(t) = "Completed" => tasks[t].status = "Completed"
       /\ tasks[t].status = "Completed" /\ Shown(t) # "Completed" => tasks[t].done = tick
  /\ tick = 0 => Dormant(World)

\* The log tells of each task that was seen, and of its end, once, and of no
\* more interruptions than were counted.
Logged ==
  /\ Distinct(log)
  /\ \A e \in ToSet(log) : e.tick \in 0..tick /\ e.task \in Seen \union {None}
  /\ Tells(ToSet(log), "task_created", Seen)
  /\ Tells(ToSet(log), "task_completed", Finished)
  /\ \A e \in EventsOfKind("task_created") : e.tick = released[e.task].created + 1
  /\ Cardinality(EventsOfKind("task_interrupted")) + Cardinality(Broken)
       <= counts.interrupted

LifeType == [created : Nat, assigned : Nat, completed : Nat, failed : Nat]

\* The collector has for each task that was seen the ticks of its events.
Gathered ==
  /\ DOMAIN collected = Seen
  /\ \A t \in Seen :
       /\ collected[t] \in LifeType
       /\ collected[t].created = released[t].created
       /\ collected[t].completed # None <=> t \in Finished
       /\ Shown(t) = "Assigned" => collected[t].assigned # None
       /\ collected[t].assigned = None => EventsAbout(t, "task_assigned") = {}
       /\ collected[t].assigned # None =>
            /\ \E e \in EventsAbout(t, "task_assigned") : e.tick = collected[t].assigned
            /\ \A e \in EventsAbout(t, "task_assigned") : collected[t].assigned <= e.tick
  /\ \A e \in EventsOfKind("task_completed") : e.tick = collected[e.task].completed + 1

\* After a tick the recorder and its last row are up to date.
Recorded == \/ phase = "repairs" /\ todo = Robots /\ tick > 0
            \/ phase \in {"target_reached", "max_ticks_reached"}
Are(status) == {t \in DOMAIN tasks : tasks[t].status = status}
UpToDate == Recorded =>
  /\ DOMAIN memory.tasks = DOMAIN tasks
  /\ \A t \in DOMAIN tasks : Shown(t) = tasks[t].status
  /\ row.outstanding = Cardinality(DOMAIN tasks) - Cardinality(Are("Completed"))
  /\ row.pending = Cardinality(Are("Pending"))
  /\ \A r \in Robots : row.robots[Bucket(robots[r])] > 0

Books == Remembered /\ Logged /\ Gathered /\ UpToDate

LEMMA BookFacts ==
  ASSUME Inv, Remembered
  PROVE  /\ Len(released) \in Nat /\ IsFiniteSet(DOMAIN tasks)
         /\ DOMAIN tasks \subseteq 1..Len(released)
         /\ counts.interrupted \in Nat /\ tick \in Nat
         /\ \A t \in DOMAIN tasks : tasks[t] \in TaskType
         /\ Finished \subseteq Seen /\ None \notin Seen
         /\ DOMAIN memory.tasks \subseteq Seen
<1>1. /\ Numbers(DOMAIN tasks) /\ \A t \in DOMAIN tasks : t < generator.number
      /\ IsList(released) /\ Sound(DOMAIN tasks, Len(released), World)
  BY DEF Inv, Orderly
<1>2. Len(released) \in Nat /\ generator.number = Len(released) + 1
  BY <1>1 DEF IsList, Remembered
<1>3. DOMAIN tasks \subseteq 1..Len(released)
  BY <1>1, <1>2 DEF Numbers
<1>4. /\ counts.interrupted \in Nat /\ tick \in Nat
      /\ \A t \in DOMAIN tasks : tasks[t] \in TaskType
  <2>1. /\ World.counts \in CountsType(Len(released)) /\ World.tick \in Nat
        /\ \A t \in DOMAIN tasks : World.tasks[t] \in TaskType
    BY <1>1, TypesOf DEF Sound
  <2> QED
    BY <2>1, WorldIs DEF CountsType
<1>5. Finished \subseteq Seen /\ DOMAIN memory.tasks \subseteq Seen
  BY <1>3 DEF Finished, Seen, Shown, Before, Unknown, Remembered
<1>6. None \notin Seen
  BY <1>2 DEF Seen, None
<1> QED
  BY <1>1, <1>2, <1>3, <1>4, <1>5, <1>6 DEF Numbers

\* Between two snapshots the books stay as they are, and true.
LEMMA SameBooks ==
  ASSUME Logged, Gathered, UNCHANGED <<tick, memory, log, collected>>,
         Seen' = Seen, Finished' = Finished,
         \A t \in Seen : released'[t] = released[t],
         Cardinality(EventsOfKind("task_interrupted")) + Cardinality(Broken')
           <= counts'.interrupted
  PROVE  Logged' /\ Gathered'
<1>1. \A kind : EventsOfKind(kind)' = EventsOfKind(kind)
  BY DEF EventsOfKind
<1>2. \A t : Shown(t)' = Shown(t)
  BY DEF Shown
<1>3. \A t, kind : EventsAbout(t, kind)' = EventsAbout(t, kind)
  BY <1>1 DEF EventsAbout
<1>4. Logged'
  <2>1. \A e \in EventsOfKind("task_created") : e.task \in Seen
    BY DEF Logged, Tells, EventsOfKind
  <2> QED
    BY <1>1, <2>1 DEF Logged
<1>5. Gathered'
  BY <1>1, <1>2, <1>3 DEF Gathered
<1> QED
  BY <1>4, <1>5

\* Handlers do not touch the books, and leave them true.
LEMMA LivesBooks ==
  ASSUME Inv, Remembered, Logged, Gathered,
         NEW u, NEW X, IsFiniteSet(X), Lives(World, u, X), Dormant(World) => Dormant(u),
         Becomes(u), UNCHANGED <<generator, tick, released, books>>
  PROVE  Remembered' /\ Logged' /\ Gathered'
<1>1. /\ IsFiniteSet(DOMAIN tasks) /\ counts.interrupted \in Nat
  BY BookFacts
<1>2. /\ tasks' = u.tasks /\ robots' = u.robots /\ counts' = u.counts
      /\ DOMAIN tasks' = DOMAIN tasks
      /\ UNCHANGED <<generator, tick, released, memory, log, row, collected>>
      /\ counts'.interrupted = counts.interrupted + Cardinality(X)
      /\ \A t \in DOMAIN tasks :
           /\ tasks'[t].created = tasks[t].created
           /\ tasks[t].status = "Completed" =>
                tasks'[t].status = "Completed" /\ tasks'[t].done = tasks[t].done
           /\ tasks'[t].status = "Completed" =>
                tasks[t].status = "Completed" \/ tasks'[t].done = tick
           /\ tasks'[t].status = "Interrupted" => tasks[t].status = "Interrupted" \/ t \in X
  BY WorldIs DEF Becomes, books, Lives
<1>3. \A t : Shown(t)' = Shown(t)
  BY <1>2 DEF Shown
<1>4. Remembered'
  <2>1. tick' = 0 => Dormant(World)'
    <3>1. tick = 0 => Dormant(u)
      BY DEF Remembered
    <3> QED
      BY <1>2, <3>1 DEF Dormant, World
  <2> QED
    BY <1>2, <1>3, <2>1 DEF Remembered
<1>5. Seen' = Seen /\ Finished' = Finished
  BY <1>2, <1>3 DEF Seen, Finished
<1>6. Broken \subseteq DOMAIN tasks /\ Broken' \subseteq Broken \union X
  BY <1>2, <1>3 DEF Broken
<1>7. Cardinality(EventsOfKind("task_interrupted")) + Cardinality(Broken')
        <= counts'.interrupted
  <2> DEFINE known == Cardinality(EventsOfKind("task_interrupted"))
  <2>1. known \in Nat
    <3>1. IsFiniteSet(ToSet(log))
      BY CountsDistinct DEF Logged
    <3> QED
      BY <3>1, FS_Subset, FS_CardinalityType DEF EventsOfKind
  <2>2. known + Cardinality(Broken) <= counts.interrupted
    BY DEF Logged
  <2>3. IsFiniteSet(Broken)
    BY <1>1, <1>6, FS_Subset
  <2>4. /\ IsFiniteSet(Broken \union X)
        /\ Cardinality(Broken \union X) <= Cardinality(Broken) + Cardinality(X)
        /\ Cardinality(Broken \union X) \in Nat /\ Cardinality(Broken) \in Nat
        /\ Cardinality(X) \in Nat
    <3>1. /\ IsFiniteSet(Broken \union X)
          /\ Cardinality(Broken \union X) =
               Cardinality(Broken) + Cardinality(X) - Cardinality(Broken \cap X)
      BY <2>3, FS_Union
    <3>2. /\ Cardinality(Broken \union X) \in Nat /\ Cardinality(Broken) \in Nat
          /\ Cardinality(X) \in Nat /\ Cardinality(Broken \cap X) \in Nat
      BY <2>3, <3>1, FS_CardinalityType, FS_Subset
    <3> QED
      BY <3>1, <3>2
  <2>5. Cardinality(Broken') <= Cardinality(Broken \union X) /\ Cardinality(Broken') \in Nat
    BY <1>6, <2>4, FS_Subset, FS_CardinalityType
  <2> HIDE DEF known
  <2>6. known + Cardinality(Broken') <= counts'.interrupted
    BY <1>1, <1>2, <2>1, <2>2, <2>4, <2>5
  <2> QED
    BY <2>6 DEF known
<1>8. Logged' /\ Gathered'
  BY <1>2, <1>5, <1>7, SameBooks
<1> QED
  BY <1>4, <1>8

\* What is recorded stays so until a robot has its turn.
LEMMA SameRow ==
  ASSUME UpToDate, UNCHANGED <<tick, tasks, robots, memory, row>>, Recorded' => Recorded
  PROVE  UpToDate'
BY DEF UpToDate, Shown, Are

LEMMA NotRecorded == ASSUME ~Recorded' PROVE UpToDate'
BY DEF UpToDate

\* A robot's turn is not the end of a tick.
LEMMA TurnNotRecorded ==
  ASSUME OnTime, NEW part \in {"repairs", "failures", "advance"}, NEW r \in Robots,
         NEW next \in Parts, next # "repairs", Turn(part, r, next)
  PROVE  ~Recorded'
<1>1. r \in todo /\ todo \subseteq Robots
  BY DEF Turn, OnTime
<1>2. CASE todo = {r}
  BY <1>2 DEF Turn, Recorded, Parts
<1>3. CASE todo # {r}
  <2>1. todo' # Robots /\ phase' = part
    BY <1>1, <1>3 DEF Turn
  <2> QED
    BY <2>1 DEF Recorded
<1> QED
  BY <1>2, <1>3

LEMMA RepairTurnBooks ==
  ASSUME Connected, Inv, Books, NEW r \in Robots, RepairTurn(r)
  PROVE  Books'
<1>1. Sound(DOMAIN tasks, Len(released), World) /\ Numbers(DOMAIN tasks)
  BY DEF Inv, Orderly
<1> DEFINE u == Repair(World, r)
<1>2. Lives(World, u, {}) /\ (Dormant(World) => Dormant(u)) /\ IsFiniteSet({})
  BY <1>1, RepairLives, FS_EmptySet
<1>3. Becomes(u) /\ UNCHANGED <<generator, tick, released, books>>
  BY DEF RepairTurn
<1> HIDE DEF u
<1>4. Remembered' /\ Logged' /\ Gathered'
  BY <1>2, <1>3, LivesBooks DEF Books
<1>5. UpToDate'
  BY TurnNotRecorded, NotRecorded DEF Inv, RepairTurn, Parts
<1> QED
  BY <1>4, <1>5 DEF Books

LEMMA FailureTurnBooks ==
  ASSUME Inv, Books, NEW r \in Robots, FailureTurn(r)
  PROVE  Books'
<1>1. Sound(DOMAIN tasks, Len(released), World) /\ Numbers(DOMAIN tasks)
  BY DEF Inv, Orderly
<1>2. UNCHANGED <<generator, tick, released, books>>
  BY DEF FailureTurn
<1>3. ASSUME Becomes(Fail(World, r))
      PROVE  Remembered' /\ Logged' /\ Gathered'
  <2> DEFINE u == Fail(World, r)
             X == {World.robots[r].task} \ {None}
  <2>1. Lives(World, u, X) /\ (Dormant(World) => Dormant(u))
    BY <1>1, FailLives
  <2>2. IsFiniteSet(X)
    <3> DEFINE t == World.robots[r].task
    <3>1. IsFiniteSet({t}) /\ X \subseteq {t}
      BY FS_Singleton
    <3> HIDE DEF t, X
    <3> QED
      BY <3>1, FS_Subset
  <2> HIDE DEF u, X
  <2> QED
    BY <1>2, <1>3, <2>1, <2>2, LivesBooks DEF Books, u
<1>4. ASSUME Becomes(World)
      PROVE  Remembered' /\ Logged' /\ Gathered'
  <2>1. World.counts.interrupted \in Nat
    BY BookFacts, WorldIs DEF Books
  <2>2. Lives(World, World, {}) /\ IsFiniteSet({})
    BY <2>1, LivesRefl, FS_EmptySet
  <2> QED
    BY <1>2, <1>4, <2>2, LivesBooks DEF Books
<1>5. Remembered' /\ Logged' /\ Gathered'
  BY <1>3, <1>4 DEF FailureTurn
<1>6. UpToDate'
  BY TurnNotRecorded, NotRecorded DEF Inv, FailureTurn, Parts
<1> QED
  BY <1>5, <1>6 DEF Books

LEMMA AdvanceTurnBooks ==
  ASSUME Connected, Inv, Books, NEW r \in Robots, AdvanceTurn(r)
  PROVE  Books'
<1>1. Sound(DOMAIN tasks, Len(released), World) /\ Numbers(DOMAIN tasks)
  BY DEF Inv, Orderly
<1>2. PICK u \in Turns(World, r) : Becomes(u)
  BY DEF AdvanceTurn
<1>3. UNCHANGED <<generator, tick, released, books>>
  BY DEF AdvanceTurn
<1>4. Lives(World, u, {}) /\ (Dormant(World) => Dormant(u)) /\ IsFiniteSet({})
  BY <1>1, TurnsLives, FS_EmptySet
<1>5. Remembered' /\ Logged' /\ Gathered'
  BY <1>2, <1>3, <1>4, LivesBooks DEF Books
<1>6. UpToDate'
  BY TurnNotRecorded, NotRecorded DEF Inv, AdvanceTurn, Parts
<1> QED
  BY <1>5, <1>6 DEF Books

LEMMA FollowBooks ==
  ASSUME Connected, Inv, Books, Follow
  PROVE  Books'
<1> DEFINE t == Head(answer)[1]
           r == Head(answer)[2]
           may == /\ t \in DOMAIN tasks /\ r \in Robots
                  /\ Waiting(tasks[t]) /\ CanAccept(robots[r])
           can == may /\ FeasibleTask(World, r, t)
           u == IF can THEN BeginTask(World, r, t) ELSE World
<1>1. /\ Becomes(u) /\ UNCHANGED <<generator, tick, released, books>>
      /\ phase' \in {"follow", "advance"}
  BY DEF Follow, Left
<1>2. Sound(DOMAIN tasks, Len(released), World) /\ Numbers(DOMAIN tasks)
  BY DEF Inv, Orderly
<1>3. World.counts.interrupted \in Nat
  BY BookFacts, WorldIs DEF Books
<1>4. Lives(World, World, {}) /\ IsFiniteSet({})
  BY <1>3, LivesRefl, FS_EmptySet
<1> HIDE DEF t, r
<1>5. may => Lives(World, BeginTask(World, r, t), {}) /\ ~Dormant(World)
  BY <1>2, BeginLives, WorldIs DEF CanAccept, Dormant
<1>6. Lives(World, u, {}) /\ (Dormant(World) => Dormant(u))
  BY <1>4, <1>5
<1> HIDE DEF u
<1>7. Remembered' /\ Logged' /\ Gathered'
  BY <1>1, <1>4, <1>6, LivesBooks DEF Books
<1>8. UpToDate'
  <2>1. ~Recorded'
    BY <1>1 DEF Recorded
  <2> QED
    BY <2>1, NotRecorded
<1> QED
  BY <1>7, <1>8 DEF Books

LEMMA QuietBooks ==
  ASSUME Inv, Books, GenerateRaises \/ Ask \/ UNCHANGED vars
  PROVE  Books'
<1>1. UNCHANGED <<generator, tasks, robots, counts, tick, released, todo, books>>
  BY DEF GenerateRaises, Ask, vars, world, loops
<1>2. World.counts.interrupted \in Nat
  BY BookFacts, WorldIs DEF Books
<1>3. Lives(World, World, {}) /\ IsFiniteSet({}) /\ Becomes(World)
  BY <1>1, <1>2, LivesRefl, FS_EmptySet, WorldIs DEF Becomes
<1>4. Remembered' /\ Logged' /\ Gathered'
  BY <1>1, <1>3, LivesBooks DEF Books
<1>5. Recorded' => Recorded
  BY <1>1 DEF GenerateRaises, Ask, Left, vars, Recorded
<1>6. UpToDate'
  BY <1>1, <1>5, SameRow DEF Books, books
<1> QED
  BY <1>4, <1>6 DEF Books

\* Fresh tasks are not in the books before the next snapshot.
LEMMA GenerateBooks ==
  ASSUME Inv, Books, Generate
  PROVE  Books'
<1> DEFINE ids == DOMAIN tasks
           D == DOMAIN memory.tasks
           n == Len(released)
           m == generator.number
<1>1. /\ plan.demand \in Demands /\ IsGenerator(plan.demand, generator) /\ Numbers(ids)
      /\ \A t \in ids : t < m
      /\ IsList(released) /\ Sound(ids, n, World)
  BY DEF Inv, Orderly
<1>2. /\ n \in Nat /\ ids \subseteq 1..n /\ counts.interrupted \in Nat /\ tick \in Nat
      /\ m = n + 1 /\ D \subseteq ids /\ IsDemand(plan.demand)
      /\ Remembered /\ Logged /\ Gathered
  BY <1>1, BookFacts, DispatchAssumption DEF Books, Remembered
<1>3. PICK step \in Steps(plan.demand, generator, tick) :
        /\ ~step.raised
        /\ generator' = step.g
        /\ Becomes(Entering(World, step.tasks))
        /\ released' = released \o step.tasks
  BY DEF Generate
<1> DEFINE made == step.tasks
           k == Len(made)
           u == Entering(World, made)
           nums == (n + 1)..(n + k)
<1>4. /\ generator'.number = m + k /\ AreMade(made, m, World.tick)
      /\ tick = 0 => made = <<>>
  <2>1. IsOutcome(plan.demand, generator, step.tasks, step.g, tick)
    BY <1>1, <1>2, <1>3, StepsTyped
  <2>2. tick = 0 => step.tasks = <<>>
    BY <1>1, <1>3, NothingAtZero
  <2> QED
    BY <1>3, <2>1, <2>2, WorldIs DEF IsOutcome
<1>5. IsList(made) /\ k \in Nat
  BY <1>4 DEF AreMade, IsList
<1>6. /\ DOMAIN u.tasks = ids \union nums /\ nums \cap ids = {}
      /\ \A t \in ids : u.tasks[t] = tasks[t]
      /\ \A t \in nums : u.tasks[t].status = "Pending" /\ u.tasks[t].created = tick
  <2>1. m \in Nat \ {0} /\ World \in Worlds(ids, n)
    BY <1>1, <1>2 DEF Sound
  <2> HIDE DEF made
  <2>2. HasAdded(ids, World, u, m, k)
    BY <1>1, <1>4, <2>1, EnteringAdds
  <2>3. m..(m + k - 1) = nums
    BY <1>2, <1>5
  <2> HIDE DEF u, k, nums, m, n
  <2> QED
    BY <2>2, <2>3, WorldIs DEF HasAdded
<1>7. /\ tasks' = u.tasks /\ robots' = robots /\ counts'.interrupted = counts.interrupted
      /\ UNCHANGED <<tick, memory, log, row, collected>>
      /\ phase' = "assign"
  <2>1. /\ tasks' = u.tasks /\ robots' = robots
        /\ counts' = [counts EXCEPT !.generated = @ + k]
    BY <1>3, WorldIs DEF Becomes, Entering
  <2>2. counts \in CountsType(n)
    BY <1>1, WorldIs DEF Sound, Worlds
  <2>3. counts'.interrupted = counts.interrupted
    BY <2>1, <2>2 DEF CountsType
  <2> QED
    BY <2>1, <2>3 DEF Generate, books
<1>8. /\ Len(released') = n + k
      /\ \A t \in 1..n : released'[t] = released[t]
      /\ \A t \in nums : released'[t].created = tick
  <2> DEFINE S == ToSet(released) \union ToSet(made)
  <2>1. released \in Seq(S) /\ made \in Seq(S)
    BY <1>1, <1>5 DEF IsList
  <2> HIDE DEF S, made
  <2>2. /\ Len(released \o made) = n + k
        /\ \A t \in 1..n : (released \o made)[t] = released[t]
        /\ \A i \in 1..k : (released \o made)[n + i] = made[i]
    BY <2>1
  <2>3. \A i \in 1..k : made[i].created = tick
    BY <1>4, WorldIs DEF AreMade, IsMade
  <2>4. ASSUME NEW t \in nums PROVE released'[t].created = tick
    <3>1. t - n \in 1..k /\ n + (t - n) = t
      BY <1>2, <1>5
    <3> HIDE DEF k
    <3> QED
      BY <1>3, <2>2, <2>3, <3>1 DEF made
  <2> QED
    BY <1>3, <2>2, <2>4 DEF made
<1>9. \A t : Shown(t)' = Shown(t)
  BY <1>7 DEF Shown
<1>10. \A t \in nums : Shown(t) = "none"
  <2> HIDE DEF nums
  <2> QED
    BY <1>2, <1>6 DEF Shown, Before, Unknown
<1>11. 1..(n + k) = (1..n) \union nums
  BY <1>2, <1>5
<1>12. (1..n) \cap nums = {}
  BY <1>2, <1>5
<1>13. tick = 0 => nums = {}
  <2>1. Len(<<>>) = 0
    OBVIOUS
  <2> QED
    BY <1>2, <1>4, <2>1
<1>14. generator'.number = Len(released') + 1
  <2> HIDE DEF k, n, m
  <2> QED
    BY <1>2, <1>4, <1>5, <1>8
<1> HIDE DEF u, made, nums, k
<1>15. DOMAIN tasks' = ids \union nums
  BY <1>6, <1>7
<1>16. Remembered'
  <2>1. tick' = 0 => Dormant(World)'
    <3>1. tick = 0 => Dormant(World)
      BY <1>2 DEF Remembered
    <3> QED
      BY <1>7, <1>13, <1>15, <3>1 DEF Dormant, World
  <2>2. ASSUME NEW t \in nums
        PROVE  /\ tasks'[t].created = released'[t].created /\ tasks'[t].created = tick
               /\ t \notin D /\ tasks'[t].status = "Pending" /\ Shown(t) = "none"
    BY <1>2, <1>6, <1>7, <1>8, <1>10
  <2>3. ASSUME NEW t \in ids
        PROVE  /\ tasks'[t] = tasks[t] /\ released'[t] = released[t]
    BY <1>2, <1>6, <1>7, <1>8
  <2> HIDE DEF m, n
  <2> QED
    BY <1>2, <1>7, <1>9, <1>14, <1>15, <2>1, <2>2, <2>3 DEF Remembered
<1>17. Seen' = Seen
  <2> HIDE DEF n
  <2>1. Seen' = (1..(n + k)) \ ((ids \union nums) \ D)
    BY <1>7, <1>8, <1>15 DEF Seen
  <2>2. Seen = (1..n) \ (ids \ D)
    BY DEF Seen, n
  <2> HIDE DEF ids, D
  <2> QED
    BY <1>2, <1>6, <1>11, <1>12, <2>1, <2>2
<1>18. Finished' = Finished
  <2> HIDE DEF n
  <2>1. Finished' = (1..(n + k)) \ {t \in ids \union nums : Shown(t) # "Completed"}
    BY <1>8, <1>9, <1>15 DEF Finished
  <2>2. Finished = (1..n) \ {t \in ids : Shown(t) # "Completed"}
    BY DEF Finished, n
  <2> HIDE DEF ids
  <2> QED
    BY <1>6, <1>10, <1>11, <1>12, <2>1, <2>2
<1>19. Broken' = Broken
  <2> HIDE DEF n, m, D
  <2> QED
    BY <1>6, <1>7, <1>9, <1>15 DEF Broken
<1>20. Logged' /\ Gathered'
  <2>1. \A t \in Seen : released'[t] = released[t]
    BY <1>8 DEF Seen
  <2>2. Cardinality(EventsOfKind("task_interrupted")) + Cardinality(Broken')
          <= counts'.interrupted
    BY <1>2, <1>7, <1>19 DEF Logged
  <2> HIDE DEF n, m, D, ids
  <2> QED
    BY <1>2, <1>7, <1>17, <1>18, <2>1, <2>2, SameBooks
<1>21. UpToDate'
  BY <1>7, NotRecorded DEF Recorded
<1> QED
  BY <1>16, <1>20, <1>21 DEF Books

-----------------------------------------------------------------------------
(* A snapshot is recorded.                                                 *)

\* A task that is dropped was seen completed.
LEMMA DroppedShown ==
  ASSUME Inv, Remembered, NEW t \in DOMAIN tasks \ Kept
  PROVE  tasks[t].status = "Completed" /\ Shown(t) = "Completed" /\ t \in DOMAIN memory.tasks
<1>1. tasks[t].status = "Completed" /\ ~(tick - tasks[t].done <= MaxAge)
  BY DEF Kept
<1>2. tick \in Nat /\ MaxAge \in Nat
  BY BookFacts, DispatchAssumption
<1>3. Shown(t) = "Completed"
  <2>1. SUFFICES ASSUME tasks[t].done = tick PROVE FALSE
    BY <1>1 DEF Remembered
  <2>2. tick - tick <= MaxAge
    BY <1>2
  <2> QED
    BY <1>1, <2>1, <2>2
<1> QED
  BY <1>1, <1>3 DEF Shown, Before, Unknown

LEMMA SnapshotIs ==
  /\ Snapshot.tick = tick + 1
  /\ DOMAIN Snapshot.tasks = Kept /\ \A t \in Kept : Snapshot.tasks[t] = tasks[t]
  /\ DOMAIN Snapshot.robots = Robots
  /\ \A r \in Robots : /\ Snapshot.robots[r].blocked = robots[r].blocked
                       /\ Snapshot.robots[r].mode = robots[r].mode
BY DEF Snapshot

\* What the recorder remembers is what the snapshot shows.
LEMMA RecordedMemory ==
  ASSUME Inv, Remembered, Record
  PROVE  /\ tasks' = [t \in Kept |-> tasks[t]] /\ tick' = tick + 1
         /\ UNCHANGED <<generator, robots, counts, released>>
         /\ DOMAIN memory'.tasks = Kept
         /\ \A t \in Kept : Shown(t)' = tasks[t].status
         /\ memory'.robots = RobotsSeen(memory, Snapshot)
<1> DEFINE s == Snapshot
           old == {t \in DOMAIN memory.tasks \ DOMAIN s.tasks :
                     memory.tasks[t].status \notin {"Completed", "Failed"}}
<1>1. /\ memory' = Remember(memory, s) /\ tasks' = s.tasks /\ tick' = s.tick
      /\ UNCHANGED <<generator, robots, counts, released>>
  BY DEF Record
<1>2. /\ s.tick = tick + 1 /\ DOMAIN s.tasks = Kept
      /\ \A t \in Kept : s.tasks[t] = tasks[t]
  BY SnapshotIs
<1>3. s.tasks = [t \in Kept |-> tasks[t]]
  BY DEF Snapshot
<1>4. memory'.tasks = [t \in old \union DOMAIN s.tasks |->
                         IF t \in old THEN memory.tasks[t]
                         ELSE [status |-> s.tasks[t].status, robot |-> s.tasks[t].robot]]
  BY <1>1 DEF Remember, TasksSeen
<1>5. memory'.robots = RobotsSeen(memory, s)
  BY <1>1 DEF Remember
<1> HIDE DEF s
<1>6. old = {}
  <2> SUFFICES ASSUME NEW t \in old PROVE FALSE
    OBVIOUS
  <2>1. t \in DOMAIN memory.tasks /\ t \in DOMAIN tasks \ Kept
    BY <1>2 DEF Remembered
  <2>2. Shown(t) = memory.tasks[t].status
    BY <2>1 DEF Shown, Before
  <2> QED
    BY <2>1, <2>2, DroppedShown
<1> HIDE DEF old
<1>7. /\ DOMAIN memory'.tasks = Kept
      /\ \A t \in Kept : memory'.tasks[t].status = tasks[t].status
  BY <1>2, <1>4, <1>6
<1>8. \A t \in Kept : Shown(t)' = tasks[t].status
  BY <1>7 DEF Shown, Before
<1> QED
  BY <1>1, <1>2, <1>3, <1>5, <1>7, <1>8 DEF s

LEMMA RecordedLog ==
  ASSUME Inv, Books, Record
  PROVE  LET N == ToSet(Events(memory, Snapshot))
         IN  /\ EventsTell(N, memory, Snapshot)
             /\ Distinct(log') /\ ToSet(log') = ToSet(log) \union N
<1> DEFINE s == Snapshot
           new == Events(memory, s)
           N == ToSet(new)
           L == ToSet(log)
<1>1. /\ IsFiniteSet(DOMAIN tasks) /\ DOMAIN tasks \subseteq Nat /\ tick \in Nat
      /\ Kept \subseteq DOMAIN tasks
  BY BookFacts DEF Books, Kept, Inv, Orderly, Numbers
<1>2. s.tick = tick + 1 /\ DOMAIN s.tasks = Kept /\ DOMAIN s.robots = Robots
  BY SnapshotIs
<1>3. IsFiniteSet(Kept) /\ Kept \subseteq Nat /\ IsFiniteSet(Robots) /\ Robots \subseteq Nat
  BY <1>1, FS_Subset, DispatchAssumption
<1>4. log' = log \o new
  BY DEF Record
<1> HIDE DEF s
<1>5. Distinct(new) /\ EventsTell(N, memory, s)
  BY <1>2, <1>3, EventsAre
<1>6. Distinct(log) /\ \A e \in L : e.tick \in 0..tick
  BY DEF Books, Logged
<1>7. L \cap N = {}
  <2>1. \A e \in N : e.tick = tick + 1
    BY <1>2, <1>5 DEF EventsTell
  <2>2. tick + 1 \notin 0..tick
    BY <1>1
  <2> HIDE DEF N, L
  <2> QED
    BY <1>6, <2>1, <2>2
<1> HIDE DEF new
<1>8. Distinct(log') /\ ToSet(log') = L \union N
  BY <1>4, <1>5, <1>6, <1>7, Joins, JoinsDistinct DEF Distinct
<1> QED
  BY <1>5, <1>8 DEF N, L, new, s

\* Who is seen and finished after the snapshot, and what of it is new.
LEMMA RecordedSets ==
  ASSUME Inv, Remembered, Record
  PROVE  /\ Seen' = 1..Len(released) /\ Broken' = {}
         /\ Finished' = (1..Len(released)) \ {t \in Kept : tasks[t].status # "Completed"}
         /\ Seen' = Seen \union FirstSeen(memory, Snapshot)
         /\ Seen \cap FirstSeen(memory, Snapshot) = {}
         /\ Finished' = Finished \union Newly(memory, Snapshot, "Completed")
         /\ Finished \cap Newly(memory, Snapshot, "Completed") = {}
         /\ Newly(memory, Snapshot, "Interrupted") = Broken
<1> DEFINE s == Snapshot
           n == Len(released)
           ids == DOMAIN tasks
           D == DOMAIN memory.tasks
<1>1. /\ tasks' = [t \in Kept |-> tasks[t]] /\ released' = released
      /\ DOMAIN memory'.tasks = Kept /\ DOMAIN tasks' = Kept
      /\ \A t \in Kept : Shown(t)' = tasks[t].status
  BY RecordedMemory
<1>2. /\ DOMAIN s.tasks = Kept /\ \A t \in Kept : s.tasks[t] = tasks[t]
  BY SnapshotIs
<1>3. ids \subseteq 1..n /\ D \subseteq ids /\ Kept \subseteq ids
  BY BookFacts DEF Remembered, Kept
<1>4. \A t \in ids \ Kept :
        tasks[t].status = "Completed" /\ Shown(t) = "Completed" /\ t \in D
  BY DroppedShown
<1>5. \A t : Shown(t) = Before(memory.tasks, t).status
  BY DEF Shown
<1>6. \A t \in ids : Before(memory.tasks, t) = Unknown <=> t \notin D
  BY DEF Before, Unknown, Remembered
<1>7. \A t \in ids : /\ Shown(t) = "Completed" => tasks[t].status = "Completed"
                     /\ t \notin D => Shown(t) = "none"
  BY <1>5, <1>6 DEF Remembered, Unknown
<1>8. FirstSeen(memory, s) = ids \ D
  <2>1. FirstSeen(memory, s) = {t \in Kept : Before(memory.tasks, t) = Unknown}
    BY <1>2 DEF FirstSeen
  <2> HIDE DEF ids, D, s
  <2> QED
    BY <1>3, <1>4, <1>6, <2>1
<1>9. /\ Newly(memory, s, "Completed") =
           {t \in Kept : tasks[t].status = "Completed" /\ Shown(t) # "Completed"}
      /\ Newly(memory, s, "Interrupted") =
           {t \in Kept : tasks[t].status = "Interrupted" /\ Shown(t) # "Interrupted"}
  BY <1>2, <1>5 DEF Newly
<1>10. Seen' = 1..n /\ Seen = (1..n) \ (ids \ D)
  BY <1>1 DEF Seen
<1>11. /\ Finished = (1..n) \ {t \in ids : Shown(t) # "Completed"}
       /\ Finished' = (1..n) \ {t \in Kept : tasks[t].status # "Completed"}
  BY <1>1 DEF Finished
<1>12. /\ Broken' = {t \in Kept : tasks[t].status = "Interrupted"
                                  /\ tasks[t].status # "Interrupted"}
       /\ Broken = {t \in ids : tasks[t].status = "Interrupted" /\ Shown(t) # "Interrupted"}
  BY <1>1 DEF Broken
<1> HIDE DEF s, ids, D, n
<1>13. Seen' = Seen \union FirstSeen(memory, s) /\ Seen \cap FirstSeen(memory, s) = {}
  BY <1>3, <1>8, <1>10
<1>14. /\ Finished' = Finished \union Newly(memory, s, "Completed")
       /\ Finished \cap Newly(memory, s, "Completed") = {}
  BY <1>3, <1>4, <1>7, <1>9, <1>11
<1>15. Newly(memory, s, "Interrupted") = Broken /\ Broken' = {}
  BY <1>3, <1>4, <1>9, <1>12
<1> QED
  BY <1>10, <1>11, <1>13, <1>14, <1>15 DEF s, n

LEMMA RecordRemembers ==
  ASSUME Inv, Books, Record
  PROVE  Remembered'
<1>1. /\ tasks' = [t \in Kept |-> tasks[t]] /\ tick' = tick + 1
      /\ UNCHANGED <<generator, robots, counts, released>>
      /\ DOMAIN memory'.tasks = Kept
      /\ \A t \in Kept : Shown(t)' = tasks[t].status
  BY RecordedMemory DEF Books
<1>2. Remembered /\ Kept \subseteq DOMAIN tasks /\ tick \in Nat
      /\ \A t \in DOMAIN tasks : tasks[t] \in TaskType
  BY BookFacts DEF Books, Kept
<1>3. DOMAIN tasks' = Kept /\ \A t \in Kept : tasks'[t] = tasks[t]
  BY <1>1
<1>4. \A t \in Kept : memory'.tasks[t].status # "none"
  <2> SUFFICES ASSUME NEW t \in Kept PROVE memory'.tasks[t].status # "none"
    OBVIOUS
  <2>1. memory'.tasks[t].status = tasks[t].status
    BY <1>1 DEF Shown, Before
  <2>2. tasks[t].status \in {"Pending", "Assigned", "Interrupted", "Completed"}
    BY <1>2 DEF TaskType
  <2> QED
    BY <2>1, <2>2
<1>5. tick' # 0
  BY <1>1, <1>2
<1> QED
  BY <1>1, <1>2, <1>3, <1>4, <1>5 DEF Remembered

LEMMA RecordLogs ==
  ASSUME Inv, Books, Record
  PROVE  Logged'
<1> DEFINE s == Snapshot
           N == ToSet(Events(memory, s))
           L == ToSet(log)
           of(kind) == {e \in N : e.kind = kind}
<1>1. /\ Remembered /\ Logged /\ tick \in Nat /\ Kept \subseteq 1..Len(released)
      /\ counts.interrupted \in Nat
  BY BookFacts DEF Books, Kept
<1>2. /\ EventsTell(N, memory, s) /\ Distinct(log') /\ ToSet(log') = L \union N
  BY RecordedLog
<1>3. /\ Tells(N, "task_created", FirstSeen(memory, s))
      /\ Tells(N, "task_completed", Newly(memory, s, "Completed"))
      /\ Tells(N, "task_interrupted", Newly(memory, s, "Interrupted"))
  <2> HIDE DEF N, s
  <2> QED
    BY <1>2, SnapshotTells
<1>4. /\ Seen' = 1..Len(released) /\ Broken' = {}
      /\ Seen' = Seen \union FirstSeen(memory, s)
      /\ Seen \cap FirstSeen(memory, s) = {}
      /\ Finished' = Finished \union Newly(memory, s, "Completed")
      /\ Finished \cap Newly(memory, s, "Completed") = {}
      /\ Newly(memory, s, "Interrupted") = Broken
  BY <1>1, RecordedSets
<1>5. /\ s.tick = tick + 1 /\ DOMAIN s.tasks = Kept
  BY SnapshotIs
<1>6. /\ tick' = tick + 1 /\ released' = released /\ counts' = counts
  BY <1>1, RecordedMemory
<1>7. \A kind : EventsOfKind(kind)' = EventsOfKind(kind) \union of(kind)
  BY <1>2 DEF EventsOfKind
<1> HIDE DEF N, L
<1>8. \A e \in ToSet(log') : e.tick \in 0..tick' /\ e.task \in Seen' \union {None}
  <2>1. ASSUME NEW e \in L PROVE e.tick \in 0..(tick + 1) /\ e.task \in Seen \union {None}
    <3>1. e.tick \in 0..tick /\ e.task \in Seen \union {None}
      BY <1>1 DEF L, Logged
    <3> QED
      BY <1>1, <3>1
  <2>2. ASSUME NEW e \in N PROVE e.tick \in 0..(tick + 1) /\ e.task \in Seen' \union {None}
    <3>1. e.tick = tick + 1 /\ e.task \in Kept \union {None}
      BY <1>2, <1>5 DEF EventsTell
    <3>2. tick + 1 \in 0..(tick + 1) /\ Kept \subseteq Seen'
      BY <1>1, <1>4
    <3> QED
      BY <3>1, <3>2
  <2> QED
    BY <1>2, <1>4, <1>6, <2>1, <2>2
<1>9. /\ Tells(ToSet(log'), "task_created", Seen')
      /\ Tells(ToSet(log'), "task_completed", Finished')
  <2>1. Tells(L, "task_created", Seen) /\ Tells(L, "task_completed", Finished)
    BY <1>1 DEF Logged, L
  <2> QED
    BY <1>2, <1>3, <1>4, <2>1, TellsMore
<1>10. \A e \in EventsOfKind("task_created")' : e.tick = released'[e.task].created + 1
  <2>1. \A e \in EventsOfKind("task_created") : e.tick = released[e.task].created + 1
    BY <1>1 DEF Logged
  <2>2. ASSUME NEW e \in of("task_created") PROVE e.tick = released[e.task].created + 1
    <3>1. e.task \in FirstSeen(memory, s) /\ e.tick = tick + 1
      BY <1>2, <1>3, <1>5 DEF Tells, EventsTell
    <3>2. e.task \in DOMAIN tasks \ DOMAIN memory.tasks
      BY <1>1, <1>5, <3>1 DEF FirstSeen, Before, Unknown, Remembered, Kept
    <3> QED
      BY <1>1, <3>1, <3>2 DEF Remembered
  <2> HIDE DEF of
  <2> QED
    BY <1>6, <1>7, <2>1, <2>2
<1>11. Cardinality(EventsOfKind("task_interrupted")') + Cardinality(Broken')
         <= counts'.interrupted
  <2> DEFINE I == EventsOfKind("task_interrupted")
             J == of("task_interrupted")
  <2>1. IsFiniteSet(L) /\ IsFiniteSet(N)
    <3>1. IsFiniteSet(ToSet(log'))
      BY <1>2, CountsDistinct
    <3> QED
      BY <1>2, <3>1, FS_Subset
  <2>2. IsFiniteSet(I) /\ IsFiniteSet(J)
    BY <2>1, FS_Subset DEF EventsOfKind, L
  <2>3. Cardinality(J) = Cardinality(Broken)
    BY <1>3, <1>4, <2>1, TellsCount
  <2>4. Cardinality(I) + Cardinality(Broken) <= counts.interrupted
    BY <1>1 DEF Logged
  <2> HIDE DEF I, J
  <2>5. /\ Cardinality(I \union J) <= Cardinality(I) + Cardinality(J)
        /\ Cardinality(I \union J) \in Nat
    <3>1. /\ IsFiniteSet(I \union J)
          /\ Cardinality(I \union J) =
               Cardinality(I) + Cardinality(J) - Cardinality(I \cap J)
      BY <2>2, FS_Union
    <3>2. /\ Cardinality(I) \in Nat /\ Cardinality(J) \in Nat
          /\ Cardinality(I \cap J) \in Nat /\ Cardinality(I \union J) \in Nat
      BY <2>2, <3>1, FS_CardinalityType, FS_Subset
    <3> QED
      BY <3>1, <3>2
  <2>6. Cardinality(Broken') = 0
    BY <1>4, FS_EmptySet
  <2>7. EventsOfKind("task_interrupted")' = I \union J
    BY <1>7 DEF I, J
  <2>8. Cardinality(I) \in Nat /\ Cardinality(J) \in Nat
    BY <2>2, FS_CardinalityType
  <2>9. Cardinality(I \union J) + 0 <= counts.interrupted
    BY <1>1, <2>3, <2>4, <2>5, <2>8
  <2> QED
    BY <1>6, <2>6, <2>7, <2>9
<1> QED
  BY <1>2, <1>8, <1>9, <1>10, <1>11 DEF Logged

\* The ticks of a task's life, before and after a snapshot that shows it.
Life(t) == IF t \in DOMAIN collected THEN collected[t]
           ELSE [created |-> tasks[t].created, assigned |-> None,
                 completed |-> None, failed |-> None]

LEMMA LifeObserved ==
  ASSUME Inv, Books, Record
  PROVE  /\ DOMAIN collected' = Seen \union Kept
         /\ \A t \in Seen \ Kept : collected'[t] = collected[t]
         /\ \A t \in Kept :
              /\ Life(t) \in LifeType /\ collected'[t] \in LifeType
              /\ collected'[t].created = Life(t).created
              /\ collected'[t].assigned =
                   IF tasks[t].status = "Assigned" /\ Life(t).assigned = None THEN tick + 1
                   ELSE Life(t).assigned
              /\ collected'[t].completed =
                   IF tasks[t].status = "Completed" /\ Life(t).completed = None
                   THEN tasks[t].done ELSE Life(t).completed
<1> DEFINE s == Snapshot
           first(old, holds, tau) == IF holds /\ old = None THEN tau ELSE old
           Of(c, t) == [c EXCEPT !.assigned  = first(@, t.status = "Assigned", s.tick),
                                 !.completed = first(@, t.status = "Completed", t.done),
                                 !.failed    = first(@, t.status = "Failed", s.tick)]
           Record0(t) == IF t \in DOMAIN collected THEN collected[t]
                         ELSE [created |-> s.tasks[t].created, assigned |-> None,
                               completed |-> None, failed |-> None]
<1>1. /\ Kept \subseteq DOMAIN tasks /\ tick \in Nat
      /\ \A t \in DOMAIN tasks : tasks[t] \in TaskType
      /\ DOMAIN collected = Seen /\ \A t \in Seen : collected[t] \in LifeType
  BY BookFacts DEF Books, Kept, Gathered
<1>2. /\ s.tick = tick + 1 /\ DOMAIN s.tasks = Kept /\ \A t \in Kept : s.tasks[t] = tasks[t]
  BY SnapshotIs
<1>3. collected' = [t \in DOMAIN collected \union DOMAIN s.tasks |->
                      IF t \in DOMAIN s.tasks THEN Of(Record0(t), s.tasks[t])
                      ELSE collected[t]]
  BY DEF Record, Observe
<1> HIDE DEF s
<1>4. \A t \in Kept : Record0(t) = Life(t)
  BY <1>2 DEF Life
<1>5. \A t \in Kept : Life(t) \in LifeType /\ tasks[t].done \in Nat
  <2> SUFFICES ASSUME NEW t \in Kept PROVE Life(t) \in LifeType /\ tasks[t].done \in Nat
    OBVIOUS
  <2>1. tasks[t].created \in 0..Duration /\ tasks[t].done \in 0..Duration
    BY <1>1 DEF TaskType
  <2>2. tasks[t].created \in Nat /\ tasks[t].done \in Nat
    BY <2>1, DispatchAssumption
  <2> QED
    BY <1>1, <2>2 DEF Life, LifeType, None
<1>6. ASSUME NEW c \in LifeType, NEW t, t.done \in Nat
      PROVE  /\ Of(c, t) \in LifeType /\ Of(c, t).created = c.created
             /\ Of(c, t).assigned = first(c.assigned, t.status = "Assigned", tick + 1)
             /\ Of(c, t).completed = first(c.completed, t.status = "Completed", t.done)
  <2> DEFINE a == first(c.assigned, t.status = "Assigned", tick + 1)
             b == first(c.completed, t.status = "Completed", t.done)
             f == first(c.failed, t.status = "Failed", tick + 1)
  <2>1. Of(c, t) = [c EXCEPT !.assigned = a, !.completed = b, !.failed = f]
    BY <1>2, <1>6 DEF LifeType
  <2>2. a \in Nat /\ b \in Nat /\ f \in Nat
    BY <1>1, <1>6 DEF LifeType
  <2> HIDE DEF Of, a, b, f
  <2>3. /\ Of(c, t) \in LifeType /\ Of(c, t).created = c.created
        /\ Of(c, t).assigned = a /\ Of(c, t).completed = b
    BY <1>6, <2>1, <2>2 DEF LifeType
  <2> QED
    BY <2>3 DEF a, b
<1>7. \A t \in Kept : collected'[t] = Of(Life(t), tasks[t])
  <2> HIDE DEF Of, Record0
  <2> QED
    BY <1>2, <1>3, <1>4
<1>8. \A t \in Seen \ Kept : collected'[t] = collected[t]
  <2> HIDE DEF Of, Record0
  <2> QED
    BY <1>1, <1>2, <1>3
<1>9. DOMAIN collected' = Seen \union Kept
  BY <1>1, <1>2, <1>3
<1> HIDE DEF Of
<1> QED
  BY <1>5, <1>6, <1>7, <1>8, <1>9

\* The events of a task that a snapshot adds.
LEMMA AddedAbout ==
  ASSUME Inv, Books, Record, NEW t \in Seen', NEW kind
  PROVE  LET new == EventsAbout(t, kind)' \ EventsAbout(t, kind)
         IN  /\ EventsAbout(t, kind) \subseteq EventsAbout(t, kind)'
             /\ \A e \in new : e.tick = tick + 1
             /\ kind = "task_assigned" =>
                  (new # {} <=> t \in Newly(memory, Snapshot, "Assigned"))
             /\ \A e \in EventsAbout(t, kind) : e.tick \in 0..tick /\ t \in Seen
<1> DEFINE N == ToSet(Events(memory, Snapshot))
           L == ToSet(log)
           new == EventsAbout(t, kind)' \ EventsAbout(t, kind)
<1>1. EventsTell(N, memory, Snapshot) /\ ToSet(log') = L \union N
  BY RecordedLog
<1>2. Tells(N, "task_assigned", Newly(memory, Snapshot, "Assigned"))
  <2> HIDE DEF N
  <2> QED
    BY <1>1, SnapshotTells
<1>3. \A e \in N : e.tick = tick + 1
  BY <1>1, SnapshotIs DEF EventsTell
<1>4. /\ \A e \in L : e.tick \in 0..tick /\ e.task \in Seen \union {None}
      /\ tick \in Nat /\ t # None
  <2>1. Seen' = 1..Len(released)
    BY RecordedSets DEF Books
  <2> QED
    BY <2>1, BookFacts DEF Books, Logged, None
<1> HIDE DEF N, L
<1>5. /\ EventsAbout(t, kind) = {e \in L : e.kind = kind /\ e.task = t}
      /\ EventsAbout(t, kind)' = {e \in L \union N : e.kind = kind /\ e.task = t}
  BY <1>1 DEF EventsAbout, EventsOfKind, L
<1>6. L \cap N = {}
  <2>1. tick + 1 \notin 0..tick
    BY <1>4
  <2> QED
    BY <1>3, <1>4, <2>1
<1>7. new = {e \in N : e.kind = kind /\ e.task = t}
  BY <1>5, <1>6
<1> HIDE DEF new
<1>8. kind = "task_assigned" => (new # {} <=> t \in Newly(memory, Snapshot, "Assigned"))
  BY <1>2, <1>7 DEF Tells
<1> QED
  BY <1>3, <1>4, <1>5, <1>7, <1>8 DEF new

LEMMA RecordGathers ==
  ASSUME Inv, Books, Record
  PROVE  Gathered'
<1> DEFINE ids == DOMAIN tasks
           n == Len(released)
<1>1. /\ Remembered /\ Gathered /\ Logged /\ tick \in Nat /\ ids \subseteq 1..n
      /\ Kept \subseteq ids /\ Finished \subseteq Seen /\ n \in Nat
      /\ DOMAIN memory.tasks \subseteq Seen
  BY BookFacts DEF Books, Kept
<1>2. /\ tasks' = [t \in Kept |-> tasks[t]] /\ tick' = tick + 1 /\ released' = released
      /\ DOMAIN memory'.tasks = Kept
      /\ \A t \in Kept : Shown(t)' = tasks[t].status
  BY <1>1, RecordedMemory
<1>3. /\ Seen' = 1..n /\ Seen' = Seen \union FirstSeen(memory, Snapshot)
      /\ Finished' = (1..n) \ {t \in Kept : tasks[t].status # "Completed"}
  BY <1>1, RecordedSets
<1>4. /\ DOMAIN collected' = Seen \union Kept
      /\ \A t \in Seen \ Kept : collected'[t] = collected[t]
      /\ \A t \in Kept :
           /\ Life(t) \in LifeType /\ collected'[t] \in LifeType
           /\ collected'[t].created = Life(t).created
           /\ collected'[t].assigned =
                IF tasks[t].status = "Assigned" /\ Life(t).assigned = None THEN tick + 1
                ELSE Life(t).assigned
           /\ collected'[t].completed =
                IF tasks[t].status = "Completed" /\ Life(t).completed = None
                THEN tasks[t].done ELSE Life(t).completed
  BY LifeObserved
<1>5. DOMAIN Snapshot.tasks = Kept /\ \A t \in Kept : Snapshot.tasks[t] = tasks[t]
  BY SnapshotIs
<1>6. FirstSeen(memory, Snapshot) \subseteq Kept
  BY <1>5 DEF FirstSeen
<1>7. DOMAIN collected' = Seen'
  BY <1>1, <1>3, <1>4, <1>6
<1>8. \A t \in ids \ Kept : Shown(t) = "Completed"
  BY <1>1, DroppedShown
<1>9. \A t \in ids : t \notin Seen => Shown(t) = "none" /\ t \notin DOMAIN memory.tasks
  BY <1>1 DEF Shown, Before, Unknown
<1>10. ids # {} => tick # 0
  BY <1>1, WorldIs DEF Remembered, Dormant
<1>11. \A t \in Seen : Life(t) = collected[t]
  BY <1>1 DEF Life, Gathered
<1>12. \A t \in Kept \ Seen : /\ Life(t).created = tasks[t].created
                              /\ Life(t).assigned = None /\ Life(t).completed = None
  BY <1>1 DEF Life, Gathered
<1> HIDE DEF n, ids
<1>13. ASSUME NEW t \in Seen'
       PROVE  collected'[t] \in LifeType /\ collected'[t].created = released'[t].created
  <2>1. CASE t \in Kept
    BY <1>1, <1>2, <1>4, <1>11, <1>12, <2>1 DEF Remembered, Gathered, ids
  <2>2. CASE t \notin Kept
    BY <1>1, <1>2, <1>3, <1>4, <1>6, <2>2 DEF Gathered
  <2> QED
    BY <2>1, <2>2
<1>14. ASSUME NEW t \in Seen'
       PROVE  collected'[t].completed # None <=> t \in Finished'
  <2>1. CASE t \in Kept
    <3>1. t \in ids
      BY <1>1, <2>1
    <3>2. t \in Finished' <=> tasks[t].status = "Completed"
      BY <1>3, <2>1
    <3>3. Life(t).completed # None <=> Shown(t) = "Completed"
      <4>1. CASE t \in Seen
        <5>1. t \in Finished <=> Shown(t) = "Completed"
          BY <1>1, <3>1 DEF Finished, ids, n
        <5> QED
          BY <1>1, <1>11, <4>1, <5>1 DEF Gathered
      <4>2. CASE t \notin Seen
        BY <1>9, <1>12, <2>1, <3>1, <4>2
      <4> QED
        BY <4>1, <4>2
    <3>4. /\ Shown(t) = "Completed" => tasks[t].status = "Completed"
          /\ tasks[t].status = "Completed" /\ Shown(t) # "Completed" =>
               tasks[t].done = tick
      BY <1>1, <3>1 DEF Remembered, ids
    <3>5. tick # None
      BY <1>10, <3>1 DEF None
    <3> QED
      BY <1>4, <2>1, <3>2, <3>3, <3>4, <3>5
  <2>2. CASE t \notin Kept
    <3>1. t \in Seen /\ t \in Finished'
      BY <1>3, <1>6, <2>2
    <3>2. t \in Finished
      BY <1>3, <1>8, <2>2 DEF Finished, ids, n
    <3> QED
      BY <1>1, <1>4, <2>2, <3>1, <3>2 DEF Gathered
  <2> QED
    BY <2>1, <2>2
<1>15. ASSUME NEW t \in Seen'
       PROVE  LET a == collected'[t].assigned
                  es == EventsAbout(t, "task_assigned")'
              IN  /\ Shown(t)' = "Assigned" => a # None
                  /\ a = None => es = {}
                  /\ a # None => (\E e \in es : e.tick = a) /\ \A e \in es : a <= e.tick
  <2> DEFINE a == collected'[t].assigned
             old == EventsAbout(t, "task_assigned")
             es == EventsAbout(t, "task_assigned")'
             new == es \ old
             now == t \in Newly(memory, Snapshot, "Assigned")
  <2>1. /\ old \subseteq es /\ \A e \in new : e.tick = tick + 1
        /\ new # {} <=> now
        /\ \A e \in old : e.tick \in 0..tick /\ t \in Seen
    BY AddedAbout
  <2>2. now <=> t \in Kept /\ tasks[t].status = "Assigned" /\ Shown(t) # "Assigned"
    BY <1>5 DEF Newly, Shown
  <2>3. ASSUME t \in Seen
        PROVE  LET b == collected[t].assigned
               IN  /\ Shown(t) = "Assigned" => b # None
                   /\ b = None => old = {}
                   /\ b # None => (\E e \in old : e.tick = b) /\ \A e \in old : b <= e.tick
    BY <1>1, <2>3 DEF Gathered
  <2> HIDE DEF old, es, now
  <2>4. CASE t \notin Kept
    <3>1. t \in Seen /\ a = collected[t].assigned
      BY <1>3, <1>4, <1>6, <2>4
    <3>2. Shown(t)' # "Assigned"
      BY <1>2, <2>4 DEF Shown, Before, Unknown
    <3>3. es = old
      BY <2>1, <2>2, <2>4
    <3> QED
      BY <2>3, <3>1, <3>2, <3>3 DEF es
  <2>5. CASE t \in Kept
    <3> DEFINE b == Life(t).assigned
    <3>1. /\ Shown(t)' = tasks[t].status
          /\ a = IF tasks[t].status = "Assigned" /\ b = None THEN tick + 1 ELSE b
          /\ b \in Nat
      BY <1>2, <1>4, <2>5 DEF LifeType
    <3>2. /\ Shown(t) = "Assigned" => b # None
          /\ b = None => old = {}
          /\ b # None => (\E e \in old : e.tick = b) /\ \A e \in old : b <= e.tick
      <4>1. CASE t \in Seen
        BY <1>11, <2>3, <4>1
      <4>2. CASE t \notin Seen
        <5>1. old = {} /\ b = None /\ Shown(t) # "Assigned"
          BY <1>1, <1>9, <1>12, <2>1, <2>5, <4>2
        <5> QED
          BY <5>1
      <4> QED
        BY <4>1, <4>2
    <3>3. tick + 1 # None /\ tick + 1 \in Nat
      BY <1>1 DEF None
    <3> HIDE DEF a, b
    <3>4. CASE b # None
      <4>1. a = b /\ b <= tick
        <5>1. PICK e \in old : e.tick = b
          BY <3>2, <3>4
        <5>2. b \in 0..tick
          BY <2>1, <5>1
        <5> QED
          BY <1>1, <3>1, <3>4, <5>2
      <4>2. \A e \in es : a <= e.tick
        <5>1. \A e \in new : a <= e.tick
          BY <1>1, <2>1, <3>1, <4>1
        <5> QED
          BY <3>2, <3>4, <4>1, <5>1
      <4>3. \E e \in es : e.tick = a
        BY <2>1, <3>2, <3>4, <4>1
      <4> QED
        BY <3>4, <4>1, <4>2, <4>3 DEF a, es
    <3>5. CASE b = None /\ tasks[t].status = "Assigned"
      <4>1. a = tick + 1 /\ old = {} /\ es = new
        BY <3>1, <3>2, <3>5
      <4>2. new # {}
        BY <2>1, <2>2, <2>5, <3>2, <3>5
      <4>3. \A e \in es : e.tick = a
        BY <2>1, <4>1
      <4>4. \E e \in es : e.tick = a
        BY <4>1, <4>2, <4>3
      <4>5. \A e \in es : a <= e.tick
        BY <3>3, <4>1, <4>3
      <4> HIDE DEF new
      <4> QED
        BY <3>3, <4>1, <4>4, <4>5 DEF a, es
    <3>6. CASE b = None /\ tasks[t].status # "Assigned"
      <4>1. a = None /\ es = {}
        BY <2>1, <2>2, <3>1, <3>2, <3>6
      <4> QED
        BY <3>1, <3>6, <4>1 DEF a, es
    <3> QED
      BY <3>4, <3>5, <3>6
  <2> QED
    BY <2>4, <2>5
<1>16. \A e \in EventsOfKind("task_completed")' :
         e.tick = collected'[e.task].completed + 1
  <2> DEFINE N == ToSet(Events(memory, Snapshot))
  <2>1. EventsTell(N, memory, Snapshot) /\ ToSet(log') = ToSet(log) \union N
    BY RecordedLog
  <2>2. Tells(N, "task_completed", Newly(memory, Snapshot, "Completed"))
    <3> HIDE DEF N
    <3> QED
      BY <2>1, SnapshotTells
  <2> HIDE DEF N
  <2> SUFFICES ASSUME NEW e \in EventsOfKind("task_completed")'
               PROVE  e.tick = collected'[e.task].completed + 1
    OBVIOUS
  <2> DEFINE t == e.task
  <2>3. e \in EventsOfKind("task_completed") \/ (e \in N /\ e.kind = "task_completed")
    BY <2>1 DEF EventsOfKind
  <2>4. CASE e \in EventsOfKind("task_completed")
    <3>1. e.tick = collected[t].completed + 1 /\ t \in Finished
      BY <1>1, <2>4 DEF Gathered, Logged, Tells, EventsOfKind
    <3>2. t \in Seen /\ collected[t].completed # None
      BY <1>1, <3>1 DEF Gathered
    <3>3. collected'[t].completed = collected[t].completed
      BY <1>4, <1>11, <3>2
    <3> QED
      BY <3>1, <3>3
  <2>5. CASE e \in N /\ e.kind = "task_completed"
    <3>1. t \in Newly(memory, Snapshot, "Completed")
      BY <2>2, <2>5 DEF Tells
    <3>2. t \in Kept /\ tasks[t].status = "Completed" /\ Shown(t) # "Completed"
      BY <1>5, <3>1 DEF Newly, Shown
    <3>3. e.tick = tick + 1
      BY <2>1, <2>5, SnapshotIs DEF EventsTell
    <3>4. tasks[t].done = tick
      BY <1>1, <3>2 DEF Remembered, ids
    <3>5. Life(t).completed = None
      <4>1. CASE t \in Seen
        <5>1. t \notin Finished
          BY <1>1, <3>2 DEF Finished, ids
        <5> QED
          BY <1>1, <1>11, <4>1, <5>1 DEF Gathered
      <4>2. CASE t \notin Seen
        BY <1>12, <3>2, <4>2
      <4> QED
        BY <4>1, <4>2
    <3> QED
      BY <1>4, <3>2, <3>3, <3>4, <3>5
  <2> QED
    BY <2>3, <2>4, <2>5
<1> QED
  BY <1>7, <1>13, <1>14, <1>15, <1>16 DEF Gathered

LEMMA BucketIs ==
  ASSUME NEW a, NEW b, a.mode = b.mode, a.blocked = b.blocked
  PROVE  Bucket(a) = Bucket(b) /\ Bucket(a) \in Buckets
<1>1. Bucket(a) = Bucket(b)
  BY DEF Bucket
<1>2. Bucket(a) \in Buckets
  <2>1. CASE a.mode \in {"Failed", "Repairing"}
    BY <2>1 DEF Bucket, Buckets
  <2>2. CASE a.mode = "Charging"
    BY <2>2 DEF Bucket, Buckets
  <2>3. CASE a.mode = "Waiting for charger"
    BY <2>3 DEF Bucket, Buckets
  <2>4. CASE a.mode \notin {"Failed", "Repairing", "Charging", "Waiting for charger"}
    BY <2>4 DEF Bucket, Buckets
  <2> QED
    BY <2>1, <2>2, <2>3, <2>4
<1> QED
  BY <1>1, <1>2

LEMMA RecordUpdates ==
  ASSUME Inv, Inv', Books, Record
  PROVE  UpToDate'
<1> DEFINE s == Snapshot
<1>1. /\ tasks' = [t \in Kept |-> tasks[t]] /\ counts' = counts /\ robots' = robots
      /\ DOMAIN memory'.tasks = Kept
      /\ \A t \in Kept : Shown(t)' = tasks[t].status
  BY RecordedMemory DEF Books
<1>2. /\ DOMAIN s.tasks = Kept /\ \A t \in Kept : s.tasks[t] = tasks[t]
      /\ DOMAIN s.robots = Robots
      /\ \A r \in Robots : /\ s.robots[r].blocked = robots[r].blocked
                           /\ s.robots[r].mode = robots[r].mode
  BY SnapshotIs
<1>3. DOMAIN tasks' = Kept /\ \A t \in Kept : tasks'[t] = tasks[t]
  BY <1>1
<1>4. /\ row'.outstanding = Outstanding(s.counts)
      /\ row'.pending = Cardinality({t \in DOMAIN s.tasks : s.tasks[t].status = "Pending"})
      /\ \A b \in Buckets : row'.robots[b] =
           Cardinality({r \in DOMAIN s.robots : Bucket(s.robots[r]) = b})
  BY DEF Record, Row, Count
<1>5. /\ s.counts.generated = counts.generated /\ s.counts.completed = counts.completed
      /\ s.counts.failed = 0
  BY DEF Snapshot, NoCounts
<1> HIDE DEF s
<1>6. row'.pending = Cardinality(Are("Pending")')
  <2>1. Are("Pending")' = {t \in DOMAIN s.tasks : s.tasks[t].status = "Pending"}
    BY <1>2, <1>3 DEF Are
  <2> QED
    BY <1>4, <2>1
<1>7. row'.outstanding = Cardinality(DOMAIN tasks') - Cardinality(Are("Completed")')
  <2> DEFINE undone == DOMAIN tasks' \ Are("Completed")'
  <2>1. /\ Balanced(DOMAIN tasks', World') /\ World' \in Worlds(DOMAIN tasks', Len(released)')
        /\ IsFiniteSet(DOMAIN tasks')
    BY DEF Inv, Orderly, Sound, Numbers
  <2>2. /\ World'.counts = counts /\ World'.tasks = tasks'
    BY <1>1 DEF World
  <2>3. Undone(World') = undone
    BY <2>2 DEF Undone, Are
  <2>4. /\ Cardinality(undone) = counts.generated - counts.completed
        /\ counts.generated \in Nat /\ counts.completed \in Nat
    BY <2>1, <2>2, <2>3 DEF Balanced, Worlds, CountsType
  <2>5. /\ Are("Completed")' \subseteq DOMAIN tasks'
    BY DEF Are
  <2> DEFINE A == DOMAIN tasks'
             C == Are("Completed")'
  <2>6. /\ IsFiniteSet(C) /\ Cardinality(A \ C) = Cardinality(A) - Cardinality(A \cap C)
        /\ A \cap C = C
    <3> HIDE DEF C
    <3> QED
      BY <2>1, <2>5, FS_Subset, FS_Difference DEF C
  <2>7. Cardinality(A) \in Nat /\ Cardinality(C) \in Nat /\ Cardinality(undone) \in Nat
    BY <2>1, <2>6, FS_CardinalityType, FS_Subset
  <2>8. Outstanding(s.counts) = counts.generated - counts.completed
    <3>1. counts.generated - counts.completed \in Nat
      BY <2>4, <2>7
    <3> QED
      BY <1>5, <2>4, <3>1 DEF Outstanding
  <2>9. Cardinality(undone) = Cardinality(A) - Cardinality(C)
    BY <2>6
  <2> QED
    BY <1>4, <2>4, <2>8, <2>9
<1>8. ASSUME NEW r \in Robots PROVE row'.robots[Bucket(robots'[r])] > 0
  <2> DEFINE b == Bucket(robots'[r])
             S == {q \in Robots : Bucket(s.robots[q]) = b}
  <2>1. b \in Buckets /\ r \in S
    <3> DEFINE x == s.robots[r]
               y == robots'[r]
    <3>1. x.mode = y.mode /\ x.blocked = y.blocked
      BY <1>1, <1>2
    <3> HIDE DEF x, y
    <3>2. Bucket(x) = Bucket(y) /\ Bucket(x) \in Buckets
      BY <3>1, BucketIs
    <3> QED
      BY <3>2 DEF x, y
  <2>2. IsFiniteSet(S)
    BY FS_Subset, DispatchAssumption
  <2> HIDE DEF b
  <2>3. row'.robots[b] = Cardinality(S)
    BY <1>2, <1>4, <2>1
  <2> HIDE DEF S
  <2>4. Cardinality(S) \in Nat /\ Cardinality(S) # 0
    BY <2>1, <2>2, FS_CardinalityType, FS_EmptySet
  <2> QED
    BY <2>3, <2>4 DEF b
<1>9. /\ DOMAIN memory'.tasks = DOMAIN tasks'
      /\ \A t \in DOMAIN tasks' : Shown(t)' = tasks'[t].status
  BY <1>1, <1>3
<1> QED
  BY <1>6, <1>7, <1>8, <1>9 DEF UpToDate

-----------------------------------------------------------------------------
(* The books of a trial, and what follows from them.                       *)

LEMMA InitBooks == Init => Books
<1> SUFFICES ASSUME Init PROVE Books
  OBVIOUS
<1>1. /\ tasks = <<>> /\ log = <<>> /\ collected = <<>> /\ released = <<>> /\ tick = 0
      /\ generator.number = 1 /\ phase = "repairs" /\ counts.interrupted = 0
      /\ memory.tasks = <<>> /\ memory.robots = <<>>
      /\ \A r \in Robots : robots[r].blocked = 0
  BY DEF Init, NewGenerator, NoMemory
<1>2. DOMAIN tasks = {} /\ DOMAIN memory.tasks = {} /\ DOMAIN memory.robots = {}
      /\ DOMAIN collected = {} /\ Len(released) = 0 /\ 1..0 = {}
  BY <1>1
<1>3. ToSet(log) = {} /\ Distinct(log)
  BY <1>1, NoneInList
<1>4. Seen = {} /\ Finished = {} /\ Broken = {} /\ \A kind : EventsOfKind(kind) = {}
  BY <1>2, <1>3 DEF Seen, Finished, Broken, EventsOfKind
<1>5. Remembered
  BY <1>1, <1>2 DEF Remembered, Dormant, World
<1>6. Logged
  <2>1. Cardinality({}) + Cardinality({}) <= 0
    BY FS_EmptySet
  <2>2. \A kind : Tells({}, kind, {})
    BY DEF Tells
  <2> QED
    BY <1>1, <1>3, <1>4, <2>1, <2>2 DEF Logged
<1>7. Gathered
  BY <1>2, <1>4 DEF Gathered
<1>8. UpToDate
  BY <1>1 DEF UpToDate, Recorded
<1> QED
  BY <1>5, <1>6, <1>7, <1>8 DEF Books

LEMMA RecordBooks ==
  ASSUME Inv, Books, Record
  PROVE  Books'
BY RecordKeeps, RecordRemembers, RecordLogs, RecordGathers, RecordUpdates
   DEF Books

LEMMA NextBooks ==
  ASSUME Connected, Inv, Books, [Next]_vars
  PROVE  Books'
<1>1. CASE \E r \in Robots : RepairTurn(r) \/ FailureTurn(r) \/ AdvanceTurn(r)
  BY <1>1, RepairTurnBooks, FailureTurnBooks, AdvanceTurnBooks
<1>2. CASE Generate \/ Follow \/ Record
  BY <1>2, GenerateBooks, FollowBooks, RecordBooks
<1>3. CASE GenerateRaises \/ Ask \/ Ended \/ UNCHANGED vars
  BY <1>3, QuietBooks DEF Ended
<1> QED
  BY <1>1, <1>2, <1>3 DEF Next

LEMMA BooksHold == ASSUME Connected PROVE Spec => [](Inv /\ Books)
<1>1. Init => Inv /\ Books
  BY InitOrderly, InitBooks
<1>2. Inv /\ Books /\ [Next]_vars => Inv' /\ Books'
  BY NextKeeps, NextBooks
<1> QED
  BY <1>1, <1>2, PTL DEF Spec

\* How many events of a kind there are.
LEMMA EventsCounted ==
  ASSUME Distinct(log), NEW kind
  PROVE  /\ Cardinality({i \in DOMAIN log : log[i].kind = kind}) =
              Cardinality(EventsOfKind(kind))
         /\ IsFiniteSet(ToSet(log)) /\ IsFiniteSet(EventsOfKind(kind))
<1> DEFINE S == EventsOfKind(kind)
<1>1. S \in SUBSET ToSet(log)
  BY DEF EventsOfKind
<1>2. /\ IsFiniteSet(S)
      /\ Cardinality({i \in DOMAIN log : log[i] \in S}) = Cardinality(S)
  <2> HIDE DEF S
  <2> QED
    BY <1>1, CountsDistinct
<1>3. {i \in DOMAIN log : log[i] \in S} = {i \in DOMAIN log : log[i].kind = kind}
  BY ListFacts DEF EventsOfKind, Distinct
<1>4. IsFiniteSet(ToSet(log))
  BY CountsDistinct
<1> QED
  BY <1>2, <1>3, <1>4

LEMMA BooksBalanced ==
  ASSUME Inv, Books
  PROVE  RecordsBalance
<1> DEFINE ids == DOMAIN tasks
           n == Len(released)
           undone == ids \ Are("Completed")
<1> SUFFICES ASSUME Recorded
             PROVE  /\ Count(DOMAIN log, LAMBDA i : log[i].kind = "task_created")
                         = counts.generated
                    /\ Count(DOMAIN log, LAMBDA i : log[i].kind = "task_completed")
                         = counts.completed
                    /\ Count(DOMAIN log, LAMBDA i : log[i].kind = "task_interrupted")
                         <= counts.interrupted
                    /\ row.outstanding = Cardinality(DOMAIN tasks)
                         - Count(DOMAIN tasks, LAMBDA t : tasks[t].status = "Completed")
                    /\ row.pending =
                         Count(DOMAIN tasks, LAMBDA t : tasks[t].status = "Pending")
                    /\ \A r \in Robots : row.robots[Bucket(robots[r])] > 0
  BY DEF RecordsBalance, Recorded
<1>1. /\ Logged /\ Remembered /\ ids \subseteq 1..n /\ n \in Nat /\ IsFiniteSet(ids)
      /\ counts.interrupted \in Nat
  BY BookFacts DEF Books
<1>2. /\ DOMAIN memory.tasks = ids /\ \A t \in ids : Shown(t) = tasks[t].status
      /\ row.outstanding = Cardinality(ids) - Cardinality(Are("Completed"))
      /\ row.pending = Cardinality(Are("Pending"))
      /\ \A r \in Robots : row.robots[Bucket(robots[r])] > 0
  BY DEF Books, UpToDate
<1>3. /\ Cardinality(undone) = counts.generated - counts.completed
      /\ counts.generated = n /\ counts.completed \in Nat
  <2>1. /\ Balanced(ids, World) /\ World \in Worlds(ids, n)
    BY DEF Inv, Orderly, Sound
  <2>2. Undone(World) = undone
    BY WorldIs DEF Undone, Are
  <2> HIDE DEF undone
  <2> QED
    BY <2>1, <2>2, WorldIs DEF Balanced, Worlds, CountsType
<1>4. Seen = 1..n /\ Finished = (1..n) \ undone
  <2>1. Seen = 1..n
    BY <1>2 DEF Seen
  <2>2. Finished = (1..n) \ {t \in ids : tasks[t].status # "Completed"}
    BY <1>2 DEF Finished
  <2>3. undone = {t \in ids : tasks[t].status # "Completed"}
    BY DEF Are
  <2> QED
    BY <2>1, <2>2, <2>3
<1>5. \A kind : Cardinality({i \in DOMAIN log : log[i].kind = kind}) =
                Cardinality(EventsOfKind(kind))
  BY <1>1, EventsCounted DEF Logged
<1>6. /\ Cardinality(EventsOfKind("task_created")) = Cardinality(1..n)
      /\ Cardinality(EventsOfKind("task_completed")) = Cardinality((1..n) \ undone)
  <2>1. IsFiniteSet(ToSet(log))
    BY <1>1, EventsCounted DEF Logged
  <2>2. Tells(ToSet(log), "task_created", Seen) /\ Tells(ToSet(log), "task_completed", Finished)
    BY <1>1 DEF Logged
  <2> HIDE DEF undone, n
  <2> QED
    BY <1>4, <2>1, <2>2, TellsCount DEF EventsOfKind
<1>7. Cardinality(1..n) = n /\ IsFiniteSet(1..n)
  <2> HIDE DEF n
  <2>1. IsFiniteSet(1..n) /\ Cardinality(1..n) = IF 1 > n THEN 0 ELSE n - 1 + 1
    BY <1>1, FS_Interval
  <2> QED
    BY <1>1, <2>1
<1>8. Cardinality((1..n) \ undone) = counts.completed
  <2>1. undone \subseteq 1..n
    BY <1>1
  <2> HIDE DEF undone
  <2>2. Cardinality((1..n) \ undone) = Cardinality(1..n) - Cardinality((1..n) \cap undone)
    BY <1>7, FS_Difference
  <2>3. (1..n) \cap undone = undone
    BY <2>1
  <2>4. Cardinality((1..n) \ undone) = n - Cardinality(undone)
    BY <1>7, <2>2, <2>3
  <2> HIDE DEF n
  <2> QED
    BY <1>1, <1>3, <2>4
<1>9. /\ Cardinality(EventsOfKind("task_interrupted")) <= counts.interrupted
  <2>1. Broken = {}
    BY <1>2 DEF Broken
  <2>2. Cardinality(Broken) = 0
    BY <2>1, FS_EmptySet
  <2>3. Cardinality(EventsOfKind("task_interrupted")) \in Nat
    BY <1>1, EventsCounted, FS_CardinalityType DEF Logged
  <2> QED
    BY <1>1, <2>2, <2>3 DEF Logged
<1> QED
  BY <1>2, <1>3, <1>5, <1>6, <1>7, <1>8, <1>9 DEF Count, Are

\* The first event of a kind that is about a task.
LEMMA FirstTickIs ==
  ASSUME Distinct(log), \A e \in ToSet(log) : e.tick \in Nat, NEW t, NEW kind
  PROVE  /\ EventsAbout(t, kind) = {} => FirstTick(log, t, kind) = None
         /\ \A a \in Nat :
              (\E e \in EventsAbout(t, kind) : e.tick = a)
              /\ (\A e \in EventsAbout(t, kind) : a <= e.tick)
              => FirstTick(log, t, kind) = a
<1> DEFINE ticks == {log[i].tick : i \in {j \in DOMAIN log :
                       log[j].task = t /\ log[j].kind = kind}}
<1>1. /\ \A e \in EventsAbout(t, kind) : e.tick \in ticks
      /\ \A u \in ticks : u \in Nat /\ \E e \in EventsAbout(t, kind) : e.tick = u
  BY ListFacts DEF Distinct, EventsAbout, EventsOfKind
<1>2. FirstTick(log, t, kind) =
        IF ticks = {} THEN None ELSE CHOOSE u \in ticks : \A v \in ticks : u <= v
  BY DEF FirstTick
<1> HIDE DEF ticks
<1>3. EventsAbout(t, kind) = {} => FirstTick(log, t, kind) = None
  <2>1. EventsAbout(t, kind) = {} => ticks = {}
    BY <1>1
  <2> QED
    BY <1>2, <2>1
<1>4. ASSUME NEW a \in Nat, \E e \in EventsAbout(t, kind) : e.tick = a,
             \A e \in EventsAbout(t, kind) : a <= e.tick
      PROVE  FirstTick(log, t, kind) = a
  <2>1. a \in ticks /\ \A v \in ticks : a <= v
    BY <1>1, <1>4
  <2> DEFINE b == CHOOSE u \in ticks : \A v \in ticks : u <= v
  <2>2. b \in ticks /\ \A v \in ticks : b <= v
    BY <2>1
  <2>3. FirstTick(log, t, kind) = b
    BY <1>2, <2>1
  <2> HIDE DEF b
  <2>4. a <= b /\ b <= a /\ a \in Nat /\ b \in Nat
    BY <1>1, <2>1, <2>2
  <2> QED
    BY <2>3, <2>4
<1> QED
  BY <1>3, <1>4

LEMMA BooksAgree ==
  ASSUME Inv, Books
  PROVE  LifecyclesAgree
<1> DEFINE l == LifecycleFromEvents(log)
           L == ToSet(log)
<1>1. /\ Remembered /\ Logged /\ Gathered /\ tick \in Nat /\ None \notin Seen
      /\ Finished \subseteq Seen
  BY BookFacts DEF Books
<1>2. /\ Distinct(log) /\ \A e \in L : e.tick \in Nat /\ e.task \in Seen \union {None}
      /\ Tells(L, "task_created", Seen) /\ Tells(L, "task_completed", Finished)
  BY <1>1 DEF Logged
<1>3. /\ DOMAIN l = {log[i].task : i \in DOMAIN log} \ {None}
      /\ \A t \in DOMAIN l :
           /\ l[t].created = FirstTick(log, t, "task_created")
           /\ l[t].assigned = FirstTick(log, t, "task_assigned")
           /\ l[t].completed = FirstTick(log, t, "task_completed")
  BY DEF LifecycleFromEvents
<1> HIDE DEF l
<1>4. DOMAIN l = Seen
  <2>1. L = {log[i] : i \in DOMAIN log}
    BY <1>2, ListFacts DEF Distinct
  <2>2. \A t \in Seen : \E e \in L : e.task = t
    BY <1>2 DEF Tells
  <2> HIDE DEF L
  <2>3. ASSUME NEW t \in DOMAIN l PROVE t \in Seen
    BY <1>2, <1>3, <2>1
  <2>4. ASSUME NEW t \in Seen PROVE t \in DOMAIN l
    BY <1>1, <1>3, <2>1, <2>2
  <2> QED
    BY <2>3, <2>4
<1>5. ASSUME NEW t \in Seen
      PROVE  /\ l[t].created = collected[t].created + 1
             /\ l[t].assigned = collected[t].assigned
             /\ l[t].completed = IF collected[t].completed = None THEN None
                                 ELSE collected[t].completed + 1
             /\ released[t].created = collected[t].created
  <2> DEFINE about(kind) == EventsAbout(t, kind)
             c == collected[t]
  <2>1. /\ c \in LifeType /\ c.created = released[t].created
        /\ c.completed # None <=> t \in Finished
        /\ c.assigned = None => about("task_assigned") = {}
        /\ c.assigned # None =>
             /\ \E e \in about("task_assigned") : e.tick = c.assigned
             /\ \A e \in about("task_assigned") : c.assigned <= e.tick
    BY <1>1 DEF Gathered
  <2>2. c.created \in Nat /\ c.assigned \in Nat /\ c.completed \in Nat
    BY <2>1 DEF LifeType
  <2>3. \A kind, e : e \in about(kind) <=> e \in L /\ e.kind = kind /\ e.task = t
    BY DEF EventsAbout, EventsOfKind
  <2>4. \A kind :
          /\ about(kind) = {} => FirstTick(log, t, kind) = None
          /\ \A a \in Nat : (\E e \in about(kind) : e.tick = a)
                            /\ (\A e \in about(kind) : a <= e.tick)
                            => FirstTick(log, t, kind) = a
    BY <1>2, FirstTickIs
  <2> HIDE DEF about, c
  <2>5. FirstTick(log, t, "task_created") = c.created + 1
    <3>1. \A e \in about("task_created") : e.tick = c.created + 1
      <4>1. \A e \in EventsOfKind("task_created") : e.tick = released[e.task].created + 1
        BY <1>1 DEF Logged
      <4> QED
        BY <2>1, <4>1 DEF EventsAbout, about
    <3>2. \E e \in about("task_created") : TRUE
      BY <1>2, <2>3 DEF Tells
    <3>3. c.created + 1 \in Nat /\ c.created + 1 <= c.created + 1
      BY <2>2
    <3> QED
      BY <2>4, <3>1, <3>2, <3>3
  <2>6. FirstTick(log, t, "task_assigned") = c.assigned
    BY <2>1, <2>2, <2>4
  <2>7. FirstTick(log, t, "task_completed") =
          IF c.completed = None THEN None ELSE c.completed + 1
    <3>1. CASE t \in Finished
      <4>1. \A e \in about("task_completed") : e.tick = c.completed + 1
        BY <1>1 DEF Gathered, EventsAbout, about, c
      <4>2. \E e \in about("task_completed") : TRUE
        BY <1>2, <2>3, <3>1 DEF Tells
      <4>3. c.completed + 1 \in Nat /\ c.completed + 1 <= c.completed + 1
        BY <2>2
      <4> QED
        BY <2>1, <2>4, <3>1, <4>1, <4>2, <4>3
    <3>2. CASE t \notin Finished
      <4>1. about("task_completed") = {}
        BY <1>2, <2>3, <3>2 DEF Tells
      <4> QED
        BY <2>1, <2>4, <3>2, <4>1
    <3> QED
      BY <3>1, <3>2
  <2> QED
    BY <1>3, <1>4, <2>1, <2>5, <2>6, <2>7 DEF c
<1>6. LET k == l IN
        /\ DOMAIN k = DOMAIN collected
        /\ \A t \in DOMAIN k :
             /\ k[t].created = collected[t].created + 1
             /\ k[t].assigned = collected[t].assigned
             /\ k[t].completed = IF collected[t].completed = None THEN None
                                 ELSE collected[t].completed + 1
             /\ released[t].created = collected[t].created
  BY <1>1, <1>4, <1>5 DEF Gathered
<1> QED
  BY <1>6 DEF LifecyclesAgree, l

\* After every tick the log and the last row of the time series say the same of
\* the work as the counters and the tasks, and the life of a task that the
\* collector saw is the one that is reconstructed from the log: each task is in
\* the log as created once and as completed once, at the ticks the collector
\* has, whatever happened to it between two snapshots (recorder.py, headless.py,
\* analysis/metrics.py).
THEOREM RecordsStayAgreed == ASSUME Connected PROVE Spec => []RecordsAgree
<1>1. Inv /\ Books => RecordsAgree
  BY BooksBalanced, BooksAgree DEF RecordsAgree
<1> QED
  BY <1>1, BooksHold, PTL

-----------------------------------------------------------------------------
(* What the generator has been asked for.                                  *)

\* The orders of a sorted file up to a tick.
UpTo(sorted, t) == Cardinality({k \in 1..Len(sorted) : sorted[k].tick <= t})

\* The tasks that were made have the numbers in turn, and the ticks asked for.
Numbered ==
  /\ generator.number = Len(released) + 1
  /\ \A i \in DOMAIN released :
       released[i].number = i /\ released[i].created \in 0..AskedUntil

\* The file has been read up to the tick asked for, and the tasks are its orders,
\* in turn, but for those before the start.
FileFollowed ==
  plan.demand.mode = "csv_orders" =>
    LET sorted == ResolvedEvents(plan.demand.events)
        missed == UpTo(sorted, StartTick - 1)
        read   == IF AskedUntil < StartTick THEN missed ELSE UpTo(sorted, AskedUntil)
    IN  /\ generator.index = IF AskedUntil < StartTick THEN 0 ELSE read
        /\ Len(released) = read - missed
        /\ \A k \in DOMAIN released : released[k].type = sorted[missed + k].type
                                      /\ released[k].created = sorted[missed + k].tick

\* A type is next due at the first of its ticks that has not been asked for.
NextDue(first, d, next, asked) ==
  /\ next >= first /\ (next - first) % d = 0 /\ next > asked
  /\ next = first \/ next - d <= asked

Released(type, t) == {i \in DOMAIN released : released[i].type = type /\ released[i].created = t}
Comes(type, t) == LET first == NewGenerator.due[type]
                  IN  t >= first /\ (t - first) % Intervals[type] = 0
TypesFollowed ==
  plan.demand.mode = "legacy" =>
    \A type \in TypeSet :
      /\ NextDue(NewGenerator.due[type], Intervals[type], generator.due[type], AskedUntil)
      /\ \A t \in 0..AskedUntil :
           Cardinality(Released(type, t)) = IF Comes(type, t) THEN 1 ELSE 0

Followed == Numbered /\ FileFollowed /\ TypesFollowed
-----------------------------------------------------------------------------
(* A file of orders.                                                       *)

\* The orders before one, and those up to a tick.
Preceding(events, i) ==
  {j \in 1..Len(events) : \/ events[j].tick < events[i].tick
                          \/ events[j].tick = events[i].tick /\ j < i}
Until(events, t) == {i \in 1..Len(events) : events[i].tick <= t}

LEMMA IntervalFrom1 ==
  ASSUME NEW n \in Nat
  PROVE  IsFiniteSet(1..n) /\ Cardinality(1..n) = n
BY FS_Interval

\* A file has a natural tick in each line.
IsFile(events) == IsOrders(events) /\ \A i \in 1..Len(events) : events[i].tick \in Nat

\* Sorting puts an order behind those that precede it.
LEMMA PlaceOfOrder ==
  ASSUME NEW events, IsFile(events)
  PROVE  /\ Len(events) \in Nat
         /\ \A i \in 1..Len(events) :
              /\ IsFiniteSet(Preceding(events, i)) /\ Cardinality(Preceding(events, i)) \in Nat
              /\ Cardinality(Preceding(events, i)) + 1 \in 1..Len(events)
              /\ ResolvedEvents(events)[Cardinality(Preceding(events, i)) + 1] = events[i]
         /\ \A k \in 1..Len(events) : \E i \in 1..Len(events) :
              Cardinality(Preceding(events, i)) = k - 1
<1> DEFINE n == Len(events)
           S == 1..n
           below == [i \in S |-> Preceding(events, i)]
           pick == [k \in S |-> CHOOSE i \in S : Cardinality(Preceding(events, i)) = k - 1]
<1>1. n \in Nat /\ DOMAIN events = S /\ \A i \in S : events[i].tick \in Nat /\ i \in Nat
  BY DEF IsFile, IsOrders, IsList
<1>2. IsFiniteSet(S) /\ Cardinality(S) = n
  BY <1>1, IntervalFrom1
<1>3. /\ below \in [S -> SUBSET S]
      /\ \A i \in S : i \notin Preceding(events, i)
      /\ \A j, i \in S : j # i => j \in Preceding(events, i) \/ i \in Preceding(events, j)
      /\ \A j, i \in S : j \in Preceding(events, i) =>
                           Preceding(events, j) \subseteq Preceding(events, i)
      /\ \A i \in S : Preceding(events, i) \in SUBSET S
  BY <1>1 DEF Preceding
<1>4. \A k \in S : \E i \in S : Cardinality(Preceding(events, i)) = k - 1
  <2>1. \A i \in S : below[i] = Preceding(events, i)
    OBVIOUS
  <2> HIDE DEF below
  <2>2. \A i \in 1..Cardinality(S) : \E r \in S : Cardinality(below[r]) = i - 1
    <3> HIDE DEF S
    <3> QED
      BY <1>2, <1>3, <2>1, PlacesTaken
  <2> QED
    BY <1>2, <2>1, <2>2
<1>5. ResolvedEvents(events) = [k \in S |-> events[pick[k]]]
  BY <1>1 DEF ResolvedEvents, Preceding
<1>6. \A i \in S : IsFiniteSet(Preceding(events, i)) /\ Cardinality(Preceding(events, i)) \in Nat
  BY <1>2, <1>3, FS_Subset, FS_CardinalityType
<1>7. ASSUME NEW i \in S, NEW j \in S,
             Cardinality(Preceding(events, i)) = Cardinality(Preceding(events, j))
      PROVE  i = j
  <2> SUFFICES ASSUME i # j PROVE FALSE
    OBVIOUS
  <2>1. PICK a \in S, b \in S : a # b /\ a \in Preceding(events, b)
                                /\ Cardinality(Preceding(events, a)) =
                                     Cardinality(Preceding(events, b))
    BY <1>3, <1>7
  <2>2. Preceding(events, a) \in SUBSET Preceding(events, b)
    BY <1>3, <2>1
  <2>3. Preceding(events, a) = Preceding(events, b)
    BY <1>6, <2>1, <2>2, FS_Subset
  <2> QED
    BY <1>3, <2>1, <2>3
<1>8. ASSUME NEW i \in S
      PROVE  /\ Cardinality(Preceding(events, i)) + 1 \in S
             /\ ResolvedEvents(events)[Cardinality(Preceding(events, i)) + 1] = events[i]
  <2> DEFINE c == Cardinality(Preceding(events, i))
             k == c + 1
  <2>1. Preceding(events, i) \in SUBSET S /\ Preceding(events, i) # S
    BY <1>3
  <2>2. c <= n /\ c # n /\ c \in Nat
    BY <1>2, <1>6, <2>1, FS_Subset
  <2>3. k \in S /\ k - 1 = c
    <3>1. n \in Nat
      BY <1>1
    <3> HIDE DEF c, n
    <3> QED
      BY <2>2, <3>1
  <2>4. pick[k] = CHOOSE j \in S : Cardinality(Preceding(events, j)) = c
    <3> HIDE DEF c, k
    <3> QED
      BY <2>3
  <2>5. pick[k] = i
    <3> HIDE DEF pick
    <3> QED
      BY <1>7, <2>4
  <2>6. ResolvedEvents(events)[k] = events[pick[k]]
    <3> HIDE DEF pick, k
    <3> QED
      BY <1>5, <2>3
  <2> QED
    BY <2>3, <2>5, <2>6
<1> QED
  BY <1>1, <1>4, <1>6, <1>8

\* The sorted file has the orders up to a tick in front.
LEMMA SortedUntil ==
  ASSUME NEW events, IsFile(events), NEW t \in Int
  PROVE  LET sorted == ResolvedEvents(events)
         IN  /\ UpTo(sorted, t) \in 0..Len(events)
             /\ Len(sorted) = Len(events)
             /\ \A k \in 1..Len(events) : sorted[k].tick \in Nat
                                          /\ (sorted[k].tick <= t <=> k <= UpTo(sorted, t))
             /\ IsFiniteSet(Until(events, t))
             /\ UpTo(sorted, t) = Cardinality(Until(events, t))
<1> DEFINE n == Len(events)
           S == 1..n
           sorted == ResolvedEvents(events)
           U == Until(events, t)
           size == Cardinality(U)
<1>1. n \in Nat /\ \A i \in S : events[i].tick \in Nat
  BY PlaceOfOrder DEF IsFile
<1>2. IsFiniteSet(S) /\ Cardinality(S) = n /\ U \in SUBSET S
  BY <1>1, IntervalFrom1 DEF Until
<1>3. IsFiniteSet(U) /\ size \in Nat /\ size <= n
  BY <1>2, FS_Subset, FS_CardinalityType
<1>4. Len(sorted) = n /\ \A k \in S : sorted[k].tick \in Nat
  BY ResolvedTyped DEF IsFile
<1>5. ASSUME NEW k \in S
      PROVE  sorted[k].tick <= t <=> k <= size
  <2>1. PICK i \in S : Cardinality(Preceding(events, i)) = k - 1
    BY PlaceOfOrder
  <2> DEFINE P == Preceding(events, i)
  <2>2. IsFiniteSet(P) /\ Cardinality(P) = k - 1 /\ sorted[k] = events[i]
    <3>1. (k - 1) + 1 = k
      BY <1>1
    <3>2. IsFiniteSet(P) /\ sorted[Cardinality(P) + 1] = events[i]
      BY PlaceOfOrder
    <3> HIDE DEF sorted
    <3> QED
      BY <2>1, <3>1, <3>2
  <2>3. ASSUME events[i].tick <= t PROVE k <= size
    <3>1. P \union {i} \in SUBSET U /\ i \notin P
      BY <1>1, <2>3 DEF Preceding, Until
    <3>2. IsFiniteSet(P \union {i}) /\ Cardinality(P \union {i}) = Cardinality(P) + 1
      BY <2>2, <3>1, FS_AddElement
    <3>3. Cardinality(P \union {i}) <= size
      BY <1>3, <3>1, FS_Subset
    <3> HIDE DEF size, P
    <3> QED
      BY <1>1, <1>3, <2>2, <3>2, <3>3
  <2>4. ASSUME ~(events[i].tick <= t) PROVE ~(k <= size)
    <3>1. U \in SUBSET P
      BY <1>1, <2>4 DEF Preceding, Until
    <3>2. size <= Cardinality(P)
      BY <2>2, <3>1, FS_Subset
    <3> HIDE DEF size, P
    <3> QED
      BY <1>1, <1>3, <2>2, <3>2
  <2> QED
    BY <2>2, <2>3, <2>4
<1>6. UpTo(sorted, t) = size
  <2>1. {k \in S : sorted[k].tick <= t} = 1..size
    <3> HIDE DEF size, sorted
    <3> QED
      BY <1>1, <1>3, <1>5
  <2>2. Cardinality(1..size) = size
    BY <1>3, IntervalFrom1
  <2>3. UpTo(sorted, t) = Cardinality({k \in S : sorted[k].tick <= t})
    BY <1>4 DEF UpTo
  <2> QED
    BY <2>1, <2>2, <2>3
<1> HIDE DEF sorted, size, n, U
<1>7. UpTo(sorted, t) \in 0..n
  BY <1>1, <1>3, <1>6
<1> QED
  BY <1>3, <1>4, <1>5, <1>6, <1>7 DEF sorted, size, n, U

\* Wherever the last orders left off, the index ends behind those of the tick.
LEMMA IndexMoves ==
  ASSUME NEW events, IsFile(events), NEW t \in Int, NEW index \in Nat,
         index <= UpTo(ResolvedEvents(events), t)
  PROVE  CsvIndex(ResolvedEvents(events), index, t) = UpTo(ResolvedEvents(events), t)
<1> DEFINE sorted == ResolvedEvents(events)
           n == Len(events)
           last == UpTo(sorted, t)
           due == {i \in DOMAIN sorted : i > index /\ sorted[i].tick <= t}
<1>1. /\ n \in Nat /\ last \in 0..n /\ \A k \in 1..n : (sorted[k].tick <= t <=> k <= last)
      /\ DOMAIN sorted = 1..n
  BY SortedUntil, PlaceOfOrder, ResolvedTyped DEF IsFile, IsOrders, IsList
<1> HIDE DEF sorted, n
<1>2. due = (index + 1)..last
  <2> HIDE DEF last
  <2> QED
    BY <1>1
<1>3. Cardinality((index + 1)..last) = last - index
  <2> DEFINE m == index + 1
  <2>1. m \in Int /\ last \in Int /\ index \in Int /\ index <= last
    BY <1>1 DEF sorted
  <2> HIDE DEF m, last
  <2>2. Cardinality(m..last) = IF m > last THEN 0 ELSE last - m + 1
    BY <2>1, FS_Interval
  <2> QED
    BY <2>1, <2>2 DEF m
<1>4. CsvIndex(sorted, index, t) = index + (last - index)
  BY <1>2, <1>3 DEF CsvIndex
<1>5. last \in Int
  BY <1>1
<1> HIDE DEF last
<1>6. index + (last - index) = last
  BY <1>5
<1> QED
  BY <1>4, <1>6 DEF last, sorted

LEMMA UntilGrows ==
  ASSUME NEW events, IsFile(events), NEW t \in Int, NEW u \in Int, t <= u
  PROVE  UpTo(ResolvedEvents(events), t) <= UpTo(ResolvedEvents(events), u)
<1>1. /\ UpTo(ResolvedEvents(events), t) = Cardinality(Until(events, t))
      /\ UpTo(ResolvedEvents(events), u) = Cardinality(Until(events, u))
      /\ IsFiniteSet(Until(events, u))
  BY SortedUntil
<1>2. Until(events, t) \in SUBSET Until(events, u)
  BY DEF Until, IsFile
<1> QED
  BY <1>1, <1>2, FS_Subset

\* The orders of a tick, whether the index was moved up to the tick before or not.
LEMMA OrdersOfTick ==
  ASSUME NEW events, IsFile(events), NEW tau \in Nat, NEW index \in Nat,
         index <= UpTo(ResolvedEvents(events), tau - 1)
  PROVE  LET sorted == ResolvedEvents(events)
             orders == CsvOrders(sorted, index, tau)
             read   == UpTo(sorted, tau - 1)
         IN  /\ Len(orders) = UpTo(sorted, tau) - read
             /\ \A k \in 1..Len(orders) :
                  /\ read + k \in 1..Len(events) /\ orders[k] = sorted[read + k]
                  /\ sorted[read + k].tick = tau
<1> DEFINE sorted == ResolvedEvents(events)
           orders == CsvOrders(sorted, index, tau)
           read == UpTo(sorted, tau - 1)
           last == UpTo(sorted, tau)
           n == Len(events)
<1>1. tau - 1 \in Int /\ tau \in Int /\ tau - 1 <= tau
  OBVIOUS
<1>2. read <= last
  <2> DEFINE t == tau - 1
  <2> HIDE DEF t
  <2>1. t \in Int /\ t <= tau
    BY DEF t
  <2>2. UpTo(sorted, t) <= UpTo(sorted, tau)
    BY <1>1, <2>1, UntilGrows
  <2> QED
    BY <2>2 DEF t
<1>3. /\ n \in Nat /\ read \in 0..n /\ last \in 0..n
      /\ \A k \in 1..n : /\ sorted[k].tick \in Nat
                         /\ (sorted[k].tick <= tau - 1 <=> k <= read)
                         /\ (sorted[k].tick <= tau <=> k <= last)
  BY <1>1, SortedUntil, PlaceOfOrder
<1>4. /\ IsList(sorted) /\ Len(sorted) = n
  BY ResolvedTyped DEF IsFile, IsOrders
<1>5. CsvIndex(sorted, index, tau - 1) = read /\ CsvIndex(sorted, index, tau) = last
  <2>1. index <= last
    <3> HIDE DEF read, last
    <3>1. read \in Nat /\ last \in Nat /\ index <= read
      BY <1>3 DEF read, sorted
    <3> QED
      BY <1>2, <3>1
  <2> QED
    BY <1>1, <2>1, IndexMoves
<1>6. orders = SubSeq(sorted, read + 1, last)
  BY <1>5 DEF CsvOrders
<1> HIDE DEF sorted, read, last, n, orders
<1>7. sorted \in Seq(ToSet(sorted))
  BY <1>4 DEF IsList
<1>8. Len(orders) = last - read
      /\ \A k \in 1..(last - read) : orders[k] = sorted[read + k] /\ read + k \in 1..n
                                     /\ read + k > read /\ read + k <= last
  <2>1. CASE read + 1 > last
    BY <1>2, <1>3, <1>4, <1>6, <1>7, <2>1
  <2>2. CASE read + 1 <= last
    BY <1>2, <1>3, <1>4, <1>6, <1>7, <2>2
  <2> QED
    BY <1>3, <2>1, <2>2
<1>9. ASSUME NEW k \in 1..(last - read) PROVE sorted[read + k].tick = tau
  <2> DEFINE j == read + k
  <2>1. j \in 1..n /\ j > read /\ j <= last /\ read \in Nat /\ last \in Nat
    BY <1>3, <1>8
  <2> HIDE DEF j
  <2>2. sorted[j].tick \in Nat /\ ~(sorted[j].tick <= tau - 1) /\ sorted[j].tick <= tau
    BY <1>3, <2>1
  <2> QED
    BY <2>2 DEF j
<1> QED
  BY <1>8, <1>9 DEF sorted, read, last, n, orders

\* What the tasks of a list of orders are.
LEMMA TasksOfOrders ==
  ASSUME NEW g, g.number \in Nat, NEW orders, IsOrders(orders), NEW tau,
         NEW made \in DemandTasks(g, orders, tau)
  PROVE  /\ IsList(made) /\ Len(made) = Len(orders)
         /\ \A i \in 1..Len(orders) :
              /\ made[i].type = orders[i].type /\ made[i].created = tau
              /\ made[i].number = g.number + i - 1
<1> DEFINE n == Len(orders)
           sets == [i \in DOMAIN orders |-> TasksOf(orders[i], g.number + i - 1, tau)]
<1>1. n \in Nat /\ DOMAIN orders = 1..n
  BY DEF IsOrders, IsList
<1>2. made \in Selections(sets) /\ DOMAIN sets = 1..n
  BY <1>1 DEF DemandTasks
<1>3. /\ made \in Seq(UNION ToSet(sets)) /\ Len(made) = n
      /\ \A i \in 1..n : made[i] \in sets[i]
  <2> HIDE DEF sets, n
  <2> QED
    BY <1>1, <1>2, SelectionTyped
<1>4. ASSUME NEW i \in 1..n
      PROVE  /\ made[i].type = orders[i].type /\ made[i].created = tau
             /\ made[i].number = g.number + i - 1
  <2> DEFINE number == g.number + i - 1
             order == orders[i]
             task == made[i]
  <2>1. task \in TasksOf(order, number, tau)
    BY <1>1, <1>3
  <2> HIDE DEF number, order, task
  <2>2. PICK plain \in CreateTask(order.type, number, tau) : task = DemandTask(plain, order)
    BY <2>1 DEF TasksOf
  <2>3. PICK p, d : plain = [number |-> number, type |-> order.type, pickup |-> p, dropoff |-> d,
                             priority |-> PriorityFor[order.type], created |-> tau]
    BY DEF CreateTask
  <2>4. task.number = number /\ task.created = tau /\ task.type = order.type
    BY <2>2, <2>3 DEF DemandTask
  <2> QED
    BY <2>4 DEF number, order, task
<1>5. IsList(made)
  BY <1>3, SequenceIsList
<1> QED
  BY <1>3, <1>4, <1>5

-----------------------------------------------------------------------------
(* The step of the generator.                                              *)

LEMMA JoinedAt ==
  ASSUME NEW s, NEW t, IsList(s), IsList(t)
  PROVE  /\ IsList(s \o t) /\ Len(s) \in Nat /\ Len(t) \in Nat
         /\ Len(s \o t) = Len(s) + Len(t) /\ DOMAIN (s \o t) = 1..(Len(s) + Len(t))
         /\ \A i \in 1..(Len(s) + Len(t)) :
              \/ i \in 1..Len(s) /\ (s \o t)[i] = s[i]
              \/ /\ ~(i \in 1..Len(s)) /\ i - Len(s) \in 1..Len(t)
                 /\ (s \o t)[i] = t[i - Len(s)]
<1> DEFINE S == ToSet(s) \union ToSet(t)
           m == Len(s)
           n == Len(t)
<1>1. s \in Seq(S) /\ t \in Seq(S)
  BY DEF IsList
<1>2. /\ m \in Nat /\ n \in Nat /\ s \o t \in Seq(S)
      /\ DOMAIN (s \o t) = 1..(m + n) /\ Len(s \o t) = m + n
      /\ \A i \in 1..m : (s \o t)[i] = s[i]
      /\ \A i \in 1..(m + n) : i > m => (s \o t)[i] = t[i - m]
  <2> HIDE DEF S
  <2> QED
    BY <1>1
<1>3. \A i \in 1..(m + n) : i \in 1..m \/ (~(i \in 1..m) /\ i > m /\ i - m \in 1..n)
  <2> HIDE DEF m, n
  <2> QED
    BY <1>2
<1>4. IsList(s \o t)
  BY Joins
<1> QED
  BY <1>2, <1>3, <1>4

\* What is known of a step of the generator.
Produces(step) ==
  /\ step \in Steps(plan.demand, generator, tick) /\ ~step.raised
  /\ generator' = step.g /\ released' = released \o step.tasks
  /\ plan' = plan /\ AskedUntil = tick - 1 /\ AskedUntil' = tick

LEMMA GenerateProduces ==
  ASSUME Inv, Generate
  PROVE  /\ \E step : Produces(step)
         /\ IsDemand(plan.demand) /\ IsGenerator(plan.demand, generator)
         /\ tick \in Nat /\ IsList(released)
<1>1. /\ plan.demand \in Demands /\ IsGenerator(plan.demand, generator)
      /\ IsList(released) /\ Sound(DOMAIN tasks, Len(released), World)
  BY DEF Inv, Orderly
<1>2. tick \in Nat
  <2>1. World.tick \in 0..Duration
    BY <1>1 DEF Sound, Worlds
  <2> QED
    BY <2>1, DispatchAssumption DEF World
<1>3. PICK step \in Steps(plan.demand, generator, tick) :
        ~step.raised /\ generator' = step.g /\ released' = released \o step.tasks
  BY DEF Generate
<1>4. AskedUntil = tick - 1 /\ AskedUntil' = tick /\ plan' = plan
  BY DEF Generate, AskedUntil
<1>5. Produces(step)
  BY <1>3, <1>4 DEF Produces
<1> QED
  BY <1>1, <1>2, <1>5, DispatchAssumption

LEMMA GenerateNumbered ==
  ASSUME Inv, Numbered, Generate
  PROVE  Numbered'
<1>1. PICK step : Produces(step)
  BY GenerateProduces
<1> DEFINE made == step.tasks
           m == Len(released)
           n == Len(made)
           number == generator.number
<1>2. IsDemand(plan.demand) /\ IsGenerator(plan.demand, generator) /\ tick \in Nat /\ IsList(released)
  BY GenerateProduces
<1>3. IsOutcome(plan.demand, generator, made, step.g, tick)
  BY <1>1, <1>2, StepsTyped DEF Produces
<1>4. /\ IsList(made) /\ step.g.number = number + n
      /\ \A i \in 1..n : made[i].number = number + i - 1 /\ made[i].created = tick
  BY <1>3 DEF IsOutcome, AreMade, IsMade
<1>5. /\ m \in Nat /\ n \in Nat /\ released' = released \o made /\ DOMAIN released = 1..m
      /\ Len(released') = m + n /\ DOMAIN released' = 1..(m + n)
      /\ \A i \in 1..(m + n) :
           \/ i \in 1..m /\ released'[i] = released[i]
           \/ ~(i \in 1..m) /\ i - m \in 1..n /\ released'[i] = made[i - m]
  BY <1>1, <1>2, <1>4, JoinedAt DEF Produces, IsList
<1>6. AskedUntil = tick - 1 /\ AskedUntil' = tick /\ generator' = step.g
  BY <1>1 DEF Produces
<1>7. number = m + 1 /\ \A i \in 1..m : released[i].number = i
                                       /\ released[i].created \in 0..AskedUntil
  BY <1>5 DEF Numbered
<1> HIDE DEF m, n, made, number
<1>8. generator'.number = (m + n) + 1
  BY <1>4, <1>5, <1>6, <1>7
<1>9. ASSUME NEW i \in 1..(m + n)
      PROVE  released'[i].number = i /\ released'[i].created \in 0..tick
  <2>1. CASE i \in 1..m /\ released'[i] = released[i]
    BY <1>2, <1>6, <1>7, <2>1
  <2>2. CASE ~(i \in 1..m) /\ i - m \in 1..n /\ released'[i] = made[i - m]
    BY <1>2, <1>4, <1>5, <1>7, <2>2
  <2> QED
    BY <1>5, <2>1, <2>2
<1> QED
  BY <1>5, <1>6, <1>8, <1>9 DEF Numbered

LEMMA GenerateFile ==
  ASSUME Inv, Numbered, FileFollowed, Generate
  PROVE  FileFollowed'
<1> SUFFICES ASSUME plan.demand.mode = "csv_orders", plan' = plan
             PROVE  FileFollowed'
  BY DEF FileFollowed, Generate
<1>1. PICK step : Produces(step)
  BY GenerateProduces
<1> DEFINE events == plan.demand.events
           sorted == ResolvedEvents(events)
           missed == UpTo(sorted, StartTick - 1)
           read == IF tick - 1 < StartTick THEN missed ELSE UpTo(sorted, tick - 1)
           last == IF tick < StartTick THEN missed ELSE UpTo(sorted, tick)
           m == Len(released)
<1>2. /\ IsDemand(plan.demand) /\ IsGenerator(plan.demand, generator)
      /\ tick \in Nat /\ IsList(released) /\ StartTick \in Nat \ {0}
      /\ generator \in GeneratorType /\ generator.number \in Nat /\ generator.index \in Nat
  BY GenerateProduces, DemandAssumption DEF IsGenerator, GeneratorType
<1>3. IsFile(events)
  <2>1. /\ IsList(events)
        /\ \A i \in DOMAIN events : IsOrder(events[i]) /\ events[i].tick \in Nat
    BY <1>2 DEF IsDemand, IsOrder, IsList
  <2> HIDE DEF events
  <2> QED
    BY <2>1 DEF IsFile, IsOrders, IsList
<1>4. /\ AskedUntil = tick - 1 /\ AskedUntil' = tick /\ generator' = step.g
      /\ released' = released \o step.tasks
      /\ step \in Steps(plan.demand, generator, tick) /\ ~step.raised
  BY <1>1 DEF Produces
<1>5. /\ generator.index = IF tick - 1 < StartTick THEN 0 ELSE read
      /\ m = read - missed /\ DOMAIN released = 1..m /\ m \in Nat
      /\ \A k \in 1..m : released[k].type = sorted[missed + k].type
                         /\ released[k].created = sorted[missed + k].tick
  BY <1>2, <1>4 DEF FileFollowed, IsList
<1>6. SUFFICES /\ generator'.index = IF tick < StartTick THEN 0 ELSE last
               /\ Len(released') = last - missed
               /\ \A k \in DOMAIN released' : released'[k].type = sorted[missed + k].type
                                              /\ released'[k].created = sorted[missed + k].tick
  BY <1>4 DEF FileFollowed
<1>7. CASE tick < StartTick
  <2>1. step.tasks = <<>> /\ step.g = generator
    BY <1>4, <1>7 DEF Steps
  <2>2. tick - 1 < StartTick
    BY <1>2, <1>7
  <2>3. released' = released
    BY <1>2, <1>4, <2>1 DEF IsList
  <2>4. read = missed /\ last = missed
    BY <1>7, <2>2
  <2> HIDE DEF read, last, missed, sorted
  <2> QED
    BY <1>4, <1>5, <1>7, <2>1, <2>2, <2>3, <2>4
<1>8. CASE ~(tick < StartTick)
  <2> DEFINE before == UpTo(sorted, tick - 1)
             orders == CsvOrders(sorted, generator.index, tick)
             n == Len(orders)
             made == step.tasks
  <2>1. /\ made \in DemandTasks(generator, orders, tick)
        /\ step.g = DemandNext(plan.demand, generator, orders, tick)
    <3> DEFINE Outcome(lists, next) ==
                 IF lists = {} THEN {[raised |-> TRUE, tasks |-> <<>>, g |-> next]}
                 ELSE {[raised |-> FALSE, tasks |-> ts, g |-> next] : ts \in lists}
    <3>1. ASSUME NEW lists, NEW next, step \in Outcome(lists, next)
          PROVE  step.tasks \in lists /\ step.g = next
      BY <1>4, <3>1
    <3>2. OrdersAt(plan.demand, generator, tick) = {orders}
      BY DEF OrdersAt
    <3> HIDE DEF orders
    <3>3. step \in Outcome(DemandTasks(generator, orders, tick),
                           DemandNext(plan.demand, generator, orders, tick))
      BY <1>4, <1>8, <3>2 DEF Steps
    <3> HIDE DEF Outcome
    <3> QED
      BY <3>1, <3>3
  <2>2. step.g.index = CsvIndex(sorted, generator.index, tick)
    <3> HIDE DEF orders
    <3> QED
      BY <1>2, <2>1 DEF DemandNext, GeneratorType
  <2>3. before = read
    <3>1. CASE tick - 1 < StartTick
      <4>1. tick = StartTick
        BY <1>2, <1>8, <3>1
      <4> QED
        BY <3>1, <4>1
    <3>2. CASE ~(tick - 1 < StartTick)
      BY <3>2
    <3> QED
      BY <3>1, <3>2
  <2>4. generator.index <= before /\ before \in Nat /\ missed \in Nat
    <3>1. \A t \in Int : UpTo(sorted, t) \in 0..Len(events) /\ Len(events) \in Nat
      BY <1>3, SortedUntil, PlaceOfOrder
    <3>2. tick - 1 \in Int /\ StartTick - 1 \in Int
      BY <1>2
    <3>3. before \in Nat /\ missed \in Nat
      <4> HIDE DEF sorted, events
      <4> QED
        BY <3>1, <3>2
    <3>4. generator.index = 0 \/ generator.index = before
      BY <1>5, <2>3
    <3> HIDE DEF before
    <3> QED
      BY <3>3, <3>4
  <2>5. /\ n = UpTo(sorted, tick) - before
        /\ \A k \in 1..n : /\ before + k \in 1..Len(events) /\ orders[k] = sorted[before + k]
                           /\ sorted[before + k].tick = tick
    <3> DEFINE index == generator.index
    <3>1. index \in Nat /\ index <= UpTo(sorted, tick - 1)
      BY <1>2, <2>4
    <3> HIDE DEF index, events
    <3>2. LET list == CsvOrders(sorted, index, tick)
          IN  /\ Len(list) = UpTo(sorted, tick) - UpTo(sorted, tick - 1)
              /\ \A k \in 1..Len(list) :
                   /\ UpTo(sorted, tick - 1) + k \in 1..Len(events)
                   /\ list[k] = sorted[UpTo(sorted, tick - 1) + k]
                   /\ sorted[UpTo(sorted, tick - 1) + k].tick = tick
      BY <1>2, <1>3, <3>1, OrdersOfTick
    <3> QED
      BY <3>2 DEF index
  <2>14. UpTo(sorted, tick) \in Int
    <3>1. tick \in Int
      BY <1>2
    <3>2. UpTo(sorted, tick) \in 0..Len(events)
      BY <1>3, <3>1, SortedUntil
    <3> QED
      BY <3>2
  <2>6. CsvIndex(sorted, generator.index, tick) = UpTo(sorted, tick) /\ UpTo(sorted, tick) = last
    <3> DEFINE t == tick - 1
    <3>1. t \in Int /\ tick \in Int /\ t <= tick
      BY <1>2
    <3> HIDE DEF t
    <3>2. UpTo(sorted, t) <= UpTo(sorted, tick)
      BY <1>3, <3>1, UntilGrows
    <3>3. UpTo(sorted, tick) \in 0..Len(events) /\ Len(events) \in Nat
      BY <1>3, <3>1, SortedUntil, PlaceOfOrder
    <3>4. generator.index <= UpTo(sorted, tick)
      <4>1. generator.index <= UpTo(sorted, t) /\ UpTo(sorted, t) \in Nat
        BY <2>4 DEF t
      <4> HIDE DEF sorted, events
      <4> QED
        BY <1>2, <3>2, <3>3, <4>1
    <3>5. CsvIndex(sorted, generator.index, tick) = UpTo(sorted, tick)
      BY <1>2, <1>3, <3>1, <3>4, IndexMoves
    <3> QED
      BY <1>8, <3>5
  <2>7. IsOrders(orders)
    <3>1. IsOrders(sorted) /\ Len(sorted) = Len(events)
      BY <1>3, ResolvedTyped DEF IsFile
    <3>2. generator.index <= Len(sorted)
      BY <1>2, <3>1 DEF IsGenerator
    <3> QED
      BY <1>2, <3>1, <3>2, CsvOrdersTyped
  <2>8. /\ IsList(made) /\ Len(made) = n
        /\ \A i \in 1..n : made[i].type = orders[i].type /\ made[i].created = tick
    <3> HIDE DEF orders
    <3> QED
      BY <1>2, <2>1, <2>7, TasksOfOrders
  <2>9. /\ n \in Nat /\ Len(released') = m + n /\ DOMAIN released' = 1..(m + n)
        /\ \A i \in 1..(m + n) :
             \/ i \in 1..m /\ released'[i] = released[i]
             \/ ~(i \in 1..m) /\ i - m \in 1..n /\ released'[i] = made[i - m]
    <3> HIDE DEF orders, n
    <3>1. IsList(released) /\ IsList(made) /\ Len(made) = n /\ released' = released \o made
      BY <1>2, <1>4, <2>8
    <3> HIDE DEF made, m
    <3>2. /\ Len(released) \in Nat /\ Len(made) \in Nat
          /\ Len(released') = Len(released) + Len(made)
          /\ DOMAIN released' = 1..(Len(released) + Len(made))
          /\ \A i \in 1..(Len(released) + Len(made)) :
               \/ i \in 1..Len(released) /\ released'[i] = released[i]
               \/ /\ ~(i \in 1..Len(released)) /\ i - Len(released) \in 1..Len(made)
                  /\ released'[i] = made[i - Len(released)]
      BY <3>1, JoinedAt
    <3> QED
      BY <3>1, <3>2 DEF m
  <2>10. last = UpTo(sorted, tick)
    BY <2>6
  <2> HIDE DEF before, orders, n, made, last, read, missed, sorted, events, m
  <2>11. Len(released') = last - missed
    BY <1>5, <2>3, <2>4, <2>5, <2>9, <2>10, <2>14
  <2>12. ASSUME NEW k \in 1..(m + n)
         PROVE  released'[k].type = sorted[missed + k].type
                /\ released'[k].created = sorted[missed + k].tick
    <3>1. CASE k \in 1..m /\ released'[k] = released[k]
      BY <1>5, <3>1
    <3>2. CASE ~(k \in 1..m) /\ k - m \in 1..n /\ released'[k] = made[k - m]
      <4>1. before + (k - m) = missed + k
        BY <1>5, <2>3, <2>4
      <4>2. orders[k - m] = sorted[missed + k] /\ sorted[missed + k].tick = tick
        BY <2>5, <3>2, <4>1
      <4> QED
        BY <2>8, <3>2, <4>2
    <3> QED
      BY <2>9, <3>1, <3>2
  <2>13. generator'.index = last
    BY <1>4, <2>2, <2>6
  <2> QED
    BY <1>8, <2>9, <2>11, <2>12, <2>13
<1> QED
  BY <1>7, <1>8

-----------------------------------------------------------------------------
(* The types of the default generator.                                     *)

LEMMA MultipleIs ==
  ASSUME NEW a \in Nat, NEW d \in Nat \ {0}, a % d = 0
  PROVE  \E q \in Int : a = d * q
<1> DEFINE q == a \div d
<1>1. a = d * q + (a % d) /\ q \in Int
  OBVIOUS
<1> HIDE DEF q
<1>2. a = d * q
  BY <1>1
<1> QED
  BY <1>1, <1>2

LEMMA MultipleNext ==
  ASSUME NEW a \in Nat, NEW d \in Nat \ {0}, a % d = 0
  PROVE  (a + d) % d = 0
<1>1. PICK q \in Int : a = d * q
  BY MultipleIs
<1>2. a + d = d * (q + 1)
  BY <1>1
<1>3. (d * (q + 1)) % d = 0
  OBVIOUS
<1> QED
  BY <1>2, <1>3

LEMMA MultiplesApart ==
  ASSUME NEW a \in Nat, NEW b \in Nat, NEW d \in Nat \ {0}, a % d = 0, b % d = 0, a < b
  PROVE  a + d <= b
<1>1. PICK p \in Int : a = d * p
  BY MultipleIs
<1>2. PICK q \in Int : b = d * q
  BY MultipleIs
<1>3. p < q
  <2> SUFFICES ASSUME q <= p PROVE FALSE
    BY <1>1, <1>2
  <2>1. d * q <= d * p
    OBVIOUS
  <2> QED
    BY <1>1, <1>2, <2>1
<1>4. p + 1 <= q
  BY <1>3
<1>5. d * (p + 1) <= d * q
  BY <1>4
<1>6. d * (p + 1) = d * p + d
  OBVIOUS
<1> QED
  BY <1>1, <1>2, <1>5, <1>6

LEMMA BothDistinct ==
  ASSUME NEW s, NEW t, Distinct(s), Distinct(t), ToSet(s) \cap ToSet(t) = {}
  PROVE  Distinct(s \o t) /\ ToSet(s \o t) = ToSet(s) \union ToSet(t)
<1>1. IsList(s) /\ IsList(t)
  BY DEF Distinct
<1> QED
  BY <1>1, JoinsDistinct, Joins

\* The types that are due are listed once each.
LEMMA DueListed ==
  ASSUME NEW g, NEW tau
  PROVE  /\ Distinct(Due(g, tau))
         /\ ToSet(Due(g, tau)) = {type \in TypeSet : g.due[type] = tau}
<1> DEFINE only(type) == IF g.due[type] = tau THEN <<type>> ELSE <<>>
           set(type) == {x \in {type} : g.due[type] = tau}
           a == only("PUTAWAY")
           b == only("PICK")
           c == only("PACK")
           d == only("SHIP")
<1>1. \A type : Distinct(only(type)) /\ ToSet(only(type)) = set(type)
  <2> TAKE type
  <2>1. CASE g.due[type] = tau
    <3>1. only(type) = <<type>> /\ set(type) = {type}
      BY <2>1
    <3>2. Distinct(<<type>>) /\ ToSet(<<type>>) = {type}
      <4>1. DOMAIN <<type>> = 1..1 /\ <<type>>[1] = type /\ Len(<<type>>) = 1
        OBVIOUS
      <4>2. ToSet(<<type>>) = {type}
        BY <4>1 DEF ToSet
      <4>3. IsList(<<type>>)
        BY <4>2 DEF IsList
      <4> QED
        BY <4>1, <4>2, <4>3 DEF Distinct
    <3> QED
      BY <3>1, <3>2
  <2>2. CASE g.due[type] # tau
    <3>1. only(type) = <<>> /\ set(type) = {}
      BY <2>2
    <3>2. Distinct(<<>>) /\ ToSet(<<>>) = {}
      BY DEF Distinct, IsList, ToSet
    <3> QED
      BY <3>1, <3>2
  <2> QED
    BY <2>1, <2>2
<1>2. Due(g, tau) = a \o b \o c \o d
  BY DEF Due, Types
<1>3. /\ ToSet(a) = set("PUTAWAY") /\ ToSet(b) = set("PICK")
      /\ ToSet(c) = set("PACK") /\ ToSet(d) = set("SHIP")
      /\ Distinct(a) /\ Distinct(b) /\ Distinct(c) /\ Distinct(d)
  BY <1>1
<1>4. /\ set("PUTAWAY") \cap set("PICK") = {}
      /\ (set("PUTAWAY") \union set("PICK")) \cap set("PACK") = {}
      /\ (set("PUTAWAY") \union set("PICK") \union set("PACK")) \cap set("SHIP") = {}
  OBVIOUS
<1>5. set("PUTAWAY") \union set("PICK") \union set("PACK") \union set("SHIP") =
        {type \in TypeSet : g.due[type] = tau}
  BY TypesAre
<1> HIDE DEF a, b, c, d, set
<1> DEFINE ab == a \o b
           abc == ab \o c
<1>6. Distinct(ab) /\ ToSet(ab) = set("PUTAWAY") \union set("PICK")
  BY <1>3, <1>4, BothDistinct
<1> HIDE DEF ab
<1>7. Distinct(abc) /\ ToSet(abc) = set("PUTAWAY") \union set("PICK") \union set("PACK")
  BY <1>3, <1>4, <1>6, BothDistinct
<1> HIDE DEF abc
<1>8. /\ Distinct(abc \o d)
      /\ ToSet(abc \o d) = set("PUTAWAY") \union set("PICK") \union set("PACK")
                            \union set("SHIP")
  BY <1>3, <1>4, <1>7, BothDistinct
<1> QED
  BY <1>2, <1>5, <1>8 DEF abc, ab

\* What the default generator makes, and when each type is next due.
LEMMA LegacyMakes ==
  ASSUME NEW g \in GeneratorType, NEW tau \in Nat, NEW made \in LegacyTasks(g, tau)
  PROVE  /\ IsList(made) /\ Len(made) = Len(Due(g, tau)) /\ DOMAIN made = DOMAIN Due(g, tau)
         /\ \A i \in DOMAIN made : made[i].type = Due(g, tau)[i] /\ made[i].created = tau
         /\ \A type \in TypeSet :
              LegacyNext(g, tau).due[type] =
                IF g.due[type] = tau THEN tau + Intervals[type] ELSE g.due[type]
<1> DEFINE due == Due(g, tau)
           n == Len(due)
           sets == [i \in DOMAIN due |-> CreateTask(due[i], g.number + i - 1, tau)]
<1>1. n \in Nat /\ DOMAIN due = 1..n
  BY DueListed, ListFacts DEF Distinct
<1>2. made \in Selections(sets) /\ DOMAIN sets = 1..n
  BY <1>1 DEF LegacyTasks
<1>3. /\ made \in Seq(UNION ToSet(sets)) /\ Len(made) = n /\ DOMAIN made = 1..n
      /\ \A i \in 1..n : made[i] \in sets[i]
  <2> HIDE DEF sets, n
  <2> QED
    BY <1>1, <1>2, SelectionTyped
<1>4. ASSUME NEW i \in 1..n PROVE made[i].type = due[i] /\ made[i].created = tau
  <2> DEFINE number == g.number + i - 1
             type == due[i]
  <2>1. made[i] \in CreateTask(type, number, tau)
    BY <1>1, <1>3
  <2> HIDE DEF number, type
  <2> QED
    BY <2>1 DEF CreateTask, type
<1>5. IsList(made)
  BY <1>3, SequenceIsList
<1>6. ASSUME NEW type \in TypeSet
      PROVE  LegacyNext(g, tau).due[type] =
               IF g.due[type] = tau THEN tau + Intervals[type] ELSE g.due[type]
  <2> DEFINE number == g.number + Len(Due(g, tau))
             dues == [x \in TypeSet |-> IF g.due[x] = tau THEN tau + Intervals[x] ELSE g.due[x]]
  <2>1. LegacyNext(g, tau) = [g EXCEPT !.number = number, !.due = dues]
    BY DEF LegacyNext, GeneratorType
  <2> HIDE DEF number, dues
  <2>2. LegacyNext(g, tau).due = dues
    BY <2>1 DEF GeneratorType
  <2> QED
    BY <2>2 DEF dues
<1> QED
  BY <1>1, <1>3, <1>4, <1>5, <1>6

\* A type comes when it is due, and is due next an interval later.
LEMMA DueMoves ==
  ASSUME NEW first \in Nat, NEW d \in Nat \ {0}, NEW next \in Nat, NEW tau \in Nat,
         NextDue(first, d, next, tau - 1)
  PROVE  /\ (tau >= first /\ (tau - first) % d = 0) <=> next = tau
         /\ NextDue(first, d, IF next = tau THEN tau + d ELSE next, tau)
<1>1. /\ next >= first /\ (next - first) % d = 0 /\ next >= tau
      /\ next = first \/ next - d <= tau - 1
  BY DEF NextDue
<1>2. ASSUME tau >= first, (tau - first) % d = 0, next # tau PROVE FALSE
  <2> DEFINE a == tau - first
             b == next - first
  <2>1. a \in Nat /\ b \in Nat /\ a < b /\ a % d = 0 /\ b % d = 0
    BY <1>1, <1>2
  <2>2. next # first
    BY <1>1, <1>2
  <2>3. b < a + d
    BY <1>1, <2>2
  <2> HIDE DEF a, b
  <2>4. a + d <= b
    BY <2>1, MultiplesApart
  <2> QED
    BY <2>1, <2>3, <2>4
<1>3. CASE next = tau
  <2> DEFINE a == tau - first
  <2>1. a \in Nat /\ a % d = 0
    BY <1>1, <1>3
  <2> HIDE DEF a
  <2>2. (a + d) % d = 0
    BY <2>1, MultipleNext
  <2>3. a + d = (tau + d) - first
    BY DEF a
  <2>4. ((tau + d) - first) % d = 0
    BY <2>2, <2>3
  <2>5. NextDue(first, d, tau + d, tau)
    BY <1>1, <1>3, <2>4 DEF NextDue
  <2> QED
    BY <1>1, <1>3, <2>5
<1>4. CASE next # tau
  <2>1. next > tau
    BY <1>1, <1>4
  <2>2. NextDue(first, d, next, tau)
    BY <1>1, <2>1 DEF NextDue
  <2> QED
    BY <1>2, <1>4, <2>2
<1> QED
  BY <1>3, <1>4

LEMMA StartsTyped ==
  /\ \A type \in TypeSet : NewGenerator.due[type] \in Nat /\ Intervals[type] \in Nat \ {0}
  /\ StartTick \in Nat \ {0}
<1>1. \A type \in TypeSet : PriorityFor[type] \in 0..3
  BY PriorityTyped
<1>2. StartTick \in Nat \ {0} /\ \A type \in TypeSet : Intervals[type] \in Nat \ {0}
  BY DemandAssumption
<1>3. \A p \in 0..3 : StartTick + 2 * (3 - p) \in Nat
  BY <1>2
<1>4. NewGenerator.due = [type \in TypeSet |-> StartTick + 2 * (3 - PriorityFor[type])]
  BY DEF NewGenerator
<1> QED
  BY <1>1, <1>2, <1>3, <1>4

LEMMA GenerateTypes ==
  ASSUME Inv, Numbered, TypesFollowed, Generate
  PROVE  TypesFollowed'
<1> SUFFICES ASSUME plan.demand.mode = "legacy", plan' = plan, NEW type \in TypeSet
             PROVE  /\ NextDue(NewGenerator.due[type], Intervals[type], generator'.due[type],
                               AskedUntil')
                    /\ \A t \in 0..AskedUntil' :
                         Cardinality({i \in DOMAIN released' :
                                        released'[i].type = type /\ released'[i].created = t}) =
                         IF Comes(type, t) THEN 1 ELSE 0
  BY DEF TypesFollowed, Generate, NextDue, Comes, Released
<1>1. PICK step : Produces(step)
  BY GenerateProduces
<1> DEFINE first == NewGenerator.due[type]
           d == Intervals[type]
           next == generator.due[type]
           due == Due(generator, tick)
           made == step.tasks
           m == Len(released)
           n == Len(made)
           now(t) == {i \in DOMAIN released' : released'[i].type = type
                                               /\ released'[i].created = t}
<1>2. /\ tick \in Nat /\ IsList(released) /\ generator \in GeneratorType
      /\ next \in Nat /\ first \in Nat /\ d \in Nat \ {0}
  BY GenerateProduces, StartsTyped DEF IsGenerator, GeneratorType
<1>3. /\ AskedUntil = tick - 1 /\ AskedUntil' = tick /\ generator' = step.g
      /\ released' = released \o made /\ step \in Steps(plan.demand, generator, tick)
      /\ ~step.raised
  BY <1>1 DEF Produces
<1>4. made \in LegacyTasks(generator, tick) /\ step.g = LegacyNext(generator, tick)
  <2> DEFINE Outcome(lists, next1) ==
               IF lists = {} THEN {[raised |-> TRUE, tasks |-> <<>>, g |-> next1]}
               ELSE {[raised |-> FALSE, tasks |-> ts, g |-> next1] : ts \in lists}
  <2>1. ASSUME NEW lists, NEW next1, step \in Outcome(lists, next1)
        PROVE  step.tasks \in lists /\ step.g = next1
    BY <1>3, <2>1
  <2>2. step \in Outcome(LegacyTasks(generator, tick), LegacyNext(generator, tick))
    BY <1>3 DEF Steps
  <2> HIDE DEF Outcome
  <2> QED
    BY <2>1, <2>2
<1>5. /\ IsList(made) /\ DOMAIN made = DOMAIN due /\ n = Len(due)
      /\ \A i \in DOMAIN made : made[i].type = due[i] /\ made[i].created = tick
      /\ generator'.due[type] = IF next = tick THEN tick + d ELSE next
  BY <1>2, <1>3, <1>4, LegacyMakes
<1>6. NextDue(first, d, next, tick - 1)
      /\ \A t \in 0..(tick - 1) : Cardinality(Released(type, t)) = IF Comes(type, t) THEN 1 ELSE 0
  BY <1>3 DEF TypesFollowed
<1>7. /\ Comes(type, tick) <=> next = tick
      /\ NextDue(first, d, IF next = tick THEN tick + d ELSE next, tick)
  <2>1. /\ (tick >= first /\ (tick - first) % d = 0) <=> next = tick
        /\ NextDue(first, d, IF next = tick THEN tick + d ELSE next, tick)
    <3> HIDE DEF first, d, next
    <3> QED
      BY <1>2, <1>6, DueMoves
  <2> QED
    BY <2>1 DEF Comes
<1>8. NextDue(NewGenerator.due[type], Intervals[type], generator'.due[type], AskedUntil')
  BY <1>3, <1>5, <1>7 DEF NextDue
<1>9. /\ m \in Nat /\ n \in Nat /\ DOMAIN released = 1..m /\ DOMAIN made = 1..n
      /\ DOMAIN released' = 1..(m + n)
      /\ \A i \in 1..(m + n) :
           \/ i \in 1..m /\ released'[i] = released[i]
           \/ ~(i \in 1..m) /\ i - m \in 1..n /\ released'[i] = made[i - m]
  <2> HIDE DEF made, m, n, now
  <2>3. IsList(released) /\ IsList(made) /\ released' = released \o made
    BY <1>2, <1>3, <1>5
  <2>1. /\ Len(released) \in Nat /\ Len(made) \in Nat
        /\ DOMAIN released' = 1..(Len(released) + Len(made))
        /\ \A i \in 1..(Len(released) + Len(made)) :
             \/ i \in 1..Len(released) /\ released'[i] = released[i]
             \/ /\ ~(i \in 1..Len(released)) /\ i - Len(released) \in 1..Len(made)
                /\ released'[i] = made[i - Len(released)]
    BY <2>3, JoinedAt
  <2>2. DOMAIN released = 1..Len(released) /\ DOMAIN made = 1..Len(made)
    BY <2>3 DEF IsList
  <2> QED
    BY <2>1, <2>2 DEF m, n
<1>10. \A i \in 1..m : released[i].created \in 0..(tick - 1)
  BY <1>3, <1>9 DEF Numbered
<1> HIDE DEF m, n, made, due, first, d, next, now
<1>11. \A i \in 1..m : i \in 1..(m + n) /\ released'[i] = released[i]
  BY <1>9
<1>12. \A j \in 1..n : m + j \in 1..(m + n) /\ released'[m + j] = made[j]
  <2> TAKE j \in 1..n
  <2>1. m + j \in 1..(m + n) /\ ~(m + j \in 1..m) /\ (m + j) - m = j
    BY <1>9
  <2> QED
    BY <1>9, <2>1
<1>13. ASSUME NEW t \in 0..(tick - 1)
       PROVE  now(t) = Released(type, t)
  <2>1. t # tick
    BY <1>2
  <2>2. \A i \in 1..(m + n) :
          released'[i].created = t => i \in 1..m
    BY <1>5, <1>9, <2>1
  <2> QED
    BY <1>9, <1>11, <2>2 DEF Released, now
<1>14. Cardinality(now(tick)) = IF next = tick THEN 1 ELSE 0
  <2>1. Distinct(due) /\ ToSet(due) = {x \in TypeSet : generator.due[x] = tick}
    BY DueListed DEF due
  <2>2. \A i \in 1..m : released[i].created # tick
    BY <1>2, <1>10
  <2>3. CASE next = tick
    <3>1. PICK j \in DOMAIN due : due[j] = type
      BY <2>1, <2>3, ListFacts DEF next, Distinct
    <3>2. \A i \in 1..n : made[i].type = type <=> i = j
      BY <1>5, <1>9, <2>1, <3>1 DEF Distinct
    <3>3. now(tick) = {m + j}
      <4>1. j \in 1..n /\ m + j \in 1..(m + n) /\ released'[m + j] = made[j]
        BY <1>5, <1>9, <1>12, <3>1
      <4>2. made[j].type = type /\ made[j].created = tick
        BY <1>5, <1>9, <3>2, <4>1
      <4>3. ASSUME NEW i \in 1..(m + n), released'[i].type = type, released'[i].created = tick
            PROVE  i = m + j
        <5>1. ~(i \in 1..m /\ released'[i] = released[i])
          BY <2>2, <4>3
        <5>2. i - m \in 1..n /\ made[i - m].type = type
          BY <1>9, <4>3, <5>1
        <5>3. i - m = j
          BY <3>2, <5>2
        <5> QED
          BY <1>9, <4>1, <5>3
      <4>4. now(tick) =
              {i \in 1..(m + n) : released'[i].type = type /\ released'[i].created = tick}
        BY <1>3, <1>9 DEF now
      <4> QED
        BY <4>1, <4>2, <4>3, <4>4
    <3> QED
      BY <2>3, <3>3, FS_Singleton
  <2>4. CASE next # tick
    <3>1. type \notin ToSet(due)
      BY <2>1, <2>4 DEF next
    <3>2. \A i \in 1..n : made[i].type # type
      BY <1>5, <1>9, <2>1, <3>1, ListFacts DEF Distinct
    <3>3. now(tick) = {}
      <4>1. ASSUME NEW i \in 1..(m + n), released'[i].type = type, released'[i].created = tick
            PROVE  FALSE
        BY <1>9, <2>2, <3>2, <4>1
      <4> QED
        BY <1>9, <4>1 DEF now
    <3> QED
      BY <2>4, <3>3, FS_EmptySet
  <2> QED
    BY <2>3, <2>4
<1>15. \A t \in 0..AskedUntil' : t = tick \/ t \in 0..(tick - 1)
  BY <1>2, <1>3
<1> QED
  BY <1>6, <1>7, <1>8, <1>13, <1>14, <1>15 DEF now

-----------------------------------------------------------------------------
(* In every trial.                                                         *)

LEMMA InitFollowed == Init => Followed
<1> SUFFICES ASSUME Init PROVE Followed
  OBVIOUS
<1>1. generator = NewGenerator /\ released = <<>> /\ AskedUntil = -1 /\ plan.demand \in Demands
  BY DEF Init, AskedUntil
<1>2. NewGenerator.number = 1 /\ NewGenerator.index = 0
  BY DEF NewGenerator
<1>3. Numbered
  BY <1>1, <1>2 DEF Numbered
<1>4. FileFollowed
  <2> SUFFICES ASSUME plan.demand.mode = "csv_orders"
               PROVE  FileFollowed
    BY DEF FileFollowed
  <2> DEFINE events == plan.demand.events
             missed == UpTo(ResolvedEvents(events), StartTick - 1)
  <2>1. IsFile(events)
    <3>1. IsDemand(plan.demand)
      BY <1>1, DispatchAssumption
    <3>2. /\ IsList(events)
          /\ \A i \in DOMAIN events : IsOrder(events[i]) /\ events[i].tick \in Nat
      BY <3>1 DEF IsDemand, IsOrder, IsList
    <3> HIDE DEF events
    <3> QED
      BY <3>2 DEF IsFile, IsOrders, IsList
  <2>2. missed \in Int /\ AskedUntil < StartTick
    <3>1. StartTick - 1 \in Int /\ AskedUntil < StartTick
      BY <1>1, StartsTyped
    <3>2. missed \in 0..Len(events) /\ Len(events) \in Nat
      BY <2>1, <3>1, SortedUntil, PlaceOfOrder
    <3> HIDE DEF missed, events
    <3> QED
      BY <3>1, <3>2
  <2>3. 0 = missed - missed /\ Len(released) = 0 /\ DOMAIN released = {}
    <3> HIDE DEF missed
    <3> QED
      BY <1>1, <2>2
  <2> QED
    BY <1>1, <1>2, <2>2, <2>3 DEF FileFollowed
<1>5. TypesFollowed
  <2> SUFFICES ASSUME NEW type \in TypeSet
               PROVE  NextDue(NewGenerator.due[type], Intervals[type], generator.due[type],
                              AskedUntil)
    BY <1>1 DEF TypesFollowed
  <2> DEFINE first == NewGenerator.due[type]
             d == Intervals[type]
  <2>1. first \in Nat /\ d \in Nat \ {0}
    BY StartsTyped
  <2> HIDE DEF first, d
  <2>2. first - first = 0 /\ 0 % d = 0
    BY <2>1
  <2>3. NextDue(first, d, first, -1)
    BY <2>1, <2>2 DEF NextDue
  <2> QED
    BY <1>1, <2>3 DEF first, d
<1> QED
  BY <1>3, <1>4, <1>5 DEF Followed

LEMMA NextFollowed ==
  ASSUME Inv, Followed, [Next]_vars
  PROVE  Followed'
<1>1. CASE Generate
  BY <1>1, GenerateNumbered, GenerateFile, GenerateTypes DEF Followed
<1>2. ASSUME plan' = plan, generator' = generator, released' = released,
             AskedUntil' = AskedUntil
      PROVE  Followed'
  BY <1>2 DEF Followed, Numbered, FileFollowed, TypesFollowed, NextDue, Comes, Released
<1>3. CASE \E r \in Robots : RepairTurn(r) \/ FailureTurn(r) \/ AdvanceTurn(r)
  BY <1>2, <1>3 DEF RepairTurn, FailureTurn, AdvanceTurn, Turn, AskedUntil
<1>4. CASE GenerateRaises \/ Ask \/ Follow \/ Ended \/ UNCHANGED vars
  BY <1>2, <1>4 DEF GenerateRaises, Ask, Follow, Ended, Left, AskedUntil, vars, world
<1>5. CASE Record
  <2>1. tick \in Nat
    BY DEF Inv, Orderly, Sound, Worlds, World
  <2>2. phase' \in {"repairs", "target_reached", "max_ticks_reached"} /\ tick' = tick + 1
    BY <1>5 DEF Record, Stop, Snapshot
  <2>3. AskedUntil' = AskedUntil
    BY <1>5, <2>1, <2>2 DEF Record, AskedUntil
  <2> QED
    BY <1>2, <1>5, <2>3 DEF Record
<1> QED
  BY <1>1, <1>3, <1>4, <1>5 DEF Next

LEMMA FollowedOnce ==
  ASSUME Inv, Followed
  PROVE  OrdersOnce
<1>1. /\ plan.demand \in Demands /\ IsDemand(plan.demand)
      /\ AskedUntil \in Int /\ IsList(released)
  <2>1. tick \in Nat
    BY DEF Inv, Orderly, Sound, Worlds, World
  <2> QED
    BY <2>1, DispatchAssumption DEF Inv, Orderly, AskedUntil
<1>2. \A i \in DOMAIN released : released[i].number = i
  BY DEF Followed, Numbered
<1>3. ASSUME plan.demand.mode = "legacy", NEW t \in 0..AskedUntil, NEW type \in TypeSet
      PROVE  Cardinality(Released(type, t)) = IF Comes(type, t) THEN 1 ELSE 0
  BY <1>3 DEF Followed, TypesFollowed
<1>4. ASSUME plan.demand.mode = "csv_orders"
      PROVE  LET events == plan.demand.events
                 due == {i \in DOMAIN events : events[i].tick \in StartTick..AskedUntil}
                 ahead(i) == {j \in due : \/ events[j].tick < events[i].tick
                                          \/ events[j].tick = events[i].tick /\ j < i}
             IN  /\ Len(released) = Cardinality(due)
                 /\ \A i \in due :
                      LET task == released[Cardinality(ahead(i)) + 1]
                      IN  task.type = events[i].type /\ task.created = events[i].tick
  <2> DEFINE events == plan.demand.events
             sorted == ResolvedEvents(events)
             missed == UpTo(sorted, StartTick - 1)
             early == Until(events, StartTick - 1)
             last == UpTo(sorted, AskedUntil)
             due == {i \in DOMAIN events : events[i].tick \in StartTick..AskedUntil}
             ahead(i) == {j \in due : \/ events[j].tick < events[i].tick
                                      \/ events[j].tick = events[i].tick /\ j < i}
             m == Len(released)
             n == Len(events)
  <2>1. /\ IsFile(events) /\ n \in Nat /\ DOMAIN events = 1..n
        /\ \A i \in 1..n : events[i].tick \in Nat
    <3>1. /\ IsList(events)
          /\ \A i \in DOMAIN events : IsOrder(events[i]) /\ events[i].tick \in Nat
      BY <1>1, <1>4 DEF IsDemand, IsOrder, IsList
    <3> HIDE DEF events
    <3> QED
      BY <3>1 DEF IsFile, IsOrders, IsList
  <2>2. StartTick \in Nat \ {0} /\ StartTick - 1 \in Int
    BY StartsTyped
  <2>3. /\ m = (IF AskedUntil < StartTick THEN missed ELSE last) - missed
        /\ DOMAIN released = 1..m /\ m \in Nat
        /\ \A k \in 1..m : released[k].type = sorted[missed + k].type
                           /\ released[k].created = sorted[missed + k].tick
    BY <1>1, <1>4 DEF Followed, FileFollowed, IsList
  <2>4. /\ missed = Cardinality(early) /\ IsFiniteSet(early) /\ missed \in 0..n
        /\ last = Cardinality(Until(events, AskedUntil))
        /\ IsFiniteSet(Until(events, AskedUntil)) /\ last \in 0..n
    BY <1>1, <2>1, <2>2, SortedUntil
  <2> HIDE DEF events, sorted, missed, last, early, n, m
  <2>5. CASE AskedUntil < StartTick
    <3>1. due = {}
      BY <1>1, <2>1, <2>2, <2>5
    <3>2. m = 0
      BY <2>3, <2>4, <2>5
    <3> HIDE DEF due
    <3> QED
      BY <3>1, <3>2, FS_EmptySet DEF m, events, due
  <2>6. CASE ~(AskedUntil < StartTick)
    <3>1. /\ due \union early = Until(events, AskedUntil) /\ due \cap early = {}
          /\ due \subseteq 1..n
      BY <1>1, <2>1, <2>2, <2>6 DEF Until, early, n
    <3> HIDE DEF due
    <3>2. IsFiniteSet(due) /\ Cardinality(due) \in Nat
      BY <2>4, <3>1, FS_Subset, FS_CardinalityType
    <3>3. last = Cardinality(due) + missed
      <4>1. Cardinality(due \union early) =
              Cardinality(due) + Cardinality(early) - Cardinality(due \cap early)
        BY <2>4, <3>2, FS_Union
      <4>2. Cardinality(due \cap early) = 0
        BY <3>1, FS_EmptySet
      <4> DEFINE c == Cardinality(due)
      <4>3. last = c + missed - 0
        BY <2>4, <3>1, <4>1, <4>2
      <4>4. c \in Nat /\ missed \in Nat
        BY <2>4, <3>2
      <4> HIDE DEF c
      <4>5. last = c + missed
        BY <4>3, <4>4
      <4> QED
        BY <4>5 DEF c
    <3>4. m = Cardinality(due)
      <4> DEFINE c == Cardinality(due)
      <4>1. m = last - missed /\ last = c + missed /\ c \in Nat /\ missed \in Nat
        BY <2>3, <2>4, <2>6, <3>2, <3>3
      <4> HIDE DEF c
      <4> QED
        BY <4>1 DEF c
    <3>5. ASSUME NEW i \in due
          PROVE  LET task == released[Cardinality(ahead(i)) + 1]
                 IN  task.type = events[i].type /\ task.created = events[i].tick
      <4> DEFINE a == Cardinality(ahead(i))
                 P == Preceding(events, i)
      <4>1. i \in 1..n /\ events[i].tick \in StartTick..AskedUntil
        BY <2>1, <3>1 DEF due
      <4>2. ahead(i) \in SUBSET due /\ i \notin ahead(i)
        BY <2>1, <4>1
      <4>3. IsFiniteSet(ahead(i)) /\ a \in Nat /\ a <= m /\ a # m
        BY <3>2, <3>4, <4>2, FS_Subset, FS_CardinalityType
      <4>4. P = ahead(i) \union early /\ ahead(i) \cap early = {}
        BY <1>1, <2>1, <2>2, <4>1 DEF Preceding, Until, early, n, due
      <4>5. Cardinality(P) = a + missed
        <5>1. Cardinality(ahead(i) \union early) =
                Cardinality(ahead(i)) + Cardinality(early) - Cardinality(ahead(i) \cap early)
          BY <2>4, <4>3, FS_Union
        <5>2. Cardinality(ahead(i) \cap early) = 0
          BY <4>4, FS_EmptySet
        <5>3. Cardinality(P) = a + missed - 0
          BY <2>4, <4>4, <5>1, <5>2
        <5>4. a \in Nat /\ missed \in Nat
          BY <2>4, <4>3
        <5> HIDE DEF a, P
        <5> QED
          BY <5>3, <5>4
      <4>6. sorted[Cardinality(P) + 1] = events[i]
        BY <2>1, <4>1, PlaceOfOrder DEF sorted, n
      <4> HIDE DEF a, P, ahead
      <4>7. a + 1 \in 1..m /\ missed + (a + 1) = Cardinality(P) + 1
        BY <2>3, <2>4, <4>3, <4>5
      <4>8. released[a + 1].type = events[i].type /\ released[a + 1].created = events[i].tick
        BY <2>3, <4>6, <4>7
      <4> QED
        BY <4>8 DEF a
    <3> QED
      BY <3>4, <3>5 DEF m, due, events
  <2> QED
    BY <2>5, <2>6
<1> QED
  BY <1>2, <1>3, <1>4 DEF OrdersOnce, Released, Comes

\* Whatever the demand: each order of a file is released once, at its tick and in
\* its turn, and nothing else; the default generator makes one task of a type
\* whenever it is due and no other (task_generator.py, demand.py).
THEOREM EachOrderOnce == ASSUME Connected PROVE Spec => []OrdersOnce
<1>1. Init => Inv /\ Followed
  BY InitOrderly, InitFollowed
<1>2. Inv /\ Followed /\ [Next]_vars => Inv' /\ Followed'
  BY NextKeeps, NextFollowed
<1>3. Inv /\ Followed => OrdersOnce
  BY FollowedOnce
<1> QED
  BY <1>1, <1>2, <1>3, PTL DEF Spec

-----------------------------------------------------------------------------
(* The sequential schedulers.                                              *)

\* What it means that one triple, or pair, of numbers comes before another.
LEMMA TripleBefore ==
  ASSUME NEW a \in Int, NEW b \in Int, NEW c \in Int,
         NEW x \in Int, NEW y \in Int, NEW z \in Int
  PROVE  LexBefore(<<a, b, c>>, <<x, y, z>>) <=>
           a < x \/ (a = x /\ (b < y \/ (b = y /\ c < z)))
<1> DEFINE p == <<a, b, c>>
           q == <<x, y, z>>
           before(i) == p[i] < q[i] /\ \A j \in 1..(i - 1) : p[j] = q[j]
<1>1. /\ before(1) <=> a < x
      /\ before(2) <=> a = x /\ b < y
      /\ before(3) <=> a = x /\ b = y /\ c < z
  <2>1. 1..(1 - 1) = {} /\ 1..(2 - 1) = {1} /\ 1..(3 - 1) = {1, 2}
    OBVIOUS
  <2> QED
    BY <2>1
<1>2. DOMAIN p = {1, 2, 3}
  OBVIOUS
<1>3. LexBefore(p, q) <=> \E i \in {1, 2, 3} : before(i)
  BY <1>2 DEF LexBefore
<1> HIDE DEF before, p, q
<1>4. LexBefore(p, q) <=> before(1) \/ before(2) \/ before(3)
  BY <1>3
<1> QED
  BY <1>1, <1>4 DEF p, q

LEMMA PairBefore ==
  ASSUME NEW a \in Int, NEW b \in Int, NEW x \in Int, NEW y \in Int
  PROVE  LexBefore(<<a, b>>, <<x, y>>) <=> a < x \/ (a = x /\ b < y)
<1> DEFINE p == <<a, b>>
           q == <<x, y>>
           before(i) == p[i] < q[i] /\ \A j \in 1..(i - 1) : p[j] = q[j]
<1>1. (before(1) <=> a < x) /\ (before(2) <=> a = x /\ b < y)
  <2>1. 1..(1 - 1) = {} /\ 1..(2 - 1) = {1}
    OBVIOUS
  <2> QED
    BY <2>1
<1>2. DOMAIN p = {1, 2}
  OBVIOUS
<1>3. LexBefore(p, q) <=> \E i \in {1, 2} : before(i)
  BY <1>2 DEF LexBefore
<1> HIDE DEF before, p, q
<1>4. LexBefore(p, q) <=> before(1) \/ before(2)
  BY <1>3
<1> QED
  BY <1>1, <1>4 DEF p, q

\* A finite set has a first element in a strict total order.
LEMMA FirstExists ==
  ASSUME NEW S, IsFiniteSet(S), S # {}, NEW below \in [S -> SUBSET S],
         \A q \in S : q \notin below[q],
         \A r, q \in S : r # q => r \in below[q] \/ q \in below[r],
         \A r, q \in S : r \in below[q] => below[r] \subseteq below[q]
  PROVE  \E x \in S : \A y \in S \ {x} : x \in below[y]
<1>1. Cardinality(S) \in Nat /\ Cardinality(S) # 0
  BY FS_CardinalityType, FS_EmptySet
<1>2. 1 \in 1..Cardinality(S)
  BY <1>1
<1>3. PICK x \in S : Cardinality(below[x]) = 1 - 1
  BY <1>2, PlacesTaken
<1>4. below[x] = {}
  <2>1. IsFiniteSet(below[x])
    BY FS_Subset
  <2> QED
    BY <1>3, <2>1, FS_EmptySet
<1> QED
  BY <1>4

\* There is a first task by two numbers of tasks and their ids, and a cheapest
\* robot, the one with the smaller id of two.
LEMMA FirstTask ==
  ASSUME NEW S, IsFiniteSet(S), S # {}, S \subseteq Nat,
         NEW f, NEW g, \A t \in S : f[t] \in Int /\ g[t] \in Int,
         NEW key, \A t \in S : key[t] = <<f[t], g[t], t>>
  PROVE  \E x \in S : \A y \in S \ {x} : LexBefore(key[x], key[y])
<1> DEFINE before(t, u) == f[t] < f[u] \/ (f[t] = f[u] /\ (g[t] < g[u] \/ (g[t] = g[u] /\ t < u)))
           below == [u \in S |-> {t \in S : before(t, u)}]
<1>1. \A t \in S : f[t] \in Int /\ g[t] \in Int /\ t \in Int
  OBVIOUS
<1>2. ASSUME NEW t \in S, NEW u \in S PROVE LexBefore(key[t], key[u]) <=> before(t, u)
  <2>1. f[t] \in Int /\ f[u] \in Int /\ g[t] \in Int /\ g[u] \in Int /\ t \in Int /\ u \in Int
    BY <1>1
  <2>2. LexBefore(<<f[t], g[t], t>>, <<f[u], g[u], u>>) <=> before(t, u)
    BY <2>1, TripleBefore
  <2> QED
    BY <2>2
<1>3. \A t, u \in S : t \in below[u] <=> before(t, u)
  OBVIOUS
<1>4. ASSUME NEW u \in S PROVE ~before(u, u)
  <2>1. f[u] \in Int /\ g[u] \in Int /\ u \in Int
    BY <1>1
  <2> QED
    BY <2>1
<1>5. ASSUME NEW t \in S, NEW u \in S, t # u PROVE before(t, u) \/ before(u, t)
  <2>1. f[t] \in Int /\ f[u] \in Int /\ g[t] \in Int /\ g[u] \in Int /\ t \in Int /\ u \in Int
    BY <1>1
  <2> QED
    BY <1>5, <2>1
<1>6. ASSUME NEW t \in S, NEW u \in S, NEW v \in S, before(t, u), before(u, v)
      PROVE  before(t, v)
  <2>1. /\ f[t] \in Int /\ f[u] \in Int /\ f[v] \in Int /\ g[t] \in Int /\ g[u] \in Int
        /\ g[v] \in Int /\ t \in Int /\ u \in Int /\ v \in Int
    BY <1>1
  <2> QED
    BY <1>6, <2>1
<1>7. below \in [S -> SUBSET S]
  OBVIOUS
<1> HIDE DEF below, before
<1>8. \A u, v \in S : u \in below[v] => below[u] \subseteq below[v]
  BY <1>3, <1>6, <1>7
<1>9. /\ \A u \in S : u \notin below[u]
      /\ \A t, u \in S : t # u => t \in below[u] \/ u \in below[t]
  BY <1>3, <1>4, <1>5
<1>10. PICK x \in S : \A y \in S \ {x} : x \in below[y]
  BY <1>7, <1>8, <1>9, FirstExists
<1> QED
  BY <1>2, <1>3, <1>10

LEMMA CheapestRobot ==
  ASSUME NEW S, IsFiniteSet(S), S # {}, S \subseteq Nat, NEW cost, \A r \in S : cost[r] \in Nat
  PROVE  \E x \in S : \A y \in S \ {x} : LexBefore(<<cost[x], x>>, <<cost[y], y>>)
<1> DEFINE before(t, u) == cost[t] < cost[u] \/ (cost[t] = cost[u] /\ t < u)
           below == [u \in S |-> {t \in S : before(t, u)}]
<1>1. \A t \in S : cost[t] \in Int /\ t \in Int
  OBVIOUS
<1>2. ASSUME NEW t \in S, NEW u \in S PROVE LexBefore(<<cost[t], t>>, <<cost[u], u>>) <=> before(t, u)
  BY <1>1, PairBefore
<1>3. \A t, u \in S : t \in below[u] <=> before(t, u)
  OBVIOUS
<1>4. ASSUME NEW u \in S PROVE ~before(u, u)
  BY <1>1
<1>5. ASSUME NEW t \in S, NEW u \in S, t # u PROVE before(t, u) \/ before(u, t)
  BY <1>1, <1>5
<1>6. ASSUME NEW t \in S, NEW u \in S, NEW v \in S, before(t, u), before(u, v)
      PROVE  before(t, v)
  BY <1>1, <1>6
<1>7. below \in [S -> SUBSET S]
  OBVIOUS
<1> HIDE DEF below, before
<1>8. \A u, v \in S : u \in below[v] => below[u] \subseteq below[v]
  BY <1>3, <1>6, <1>7
<1>9. /\ \A u \in S : u \notin below[u]
      /\ \A t, u \in S : t # u => t \in below[u] \/ u \in below[t]
  BY <1>3, <1>4, <1>5
<1>10. PICK x \in S : \A y \in S \ {x} : x \in below[y]
  BY <1>7, <1>8, <1>9, FirstExists
<1> QED
  BY <1>2, <1>3, <1>10

\* A task that comes first by key has a turn: some free robot takes it.
Serves(d, key, s, u) ==
  \E t \in s.left :
    /\ \A v \in s.left \ {t} : LexBefore(key[t], key[v])
    /\ IF s.free = {} THEN u = [s EXCEPT !.left = @ \ {t}]
       ELSE \E r \in s.free, cost \in Nat : u = Give(d, s, t, r, cost)

\* What is promised of the assignments: different tasks, in the order of key, go
\* to different robots, and none that is left comes before one of them.
InOrderOf(d, key, given) ==
  /\ given \in Seq((DOMAIN d.tasks) \X Available(d) \X Nat)
  /\ \A i, j \in 1..Len(given) : i < j =>
       /\ given[i][1] # given[j][1] /\ given[i][2] # given[j][2]
       /\ LexBefore(key[given[i][1]], key[given[j][1]])
  /\ \A t \in DOMAIN d.tasks :
       \/ \E i \in 1..Len(given) : given[i][1] = t
       \/ \A i \in 1..Len(given) : LexBefore(key[given[i][1]], key[t])

\* The invariant of the loop: while a robot is free, nobody was passed over.
Served(d, key, s) ==
  /\ InOrderOf(d, key, s.given)
  /\ \A i \in 1..Len(s.given) : s.given[i][1] \notin s.left /\ s.given[i][2] \notin s.free
  /\ s.free # {} => \A t \in (DOMAIN d.tasks) \ s.left :
                      \E i \in 1..Len(s.given) : s.given[i][1] = t

\* A question to a scheduler: finitely many tasks, and robots on the floor.
Askable(d) ==
  /\ IsFiniteSet(DOMAIN d.tasks) /\ d.blocked \in SUBSET d.open
  /\ \A r \in Available(d) : d.robots[r].cell \in d.open

LEMMA GiveTyped ==
  ASSUME NEW d, Askable(d), NEW s \in Servings(d), NEW t \in s.left, NEW r \in s.free,
         NEW cost \in Nat
  PROVE  Give(d, s, t, r, cost) \in Servings(d)
<1> DEFINE T == (DOMAIN d.tasks) \X Available(d) \X Nat
<1>1. /\ s.left \in SUBSET DOMAIN d.tasks /\ s.free \in SUBSET Available(d)
      /\ s.blocked \in SUBSET d.open /\ s.given \in Seq(T)
  BY DEF Servings
<1>2. <<t, r, cost>> \in T /\ d.robots[r].cell \in d.open
  BY <1>1 DEF Askable
<1> HIDE DEF T
<1>3. Append(s.given, <<t, r, cost>>) \in Seq(T)
  BY <1>1, <1>2
<1>4. s.blocked \union {d.robots[r].cell} \in SUBSET d.open
  BY <1>1, <1>2
<1> QED
  BY <1>1, <1>3, <1>4 DEF Give, Servings, T

LEMMA TurnTyped ==
  ASSUME NEW d, Askable(d), NEW key, NEW s \in Servings(d), NEW u, Serves(d, key, s, u)
  PROVE  u \in Servings(d)
<1>1. PICK t \in s.left : IF s.free = {} THEN u = [s EXCEPT !.left = @ \ {t}]
                          ELSE \E r \in s.free, cost \in Nat : u = Give(d, s, t, r, cost)
  BY DEF Serves
<1>2. CASE s.free = {}
  BY <1>1, <1>2 DEF Servings
<1>3. CASE s.free # {}
  BY <1>1, <1>3, GiveTyped
<1> QED
  BY <1>2, <1>3

LEMMA TurnKeeps ==
  ASSUME NEW d, Askable(d), NEW key, NEW s \in Servings(d), Served(d, key, s),
         NEW u, Serves(d, key, s, u)
  PROVE  /\ u \in Servings(d) /\ Served(d, key, u)
         /\ u.left \subseteq s.left /\ u.left # s.left
<1> DEFINE ids == DOMAIN d.tasks
           T == ids \X Available(d) \X Nat
           g == s.given
           n == Len(g)
<1>1. PICK t \in s.left :
        /\ \A v \in s.left \ {t} : LexBefore(key[t], key[v])
        /\ IF s.free = {} THEN u = [s EXCEPT !.left = @ \ {t}]
           ELSE \E r \in s.free, cost \in Nat : u = Give(d, s, t, r, cost)
  BY DEF Serves
<1>2. /\ s.left \in SUBSET ids /\ s.free \in SUBSET Available(d)
      /\ s.blocked \in SUBSET d.open /\ g \in Seq(T) /\ n \in Nat
  BY DEF Servings
<1>3. CASE s.free = {}
  <2>1. u = [left |-> s.left \ {t}, free |-> s.free, blocked |-> s.blocked, given |-> g]
    BY <1>1, <1>3 DEF Servings
  <2>2. u \in Servings(d)
    BY <1>2, <2>1 DEF Servings
  <2>3. u.left = s.left \ {t} /\ u.free = {} /\ u.given = g
    BY <1>3, <2>1
  <2>4. Served(d, key, u)
    BY <2>3 DEF Served
  <2> QED
    BY <2>2, <2>3, <2>4
<1>4. CASE s.free # {}
  <2>1. PICK r \in s.free, cost \in Nat : u = Give(d, s, t, r, cost)
    BY <1>1, <1>4
  <2> DEFINE new == <<t, r, cost>>
             h == Append(g, new)
  <2>2. /\ u \in Servings(d) /\ u.left = s.left \ {t} /\ u.free = s.free \ {r}
        /\ u.given = h
    BY <2>1, GiveTyped DEF Give
  <2>3. new \in T /\ new[1] = t /\ new[2] = r /\ t \in ids
    BY <1>2
  <2> HIDE DEF new, T
  <2>4. /\ h \in Seq(T) /\ Len(h) = n + 1 /\ h[n + 1] = new
        /\ \A i \in 1..n : h[i] = g[i]
    BY <1>2, <2>3
  <2> HIDE DEF h
  <2>5. /\ \A i, j \in 1..n : i < j =>
             /\ g[i][1] # g[j][1] /\ g[i][2] # g[j][2]
             /\ LexBefore(key[g[i][1]], key[g[j][1]])
        /\ \A v \in ids : \/ \E i \in 1..n : g[i][1] = v
                          \/ \A i \in 1..n : LexBefore(key[g[i][1]], key[v])
        /\ \A i \in 1..n : g[i][1] \notin s.left /\ g[i][2] \notin s.free
        /\ \A v \in ids \ s.left : \E i \in 1..n : g[i][1] = v
    BY <1>4 DEF Served, InOrderOf
  <2>6. \A i \in 1..n : /\ g[i][1] # t /\ g[i][2] # r
                        /\ LexBefore(key[g[i][1]], key[t])
    BY <2>3, <2>5
  <2>7. ASSUME NEW i \in 1..(n + 1), NEW j \in 1..(n + 1), i < j
        PROVE  /\ h[i][1] # h[j][1] /\ h[i][2] # h[j][2]
               /\ LexBefore(key[h[i][1]], key[h[j][1]])
    <3>1. i \in 1..n
      BY <1>2, <2>7
    <3>2. CASE j = n + 1
      BY <2>3, <2>4, <2>6, <3>1, <3>2
    <3>3. CASE j # n + 1
      <4>1. j \in 1..n
        BY <1>2, <3>3
      <4> QED
        BY <2>4, <2>5, <2>7, <3>1, <4>1
    <3> QED
      BY <3>2, <3>3
  <2>8. ASSUME NEW v \in ids \ u.left
        PROVE  \E i \in 1..(n + 1) : h[i][1] = v
    <3>1. CASE v = t
      <4>1. n + 1 \in 1..(n + 1) /\ h[n + 1][1] = v
        BY <1>2, <2>3, <2>4, <3>1
      <4> QED
        BY <4>1
    <3>2. CASE v # t
      <4>1. PICK i \in 1..n : g[i][1] = v
        BY <2>2, <2>5, <3>2
      <4>2. i \in 1..(n + 1) /\ h[i][1] = v
        BY <1>2, <2>4, <4>1
      <4> QED
        BY <4>2
    <3> QED
      BY <3>1, <3>2
  <2>9. ASSUME NEW v \in ids
        PROVE  \/ \E i \in 1..(n + 1) : h[i][1] = v
               \/ \A i \in 1..(n + 1) : LexBefore(key[h[i][1]], key[v])
    <3>1. CASE v \notin u.left
      BY <2>8, <3>1
    <3>2. CASE v \in u.left
      <4>1. v \in s.left /\ v # t /\ LexBefore(key[t], key[v])
        BY <1>1, <2>2, <3>2
      <4>2. \A i \in 1..n : LexBefore(key[g[i][1]], key[v])
        BY <2>5, <4>1
      <4>3. ASSUME NEW i \in 1..(n + 1) PROVE LexBefore(key[h[i][1]], key[v])
        <5>1. CASE i = n + 1
          BY <2>3, <2>4, <4>1, <5>1
        <5>2. CASE i # n + 1
          <6>1. i \in 1..n
            BY <1>2, <5>2
          <6> QED
            BY <2>4, <4>2, <6>1
        <5> QED
          BY <5>1, <5>2
      <4> QED
        BY <4>3
    <3> QED
      BY <3>1, <3>2
  <2>10. ASSUME NEW i \in 1..(n + 1)
         PROVE  h[i][1] \notin u.left /\ h[i][2] \notin u.free
    <3>1. CASE i = n + 1
      BY <2>2, <2>3, <2>4, <3>1
    <3>2. CASE i # n + 1
      <4>1. i \in 1..n
        BY <1>2, <3>2
      <4> QED
        BY <2>2, <2>4, <2>5, <4>1
    <3> QED
      BY <3>1, <3>2
  <2> HIDE DEF g, n
  <2>11. InOrderOf(d, key, h)
    BY <2>4, <2>7, <2>9 DEF InOrderOf, T
  <2>12. Served(d, key, u)
    BY <2>2, <2>4, <2>8, <2>10, <2>11 DEF Served
  <2> QED
    BY <2>2, <2>12
<1> QED
  BY <1>3, <1>4

LEMMA StartServed ==
  ASSUME NEW d, Askable(d), NEW key
  PROVE  NothingGiven(d) \in Servings(d) /\ Served(d, key, NothingGiven(d))
<1> DEFINE s == NothingGiven(d)
<1>1. /\ s.left = DOMAIN d.tasks /\ s.free = Available(d) /\ s.given = <<>>
      /\ Len(s.given) = 0 /\ 1..Len(s.given) = {}
  BY DEF NothingGiven
<1>2. s \in Servings(d)
  BY DEF NothingGiven, Servings, Askable
<1>3. s.given \in Seq((DOMAIN d.tasks) \X Available(d) \X Nat)
  BY <1>2 DEF Servings
<1> HIDE DEF s
<1>4. Served(d, key, s)
  BY <1>1, <1>3 DEF Served, InOrderOf
<1> QED
  BY <1>2, <1>4 DEF s

\* The loop of a sequential scheduler keeps the promise.
LEMMA TurnsInOrder ==
  ASSUME NEW d, Askable(d), NEW key, NEW Step,
         \A s \in Servings(d) : s.left # {} => Serves(d, key, s, Step[s])
  PROVE  InOrderOf(d, key, InTurn(d, Step))
<1> DEFINE D == Servings(d)
           Halt == {s \in D : s.left = {}}
           Result == [s \in D |-> s.given]
           body(f, s) == IF s.left = {} THEN s.given ELSE f[Step[s]]
           F == CHOOSE f : f = [s \in D |-> body(f, s)]
           Good == {g \in {s.given : s \in D} : InOrderOf(d, key, g)}
           Keeps == {s \in D : Served(d, key, s)}
           M == [s \in D |-> Cardinality(s.left)]
<1>1. InTurn(d, Step) = F[NothingGiven(d)]
  BY DEF InTurn
<1>2. \A s \in D \ Halt : Step[s] \in D
  BY TurnTyped
<1>3. \A f : f = [s \in D |-> body(f, s)] <=> IsLoop(f, D, Halt, Step, Result)
  <2> TAKE f
  <2>1. ASSUME NEW s \in D
        PROVE  body(f, s) = (IF s \in Halt THEN Result[s] ELSE f[Step[s]])
    OBVIOUS
  <2> HIDE DEF Halt, Result, body, D
  <2> QED
    BY <2>1 DEF IsLoop
<1>4. \E f : IsLoop(f, D, Halt, Step, Result)
  <2> HIDE DEF D, Halt, Result
  <2> QED
    BY <1>2, LoopExists
<1>5. IsLoop(F, D, Halt, Step, Result)
  <2> HIDE DEF D, Halt, Result, body
  <2>1. F = [s \in D |-> body(F, s)]
    BY <1>3, <1>4
  <2> HIDE DEF F
  <2> QED
    BY <1>3, <2>1
<1> HIDE DEF F
<1>6. ASSUME NEW s \in Keeps PROVE M[s] \in Nat /\ IsFiniteSet(s.left)
  <2>1. s.left \in SUBSET DOMAIN d.tasks /\ IsFiniteSet(DOMAIN d.tasks)
    BY DEF Servings, Askable
  <2> QED
    BY <2>1, FS_Subset, FS_CardinalityType
<1>7. ASSUME NEW s \in Keeps \ Halt PROVE Step[s] \in Keeps /\ M[Step[s]] < M[s]
  <2> DEFINE u == Step[s]
  <2>1. s \in D /\ Served(d, key, s) /\ Serves(d, key, s, u)
    OBVIOUS
  <2> HIDE DEF u
  <2>2. u \in D /\ Served(d, key, u) /\ u.left \subseteq s.left /\ u.left # s.left
    BY <2>1, TurnKeeps
  <2>3. u \in Keeps
    BY <2>2
  <2>4. M[u] \in Nat /\ M[s] \in Nat /\ IsFiniteSet(s.left)
    BY <1>6, <2>3
  <2>5. Cardinality(u.left) <= Cardinality(s.left) /\
        (Cardinality(u.left) = Cardinality(s.left) => u.left = s.left)
    BY <2>2, <2>4, FS_Subset
  <2>6. M[u] = Cardinality(u.left) /\ M[s] = Cardinality(s.left)
    BY <2>1, <2>2
  <2> QED
    BY <2>2, <2>3, <2>4, <2>5, <2>6 DEF u
<1>8. \A s \in Keeps \cap Halt : Result[s] \in Good
  BY DEF Served
<1>9. NothingGiven(d) \in Keeps
  BY StartServed
<1>10. Keeps \subseteq D
  OBVIOUS
<1> HIDE DEF D, Halt, Result, M, Keeps
<1>11. Descends(Keeps, M, D, Halt, Step)
  BY <1>6, <1>7, <1>10 DEF Descends
<1>12. F[NothingGiven(d)] \in Good
  <2> HIDE DEF Good
  <2> QED
    BY <1>5, <1>8, <1>9, <1>11, LoopEnds
<1> QED
  BY <1>1, <1>12

\* What a trial asks.
Asked(d) ==
  /\ d.open = Open /\ d.blocked \in SUBSET Open
  /\ IsFiniteSet(DOMAIN d.tasks) /\ DOMAIN d.tasks \subseteq Nat
  /\ \A t \in DOMAIN d.tasks : d.tasks[t] \in TaskType
  /\ Available(d) \subseteq Robots
  /\ \A r \in Available(d) : d.robots[r].cell \in Open /\ d.robots[r].battery \in Nat

LEMMA DistanceTyped ==
  ASSUME Connected, NEW d, d.open = Open, NEW from \in Open, NEW to \in Open, NEW blocked
  PROVE  PathDistance(d, from, to, blocked) \in Nat
<1> DEFINE p == RouteOrThrough(d, from, to, blocked)
<1>1. p \in Seq(Open) /\ p # NoPath
  <2> DEFINE a == BFSPath(Open, from, to, blocked)
             b == BFSPath(Open, from, to, {})
  <2>1. p = IF a # NoPath THEN a ELSE b
    BY DEF RouteOrThrough, FirstRoute
  <2>2. (a # NoPath => a \in Seq(Open)) /\ b # NoPath /\ b \in Seq(Open)
    BY PlansTyped
  <2> HIDE DEF p, a, b
  <2> QED
    BY <2>1, <2>2
<1> HIDE DEF p
<1>2. Length(p) = Len(p) /\ Len(p) \in Nat
  BY <1>1 DEF Length
<1> QED
  BY <1>2 DEF PathDistance, p

\* On a connected floor every robot can be given every task, at some cost.
LEMMA CostsTyped ==
  ASSUME Connected, NEW d, Asked(d), NEW t \in DOMAIN d.tasks, NEW r \in Available(d),
         NEW blocked
  PROVE  NearestCost(d, t, r, blocked) \in Nat /\ EnergyAwareCost(d, t, r, blocked) \in Nat
<1> DEFINE way == PickupDistance(d, r, t, blocked)
           haul == HaulDistance(d, t, blocked)
           battery == d.robots[r].battery
<1>1. /\ d.open = Open /\ d.robots[r].cell \in Open /\ battery \in Nat
      /\ d.tasks[t].pickup \in Open /\ d.tasks[t].dropoff \in Open
  BY DEF Asked, TaskType
<1>2. way \in Nat /\ haul \in Nat
  BY <1>1, DistanceTyped DEF PickupDistance, HaulDistance
<1>3. Nowhere \notin Open
  BY DispatchAssumption DEF Nowhere
<1>4. NearestCost(d, t, r, blocked) = way /\ EnergyAwareCost(d, t, r, blocked) = TotalOf(way, haul, battery)
  BY <1>1, <1>3 DEF NearestCost, EnergyAwareCost, Unresolved
<1> HIDE DEF way, haul, battery
<1>5. TotalOf(way, haul, battery) \in Nat
  <2> DEFINE empty == way * EmptyEnergy
             loaded == haul * LoadedEnergy
             short == empty + loaded + SafetyEnergy - battery
  <2>1. EmptyEnergy \in Nat /\ LoadedEnergy \in Nat /\ SafetyEnergy \in Nat
        /\ CriticalEnergy \in Nat /\ FullBattery \in Nat /\ battery \in Nat
    BY <1>1, SchedulingAssumption
  <2>2. empty \in Nat /\ loaded \in Nat
    BY <1>2, <2>1, ProductIsNat
  <2> HIDE DEF empty, loaded
  <2>3. short \in Int /\ FullBattery - battery \in Int
    BY <2>1, <2>2
  <2> HIDE DEF short
  <2>4. Positive(short) \in Nat /\ Positive(FullBattery - battery) \in Nat
    BY <2>3 DEF Positive
  <2>5. Positive(short) * 100 \in Nat
    BY <2>4, ProductIsNat
  <2>6. NoCost \notin {way, haul}
    BY <1>2 DEF NoCost
  <2>7. TotalOf(way, haul, battery) =
          way + haul + Positive(short) * 100 + (IF battery <= CriticalEnergy THEN 10000 ELSE 0)
            + Positive(FullBattery - battery)
    BY <2>6 DEF TotalOf, short, empty, loaded
  <2> QED
    BY <1>2, <2>4, <2>5, <2>7
<1> QED
  BY <1>2, <1>4, <1>5

LEMMA CheapestServes ==
  ASSUME NEW d, Asked(d), NEW key, NEW s \in Servings(d), NEW t \in s.left,
         \A v \in s.left \ {t} : LexBefore(key[t], key[v]),
         NEW cost, \A r \in s.free : cost[r] \in Nat
  PROVE  Serves(d, key, s, Cheapest(d, s, t, cost))
<1> DEFINE able == {r \in s.free : cost[r] # NoCost}
           best == FirstBy(able, LAMBDA r : <<cost[r], r>>)
<1>1. Cheapest(d, s, t, cost) = IF able = {} THEN [s EXCEPT !.left = @ \ {t}]
                                ELSE Give(d, s, t, best, cost[best])
  BY DEF Cheapest
<1>2. able = s.free
  BY DEF NoCost
<1>3. IsFiniteSet(able) /\ able \subseteq Nat
  <2>1. s.free \in SUBSET Robots
    BY DEF Servings, Asked
  <2>2. IsFiniteSet(Robots) /\ Robots \subseteq Nat
    BY DispatchAssumption
  <2> QED
    BY <1>2, <2>1, <2>2, FS_Subset
<1>4. able # {} => best \in s.free
  <2> SUFFICES ASSUME able # {} PROVE best \in able
    BY <1>2
  <2>1. \E x \in able : \A y \in able \ {x} : LexBefore(<<cost[x], x>>, <<cost[y], y>>)
    BY <1>2, <1>3, CheapestRobot
  <2>2. best = CHOOSE x \in able : \A y \in able \ {x} : LexBefore(<<cost[x], x>>, <<cost[y], y>>)
    BY DEF FirstBy
  <2> HIDE DEF able, best
  <2> QED
    BY <2>1, <2>2
<1> HIDE DEF able, best
<1> QED
  BY <1>1, <1>2, <1>4 DEF Serves

\* The keys of the sequential schedulers, which are triples of two numbers of the
\* task and its id.
KeyOf(d, f, g) == [t \in DOMAIN d.tasks |-> <<f[t], g[t], t>>]

Urgency(d) == [t \in DOMAIN d.tasks |-> d.tasks[t].priority]
Legacy(d)  == [t \in DOMAIN d.tasks |-> -d.tasks[t].priority]
Age(d)     == [t \in DOMAIN d.tasks |-> d.tasks[t].created]

LEMMA KeysTyped ==
  ASSUME NEW d, Asked(d), NEW t \in DOMAIN d.tasks
  PROVE  Urgency(d)[t] \in Int /\ Legacy(d)[t] \in Int /\ Age(d)[t] \in Int
<1>1. d.tasks[t].priority \in Int /\ d.tasks[t].created \in 0..Duration
  BY DEF Asked, TaskType
<1>2. d.tasks[t].created \in Int
  BY <1>1
<1> QED
  BY <1>1, <1>2 DEF Urgency, Legacy, Age

LEMMA LeftHasFirst ==
  ASSUME NEW d, Asked(d), NEW f, NEW g,
         \A t \in DOMAIN d.tasks : f[t] \in Int /\ g[t] \in Int,
         NEW s \in Servings(d), s.left # {}
  PROVE  /\ s.left \subseteq DOMAIN d.tasks
         /\ \E x \in s.left : \A y \in s.left \ {x} :
              LexBefore(KeyOf(d, f, g)[x], KeyOf(d, f, g)[y])
<1> DEFINE key == KeyOf(d, f, g)
<1>1. s.left \in SUBSET DOMAIN d.tasks /\ IsFiniteSet(DOMAIN d.tasks) /\ DOMAIN d.tasks \subseteq Nat
  BY DEF Servings, Asked
<1>2. IsFiniteSet(s.left) /\ s.left \subseteq Nat
  BY <1>1, FS_Subset
<1>3. \A t \in s.left : key[t] = <<f[t], g[t], t>> /\ f[t] \in Int /\ g[t] \in Int
  BY <1>1 DEF KeyOf
<1> HIDE DEF key
<1>4. \E x \in s.left : \A y \in s.left \ {x} : LexBefore(key[x], key[y])
  BY <1>2, <1>3, FirstTask
<1> QED
  BY <1>1, <1>4 DEF key

LEMMA AskedAskable == ASSUME NEW d, Asked(d) PROVE Askable(d)
BY DEF Asked, Askable

LEMMA PriorityInOrder ==
  ASSUME Connected, NEW d, Asked(d)
  PROVE  InOrderOf(d, KeyOf(d, Urgency(d), Age(d)), Priority(d))
<1> DEFINE key == KeyOf(d, Urgency(d), Age(d))
           first(s) == FirstBy(s.left, LAMBDA t : ByPriority(d, t))
           Step == [s \in Servings(d) |-> Serve(d, s, first(s), NearestCost)]
<1>1. \A t \in DOMAIN d.tasks : ByPriority(d, t) = key[t]
  BY DEF ByPriority, KeyOf, Urgency, Legacy, Age
<1>2. ASSUME NEW s \in Servings(d), s.left # {} PROVE Serves(d, key, s, Step[s])
  <2> DEFINE x == first(s)
  <2>1. /\ s.left \subseteq DOMAIN d.tasks
        /\ \E y \in s.left : \A z \in s.left \ {y} : LexBefore(key[y], key[z])
    BY <1>2, KeysTyped, LeftHasFirst
  <2>2. x = CHOOSE y \in s.left : \A z \in s.left \ {y} : LexBefore(ByPriority(d, y), ByPriority(d, z))
    BY DEF FirstBy
  <2> HIDE DEF key, x
  <2>3. \E y \in s.left : \A z \in s.left \ {y} : LexBefore(ByPriority(d, y), ByPriority(d, z))
    BY <1>1, <2>1
  <2>4. x \in s.left /\ \A z \in s.left \ {x} : LexBefore(ByPriority(d, x), ByPriority(d, z))
    BY <2>2, <2>3
  <2>5. x \in s.left /\ \A z \in s.left \ {x} : LexBefore(key[x], key[z])
    BY <1>1, <2>1, <2>4
  <2> DEFINE c == [r \in s.free |-> NearestCost(d, x, r, s.blocked)]
  <2>6. \A r \in s.free : c[r] \in Nat
    <3>1. s.free \in SUBSET Available(d) /\ x \in DOMAIN d.tasks
      BY <2>1, <2>5 DEF Servings
    <3> QED
      BY <3>1, CostsTyped
  <2>7. Step[s] = Cheapest(d, s, x, c)
    BY DEF Serve, x
  <2> HIDE DEF c, Step
  <2> QED
    BY <2>5, <2>6, <2>7, CheapestServes
<1>3. Priority(d) = InTurn(d, Step)
  BY DEF Priority, Sequential
<1> HIDE DEF key, Step
<1>4. InOrderOf(d, key, InTurn(d, Step))
  BY <1>2, AskedAskable, TurnsInOrder
<1> QED
  BY <1>3, <1>4 DEF key

LEMMA CostBasedInOrder ==
  ASSUME Connected, NEW d, Asked(d)
  PROVE  InOrderOf(d, KeyOf(d, Legacy(d), Age(d)), CostBased(d))
<1> DEFINE key == KeyOf(d, Legacy(d), Age(d))
           first(s) == FirstBy(s.left, LAMBDA t : ByLegacyCost(d, t))
           Step == [s \in Servings(d) |-> Serve(d, s, first(s), NearestCost)]
<1>1. \A t \in DOMAIN d.tasks : ByLegacyCost(d, t) = key[t]
  BY DEF ByLegacyCost, KeyOf, Urgency, Legacy, Age
<1>2. ASSUME NEW s \in Servings(d), s.left # {} PROVE Serves(d, key, s, Step[s])
  <2> DEFINE x == first(s)
  <2>1. /\ s.left \subseteq DOMAIN d.tasks
        /\ \E y \in s.left : \A z \in s.left \ {y} : LexBefore(key[y], key[z])
    BY <1>2, KeysTyped, LeftHasFirst
  <2>2. x = CHOOSE y \in s.left : \A z \in s.left \ {y} : LexBefore(ByLegacyCost(d, y), ByLegacyCost(d, z))
    BY DEF FirstBy
  <2> HIDE DEF key, x
  <2>3. \E y \in s.left : \A z \in s.left \ {y} : LexBefore(ByLegacyCost(d, y), ByLegacyCost(d, z))
    BY <1>1, <2>1
  <2>4. x \in s.left /\ \A z \in s.left \ {x} : LexBefore(ByLegacyCost(d, x), ByLegacyCost(d, z))
    BY <2>2, <2>3
  <2>5. x \in s.left /\ \A z \in s.left \ {x} : LexBefore(key[x], key[z])
    BY <1>1, <2>1, <2>4
  <2> DEFINE c == [r \in s.free |-> NearestCost(d, x, r, s.blocked)]
  <2>6. \A r \in s.free : c[r] \in Nat
    <3>1. s.free \in SUBSET Available(d) /\ x \in DOMAIN d.tasks
      BY <2>1, <2>5 DEF Servings
    <3> QED
      BY <3>1, CostsTyped
  <2>7. Step[s] = Cheapest(d, s, x, c)
    BY DEF Serve, x
  <2> HIDE DEF c, Step
  <2> QED
    BY <2>5, <2>6, <2>7, CheapestServes
<1>3. CostBased(d) = InTurn(d, Step)
  BY DEF CostBased, Sequential
<1> HIDE DEF key, Step
<1>4. InOrderOf(d, key, InTurn(d, Step))
  BY <1>2, AskedAskable, TurnsInOrder
<1> QED
  BY <1>3, <1>4 DEF key

LEMMA FIFOInOrder ==
  ASSUME Connected, NEW d, Asked(d)
  PROVE  InOrderOf(d, KeyOf(d, Age(d), Urgency(d)), FIFO(d))
<1> DEFINE key == KeyOf(d, Age(d), Urgency(d))
           first(s) == FirstBy(s.left, LAMBDA t : ByAge(d, t))
           Step == [s \in Servings(d) |-> Serve(d, s, first(s), NearestCost)]
<1>1. \A t \in DOMAIN d.tasks : ByAge(d, t) = key[t]
  BY DEF ByAge, KeyOf, Urgency, Legacy, Age
<1>2. ASSUME NEW s \in Servings(d), s.left # {} PROVE Serves(d, key, s, Step[s])
  <2> DEFINE x == first(s)
  <2>1. /\ s.left \subseteq DOMAIN d.tasks
        /\ \E y \in s.left : \A z \in s.left \ {y} : LexBefore(key[y], key[z])
    BY <1>2, KeysTyped, LeftHasFirst
  <2>2. x = CHOOSE y \in s.left : \A z \in s.left \ {y} : LexBefore(ByAge(d, y), ByAge(d, z))
    BY DEF FirstBy
  <2> HIDE DEF key, x
  <2>3. \E y \in s.left : \A z \in s.left \ {y} : LexBefore(ByAge(d, y), ByAge(d, z))
    BY <1>1, <2>1
  <2>4. x \in s.left /\ \A z \in s.left \ {x} : LexBefore(ByAge(d, x), ByAge(d, z))
    BY <2>2, <2>3
  <2>5. x \in s.left /\ \A z \in s.left \ {x} : LexBefore(key[x], key[z])
    BY <1>1, <2>1, <2>4
  <2> DEFINE c == [r \in s.free |-> NearestCost(d, x, r, s.blocked)]
  <2>6. \A r \in s.free : c[r] \in Nat
    <3>1. s.free \in SUBSET Available(d) /\ x \in DOMAIN d.tasks
      BY <2>1, <2>5 DEF Servings
    <3> QED
      BY <3>1, CostsTyped
  <2>7. Step[s] = Cheapest(d, s, x, c)
    BY DEF Serve, x
  <2> HIDE DEF c, Step
  <2> QED
    BY <2>5, <2>6, <2>7, CheapestServes
<1>3. FIFO(d) = InTurn(d, Step)
  BY DEF FIFO, Sequential
<1> HIDE DEF key, Step
<1>4. InOrderOf(d, key, InTurn(d, Step))
  BY <1>2, AskedAskable, TurnsInOrder
<1> QED
  BY <1>3, <1>4 DEF key

LEMMA TotalCostInOrder ==
  ASSUME Connected, NEW d, Asked(d)
  PROVE  InOrderOf(d, KeyOf(d, Urgency(d), Age(d)), TotalCost(d))
<1> DEFINE key == KeyOf(d, Urgency(d), Age(d))
           first(s) == FirstBy(s.left, LAMBDA t : ByPriority(d, t))
           Step == [s \in Servings(d) |-> Serve(d, s, first(s), EnergyAwareCost)]
<1>1. \A t \in DOMAIN d.tasks : ByPriority(d, t) = key[t]
  BY DEF ByPriority, KeyOf, Urgency, Legacy, Age
<1>2. ASSUME NEW s \in Servings(d), s.left # {} PROVE Serves(d, key, s, Step[s])
  <2> DEFINE x == first(s)
  <2>1. /\ s.left \subseteq DOMAIN d.tasks
        /\ \E y \in s.left : \A z \in s.left \ {y} : LexBefore(key[y], key[z])
    BY <1>2, KeysTyped, LeftHasFirst
  <2>2. x = CHOOSE y \in s.left : \A z \in s.left \ {y} : LexBefore(ByPriority(d, y), ByPriority(d, z))
    BY DEF FirstBy
  <2> HIDE DEF key, x
  <2>3. \E y \in s.left : \A z \in s.left \ {y} : LexBefore(ByPriority(d, y), ByPriority(d, z))
    BY <1>1, <2>1
  <2>4. x \in s.left /\ \A z \in s.left \ {x} : LexBefore(ByPriority(d, x), ByPriority(d, z))
    BY <2>2, <2>3
  <2>5. x \in s.left /\ \A z \in s.left \ {x} : LexBefore(key[x], key[z])
    BY <1>1, <2>1, <2>4
  <2> DEFINE c == [r \in s.free |-> EnergyAwareCost(d, x, r, s.blocked)]
  <2>6. \A r \in s.free : c[r] \in Nat
    <3>1. s.free \in SUBSET Available(d) /\ x \in DOMAIN d.tasks
      BY <2>1, <2>5 DEF Servings
    <3> QED
      BY <3>1, CostsTyped
  <2>7. Step[s] = Cheapest(d, s, x, c)
    BY DEF Serve, x
  <2> HIDE DEF c, Step
  <2> QED
    BY <2>5, <2>6, <2>7, CheapestServes
<1>3. TotalCost(d) = InTurn(d, Step)
  BY DEF TotalCost, Sequential
<1> HIDE DEF key, Step
<1>4. InOrderOf(d, key, InTurn(d, Step))
  BY <1>2, AskedAskable, TurnsInOrder
<1> QED
  BY <1>3, <1>4 DEF key

-----------------------------------------------------------------------------
(* An assignment leaves other tasks and other robots alone.                *)

Apart(w, u, r, t) ==
  /\ DOMAIN u.tasks = DOMAIN w.tasks
  /\ \A x \in (DOMAIN w.tasks) \ {t} : u.tasks[x] = w.tasks[x]
  /\ u.tasks[t].priority = w.tasks[t].priority /\ u.tasks[t].created = w.tasks[t].created
  /\ Waiting(u.tasks[t]) => Waiting(w.tasks[t])
  /\ \A q \in Robots \ {r} : u.robots[q] = w.robots[q]

LEMMA ApartOn ==
  ASSUME NEW u, NEW v, NEW w, NEW r, NEW t, Apart(w, u, r, t), Apart(u, v, r, t)
  PROVE  Apart(w, v, r, t)
BY DEF Apart

LEMMA WithApart ==
  ASSUME NEW ids, NEW issued, NEW w, Sound(ids, issued, w), NEW r \in Robots, NEW robot,
         NEW t \in ids, NEW task, NEW tally,
         task.priority = w.tasks[t].priority, task.created = w.tasks[t].created,
         Waiting(task) => Waiting(w.tasks[t])
  PROVE  Apart(w, With(w, r, robot, t, task, tally), r, t)
<1> DEFINE u == With(w, r, robot, t, task, tally)
<1>1. DOMAIN w.tasks = ids /\ DOMAIN w.robots = Robots
  BY DEF Sound, Worlds
<1>2. /\ DOMAIN u.tasks = ids /\ u.tasks[t] = task
      /\ \A x \in ids \ {t} : u.tasks[x] = w.tasks[x]
      /\ \A q \in Robots \ {r} : u.robots[q] = w.robots[q]
  BY <1>1 DEF With
<1> HIDE DEF u
<1>3. Apart(w, u, r, t)
  BY <1>1, <1>2 DEF Apart
<1> QED
  BY <1>3 DEF u

LEMMA RouteToApart ==
  ASSUME NEW ids, NEW issued, NEW w, Sound(ids, issued, w), NEW r \in Robots,
         NEW goal, NEW t
  PROVE  Apart(w, RouteTo(w, r, goal), r, t)
<1> DEFINE u == RouteTo(w, r, goal)
<1>1. DOMAIN w.robots = Robots
  BY DEF Sound, Worlds
<1>2. u.tasks = w.tasks /\ \A q \in Robots \ {r} : u.robots[q] = w.robots[q]
  BY <1>1 DEF RouteTo, WithRobot
<1> HIDE DEF u
<1>3. Apart(w, u, r, t)
  BY <1>2 DEF Apart
<1> QED
  BY <1>3 DEF u

LEMMA CompleteApart ==
  ASSUME NEW ids, NEW issued, NEW w, Sound(ids, issued, w), NEW r \in Robots,
         w.robots[r].task # None
  PROVE  Apart(w, Complete(w, r), r, w.robots[r].task)
<1> DEFINE t == w.robots[r].task
           task == [w.tasks[t] EXCEPT !.status = "Completed", !.done = w.tick]
<1>1. t \in ids /\ w.tasks[t] \in TaskType
  BY SoundFacts
<1> HIDE DEF t
<1>2. /\ task.priority = w.tasks[t].priority /\ task.created = w.tasks[t].created
      /\ Waiting(task) => Waiting(w.tasks[t])
  BY <1>1 DEF TaskType, Waiting
<1> HIDE DEF task
<1>3. \A robot, tally : Apart(w, With(w, r, robot, t, task, tally), r, t)
  BY <1>1, <1>2, WithApart
<1>4. \E robot, tally : Complete(w, r) = With(w, r, robot, t, task, tally)
  BY DEF Complete, t, task
<1> QED
  BY <1>3, <1>4 DEF t

LEMMA LoadApart ==
  ASSUME NEW ids, NEW issued, NEW w, Sound(ids, issued, w), NEW r \in Robots,
         w.robots[r].task # None
  PROVE  Apart(w, Load(w, r), r, w.robots[r].task)
<1> DEFINE t == w.robots[r].task
           task == [w.tasks[t] EXCEPT !.leg = "dropoff", !.load = "Carried"]
<1>1. t \in ids /\ w.tasks[t] \in TaskType
  BY SoundFacts
<1> HIDE DEF t
<1>2. /\ task.priority = w.tasks[t].priority /\ task.created = w.tasks[t].created
      /\ Waiting(task) => Waiting(w.tasks[t])
  BY <1>1 DEF TaskType, Waiting
<1> HIDE DEF task
<1>3. \A robot, tally : Apart(w, With(w, r, robot, t, task, tally), r, t)
  BY <1>1, <1>2, WithApart
<1>4. \E robot, tally : Load(w, r) = With(w, r, robot, t, task, tally)
  BY DEF Load, t, task
<1> QED
  BY <1>3, <1>4 DEF t

LEMMA TakeApart ==
  ASSUME NEW ids, NEW issued, NEW w, Sound(ids, issued, w), NEW r \in Robots,
         NEW t \in ids
  PROVE  Apart(w, Take(w, r, t), r, t) /\ ~Waiting(Take(w, r, t).tasks[t])
<1> DEFINE task == [w.tasks[t] EXCEPT !.status = "Assigned", !.robot = r, !.leg = "pickup",
                                      !.last = r]
<1>1. w.tasks[t] \in TaskType
  BY TypesOf DEF Sound
<1>2. /\ task.priority = w.tasks[t].priority /\ task.created = w.tasks[t].created
      /\ ~Waiting(task)
  BY <1>1 DEF TaskType, Waiting
<1> HIDE DEF task
<1>3. \A robot, tally : Apart(w, With(w, r, robot, t, task, tally), r, t)
  BY <1>2, WithApart
<1>4. \E robot, tally : Take(w, r, t) = With(w, r, robot, t, task, tally)
  BY DEF Take, task
<1>5. DOMAIN w.tasks = ids
  BY DEF Sound, Worlds
<1>6. \A robot, tally : With(w, r, robot, t, task, tally).tasks[t] = task
  BY <1>5 DEF With
<1> QED
  BY <1>2, <1>3, <1>4, <1>6

LEMMA ArriveApart ==
  ASSUME Connected, NEW ids, NEW issued, Numbers(ids), NEW w, Sound(ids, issued, w),
         NEW r \in Robots, w.robots[r].task # None
  PROVE  Apart(w, ArriveIfThere(w, r), r, w.robots[r].task)
<1> DEFINE t == w.robots[r].task
           task == w.tasks[t]
           load == Load(w, r)
           sent == RouteTo(load, r, task.dropoff)
<1>1. task.dropoff \in Open
  <2>1. task \in TaskType
    BY SoundFacts
  <2> QED
    BY <2>1 DEF TaskType
<1>2. Sound(ids, issued, load) /\ load.robots[r].task = t /\ Apart(w, load, r, t)
  BY LoadSound, LoadApart
<1> HIDE DEF load
<1>3. Sound(ids, issued, sent) /\ sent.robots[r].task = t /\ Apart(load, sent, r, t)
  BY <1>1, <1>2, RouteToSound, RouteToApart
<1> HIDE DEF sent
<1>4. /\ Apart(w, Complete(w, r), r, t) /\ Apart(sent, Complete(sent, r), r, t)
      /\ Apart(w, w, r, t)
  BY <1>3, CompleteApart DEF Apart
<1>5. Apart(w, sent, r, t) /\ Apart(w, Complete(sent, r), r, t)
  BY <1>2, <1>3, <1>4, ApartOn
<1>6. Arrive(w, r) =
        IF task.leg = "dropoff" THEN Complete(w, r) ELSE CompleteIfThere(sent, r)
  BY DEF Arrive, sent, load
<1> HIDE DEF task, t
<1>7. Apart(w, ArriveIfThere(w, r), r, t)
  BY <1>4, <1>5, <1>6 DEF CompleteIfThere, ArriveIfThere
<1> QED
  BY <1>7 DEF t

LEMMA BeginApart ==
  ASSUME Connected, NEW ids, NEW issued, Numbers(ids), NEW w, Sound(ids, issued, w),
         NEW r \in Robots, NEW t \in ids, w.robots[r].task = None, Waiting(w.tasks[t])
  PROVE  Apart(w, BeginTask(w, r, t), r, t) /\ ~Waiting(BeginTask(w, r, t).tasks[t])
<1> DEFINE taken == Take(w, r, t)
           sent == RouteTo(taken, r, w.tasks[t].pickup)
<1>1. w.tasks[t].pickup \in Open
  <2>1. w.tasks[t] \in TaskType
    BY TypesOf DEF Sound
  <2> QED
    BY <2>1 DEF TaskType
<1>2. /\ Sound(ids, issued, taken) /\ taken.robots[r].task = t /\ t # None
      /\ Apart(w, taken, r, t) /\ ~Waiting(taken.tasks[t])
  BY TakeSound, TakeApart
<1> HIDE DEF taken
<1>3. Sound(ids, issued, sent) /\ sent.robots[r].task = t /\ Apart(taken, sent, r, t)
  BY <1>1, <1>2, RouteToSound, RouteToApart
<1> HIDE DEF sent
<1>4. Apart(sent, ArriveIfThere(sent, r), r, t)
  BY <1>2, <1>3, ArriveApart
<1>5. BeginTask(w, r, t) = ArriveIfThere(sent, r)
  BY DEF BeginTask, sent, taken
<1>6. Apart(taken, BeginTask(w, r, t), r, t)
  BY <1>3, <1>4, <1>5, ApartOn
<1> QED
  BY <1>2, <1>6, ApartOn DEF Apart

-----------------------------------------------------------------------------
(* Nobody is overtaken.                                                    *)

\* What is left of an answer: waiting tasks and idle robots, each once, and nobody
\* that is ahead of one of the tasks was forgotten.
Owed ==
  LET n == Len(answer)
  IN  /\ n > 0 /\ answer \in Seq(Nat \X Robots \X Nat)
      /\ \A i \in 1..n : /\ answer[i][1] \in DOMAIN tasks /\ Waiting(tasks[answer[i][1]])
                         /\ CanAccept(robots[answer[i][2]])
      /\ \A i, j \in 1..n : i < j =>
           /\ answer[i][1] # answer[j][1] /\ answer[i][2] # answer[j][2]
           /\ ~Ahead(answer[j][1], answer[i][1])
      /\ \A t \in DOMAIN tasks : Waiting(tasks[t]) =>
           \/ t \in refused
           \/ \E i \in 1..n : answer[i][1] = t
           \/ \A i \in 1..n : ~Ahead(t, answer[i][1])

Promised ==
  /\ plan.scheduler \in Schedulers
  /\ phase = "follow" /\ plan.scheduler # "auction" => Owed

LEMMA QuestionAsked ==
  ASSUME Inv
  PROVE  /\ Asked(Question) /\ Question.tasks = [t \in DOMAIN Question.tasks |-> tasks[t]]
         /\ DOMAIN Question.tasks = {t \in DOMAIN tasks : Waiting(tasks[t])}
         /\ Available(Question) = {r \in Robots : CanAccept(robots[r])}
<1> DEFINE d == Question
           ids == {t \in DOMAIN tasks : Waiting(tasks[t])}
<1>1. /\ World \in Worlds(DOMAIN tasks, Len(released)) /\ Numbers(DOMAIN tasks)
  BY DEF Inv, Orderly, Sound
<1>2. /\ \A t \in DOMAIN tasks : tasks[t] \in TaskType
      /\ \A r \in Robots : robots[r] \in RobotType /\ robots[r].cell \in Open
  <2>1. \A r \in Robots : robots[r] \in RobotType
    BY <1>1, TypesOf, WorldIs
  <2>2. \A r \in Robots : robots[r].cell \in Open
    BY <2>1 DEF RobotType
  <2> QED
    BY <1>1, <2>1, <2>2, TypesOf, WorldIs
<1>3. /\ d.open = Open /\ d.blocked = CellsOf(World, Robots) /\ d.tasks = [t \in ids |-> tasks[t]]
      /\ DOMAIN d.robots = Robots
      /\ \A r \in Robots : /\ d.robots[r].cell = robots[r].cell /\ d.robots[r].battery = Reach[r]
                           /\ d.robots[r].ready = CanAccept(robots[r])
  BY DEF Question
<1> HIDE DEF d
<1>4. d.blocked \in SUBSET Open
  BY <1>2, <1>3, WorldIs DEF CellsOf
<1>5. IsFiniteSet(ids) /\ ids \subseteq Nat
  <2>1. IsFiniteSet(DOMAIN tasks) /\ DOMAIN tasks \subseteq Nat /\ ids \in SUBSET DOMAIN tasks
    BY <1>1 DEF Numbers
  <2> QED
    BY <2>1, FS_Subset
<1>6. Available(d) = {r \in Robots : CanAccept(robots[r])}
  BY <1>3 DEF Available
<1>7. \A r \in Robots : Reach[r] \in Nat
  BY DispatchAssumption
<1>8. DOMAIN d.tasks = ids /\ \A t \in ids : d.tasks[t] = tasks[t] /\ tasks[t] \in TaskType
  BY <1>2, <1>3
<1>9. Asked(d)
  BY <1>2, <1>3, <1>4, <1>5, <1>6, <1>7, <1>8 DEF Asked
<1> QED
  BY <1>3, <1>6, <1>8, <1>9 DEF d

\* The answers of the sequential schedulers are in the promised order.
LEMMA AnswerInOrder ==
  ASSUME Connected, Inv, plan.scheduler \in Schedulers, plan.scheduler # "auction"
  PROVE  \E key :
           /\ InOrderOf(Question, key, Assignments(plan.scheduler, Question))
           /\ \A t, u \in DOMAIN Question.tasks : LexBefore(key[t], key[u]) => ~Ahead(u, t)
<1> DEFINE d == Question
           ids == DOMAIN d.tasks
<1>1. Asked(d) /\ \A t \in ids : d.tasks[t] = tasks[t] /\ tasks[t].priority \in Int
                                /\ tasks[t].created \in Int /\ t \in Int
  <2>1. Asked(d) /\ d.tasks = [t \in ids |-> tasks[t]]
    BY QuestionAsked
  <2> HIDE DEF d
  <2>2. \A t \in ids : d.tasks[t] = tasks[t] /\ tasks[t] \in TaskType /\ t \in Nat
    BY <2>1 DEF Asked
  <2>3. \A t \in ids : tasks[t].priority \in Int /\ tasks[t].created \in 0..Duration
    BY <2>2 DEF TaskType
  <2>4. \A i \in 0..Duration : i \in Int
    OBVIOUS
  <2> QED
    BY <2>1, <2>2, <2>3, <2>4
<1> HIDE DEF d
<1>2. ASSUME NEW f, NEW g, \A t \in ids : f[t] \in Int /\ g[t] \in Int,
             NEW t \in ids, NEW u \in ids
      PROVE  LexBefore(KeyOf(d, f, g)[t], KeyOf(d, f, g)[u]) <=>
               f[t] < f[u] \/ (f[t] = f[u] /\ (g[t] < g[u] \/ (g[t] = g[u] /\ t < u)))
  <2>1. KeyOf(d, f, g)[t] = <<f[t], g[t], t>> /\ KeyOf(d, f, g)[u] = <<f[u], g[u], u>>
    BY DEF KeyOf
  <2>2. t \in Int /\ u \in Int /\ f[t] \in Int /\ f[u] \in Int /\ g[t] \in Int /\ g[u] \in Int
    BY <1>1, <1>2
  <2> QED
    BY <2>1, <2>2, TripleBefore
<1>3. \A t \in ids : /\ Urgency(d)[t] = tasks[t].priority /\ Legacy(d)[t] = -tasks[t].priority
                     /\ Age(d)[t] = tasks[t].created
                     /\ Urgency(d)[t] \in Int /\ Legacy(d)[t] \in Int /\ Age(d)[t] \in Int
  BY <1>1, KeysTyped DEF Urgency, Legacy, Age
<1>4. CASE plan.scheduler \in {"priority", "energy"}
  <2> DEFINE key == KeyOf(d, Urgency(d), Age(d))
  <2>1. InOrderOf(d, key, Assignments(plan.scheduler, d))
    BY <1>1, <1>4, PriorityInOrder, TotalCostInOrder DEF Assignments
  <2>2. ASSUME NEW t \in ids, NEW u \in ids, LexBefore(key[t], key[u]) PROVE ~Ahead(u, t)
    <3>1. LexBefore(key[t], key[u]) <=>
            \/ tasks[t].priority < tasks[u].priority
            \/ /\ tasks[t].priority = tasks[u].priority
               /\ (tasks[t].created < tasks[u].created
                   \/ (tasks[t].created = tasks[u].created /\ t < u))
      BY <1>2, <1>3
    <3>2. Ahead(u, t) <=> LET urgent == tasks[u].priority - tasks[t].priority
                              younger == tasks[u].created - tasks[t].created
                          IN  urgent < 0 \/ (urgent = 0 /\ younger < 0)
      BY <1>4 DEF Ahead
    <3> HIDE DEF key
    <3> QED
      BY <1>1, <2>2, <3>1, <3>2
  <2> HIDE DEF key
  <2> QED
    BY <2>1, <2>2 DEF d
<1>5. CASE plan.scheduler = "cost"
  <2> DEFINE key == KeyOf(d, Legacy(d), Age(d))
  <2>1. InOrderOf(d, key, Assignments(plan.scheduler, d))
    BY <1>1, <1>5, CostBasedInOrder DEF Assignments
  <2>2. ASSUME NEW t \in ids, NEW u \in ids, LexBefore(key[t], key[u]) PROVE ~Ahead(u, t)
    <3>1. LexBefore(key[t], key[u]) <=>
            \/ -tasks[t].priority < -tasks[u].priority
            \/ /\ -tasks[t].priority = -tasks[u].priority
               /\ (tasks[t].created < tasks[u].created
                   \/ (tasks[t].created = tasks[u].created /\ t < u))
      BY <1>2, <1>3
    <3>2. Ahead(u, t) <=> LET urgent == tasks[t].priority - tasks[u].priority
                              younger == tasks[u].created - tasks[t].created
                          IN  urgent < 0 \/ (urgent = 0 /\ younger < 0)
      BY <1>5 DEF Ahead
    <3> HIDE DEF key
    <3> QED
      BY <1>1, <2>2, <3>1, <3>2
  <2> HIDE DEF key
  <2> QED
    BY <2>1, <2>2 DEF d
<1>6. CASE plan.scheduler = "fifo"
  <2> DEFINE key == KeyOf(d, Age(d), Urgency(d))
  <2>1. InOrderOf(d, key, Assignments(plan.scheduler, d))
    BY <1>1, <1>6, FIFOInOrder DEF Assignments
  <2>2. ASSUME NEW t \in ids, NEW u \in ids, LexBefore(key[t], key[u]) PROVE ~Ahead(u, t)
    <3>1. LexBefore(key[t], key[u]) <=>
            \/ tasks[t].created < tasks[u].created
            \/ /\ tasks[t].created = tasks[u].created
               /\ (tasks[t].priority < tasks[u].priority
                   \/ (tasks[t].priority = tasks[u].priority /\ t < u))
      BY <1>2, <1>3
    <3>2. Ahead(u, t) <=> LET urgent == tasks[u].priority - tasks[t].priority
                              younger == tasks[u].created - tasks[t].created
                          IN  younger < 0 \/ (younger = 0 /\ urgent < 0)
      BY <1>6 DEF Ahead
    <3> HIDE DEF key
    <3> QED
      BY <1>1, <2>2, <3>1, <3>2
  <2> HIDE DEF key
  <2> QED
    BY <2>1, <2>2 DEF d
<1> QED
  BY <1>4, <1>5, <1>6 DEF Schedulers

LEMMA AskOwes ==
  ASSUME Connected, Inv, Promised, Ask
  PROVE  Promised'
<1>1. /\ plan' = plan /\ tasks' = tasks /\ robots' = robots /\ refused' = {}
      /\ answer' = Assignments(plan.scheduler, Question)
      /\ phase' = "follow" => answer' # <<>>
  BY DEF Ask, Left, world
<1>2. SUFFICES ASSUME phase' = "follow", plan.scheduler # "auction" PROVE Owed'
  BY <1>1 DEF Promised
<1> DEFINE d == Question
           n == Len(answer')
           T == (DOMAIN d.tasks) \X Available(d) \X Nat
<1>3. PICK key :
        /\ InOrderOf(d, key, answer')
        /\ \A t, u \in DOMAIN d.tasks : LexBefore(key[t], key[u]) => ~Ahead(u, t)
  BY <1>1, <1>2, AnswerInOrder DEF Promised
<1>4. /\ DOMAIN d.tasks = {t \in DOMAIN tasks : Waiting(tasks[t])} /\ DOMAIN d.tasks \subseteq Nat
      /\ Available(d) = {r \in Robots : CanAccept(robots[r])}
  BY QuestionAsked DEF Asked
<1> HIDE DEF d
<1>5. /\ answer' \in Seq(T) /\ answer' # <<>>
      /\ \A i, j \in 1..n : i < j =>
           /\ answer'[i][1] # answer'[j][1] /\ answer'[i][2] # answer'[j][2]
           /\ LexBefore(key[answer'[i][1]], key[answer'[j][1]])
      /\ \A t \in DOMAIN d.tasks :
           \/ \E i \in 1..n : answer'[i][1] = t
           \/ \A i \in 1..n : LexBefore(key[answer'[i][1]], key[t])
  BY <1>1, <1>2, <1>3 DEF InOrderOf
<1>6. n \in Nat /\ n > 0 /\ \A i \in 1..n : answer'[i] \in T
  BY <1>5
<1>7. \A i \in 1..n : answer'[i][1] \in DOMAIN d.tasks /\ answer'[i][2] \in Available(d)
  BY <1>6
<1>8. answer' \in Seq(Nat \X Robots \X Nat)
  <2>1. T \subseteq Nat \X Robots \X Nat
    BY <1>4
  <2> HIDE DEF T
  <2> QED
    BY <1>5, <2>1
<1>9. \A t, u : Ahead(t, u)' <=> Ahead(t, u)
  BY <1>1 DEF Ahead
<1> HIDE DEF n, T
<1>10. \A i, j \in 1..n : i < j => ~Ahead(answer'[j][1], answer'[i][1])
  BY <1>3, <1>5, <1>7
<1>11. ASSUME NEW t \in DOMAIN tasks, Waiting(tasks[t])
       PROVE  \/ \E i \in 1..n : answer'[i][1] = t
              \/ \A i \in 1..n : ~Ahead(t, answer'[i][1])
  <2>1. t \in DOMAIN d.tasks
    BY <1>4, <1>11
  <2> QED
    BY <1>3, <1>5, <1>7, <2>1
<1>12. \A i \in 1..n : /\ answer'[i][1] \in DOMAIN tasks /\ Waiting(tasks[answer'[i][1]])
                       /\ CanAccept(robots[answer'[i][2]])
  BY <1>4, <1>7
<1>13. \A i, j \in 1..n : i < j =>
         answer'[i][1] # answer'[j][1] /\ answer'[i][2] # answer'[j][2]
  BY <1>5
<1> QED
  BY <1>1, <1>6, <1>8, <1>9, <1>10, <1>11, <1>12, <1>13 DEF Owed, n

\* What following an assignment does, if the answer keeps its promise.
LEMMA FollowIs ==
  ASSUME Connected, Inv, Owed, Follow
  PROVE  LET t == answer[1][1]
             r == answer[1][2]
         IN  /\ DOMAIN tasks' = DOMAIN tasks
             /\ \A x \in (DOMAIN tasks) \ {t} : tasks'[x] = tasks[x]
             /\ \A x \in DOMAIN tasks : /\ tasks'[x].priority = tasks[x].priority
                                        /\ tasks'[x].created = tasks[x].created
             /\ \A q \in Robots \ {r} : robots'[q] = robots[q]
             /\ Waiting(tasks'[t]) => t \in refused'
             /\ refused \subseteq refused' /\ answer' = Tail(answer)
             /\ phase' = "follow" => answer' # <<>>
<1> DEFINE t == answer[1][1]
           r == answer[1][2]
           can == FeasibleTask(World, r, t)
           w == IF can THEN BeginTask(World, r, t) ELSE World
<1>1. Len(answer) > 0 /\ answer \in Seq(Nat \X Robots \X Nat)
  BY DEF Owed
<1>2. 1 \in 1..Len(answer) /\ Head(answer) = answer[1] /\ answer[1] \in Nat \X Robots \X Nat
  BY <1>1
<1>3. /\ t \in DOMAIN tasks /\ r \in Robots /\ Waiting(tasks[t]) /\ CanAccept(robots[r])
  BY <1>2 DEF Owed
<1>4. /\ Becomes(w) /\ answer' = Tail(answer) /\ (phase' = "follow" => answer' # <<>>)
      /\ refused' = IF can THEN refused ELSE refused \union {t}
  BY <1>2, <1>3 DEF Follow, Left
<1>5. Sound(DOMAIN tasks, Len(released), World) /\ Numbers(DOMAIN tasks)
  BY DEF Inv, Orderly
<1> HIDE DEF t, r
<1>6. /\ Apart(World, BeginTask(World, r, t), r, t)
      /\ ~Waiting(BeginTask(World, r, t).tasks[t])
  BY <1>3, <1>5, BeginApart, WorldIs DEF CanAccept
<1>7. Apart(World, w, r, t) /\ (can => ~Waiting(w.tasks[t]))
  BY <1>6 DEF Apart
<1> HIDE DEF can, w
<1>8. tasks' = w.tasks /\ robots' = w.robots
  BY <1>4 DEF Becomes
<1>9. /\ DOMAIN tasks' = DOMAIN tasks /\ \A x \in (DOMAIN tasks) \ {t} : tasks'[x] = tasks[x]
      /\ tasks'[t].priority = tasks[t].priority /\ tasks'[t].created = tasks[t].created
      /\ \A q \in Robots \ {r} : robots'[q] = robots[q]
  BY <1>7, <1>8, WorldIs DEF Apart
<1>10. Waiting(tasks'[t]) => t \in refused'
  BY <1>4, <1>7, <1>8
<1> QED
  BY <1>4, <1>9, <1>10 DEF t, r

LEMMA FollowOwes ==
  ASSUME Connected, Inv, Promised, Follow
  PROVE  Promised'
<1>1. plan' = plan /\ phase = "follow"
  BY DEF Follow
<1>2. SUFFICES ASSUME phase' = "follow", plan.scheduler # "auction" PROVE Owed'
  BY <1>1 DEF Promised
<1> DEFINE n == Len(answer)
           T == Nat \X Robots \X Nat
           t == answer[1][1]
           r == answer[1][2]
<1>3. Owed
  BY <1>1, <1>2 DEF Promised
<1>4. /\ DOMAIN tasks' = DOMAIN tasks
      /\ \A x \in (DOMAIN tasks) \ {t} : tasks'[x] = tasks[x]
      /\ \A x \in DOMAIN tasks : /\ tasks'[x].priority = tasks[x].priority
                                 /\ tasks'[x].created = tasks[x].created
      /\ \A q \in Robots \ {r} : robots'[q] = robots[q]
      /\ Waiting(tasks'[t]) => t \in refused'
      /\ refused \subseteq refused' /\ answer' = Tail(answer) /\ answer' # <<>>
  BY <1>2, <1>3, FollowIs
<1>5. n > 0 /\ answer \in Seq(T) /\ n \in Nat
  BY <1>3 DEF Owed
<1> HIDE DEF T
<1>6. /\ answer' \in Seq(T) /\ Len(answer') = n - 1 /\ Len(answer') > 0
      /\ \A i \in 1..(n - 1) : answer'[i] = answer[i + 1] /\ i + 1 \in 1..n
  BY <1>4, <1>5
<1>7. /\ \A i \in 1..n : /\ answer[i][1] \in DOMAIN tasks /\ Waiting(tasks[answer[i][1]])
                         /\ CanAccept(robots[answer[i][2]]) /\ answer[i][2] \in Robots
      /\ \A i, j \in 1..n : i < j =>
           /\ answer[i][1] # answer[j][1] /\ answer[i][2] # answer[j][2]
           /\ ~Ahead(answer[j][1], answer[i][1])
      /\ \A x \in DOMAIN tasks : Waiting(tasks[x]) =>
           \/ x \in refused
           \/ \E i \in 1..n : answer[i][1] = x
           \/ \A i \in 1..n : ~Ahead(x, answer[i][1])
  <2>1. \A i \in 1..n : answer[i] \in T
    BY <1>5
  <2>2. \A i \in 1..n : answer[i][2] \in Robots
    BY <2>1 DEF T
  <2> QED
    BY <1>3, <2>2 DEF Owed
<1>8. \A x, y \in DOMAIN tasks : Ahead(x, y)' <=> Ahead(x, y)
  BY <1>1, <1>4 DEF Ahead
<1> DEFINE m == n - 1
<1>9. ASSUME NEW i \in 1..m
      PROVE  /\ answer'[i][1] \in DOMAIN tasks' /\ Waiting(tasks'[answer'[i][1]])
             /\ CanAccept(robots'[answer'[i][2]])
  <2>1. 1 \in 1..n /\ i + 1 \in 1..n /\ 1 < i + 1 /\ answer'[i] = answer[i + 1]
    BY <1>5, <1>6
  <2>2. answer[i + 1][1] # t /\ answer[i + 1][2] # r
    BY <1>7, <2>1
  <2> QED
    BY <1>4, <1>7, <2>1, <2>2
<1>10. ASSUME NEW i \in 1..m, NEW j \in 1..m, i < j
       PROVE  /\ answer'[i][1] # answer'[j][1] /\ answer'[i][2] # answer'[j][2]
              /\ ~Ahead(answer'[j][1], answer'[i][1])
  <2>1. /\ i + 1 \in 1..n /\ j + 1 \in 1..n /\ i + 1 < j + 1
        /\ answer'[i] = answer[i + 1] /\ answer'[j] = answer[j + 1]
    BY <1>6, <1>10
  <2>2. /\ answer[i + 1][1] # answer[j + 1][1] /\ answer[i + 1][2] # answer[j + 1][2]
        /\ ~Ahead(answer[j + 1][1], answer[i + 1][1])
    BY <1>7, <2>1
  <2> QED
    BY <2>1, <2>2
<1>11. ASSUME NEW x \in DOMAIN tasks, Waiting(tasks'[x])
       PROVE  \/ x \in refused'
              \/ \E i \in 1..m : answer'[i][1] = x
              \/ \A i \in 1..m : ~Ahead(x, answer'[i][1])
  <2>1. CASE x = t
    BY <1>4, <1>11, <2>1
  <2>2. CASE x # t
    <3>1. Waiting(tasks[x])
      BY <1>4, <1>11, <2>2
    <3>2. CASE x \in refused
      BY <1>4, <3>2
    <3>3. CASE \E i \in 1..n : answer[i][1] = x
      <4>1. PICK i \in 1..n : answer[i][1] = x
        BY <3>3
      <4>2. i # 1 /\ i - 1 \in 1..m /\ (i - 1) + 1 = i
        BY <1>5, <2>2, <4>1
      <4>3. answer'[i - 1] = answer[i]
        BY <1>6, <4>2
      <4> QED
        BY <4>1, <4>2, <4>3
    <3>4. CASE \A i \in 1..n : ~Ahead(x, answer[i][1])
      <4>1. \A i \in 1..m : ~Ahead(x, answer'[i][1])
        BY <1>6, <3>4
      <4> QED
        BY <4>1
    <3> QED
      BY <1>7, <3>1, <3>2, <3>3, <3>4
  <2> QED
    BY <2>1, <2>2
<1> HIDE DEF n, m, t, r
<1>12. m = Len(answer') /\ m > 0
  BY <1>6 DEF m
<1>13. /\ \A i, j \in 1..m : i < j => ~Ahead(answer[j][1], answer[i][1])'
       /\ \A x \in DOMAIN tasks, i \in 1..m :
            ~Ahead(x, answer'[i][1]) => ~Ahead(x, answer[i][1])'
  BY <1>4, <1>8, <1>9, <1>10
<1> QED
  BY <1>4, <1>6, <1>9, <1>10, <1>11, <1>12, <1>13 DEF Owed, T

\* Who is served first was not behind anybody who stays.
LEMMA FollowFair ==
  ASSUME Connected, Inv, Promised, Follow, plan.scheduler # "auction",
         NEW t \in DOMAIN tasks, NEW u \in DOMAIN tasks,
         Waiting(tasks[t]), Waiting(tasks[u]), Waiting(tasks'[t]), ~Waiting(tasks'[u])
  PROVE  t \in refused' \/ ~Ahead(t, u)
<1>1. Owed
  BY DEF Promised, Follow
<1>2. /\ u = answer[1][1] /\ t # u /\ refused \subseteq refused'
  BY <1>1, FollowIs
<1>3. 1 \in 1..Len(answer)
  <2>1. Len(answer) > 0 /\ answer \in Seq(Nat \X Robots \X Nat)
    BY <1>1 DEF Owed
  <2> QED
    BY <2>1
<1>4. CASE t \in refused
  BY <1>2, <1>4
<1>5. CASE \E i \in 1..Len(answer) : answer[i][1] = t
  <2>1. PICK i \in 1..Len(answer) : answer[i][1] = t
    BY <1>5
  <2>2. i # 1 /\ 1 < i
    BY <1>2, <2>1
  <2> QED
    BY <1>1, <1>2, <1>3, <2>1, <2>2 DEF Owed
<1>6. CASE \A i \in 1..Len(answer) : ~Ahead(t, answer[i][1])
  BY <1>2, <1>3, <1>6
<1> QED
  BY <1>1, <1>4, <1>5, <1>6 DEF Owed

LEMMA NextPromised ==
  ASSUME Connected, Inv, Promised, [Next]_vars
  PROVE  Promised'
<1>1. CASE Ask
  BY <1>1, AskOwes
<1>2. CASE Follow
  BY <1>2, FollowOwes
<1>3. CASE \E r \in Robots : RepairTurn(r) \/ FailureTurn(r) \/ AdvanceTurn(r)
  <2>1. plan' = plan /\ phase' # "follow"
    BY <1>3 DEF RepairTurn, FailureTurn, AdvanceTurn, Turn
  <2> QED
    BY <2>1 DEF Promised
<1>4. CASE Generate \/ GenerateRaises \/ Record
  <2>1. plan' = plan /\ phase' # "follow"
    BY <1>4 DEF Generate, GenerateRaises, Record, Stop
  <2> QED
    BY <2>1 DEF Promised
<1>5. CASE Ended \/ UNCHANGED vars
  <2>1. UNCHANGED <<plan, phase, answer, tasks, robots, refused>>
    BY <1>5 DEF Ended, vars, world, loops
  <2>2. Owed' <=> Owed
    BY <2>1 DEF Owed, Ahead
  <2> QED
    BY <2>1, <2>2 DEF Promised
<1> QED
  BY <1>1, <1>2, <1>3, <1>4, <1>5 DEF Next

LEMMA InitPromised == ASSUME Init PROVE Promised
BY DispatchAssumption DEF Init, Promised

\* On a connected floor no sequential scheduler lets a task be overtaken: when a
\* robot begins a task, nobody who waits and is ahead of it by the scheduler's
\* order stays behind, but for one whose robot had not the energy for it
\* (scheduler.py, simulation.py).
THEOREM NobodyOvertaken == ASSUME Connected PROVE Spec => NoOvertaking
<1>1. Init => Promised
  BY InitPromised
<1>2. Inv /\ Promised /\ [Next]_vars => Promised'
  BY NextPromised
<1> DEFINE A == \A t, u \in DOMAIN tasks :
                  /\ Follow /\ Waiting(tasks[t]) /\ Waiting(tasks[u])
                  /\ plan.scheduler # "auction"
                  /\ Waiting(tasks'[t]) /\ ~Waiting(tasks'[u])
                  => t \in refused' \/ ~Ahead(t, u)
<1>3. Inv /\ Promised => A
  BY FollowFair
<1>4. NoOvertaking <=> [][A]_vars
  BY DEF NoOvertaking
<1> HIDE DEF A
<1> QED
  BY <1>1, <1>2, <1>3, <1>4, InvHolds, PTL DEF Spec
=============================================================================
