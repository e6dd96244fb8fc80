------------------------------ MODULE Routing ------------------------------
(***************************************************************************)
(* The path planners of simulation/pathfinding.py, as functions of the     *)
(* open cells of a warehouse, the two ends and the cells to avoid.         *)
(*                                                                         *)
(* A cell is a pair <<x, y>>.  A path excludes its start; the empty path   *)
(* says that start is the goal, NoPath is Python's None.                   *)
(***************************************************************************)
EXTENDS Integers, Sequences, FiniteSets, SequencesExt

Nowhere == <<-1, -1>>
NoPath  == <<Nowhere>>

AbsDiff(m, n) == IF m > n THEN m - n ELSE n - m
Manhattan(a, b) == AbsDiff(a[1], b[1]) + AbsDiff(a[2], b[2])

\* The neighbours of a cell in the order in which the searches try them.
Around(c) == << <<c[1] + 1, c[2]>>, <<c[1] - 1, c[2]>>,
                <<c[1], c[2] + 1>>, <<c[1], c[2] - 1>> >>

\* The ends of a path may lie in the cells to avoid.
Free(open, start, goal, blocked) == open \ (blocked \ {start, goal})

\* came_from, as a set of pairs, and what is in it.
CameFrom(open) == SUBSET (open \X (open \union {Nowhere}))
Entered(from) == {e[1] : e \in from}
Parent(from, c) == (CHOOSE e \in from : e[1] = c)[2]

\* _reconstruct_path: from a cell that is reached, back to the start.
Traces(from) == [cell : Entered(from), path : Seq(Entered(from))]

TraceBack(from, start) ==
  LET back[t \in Traces(from)] ==
        IF t.cell = start THEN t.path
        ELSE back[[cell |-> Parent(from, t.cell), path |-> <<t.cell>> \o t.path]]
  IN  back

Reconstruct(from, start, goal) ==
  IF goal \in Entered(from) THEN TraceBack(from, start)[[cell |-> goal, path |-> <<>>]]
  ELSE NoPath

\* What both planners do around their search, which returns came_from.
Plan(open, start, goal, Search(_)) ==
  IF start \notin open \/ goal \notin open THEN NoPath
  ELSE IF start = goal THEN <<>>
  ELSE Reconstruct(Search(<<start, Nowhere>>), start, goal)

-----------------------------------------------------------------------------
(* BFSPathPlanner: a queue of cells; a cell is entered once.               *)

Searches(open) == [queue : Seq(open), from : CameFrom(open)]

\* The neighbours, of four in their order, that have not been entered.
New(unseen, d) == IF d \in unseen THEN <<d>> ELSE <<>>
Found(unseen, a) ==
  New(unseen, a[1]) \o New(unseen, a[2]) \o New(unseen, a[3]) \o New(unseen, a[4])

\* The first cell of the queue leaves it, and those it leads to join.
Enter(s, c, found) ==
  [queue |-> Tail(s.queue) \o found,
   from  |-> s.from \union {<<d, c>> : d \in ToSet(found)}]

Visit(free, s) ==
  LET c == Head(s.queue)
  IN  Enter(s, c, Found(free \ Entered(s.from), Around(c)))

BFSSearch(open, free, goal) ==
  LET search[s \in Searches(open)] ==
        IF s.queue = <<>> \/ Head(s.queue) = goal THEN s.from
        ELSE search[Visit(free, s)]
  IN  search

BFSPath(open, start, goal, blocked) ==
  LET free == Free(open, start, goal, blocked)
  IN  Plan(open, start, goal, LAMBDA root :
        BFSSearch(open, free, goal)[[queue |-> <<start>>, from |-> {root}]])

-----------------------------------------------------------------------------
(* AStarPathPlanner: a heap of <<f, counter, g, cell>>.  A cell is pushed   *)
(* again when a shorter way to it is found, and its older entries are      *)
(* skipped.  The weight is num/den; f is scaled by den.                    *)

Guided(open) ==
  [heap : SUBSET (Nat \X Nat \X Nat \X open), counter : Nat,
   g : SUBSET (open \X Nat), from : CameFrom(open)]

\* A fault: the newest entry of the heap is taken first.
PopNewest(heap) == CHOOSE e \in heap : \A d \in heap : e[2] >= d[2]

\* heappop: the entry with the smallest f, the oldest of several.
Pop(heap) ==
  CHOOSE e \in heap : \A d \in heap : e[1] < d[1] \/ (e[1] = d[1] /\ e[2] <= d[2])

\* The cells to which n steps are fewer than g_score knows of.
Shorter(free, g, n) == {d \in free : \A x \in g : x[1] = d => n < x[2]}

\* Entry e is that of the best way to its cell that is known.
Latest(s, e) == <<e[4], e[3]>> \in s.g

Score(goal, num, den, n, c) == den * n + num * Manhattan(c, goal)

\* An entry leaves the heap, and the cells to which it shows a shorter way join.
Expand(free, goal, num, den, s) ==
  LET e == Pop(s.heap)
      n == e[3] + 1
      found == IF Latest(s, e) THEN Found(Shorter(free, s.g, n), Around(e[4])) ELSE <<>>
      others(S) == {x \in S : x[1] \notin ToSet(found)}
      entry(i) == <<Score(goal, num, den, n, found[i]), s.counter + i, n, found[i]>>
  IN  [heap    |-> (s.heap \ {e}) \union {entry(i) : i \in DOMAIN found},
       counter |-> s.counter + Len(found),
       g       |-> others(s.g) \union {<<d, n>> : d \in ToSet(found)},
       from    |-> others(s.from) \union {<<d, e[4]>> : d \in ToSet(found)}]

AtGoal(s, goal) == Latest(s, Pop(s.heap)) /\ Pop(s.heap)[4] = goal

AStarSearch(open, free, goal, num, den) ==
  LET search[s \in Guided(open)] ==
        IF s.heap = {} \/ AtGoal(s, goal) THEN s.from
        ELSE search[Expand(free, goal, num, den, s)]
  IN  search

AStarPath(open, start, goal, blocked, num, den) ==
  LET free == Free(open, start, goal, blocked)
  IN  Plan(open, start, goal, LAMBDA root :
        AStarSearch(open, free, goal, num, den)[
          [heap |-> {<<Score(goal, num, den, 0, start), 0, 0, start>>}, counter |-> 0,
           g |-> {<<start, 0>>}, from |-> {root}]])

-----------------------------------------------------------------------------
(* Reference definitions.                                                  *)

Adjacent(a, b) == Manhattan(a, b) = 1

\* The cells within n steps of a cell, through free cells.
WithinSteps(free, start, n) ==
  LET ball[k \in 0..n] ==
        IF k = 0 THEN {start}
        ELSE LET near == ball[k - 1]
             IN  near \union {d \in free : \E c \in near : Adjacent(c, d)}
  IN  ball[n]

\* A walk of a route: it starts next to start, ends at goal and stays in free.
IsRoute(path, free, start, goal) ==
  /\ path = <<>> <=> start = goal
  /\ path # <<>> => Last(path) = goal /\ Adjacent(start, path[1])
  /\ \A i \in DOMAIN path :
        path[i] \in free /\ (i > 1 => Adjacent(path[i - 1], path[i]))

\* path is what a planner owes: a route of at most num/den times the fewest
\* steps, and no path only if there is none.
IsPlan(path, free, start, goal, num, den) ==
  LET limit == Cardinality(free)
      near(n) == goal \in WithinSteps(free, start, n)
  IN  IF path = NoPath THEN ~near(limit)
      ELSE /\ IsRoute(path, free, start, goal)
           /\ \A n \in 0..limit : near(n) => den * Len(path) <= num * n
============================================================================
