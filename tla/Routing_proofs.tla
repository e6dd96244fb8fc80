--------------------------- MODULE Routing_proofs ---------------------------
(***************************************************************************)
(* Both planners are correct: on every finite floor, whatever cells are to *)
(* be avoided, breadth-first search returns a shortest route and A* one    *)
(* that is longer by at most its weight, and None only if there is none.   *)
(*                                                                         *)
(* Their loops, the searches and the way back, are recursive functions     *)
(* that call themselves last.  Such a function exists whether or not the   *)
(* loop ends; what it returns follows from an invariant and a measure.     *)
(***************************************************************************)
EXTENDS Routing, FiniteSetTheorems, TLAPS

-----------------------------------------------------------------------------
(* Loops.                                                                  *)

\* F is what the loop returns: from a state where it stops, Result; from any
\* other what it returns from the next state.
IsLoop(F, D, Stop, Step, Result) ==
  F = [x \in D |-> IF x \in Stop THEN Result[x] ELSE F[Step[x]]]

\* The states that every set has which has x and is closed under steps.
Orbit(D, Stop, Step, x) ==
  {y \in D : \A C \in SUBSET D :
     x \in C /\ (\A z \in C \ Stop : Step[z] \in C) => y \in C}

LEMMA LoopExists ==
  ASSUME NEW D, NEW Stop, NEW Step, NEW Result,
         \A x \in D \ Stop : Step[x] \in D
  PROVE  \E F : IsLoop(F, D, Stop, Step, Result)
<1> DEFINE O(x) == Orbit(D, Stop, Step, x) \cap Stop
           F == [x \in D |-> Result[CHOOSE y : y \in O(x)]]
<1>1. ASSUME NEW x \in D, x \in Stop PROVE O(x) = {x}
  <2>1. {x} \in SUBSET D /\ x \in {x} /\ \A z \in {x} \ Stop : Step[z] \in {x}
    BY <1>1
  <2>2. \A y \in O(x) : y = x
    BY <2>1 DEF Orbit
  <2>3. x \in O(x)
    BY <1>1 DEF Orbit
  <2> QED
    BY <2>2, <2>3
<1>2. ASSUME NEW x \in D, x \notin Stop PROVE O(x) = O(Step[x])
  <2>1. Step[x] \in D
    BY <1>2
  <2>2. ASSUME NEW y \in O(Step[x]) PROVE y \in O(x)
    BY <1>2, <2>2 DEF Orbit
  <2>3. ASSUME NEW y \in O(x) PROVE y \in O(Step[x])
    <3>1. SUFFICES ASSUME NEW C \in SUBSET D, Step[x] \in C,
                          \A z \in C \ Stop : Step[z] \in C
                   PROVE  y \in C
      BY <2>3 DEF Orbit
    <3>2. /\ C \union {x} \in SUBSET D /\ x \in C \union {x}
          /\ \A z \in (C \union {x}) \ Stop : Step[z] \in C \union {x}
      BY <3>1
    <3>3. y \in C \union {x} /\ y \in Stop
      BY <2>3, <3>2 DEF Orbit
    <3> QED
      BY <1>2, <3>3
  <2> QED
    BY <2>2, <2>3
<1> HIDE DEF O
<1>3. ASSUME NEW x \in D
      PROVE  F[x] = IF x \in Stop THEN Result[x] ELSE F[Step[x]]
  <2>1. CASE x \in Stop
    BY <1>1, <2>1
  <2>2. CASE x \notin Stop
    <3>1. Step[x] \in D /\ O(x) = O(Step[x])
      BY <1>2, <2>2
    <3> QED
      BY <2>2, <3>1
  <2> QED
    BY <2>1, <2>2
<1>4. IsLoop(F, D, Stop, Step, Result)
  BY <1>3 DEF IsLoop
<1> QED
  BY <1>4

\* Some element of a set has the least measure.
LEMMA LeastMeasure ==
  ASSUME NEW S, S # {}, NEW M, \A x \in S : M[x] \in Nat
  PROVE  \E x \in S : \A y \in S : M[x] <= M[y]
<1> DEFINE less == OpToRel(<, Nat)
           N == {M[x] : x \in S}
<1>1. N \subseteq Nat /\ N # {}
  OBVIOUS
<1>2. IsWellFoundedOn(less, Nat)
  BY NatLessThanWellFounded
<1> HIDE DEF N, less
<1>3. PICK m \in N : \A n \in N : ~(<<n, m>> \in less)
  BY <1>1, <1>2, WFMin
<1>4. \A n \in N : ~(n < m)
  BY <1>1, <1>3 DEF OpToRel, less
<1>5. PICK x \in S : M[x] = m
  BY <1>3 DEF N
<1>6. ASSUME NEW y \in S PROVE M[x] <= M[y]
  <2>1. M[y] \in N /\ M[y] \in Nat /\ m \in Nat
    BY <1>1, <1>3 DEF N
  <2> QED
    BY <1>4, <1>5, <2>1
<1> QED
  BY <1>6

\* Every step of the loop keeps the invariant Inv and lessens the measure M.
Descends(Inv, M, D, Stop, Step) ==
  /\ Inv \subseteq D /\ \A x \in Inv : M[x] \in Nat
  /\ \A x \in Inv \ Stop : Step[x] \in Inv /\ M[Step[x]] < M[x]

\* Such a loop returns what is good.
LEMMA LoopEnds ==
  ASSUME NEW D, NEW Stop, NEW Step, NEW Result, NEW F, IsLoop(F, D, Stop, Step, Result),
         NEW Inv, NEW M, Descends(Inv, M, D, Stop, Step),
         NEW Good, \A x \in Inv \cap Stop : Result[x] \in Good
  PROVE  \A x \in Inv : F[x] \in Good
<1> USE DEF Descends
<1> DEFINE Bad == {x \in Inv : F[x] \notin Good}
<1>1. SUFFICES ASSUME Bad # {} PROVE FALSE
  OBVIOUS
<1>2. PICK x \in Bad : \A y \in Bad : M[x] <= M[y]
  <2>1. \A y \in Bad : M[y] \in Nat
    OBVIOUS
  <2> HIDE DEF Bad
  <2> QED
    BY <1>1, <2>1, LeastMeasure
<1>3. x \in D /\ F[x] = IF x \in Stop THEN Result[x] ELSE F[Step[x]]
  BY <1>2 DEF IsLoop
<1>4. x \notin Stop
  BY <1>2, <1>3
<1>5. Step[x] \in Inv /\ M[Step[x]] < M[x] /\ M[x] \in Nat /\ M[Step[x]] \in Nat
  BY <1>2, <1>4
<1>6. Step[x] \notin Bad
  BY <1>2, <1>5
<1> QED
  BY <1>2, <1>3, <1>4, <1>5, <1>6

-----------------------------------------------------------------------------
(* Orders.                                                                 *)

\* below gives the elements of a finite set that come before one of them in a
\* strict total order: then every place in the order is taken.
LEMMA PlacesTaken ==
  ASSUME NEW S, IsFiniteSet(S), NEW below \in [S -> SUBSET S],
         \A q \in S : q \notin below[q],
         \A r, q \in S : r # q => r \in below[q] \/ q \in below[r],
         \A r, q \in S : r \in below[q] => below[r] \subseteq below[q]
  PROVE  \A i \in 1..Cardinality(S) : \E r \in S : Cardinality(below[r]) = i - 1
<1> DEFINE n == Cardinality(S)
           place == [r \in S |-> Cardinality(below[r]) + 1]
<1>1. n \in Nat /\ \A r \in S : IsFiniteSet(below[r]) /\ Cardinality(below[r]) \in Nat
  BY FS_CardinalityType, FS_Subset
<1>2. ASSUME NEW r \in S PROVE Cardinality(below[r]) < n
  <2>1. Cardinality(below[r]) <= n /\ below[r] # S /\ (n = Cardinality(below[r]) => S = below[r])
    BY FS_Subset
  <2> QED
    BY <1>1, <2>1
<1>3. ASSUME NEW r \in S, NEW q \in S, r \in below[q]
      PROVE  Cardinality(below[r]) < Cardinality(below[q])
  <2>1. below[r] \in SUBSET below[q] /\ below[r] # below[q]
    BY <1>3
  <2>2. /\ Cardinality(below[r]) <= Cardinality(below[q])
        /\ Cardinality(below[q]) = Cardinality(below[r]) => below[q] = below[r]
    BY <1>1, <2>1, FS_Subset
  <2> QED
    BY <1>1, <2>1, <2>2
<1>4. place \in [S -> 1..n]
  BY <1>1, <1>2
<1>5. ASSUME NEW r \in S, NEW q \in S, r # q PROVE place[r] # place[q]
  BY <1>1, <1>3, <1>5
<1>6. place \in Injection(S, 1..n)
  BY <1>4, <1>5 DEF Injection, IsInjective
<1>7. IsFiniteSet(1..n) /\ Cardinality(1..n) = n
  BY <1>1, FS_Interval
<1>8. place \in Surjection(S, 1..n)
  BY <1>6, <1>7, FS_Injection
<1>9. ASSUME NEW i \in 1..n PROVE \E r \in S : place[r] = i
  BY <1>8 DEF Surjection
<1> QED
  BY <1>1, <1>9

-----------------------------------------------------------------------------
(* Cells within a number of steps.                                         *)

\* Pairs of a number and a cell within so many steps: the least set of pairs
\* that has the start after no step, and with a cell also, one step later, that
\* cell and its free neighbours.
Grown(free, B) ==
  B \union {d \in free : \E c \in B : Adjacent(c, d)}

Spreads(free, start, R) ==
  /\ <<0, start>> \in R
  /\ \A e \in R : /\ <<e[1] + 1, e[2]>> \in R
                  /\ \A d \in free : Adjacent(e[2], d) => <<e[1] + 1, d>> \in R

Spread(free, start) ==
  {e \in Nat \X (free \union {start}) :
     \A R \in SUBSET (Nat \X (free \union {start})) : Spreads(free, start, R) => e \in R}

Ball(free, start, n) == {c \in free \union {start} : <<n, c>> \in Spread(free, start)}

LEMMA BallGrows ==
  ASSUME NEW free, NEW start
  PROVE  /\ Ball(free, start, 0) = {start}
         /\ \A n \in Nat : Ball(free, start, n + 1) = Grown(free, Ball(free, start, n))
<1> DEFINE cells == free \union {start}
           S == Spread(free, start)
           B(n) == Ball(free, start, n)
           R == {e \in S : IF e[1] = 0 THEN e[2] = start
                           ELSE e[2] \in Grown(free, B(e[1] - 1))}
<1>1. Spreads(free, start, S)
  <2>1. <<0, start>> \in S
    BY DEF Spread, Spreads
  <2>2. ASSUME NEW e \in S
        PROVE  <<e[1] + 1, e[2]>> \in S
    BY DEF Spread, Spreads
  <2>3. ASSUME NEW e \in S, NEW d \in free, Adjacent(e[2], d)
        PROVE  <<e[1] + 1, d>> \in S
    <3>1. <<e[1] + 1, d>> \in Nat \X cells
      BY DEF Spread
    <3>2. \A Q \in SUBSET (Nat \X cells) : Spreads(free, start, Q) => <<e[1] + 1, d>> \in Q
      BY <2>3 DEF Spread, Spreads
    <3> QED
      BY <3>1, <3>2 DEF Spread
  <2> HIDE DEF S
  <2> QED
    BY <2>1, <2>2, <2>3 DEF Spreads
<1>2. S \subseteq Nat \X cells
  BY DEF Spread
<1>3. R \in SUBSET (Nat \X cells)
  BY <1>2
<1>4. \A n \in Nat, c \in cells : c \in B(n) <=> <<n, c>> \in S
  BY DEF Ball
<1>5. \A n : B(n) \subseteq cells
  BY DEF Ball
<1>6. Spreads(free, start, R)
  <2> HIDE DEF S, B
  <2>1. <<0, start>> \in R
    BY <1>1 DEF Spreads
  <2>2. ASSUME NEW e \in R
        PROVE  <<e[1] + 1, e[2]>> \in R
    <3>1. e \in S /\ e[1] \in Nat /\ e[2] \in cells /\ e = <<e[1], e[2]>>
      BY <1>2
    <3>2. <<e[1] + 1, e[2]>> \in S
      BY <1>1, <3>1 DEF Spreads
    <3>3. e[2] \in B(e[1])
      BY <1>4, <3>1
    <3>4. e[2] \in Grown(free, B(e[1])) /\ (e[1] + 1) - 1 = e[1] /\ e[1] + 1 # 0
      BY <3>1, <3>3 DEF Grown
    <3> QED
      BY <3>2, <3>4
  <2>3. ASSUME NEW e \in R, NEW d \in free, Adjacent(e[2], d)
        PROVE  <<e[1] + 1, d>> \in R
    <3>1. e \in S /\ e[1] \in Nat /\ e[2] \in cells /\ e = <<e[1], e[2]>>
      BY <1>2
    <3>2. <<e[1] + 1, d>> \in S
      BY <1>1, <2>3, <3>1 DEF Spreads
    <3>3. e[2] \in B(e[1])
      BY <1>4, <3>1
    <3>4. d \in Grown(free, B(e[1])) /\ (e[1] + 1) - 1 = e[1] /\ e[1] + 1 # 0
      BY <2>3, <3>1, <3>3 DEF Grown
    <3> QED
      BY <3>2, <3>4
  <2> HIDE DEF R
  <2> QED
    BY <2>1, <2>2, <2>3 DEF Spreads
<1>7. S \subseteq R
  BY <1>3, <1>6 DEF Spread
<1>8. B(0) = {start}
  <2> HIDE DEF B
  <2>1. \A c \in B(0) : c = start
    <3> SUFFICES ASSUME NEW c \in B(0) PROVE c = start
      OBVIOUS
    <3>1. <<0, c>> \in S
      BY <1>4, <1>5
    <3>2. <<0, c>> \in R
      BY <1>7, <3>1
    <3> QED
      BY <3>2
  <2>2. start \in B(0)
    BY <1>1, <1>4 DEF Spreads
  <2> QED
    BY <2>1, <2>2
<1>9. ASSUME NEW n \in Nat PROVE B(n + 1) = Grown(free, B(n))
  <2> HIDE DEF B, S
  <2>1. ASSUME NEW c \in B(n + 1) PROVE c \in Grown(free, B(n))
    <3>1. <<n + 1, c>> \in S
      BY <1>4, <1>5
    <3>2. <<n + 1, c>> \in R
      BY <1>7, <3>1
    <3>3. n + 1 # 0 /\ (n + 1) - 1 = n
      OBVIOUS
    <3> QED
      BY <3>2, <3>3
  <2>2. ASSUME NEW c \in Grown(free, B(n)) PROVE c \in B(n + 1)
    <3>1. CASE c \in B(n)
      <4>1. <<n, c>> \in S
        BY <1>4, <1>5, <3>1
      <4>2. <<n + 1, c>> \in S
        BY <1>1, <4>1 DEF Spreads
      <4> QED
        BY <1>4, <1>5, <3>1, <4>2
    <3>2. ASSUME c \in free, NEW b \in B(n), Adjacent(b, c) PROVE c \in B(n + 1)
      <4>1. <<n, b>> \in S
        BY <1>4, <1>5, <3>2
      <4>2. <<n + 1, c>> \in S
        BY <1>1, <3>2, <4>1 DEF Spreads
      <4> QED
        BY <1>4, <3>2, <4>2
    <3> QED
      BY <2>2, <3>1, <3>2 DEF Grown
  <2> QED
    BY <2>1, <2>2
<1> QED
  BY <1>8, <1>9

LEMMA BallBefore ==
  ASSUME NEW free, NEW start, NEW k \in Nat, k # 0
  PROVE  Ball(free, start, k) = Grown(free, Ball(free, start, k - 1))
<1>1. PICK m \in Nat : m = k - 1 /\ k = m + 1
  OBVIOUS
<1>2. Ball(free, start, m + 1) = Grown(free, Ball(free, start, m))
  BY BallGrows
<1> QED
  BY <1>1, <1>2, Zenon

LEMMA BallInCells ==
  ASSUME NEW free, NEW start, NEW n
  PROVE  Ball(free, start, n) \subseteq free \union {start}
BY DEF Ball

\* WithinSteps counts up; the ball is what it computes.
LEMMA WithinStepsIsBall ==
  ASSUME NEW free, NEW start, NEW n \in Nat
  PROVE  WithinSteps(free, start, n) = Ball(free, start, n)
<1> DEFINE ball == CHOOSE b : b = [k \in 0..n |->
                      IF k = 0 THEN {start}
                      ELSE b[k - 1] \union {d \in free : \E c \in b[k - 1] : Adjacent(c, d)}]
           g == [k \in 0..n |-> Ball(free, start, k)]
           Bad == {k \in 0..n : ball[k] # Ball(free, start, k)}
<1>1. WithinSteps(free, start, n) = ball[n]
  BY DEF WithinSteps
<1>2. \A k \in 0..n : k # 0 => k - 1 \in 0..n /\ k - 1 \in Nat /\ (k - 1) + 1 = k
  OBVIOUS
<1>3. \A k \in 0..n : g[k] = IF k = 0 THEN {start}
                            ELSE g[k - 1] \union {d \in free : \E c \in g[k - 1] : Adjacent(c, d)}
  <2> TAKE k \in 0..n
  <2>1. CASE k = 0
    BY <2>1, BallGrows
  <2>2. CASE k # 0
    <3>1. Ball(free, start, k) = Grown(free, Ball(free, start, k - 1))
      BY <2>2, BallBefore
    <3>2. g[k] = Ball(free, start, k) /\ g[k - 1] = Ball(free, start, k - 1)
      BY <1>2, <2>2
    <3> QED
      BY <2>2, <3>1, <3>2 DEF Grown
  <2> QED
    BY <2>1, <2>2
<1>4. g = [k \in 0..n |-> IF k = 0 THEN {start}
                          ELSE g[k - 1] \union {d \in free : \E c \in g[k - 1] : Adjacent(c, d)}]
  <2>1. g = [k \in 0..n |-> g[k]]
    OBVIOUS
  <2> HIDE DEF g
  <2> QED
    BY <1>3, <2>1
<1> HIDE DEF g
<1>5. ball = [k \in 0..n |-> IF k = 0 THEN {start}
                             ELSE ball[k - 1] \union {d \in free : \E c \in ball[k - 1] : Adjacent(c, d)}]
  BY <1>4
<1> HIDE DEF ball
<1>6. SUFFICES ASSUME Bad # {} PROVE FALSE
  BY <1>1
<1>7. PICK k \in Bad : \A m \in Bad : k <= m
  <2> DEFINE M == [m \in Bad |-> m]
  <2>1. \A m \in Bad : M[m] \in Nat
    OBVIOUS
  <2> HIDE DEF Bad
  <2>2. \E x \in Bad : \A y \in Bad : M[x] <= M[y]
    BY <1>6, <2>1, LeastMeasure
  <2> QED
    BY <2>2
<1>8. k # 0
  BY <1>5, <1>7, BallGrows
<1>9. k - 1 \notin Bad /\ k - 1 \in 0..n
  BY <1>2, <1>7, <1>8
<1>10. ball[k - 1] = Ball(free, start, k - 1)
  BY <1>9
<1>11. ball[k] = Grown(free, Ball(free, start, k - 1))
  BY <1>5, <1>7, <1>8, <1>10 DEF Grown
<1>12. Ball(free, start, k) = Grown(free, Ball(free, start, k - 1))
  BY <1>7, <1>8, BallBefore
<1> QED
  BY <1>7, <1>11, <1>12

-----------------------------------------------------------------------------
(* The way back.                                                           *)

\* What a planner is asked.
Setting(open, free, start, goal) ==
  /\ IsFiniteSet(open) /\ open \subseteq Nat \X Nat
  /\ free \subseteq open /\ start \in free /\ goal \in free

\* came_from is a tree of free cells with the start as its root, in which each
\* cell has one entry and lies next to the cell it was entered from, and the way
\* back from a cell to the root is at most depth steps long.
Tree(free, start, from, depth) ==
  /\ \A e, f \in from : e[1] = f[1] => e = f
  /\ depth \in [Entered(from) -> Nat]
  /\ start \in Entered(from) /\ depth[start] = 0
  /\ \A e \in from : e[1] # start =>
       /\ e[1] \in free /\ e[2] \in Entered(from)
       /\ Adjacent(e[2], e[1]) /\ depth[e[1]] >= depth[e[2]] + 1

\* p leads from c to the goal, through free cells.
Leads(free, c, p, goal) ==
  /\ p \in Seq(free)
  /\ p = <<>> => c = goal
  /\ p # <<>> => Adjacent(c, p[1]) /\ p[Len(p)] = goal
  /\ \A i \in 1..Len(p) : i > 1 => Adjacent(p[i - 1], p[i])

LEMMA ParentOfEntered ==
  ASSUME NEW free, NEW start, NEW from, NEW depth, Tree(free, start, from, depth),
         NEW c \in Entered(from), c # start
  PROVE  /\ c \in free /\ Parent(from, c) \in Entered(from)
         /\ Adjacent(Parent(from, c), c)
         /\ depth[c] >= depth[Parent(from, c)] + 1
<1>1. PICK e \in from : e[1] = c
  BY DEF Entered
<1>2. (CHOOSE f \in from : f[1] = c) = e
  BY <1>1 DEF Tree
<1>3. Parent(from, c) = e[2]
  BY <1>2 DEF Parent
<1> QED
  BY <1>1, <1>3 DEF Tree

\* One cell more in front of a way to the goal.
LEMMA LeadsFurther ==
  ASSUME NEW free, NEW c \in free, NEW b, NEW p, NEW goal,
         Leads(free, c, p, goal), Adjacent(b, c)
  PROVE  /\ Leads(free, b, <<c>> \o p, goal)
         /\ Len(<<c>> \o p) = Len(p) + 1
<1> DEFINE q == <<c>> \o p
<1>1. p \in Seq(free) /\ Len(p) \in Nat
  BY DEF Leads
<1>2. q \in Seq(free) /\ Len(q) = Len(p) + 1 /\ q[1] = c /\ q # <<>>
  BY <1>1
<1>3. \A i \in 1..Len(q) : i > 1 => q[i] = p[i - 1]
  BY <1>1, <1>2
<1> HIDE DEF q
<1>4. q[Len(q)] = goal
  <2>1. CASE p = <<>>
    BY <1>1, <1>2, <2>1 DEF Leads
  <2>2. CASE p # <<>>
    <3>1. Len(p) > 0 /\ Len(q) \in 1..Len(q) /\ Len(q) > 1 /\ Len(q) - 1 = Len(p)
      BY <1>1, <1>2, <2>2
    <3>2. q[Len(q)] = p[Len(p)]
      BY <1>3, <3>1
    <3> QED
      BY <2>2, <3>2 DEF Leads
  <2> QED
    BY <2>1, <2>2
<1>5. ASSUME NEW i \in 1..Len(q), i > 1 PROVE Adjacent(q[i - 1], q[i])
  <2>1. q[i] = p[i - 1] /\ i - 1 \in 1..Len(p)
    BY <1>1, <1>2, <1>3, <1>5
  <2>2. CASE i = 2
    BY <1>2, <2>1, <2>2 DEF Leads
  <2>3. CASE i > 2
    <3>1. q[i - 1] = p[(i - 1) - 1] /\ i - 1 > 1
      BY <1>1, <1>2, <1>3, <1>5, <2>3
    <3> QED
      BY <2>1, <3>1 DEF Leads
  <2> QED
    BY <1>2, <1>5, <2>2, <2>3
<1>6. Leads(free, b, q, goal) /\ Len(q) = Len(p) + 1
  BY <1>2, <1>4, <1>5 DEF Leads
<1> QED
  BY <1>6 DEF q

\* Back along came_from: the way to the goal that is at most as long as it is deep.
LEMMA TraceLeads ==
  ASSUME NEW free, NEW start, NEW from, NEW depth, Tree(free, start, from, depth),
         NEW goal \in Entered(from)
  PROVE  LET p == TraceBack(from, start)[[cell |-> goal, path |-> <<>>]]
         IN  Leads(free, start, p, goal) /\ Len(p) <= depth[goal]
<1> DEFINE D == Traces(from)
           next(t) == [cell |-> Parent(from, t.cell), path |-> <<t.cell>> \o t.path]
           Step == [t \in D |-> next(t)]
           Stop == {t \in D : t.cell = start}
           Result == [t \in D |-> t.path]
           F == TraceBack(from, start)
           Inv == {t \in D : /\ Leads(free, t.cell, t.path, goal)
                             /\ depth[t.cell] + Len(t.path) <= depth[goal]}
           M == [t \in D |-> depth[t.cell]]
           Good == {p \in Seq(free) : Leads(free, start, p, goal) /\ Len(p) <= depth[goal]}
<1>1. \A t \in D : t.cell \in Entered(from) /\ t.path \in Seq(Entered(from))
                   /\ t = [cell |-> t.cell, path |-> t.path]
  BY DEF Traces
<1>2. ASSUME NEW t \in D \ Stop
      PROVE  /\ next(t) \in D
             /\ t.cell \in free /\ Adjacent(Parent(from, t.cell), t.cell)
             /\ depth[t.cell] >= depth[Parent(from, t.cell)] + 1
             /\ Parent(from, t.cell) \in Entered(from)
  <2>1. /\ t.cell \in free /\ Adjacent(Parent(from, t.cell), t.cell)
        /\ depth[t.cell] >= depth[Parent(from, t.cell)] + 1
        /\ Parent(from, t.cell) \in Entered(from)
    BY <1>1, ParentOfEntered
  <2>2. <<t.cell>> \o t.path \in Seq(Entered(from))
    BY <1>1
  <2> QED
    BY <2>1, <2>2 DEF Traces
<1>3. \A t \in D \ Stop : Step[t] \in D
  BY <1>2
<1>4. IsLoop(F, D, Stop, Step, Result)
  <2>1. \A f : f = [t \in D |-> IF t.cell = start THEN t.path ELSE f[next(t)]]
               <=> IsLoop(f, D, Stop, Step, Result)
    <3> TAKE f
    <3>1. ASSUME NEW t \in D
          PROVE  (IF t.cell = start THEN t.path ELSE f[next(t)])
                 = (IF t \in Stop THEN Result[t] ELSE f[Step[t]])
      OBVIOUS
    <3> HIDE DEF Stop, Result, Step, next, D
    <3> QED
      BY <3>1 DEF IsLoop
  <2>2. \E f : IsLoop(f, D, Stop, Step, Result)
    <3> HIDE DEF D, Stop, Step, Result
    <3> QED
      BY <1>3, LoopExists
  <2>3. F = CHOOSE f : f = [t \in D |-> IF t.cell = start THEN t.path ELSE f[next(t)]]
    BY DEF TraceBack
  <2> HIDE DEF D, Stop, Step, Result, F, next
  <2>4. F = [t \in D |-> IF t.cell = start THEN t.path ELSE F[next(t)]]
    BY <2>1, <2>2, <2>3
  <2> QED
    BY <2>1, <2>4
<1>5. Inv \in SUBSET D /\ \A t \in Inv : M[t] \in Nat
  BY <1>1 DEF Tree
<1>6. ASSUME NEW t \in Inv \ Stop PROVE Step[t] \in Inv /\ M[Step[t]] < M[t]
  <2>1. /\ next(t) \in D /\ Step[t] = next(t) /\ t \in D
        /\ t.cell \in free /\ Adjacent(Parent(from, t.cell), t.cell)
        /\ depth[t.cell] >= depth[Parent(from, t.cell)] + 1
        /\ Parent(from, t.cell) \in Entered(from) /\ t.cell \in Entered(from)
    BY <1>1, <1>2
  <2>2. /\ depth[t.cell] \in Nat /\ depth[Parent(from, t.cell)] \in Nat
        /\ depth[goal] \in Nat /\ Len(t.path) \in Nat
    BY <1>1, <2>1 DEF Tree
  <2>3. /\ Leads(free, next(t).cell, next(t).path, goal)
        /\ Len(next(t).path) = Len(t.path) + 1
    BY <2>1, LeadsFurther
  <2>4. next(t).cell = Parent(from, t.cell) /\ depth[t.cell] + Len(t.path) <= depth[goal]
    OBVIOUS
  <2>5. depth[Parent(from, t.cell)] + Len(next(t).path) <= depth[goal]
    <3> HIDE DEF next
    <3> QED
      BY <2>1, <2>2, <2>3, <2>4
  <2>6. M[next(t)] = depth[Parent(from, t.cell)] /\ M[t] = depth[t.cell]
    BY <2>1, <2>4
  <2>7. next(t) \in Inv
    <3> HIDE DEF next, D
    <3> QED
      BY <2>1, <2>3, <2>4, <2>5
  <2> HIDE DEF next, D, Inv, M, Step
  <2> QED
    BY <2>1, <2>2, <2>6, <2>7
<1>7. ASSUME NEW t \in Inv \cap Stop PROVE Result[t] \in Good
  <2>1. t.cell = start /\ Leads(free, start, t.path, goal) /\ t.path \in Seq(free)
    BY DEF Leads
  <2>2. depth[start] = 0 /\ Len(t.path) \in Nat
    BY <1>1 DEF Tree
  <2> QED
    BY <2>1, <2>2
<1>8. [cell |-> goal, path |-> <<>>] \in Inv
  <2>1. Leads(free, goal, <<>>, goal) /\ depth[goal] \in Nat
    BY DEF Leads, Tree
  <2> QED
    BY <2>1 DEF Traces
<1>9. \A t \in Inv : F[t] \in Good
  <2> HIDE DEF D, Stop, Step, Result, F, Inv, M, Good, next
  <2>1. Descends(Inv, M, D, Stop, Step)
    BY <1>5, <1>6 DEF Descends
  <2> QED
    BY <1>4, <1>7, <2>1, LoopEnds
<1>10. F[[cell |-> goal, path |-> <<>>]] \in Good
  <2> HIDE DEF F, Inv, Good
  <2> QED
    BY <1>8, <1>9
<1> QED
  BY <1>10

-----------------------------------------------------------------------------
(* The search.                                                             *)

LEMMA AdjacentIsAround ==
  ASSUME NEW c \in Nat \X Nat, NEW d \in Nat \X Nat
  PROVE  Adjacent(c, d) <=> \E i \in 1..4 : d = Around(c)[i]
<1>1. PICK x \in Nat, y \in Nat : c = <<x, y>>
  OBVIOUS
<1>2. PICK u \in Nat, v \in Nat : d = <<u, v>>
  OBVIOUS
<1>3. Adjacent(c, d) <=> \/ u = x + 1 /\ v = y
                         \/ u = x - 1 /\ v = y
                         \/ u = x /\ v = y + 1
                         \/ u = x /\ v = y - 1
  BY <1>1, <1>2 DEF Adjacent, Manhattan, AbsDiff
<1>4. /\ Around(c)[1] = <<x + 1, y>> /\ Around(c)[2] = <<x - 1, y>>
      /\ Around(c)[3] = <<x, y + 1>> /\ Around(c)[4] = <<x, y - 1>>
  BY <1>1 DEF Around
<1>5. (\E i \in 1..4 : d = Around(c)[i])
      <=> d = Around(c)[1] \/ d = Around(c)[2] \/ d = Around(c)[3] \/ d = Around(c)[4]
  <2>1. \A i \in 1..4 : i = 1 \/ i = 2 \/ i = 3 \/ i = 4
    OBVIOUS
  <2>2. 1 \in 1..4 /\ 2 \in 1..4 /\ 3 \in 1..4 /\ 4 \in 1..4
    OBVIOUS
  <2> QED
    BY <2>1, <2>2, Zenon
<1>6. /\ d = Around(c)[1] <=> u = x + 1 /\ v = y
      /\ d = Around(c)[2] <=> u = x - 1 /\ v = y
      /\ d = Around(c)[3] <=> u = x /\ v = y + 1
      /\ d = Around(c)[4] <=> u = x /\ v = y - 1
  BY <1>2, <1>4
<1> QED
  BY <1>3, <1>5, <1>6

LEMMA Joined ==
  ASSUME NEW S, NEW p \in Seq(S), NEW q \in Seq(S)
  PROVE  /\ p \o q \in Seq(S) /\ Len(p \o q) = Len(p) + Len(q)
         /\ ToSet(p \o q) = ToSet(p) \union ToSet(q)
<1>1. p \o q \in Seq(S) /\ Len(p \o q) = Len(p) + Len(q) /\ Len(p) \in Nat /\ Len(q) \in Nat
  OBVIOUS
<1>2. \A i \in 1..Len(p) : i \in 1..Len(p \o q) /\ (p \o q)[i] = p[i]
  BY <1>1
<1>3. \A i \in 1..Len(q) : Len(p) + i \in 1..Len(p \o q) /\ (p \o q)[Len(p) + i] = q[i]
  BY <1>1
<1>4. \A i \in 1..Len(p \o q) :
        \/ i \in 1..Len(p) /\ (p \o q)[i] = p[i]
        \/ i - Len(p) \in 1..Len(q) /\ (p \o q)[i] = q[i - Len(p)]
  BY <1>1
<1>5. DOMAIN p = 1..Len(p) /\ DOMAIN q = 1..Len(q) /\ DOMAIN (p \o q) = 1..Len(p \o q)
  BY <1>1
<1>6. ToSet(p \o q) \subseteq ToSet(p) \union ToSet(q)
  BY <1>4, <1>5 DEF ToSet
<1>7. ToSet(p) \subseteq ToSet(p \o q) /\ ToSet(q) \subseteq ToSet(p \o q)
  BY <1>2, <1>3, <1>5 DEF ToSet
<1> QED
  BY <1>1, <1>6, <1>7

\* Found lists the neighbours of a cell that lie in F.
LEMMA FoundAround ==
  ASSUME NEW F \in SUBSET (Nat \X Nat), NEW c \in Nat \X Nat
  PROVE  LET found == Found(F, Around(c))
         IN  /\ found \in Seq(F) /\ Len(found) <= 4
             /\ \A d : d \in ToSet(found) <=> d \in F /\ Adjacent(c, d)
<1> DEFINE found == Found(F, Around(c))
           new(d) == IF d \in F THEN <<d>> ELSE <<>>
           a == Around(c)
<1>1. \A d : /\ new(d) \in Seq(F) /\ Len(new(d)) \in 0..1
             /\ ToSet(new(d)) = F \cap {d}
  <2> TAKE d
  <2>1. CASE d \in F
    <3>1. new(d) = <<d>> /\ DOMAIN <<d>> = {1} /\ <<d>>[1] = d
      BY <2>1
    <3> QED
      BY <2>1, <3>1 DEF ToSet
  <2>2. CASE d \notin F
    <3>1. new(d) = <<>> /\ DOMAIN <<>> = {}
      BY <2>2
    <3> QED
      BY <2>2, <3>1 DEF ToSet
  <2> QED
    BY <2>1, <2>2
<1>2. found = new(a[1]) \o new(a[2]) \o new(a[3]) \o new(a[4])
  BY DEF Found, New
<1> HIDE DEF new, a, found
<1>3. /\ new(a[1]) \o new(a[2]) \in Seq(F)
      /\ Len(new(a[1]) \o new(a[2])) \in 0..2
      /\ ToSet(new(a[1]) \o new(a[2])) = F \cap {a[1], a[2]}
  <2>1. /\ new(a[1]) \o new(a[2]) \in Seq(F)
        /\ Len(new(a[1]) \o new(a[2])) = Len(new(a[1])) + Len(new(a[2]))
        /\ ToSet(new(a[1]) \o new(a[2])) = ToSet(new(a[1])) \union ToSet(new(a[2]))
    BY <1>1, Joined
  <2>2. /\ Len(new(a[1])) \in 0..1 /\ Len(new(a[2])) \in 0..1
        /\ ToSet(new(a[1])) = F \cap {a[1]} /\ ToSet(new(a[2])) = F \cap {a[2]}
    BY <1>1
  <2>3. Len(new(a[1]) \o new(a[2])) \in 0..2
    <3>1. \A x, y \in 0..1 : x + y \in 0..2
      OBVIOUS
    <3> QED
      BY <2>1, <2>2, <3>1, Zenon
  <2> QED
    BY <2>1, <2>2, <2>3
<1>4. /\ new(a[1]) \o new(a[2]) \o new(a[3]) \in Seq(F)
      /\ Len(new(a[1]) \o new(a[2]) \o new(a[3])) <= 3
      /\ ToSet(new(a[1]) \o new(a[2]) \o new(a[3])) = F \cap {a[1], a[2], a[3]}
  <2> DEFINE p == new(a[1]) \o new(a[2])
  <2>1. p \in Seq(F) /\ Len(p) \in 0..2 /\ ToSet(p) = F \cap {a[1], a[2]}
    BY <1>3
  <2> HIDE DEF p
  <2>2. /\ p \o new(a[3]) \in Seq(F)
        /\ Len(p \o new(a[3])) = Len(p) + Len(new(a[3]))
        /\ ToSet(p \o new(a[3])) = ToSet(p) \union ToSet(new(a[3]))
    BY <1>1, <2>1, Joined
  <2>3. Len(new(a[3])) \in 0..1 /\ ToSet(new(a[3])) = F \cap {a[3]}
    BY <1>1
  <2>4. Len(p \o new(a[3])) <= 3
    <3>1. \A x \in 0..2, y \in 0..1 : x + y <= 3
      OBVIOUS
    <3> QED
      BY <2>1, <2>2, <2>3, <3>1, Zenon
  <2>5. ToSet(p \o new(a[3])) = F \cap {a[1], a[2], a[3]}
    BY <2>1, <2>2, <2>3
  <2> QED
    BY <2>2, <2>4, <2>5 DEF p
<1>5. LET q == new(a[1]) \o new(a[2]) \o new(a[3]) \o new(a[4])
      IN  q \in Seq(F) /\ Len(q) <= 4 /\ ToSet(q) = F \cap {a[1], a[2], a[3], a[4]}
  <2> DEFINE p == new(a[1]) \o new(a[2]) \o new(a[3])
  <2>1. p \in Seq(F) /\ Len(p) \in 0..3 /\ ToSet(p) = F \cap {a[1], a[2], a[3]}
    BY <1>4
  <2> HIDE DEF p
  <2>2. /\ p \o new(a[4]) \in Seq(F)
        /\ Len(p \o new(a[4])) = Len(p) + Len(new(a[4]))
        /\ ToSet(p \o new(a[4])) = ToSet(p) \union ToSet(new(a[4]))
    BY <1>1, <2>1, Joined
  <2>3. Len(new(a[4])) \in 0..1 /\ ToSet(new(a[4])) = F \cap {a[4]}
    BY <1>1
  <2>4. Len(p \o new(a[4])) <= 4
    <3>1. \A x \in 0..3, y \in 0..1 : x + y <= 4
      OBVIOUS
    <3> QED
      BY <2>1, <2>2, <2>3, <3>1, Zenon
  <2>5. ToSet(p \o new(a[4])) = F \cap {a[1], a[2], a[3], a[4]}
    BY <2>1, <2>2, <2>3
  <2> QED
    BY <2>2, <2>4, <2>5 DEF p
<1>6. F \cap {a[1], a[2], a[3], a[4]} = {d \in F : Adjacent(c, d)}
  <2>1. ASSUME NEW d \in F
        PROVE  Adjacent(c, d) <=> d \in {a[1], a[2], a[3], a[4]}
    <3>1. d \in Nat \X Nat
      OBVIOUS
    <3>2. Adjacent(c, d) <=> \E i \in 1..4 : d = a[i]
      BY <3>1, AdjacentIsAround DEF a
    <3>3. \A i \in 1..4 : i = 1 \/ i = 2 \/ i = 3 \/ i = 4
      OBVIOUS
    <3>4. 1 \in 1..4 /\ 2 \in 1..4 /\ 3 \in 1..4 /\ 4 \in 1..4
      OBVIOUS
    <3> QED
      BY <3>2, <3>3, <3>4, Zenon
  <2> QED
    BY <2>1
<1> QED
  BY <1>2, <1>5, <1>6 DEF found

\* What is entered from a cell: its free neighbours that were not entered.
FoundFrom(free, from, c) == Found(free \ Entered(from), Around(c))

LEMMA FoundAll ==
  ASSUME NEW free \in SUBSET (Nat \X Nat), NEW from, NEW c \in Nat \X Nat
  PROVE  /\ FoundFrom(free, from, c) \in Seq(free \ Entered(from))
         /\ Len(FoundFrom(free, from, c)) <= 4
         /\ \A d : d \in ToSet(FoundFrom(free, from, c))
                  <=> d \in free \ Entered(from) /\ Adjacent(c, d)
<1>1. free \ Entered(from) \in SUBSET (Nat \X Nat)
  OBVIOUS
<1> QED
  BY <1>1, FoundAround, Zenon DEF FoundFrom

\* What the search knows at any time: the cells in the queue are as deep as the
\* first or one step deeper, in this order; and those that have left it are not
\* the goal, are no deeper than any in the queue, and have all their free
\* neighbours entered, at most one step deeper.
Searched(free, start, goal, s, depth) ==
  LET q == s.queue
      cells == Entered(s.from)
  IN  /\ Tree(free, start, s.from, depth)
      /\ q \in Seq(cells)
      /\ \A i, j \in 1..Len(q) : i <= j => depth[q[i]] <= depth[q[j]]
      /\ \A j \in 1..Len(q) : depth[q[j]] <= depth[q[1]] + 1
      /\ \A c \in cells \ ToSet(q) :
           /\ c # goal
           /\ \A j \in 1..Len(q) : depth[c] <= depth[q[j]]
           /\ \A d \in free : Adjacent(c, d) => d \in cells /\ depth[d] <= depth[c] + 1

LEMMA EnteredAreFree ==
  ASSUME NEW free, NEW start \in free, NEW from, NEW depth, Tree(free, start, from, depth)
  PROVE  Entered(from) \subseteq free
BY DEF Tree, Entered

LEMMA EnteredMore ==
  ASSUME NEW from, NEW new, NEW c, NEW more,
         \A e : e \in more <=> e \in from \/ \E d \in new : e = <<d, c>>
  PROVE  Entered(more) = Entered(from) \union new
<1>1. \A d \in new : <<d, c>> \in more /\ <<d, c>>[1] = d
  OBVIOUS
<1>2. new \subseteq Entered(more)
  BY <1>1 DEF Entered
<1>3. Entered(from) \subseteq Entered(more)
  BY DEF Entered
<1>4. ASSUME NEW e \in more PROVE e[1] \in Entered(from) \union new
  BY DEF Entered
<1>5. Entered(more) \subseteq Entered(from) \union new
  BY <1>4 DEF Entered
<1> QED
  BY <1>2, <1>3, <1>5

LEMMA HeadAndTail ==
  ASSUME NEW S, NEW q \in Seq(S), q # <<>>
  PROVE  /\ Head(q) \in S /\ Head(q) = q[1] /\ 1 \in 1..Len(q)
         /\ Tail(q) \in Seq(S) /\ Len(Tail(q)) = Len(q) - 1
         /\ \A i \in 1..Len(Tail(q)) : i + 1 \in 1..Len(q) /\ Tail(q)[i] = q[i + 1]
         /\ ToSet(q) = {Head(q)} \union ToSet(Tail(q))
<1>1. Len(q) \in Nat \ {0} /\ Head(q) = q[1] /\ Head(q) \in S /\ DOMAIN q = 1..Len(q)
  OBVIOUS
<1>2. Tail(q) \in Seq(S) /\ Len(Tail(q)) = Len(q) - 1 /\ DOMAIN Tail(q) = 1..(Len(q) - 1)
  OBVIOUS
<1>3. \A i \in 1..Len(Tail(q)) : i + 1 \in 1..Len(q) /\ Tail(q)[i] = q[i + 1]
  BY <1>1, <1>2
<1>4. ToSet(q) \subseteq {Head(q)} \union ToSet(Tail(q))
  <2> SUFFICES ASSUME NEW i \in 1..Len(q) PROVE q[i] \in {Head(q)} \union ToSet(Tail(q))
    BY <1>1 DEF ToSet
  <2>1. CASE i = 1
    BY <1>1, <2>1
  <2>2. CASE i # 1
    <3>1. i - 1 \in 1..(Len(q) - 1) /\ (i - 1) + 1 = i
      BY <1>1, <2>2
    <3>2. Tail(q)[i - 1] = q[i]
      BY <1>1, <1>2, <3>1
    <3> QED
      BY <1>2, <3>1, <3>2 DEF ToSet
  <2> QED
    BY <2>1, <2>2
<1>5. {Head(q)} \union ToSet(Tail(q)) \subseteq ToSet(q)
  BY <1>1, <1>2, <1>3 DEF ToSet
<1> QED
  BY <1>1, <1>2, <1>3, <1>4, <1>5

\* One cell of the queue is visited.
LEMMA VisitKeeps ==
  ASSUME NEW open, NEW free, NEW start, NEW goal, Setting(open, free, start, goal),
         NEW s \in Searches(open), NEW depth, Searched(free, start, goal, s, depth),
         s.queue # <<>>, Head(s.queue) # goal
  PROVE  LET t == Visit(free, s)
         IN  /\ t \in Searches(open)
             /\ \E new : Searched(free, start, goal, t, new)
             /\ Entered(s.from) \subseteq Entered(t.from) /\ Entered(t.from) \subseteq free
             /\ \/ Len(t.queue) < Len(s.queue)
                \/ /\ Len(t.queue) <= Len(s.queue) + 3
                   /\ Entered(t.from) # Entered(s.from)
<1> DEFINE q == s.queue
           c == Head(q)
           k == depth[c]
           cells == Entered(s.from)
           found == FoundFrom(free, s.from, c)
           fs == ToSet(found)
           r == Tail(q) \o found
           from2 == s.from \union {<<d, c>> : d \in fs}
           cells2 == Entered(from2)
           new == [x \in cells2 |-> IF x \in cells THEN depth[x] ELSE k + 1]
           n == Len(Tail(q))
           t == Visit(free, s)
<1>1. t = [queue |-> r, from |-> from2]
  BY DEF Visit, Enter, FoundFrom
<1>2. q \in Seq(cells) /\ Tree(free, start, s.from, depth) /\ cells \subseteq free
      /\ depth \in [cells -> Nat] /\ start \in free /\ start \in cells
  <2>1. Tree(free, start, s.from, depth) /\ q \in Seq(cells)
    BY DEF Searched
  <2>2. start \in free
    BY DEF Setting
  <2>3. cells \subseteq free
    BY <2>1, <2>2, EnteredAreFree
  <2>4. depth \in [cells -> Nat] /\ start \in cells
    BY <2>1 DEF Tree
  <2> HIDE DEF cells, q
  <2> QED
    BY <2>1, <2>2, <2>3, <2>4
<1>3. /\ c \in cells /\ c = q[1] /\ 1 \in 1..Len(q) /\ Tail(q) \in Seq(cells)
      /\ n = Len(q) - 1 /\ n \in Nat
      /\ \A i \in 1..n : i + 1 \in 1..Len(q) /\ Tail(q)[i] = q[i + 1]
      /\ ToSet(q) = {c} \union ToSet(Tail(q))
  <2> HIDE DEF cells
  <2> QED
    BY <1>2, HeadAndTail
<1>4. k \in Nat /\ c \in free /\ c \in Nat \X Nat /\ free \in SUBSET (Nat \X Nat)
  BY <1>2, <1>3 DEF Setting
<1>5. /\ found \in Seq(free \ cells) /\ Len(found) <= 4 /\ Len(found) \in Nat
      /\ fs = {d \in free \ cells : Adjacent(c, d)}
  <2>1. /\ found \in Seq(free \ cells) /\ Len(found) <= 4
        /\ \A d : d \in fs <=> d \in free \ cells /\ Adjacent(c, d)
    <3> HIDE DEF c
    <3> QED
      BY <1>4, FoundAll
  <2>2. Len(found) \in Nat
    <3> HIDE DEF found, cells
    <3> QED
      BY <2>1
  <2> HIDE DEF found, cells, fs, c
  <2>3. fs = {d \in free \ cells : Adjacent(c, d)}
    BY <2>1
  <2> QED
    BY <2>1, <2>2, <2>3
<1>6. cells2 = cells \union fs
  <2> HIDE DEF fs, c
  <2>1. \A e : e \in from2 <=> e \in s.from \/ \E d \in fs : e = <<d, c>>
    OBVIOUS
  <2> HIDE DEF from2
  <2> QED
    BY <2>1, EnteredMore
<1>7. cells2 \subseteq free /\ fs \cap cells = {} /\ c \in cells2
  BY <1>2, <1>3, <1>5, <1>6
<1>8. new \in [cells2 -> Nat] /\ (\A x \in cells : new[x] = depth[x])
      /\ (\A x \in fs : new[x] = k + 1)
  <2> HIDE DEF cells, fs, cells2, k
  <2> QED
    BY <1>2, <1>4, <1>6, <1>7
<1>9. Tree(free, start, from2, new)
  <2>1. ASSUME NEW e \in from2, NEW f \in from2, e[1] = f[1] PROVE e = f
    <3>1. \A g \in s.from : g[1] \in cells
      BY DEF Entered
    <3>2. \A g \in from2 : g[1] \in cells => g \in s.from
      BY <1>7
    <3>3. CASE e[1] \in cells
      BY <1>2, <2>1, <3>2, <3>3 DEF Tree
    <3>4. CASE e[1] \notin cells
      <4>1. e \notin s.from /\ f \notin s.from
        BY <2>1, <3>1, <3>4
      <4>2. e = <<e[1], c>> /\ f = <<f[1], c>>
        BY <4>1
      <4> QED
        BY <2>1, <4>2
    <3> QED
      BY <3>3, <3>4
  <2>2. start \in cells2 /\ new[start] = 0
    BY <1>2, <1>6, <1>8 DEF Tree
  <2>3. ASSUME NEW e \in from2, e[1] # start
        PROVE  /\ e[1] \in free /\ e[2] \in cells2
               /\ Adjacent(e[2], e[1]) /\ new[e[1]] >= new[e[2]] + 1
    <3>1. CASE e \in s.from
      <4>1. /\ e[1] \in free /\ e[2] \in cells /\ e[1] \in cells
            /\ Adjacent(e[2], e[1]) /\ depth[e[1]] >= depth[e[2]] + 1
        BY <1>2, <2>3, <3>1 DEF Tree, Entered
      <4> QED
        BY <1>6, <1>8, <4>1
    <3>2. CASE e \notin s.from
      <4>1. PICK d \in fs : e = <<d, c>>
        BY <3>2
      <4>2. e[1] = d /\ e[2] = c
        BY <4>1
      <4>3. d \in free /\ Adjacent(c, d) /\ new[d] = k + 1 /\ new[c] = k
        BY <1>3, <1>5, <1>8
      <4>4. new[d] >= new[c] + 1
        BY <1>4, <4>3
      <4> QED
        BY <1>7, <4>2, <4>3, <4>4, Zenon
    <3> QED
      BY <3>1, <3>2
  <2> HIDE DEF from2, new
  <2> QED
    BY <1>8, <2>1, <2>2, <2>3 DEF Tree
<1>10. r \in Seq(cells2) /\ Len(r) = n + Len(found) /\ ToSet(r) = ToSet(Tail(q)) \union fs
  <2>1. Tail(q) \in Seq(cells2) /\ found \in Seq(cells2)
    <3>1. \A i \in 1..Len(found) : found[i] \in fs
      BY <1>5 DEF ToSet
    <3>2. \A i \in 1..Len(found) : found[i] \in cells2
      BY <1>6, <3>1
    <3>3. found \in Seq(cells2)
      BY <1>5, <3>2
    <3> HIDE DEF cells, cells2
    <3>4. Tail(q) \in Seq(cells2)
      BY <1>3, <1>6
    <3> QED
      BY <3>3, <3>4
  <2> HIDE DEF cells2, found
  <2> QED
    BY <2>1, Joined
<1>11. ASSUME NEW i \in 1..Len(r)
       PROVE  /\ new[r[i]] \in Nat /\ k <= new[r[i]] /\ new[r[i]] <= k + 1
              /\ i <= n => new[r[i]] = depth[q[i + 1]] /\ i + 1 \in 1..Len(q)
              /\ i > n => new[r[i]] = k + 1
  <2>1. CASE i <= n
    <3>1. i \in 1..n /\ r[i] = Tail(q)[i]
      BY <1>3, <1>5, <1>10, <2>1
    <3>2. r[i] = q[i + 1] /\ i + 1 \in 1..Len(q) /\ q[i + 1] \in cells
      BY <1>2, <1>3, <3>1
    <3>3. new[r[i]] = depth[q[i + 1]] /\ depth[q[i + 1]] \in Nat
      BY <1>2, <1>8, <3>2
    <3>4. depth[q[1]] <= depth[q[i + 1]] /\ depth[q[i + 1]] <= depth[q[1]] + 1
      <4>1. 1 <= i + 1
        OBVIOUS
      <4> QED
        BY <1>3, <3>2, <4>1 DEF Searched
    <3> QED
      BY <1>3, <2>1, <3>2, <3>3, <3>4
  <2>2. CASE i > n
    <3>1. i - n \in 1..Len(found)
      <4> HIDE DEF n, r, found
      <4> QED
        BY <1>3, <1>5, <1>10, <2>2
    <3>2. r[i] = found[i - n]
      <4> HIDE DEF found, cells
      <4> QED
        BY <1>3, <1>5, <1>10, <2>2
    <3>3. r[i] \in fs
      <4>1. DOMAIN found = 1..Len(found)
        <5> HIDE DEF found, cells
        <5> QED
          BY <1>5
      <4> QED
        BY <3>1, <3>2, <4>1 DEF ToSet
    <3>4. new[r[i]] = k + 1
      <4> HIDE DEF new, r, fs, k
      <4> QED
        BY <1>8, <3>3
    <3> HIDE DEF new, r, k, n
    <3> QED
      BY <1>3, <1>4, <2>2, <3>4
  <2> QED
    BY <1>3, <2>1, <2>2
<1>12. ASSUME NEW i \in 1..Len(r), NEW j \in 1..Len(r), i <= j
       PROVE  new[r[i]] <= new[r[j]]
  <2>1. CASE j <= n
    <3>1. i <= n /\ i + 1 \in 1..Len(q) /\ j + 1 \in 1..Len(q) /\ i + 1 <= j + 1
      BY <1>3, <1>11, <1>12, <2>1
    <3>2. depth[q[i + 1]] <= depth[q[j + 1]]
      BY <3>1 DEF Searched
    <3> QED
      BY <1>11, <2>1, <3>1, <3>2
  <2>2. CASE j > n
    BY <1>11, <2>2
  <2> QED
    BY <1>3, <2>1, <2>2
<1>13. ASSUME NEW j \in 1..Len(r) PROVE new[r[j]] <= new[r[1]] + 1
  <2>1. 1 \in 1..Len(r)
    <3>1. Len(r) \in Nat /\ 1 <= j /\ j <= Len(r) /\ j \in Int
      <4> HIDE DEF r, n, found
      <4> QED
        BY <1>3, <1>5, <1>10
    <3> HIDE DEF r
    <3> QED
      BY <3>1
  <2>2. k <= new[r[1]] /\ new[r[1]] \in Nat /\ new[r[j]] <= k + 1 /\ new[r[j]] \in Nat
    BY <1>11, <2>1
  <2> HIDE DEF k, new, r
  <2> QED
    BY <1>4, <2>2
\* No cell that was entered lies deeper than the cells that are found.
<1>14. ASSUME NEW x \in cells PROVE depth[x] <= k + 1 /\ depth[x] \in Nat
  <2>1. CASE x \in ToSet(q)
    <3>1. PICK i \in 1..Len(q) : x = q[i]
      BY <1>2, <2>1 DEF ToSet
    <3>2. depth[q[i]] <= depth[q[1]] + 1
      BY DEF Searched
    <3> QED
      BY <1>2, <1>3, <3>1, <3>2
  <2>2. CASE x \notin ToSet(q)
    <3>1. depth[x] <= depth[q[1]]
      BY <1>3, <2>2 DEF Searched
    <3> QED
      BY <1>2, <1>3, <1>4, <3>1
  <2> QED
    BY <2>1, <2>2
<1>15. ASSUME NEW x \in cells2 \ ToSet(r)
       PROVE  /\ x # goal
              /\ \A j \in 1..Len(r) : new[x] <= new[r[j]]
              /\ \A d \in free : Adjacent(x, d) => d \in cells2 /\ new[d] <= new[x] + 1
  <2>1. x \in cells /\ x \notin ToSet(Tail(q)) /\ new[x] = depth[x] /\ depth[x] \in Nat
    BY <1>6, <1>8, <1>10, <1>14
  <2>2. CASE x = c
    <3>1. \A j \in 1..Len(r) : new[x] <= new[r[j]]
      BY <1>11, <2>1, <2>2
    <3>2. ASSUME NEW d \in free, Adjacent(x, d) PROVE d \in cells2 /\ new[d] <= new[x] + 1
      <4>1. CASE d \in cells
        <5>1. new[d] = depth[d] /\ depth[d] <= k + 1 /\ depth[d] \in Nat /\ new[x] = k
          BY <1>8, <1>14, <2>1, <2>2, <4>1
        <5>2. d \in cells2
          BY <1>6, <4>1
        <5> HIDE DEF new, cells, cells2, k
        <5> QED
          BY <1>4, <5>1, <5>2
      <4>2. CASE d \notin cells
        <5>1. d \in fs
          BY <1>5, <2>2, <3>2, <4>2
        <5>2. new[d] = k + 1 /\ new[x] = k
          BY <1>8, <2>1, <2>2, <5>1
        <5>3. d \in cells2
          BY <1>6, <5>1
        <5> HIDE DEF new, cells2, k
        <5> QED
          BY <1>4, <5>2, <5>3
      <4> QED
        BY <4>1, <4>2
    <3> QED
      BY <2>2, <3>1, <3>2
  <2>3. CASE x # c
    <3>1. x \in cells \ ToSet(q)
      BY <1>3, <2>1, <2>3
    <3>2. x # goal /\ depth[x] <= depth[q[1]]
          /\ \A d \in free : Adjacent(x, d) => d \in cells /\ depth[d] <= depth[x] + 1
      BY <1>3, <3>1 DEF Searched
    <3>3. \A j \in 1..Len(r) : new[x] <= new[r[j]]
      <4> TAKE j \in 1..Len(r)
      <4>1. k <= new[r[j]] /\ new[r[j]] \in Nat /\ depth[x] <= k /\ new[x] = depth[x]
        BY <1>3, <1>11, <2>1, <3>2
      <4> HIDE DEF new, r, k
      <4> QED
        BY <1>4, <2>1, <4>1
    <3>4. \A d \in free : Adjacent(x, d) => d \in cells2 /\ new[d] <= new[x] + 1
      BY <1>6, <1>8, <2>1, <3>2
    <3> QED
      BY <3>2, <3>3, <3>4
  <2> QED
    BY <2>2, <2>3
<1>16. Searched(free, start, goal, t, new)
  <2> HIDE DEF new, r, from2, t
  <2> QED
    BY <1>1, <1>9, <1>10, <1>12, <1>13, <1>15 DEF Searched
<1>17. t \in Searches(open)
  <2>1. s.from \in CameFrom(open) /\ free \subseteq open
    BY DEF Searches, Setting
  <2>2. from2 \in CameFrom(open)
    BY <1>4, <1>5, <2>1 DEF CameFrom
  <2>3. r \in Seq(open)
    <3> HIDE DEF cells2, r
    <3> QED
      BY <1>7, <1>10, <2>1
  <2> HIDE DEF r, from2, t
  <2> QED
    BY <1>1, <2>2, <2>3 DEF Searches
<1>18. \/ Len(r) < Len(q)
       \/ Len(r) <= Len(q) + 3 /\ cells2 # cells
  <2>1. CASE found = <<>>
    <3>1. Len(found) = 0 /\ Len(q) \in Nat
      BY <1>2, <2>1
    <3> HIDE DEF r, q, n, found
    <3> QED
      BY <1>3, <1>10, <3>1
  <2>2. CASE found # <<>>
    <3>1. 1 \in 1..Len(found)
      <4> HIDE DEF found, cells
      <4> QED
        BY <1>5, <2>2
    <3>2. found[1] \in fs
      <4>1. DOMAIN found = 1..Len(found)
        <5> HIDE DEF found, cells
        <5> QED
          BY <1>5
      <4> QED
        BY <3>1, <4>1 DEF ToSet
    <3>3. cells2 # cells
      BY <1>6, <1>7, <3>2
    <3>4. Len(r) <= Len(q) + 3
      <4>1. Len(q) \in Nat
        BY <1>2
      <4> HIDE DEF r, q, n, found
      <4> QED
        BY <1>3, <1>5, <1>10, <4>1
    <3> QED
      BY <3>3, <3>4
  <2> QED
    BY <2>1, <2>2
<1> HIDE DEF new, r, from2, t, cells, cells2, q
<1>19. t.queue = r /\ t.from = from2
  BY <1>1
<1> QED
  BY <1>6, <1>7, <1>16, <1>17, <1>18, <1>19 DEF t, cells, cells2, q

\* Up to the depth of the first cell in the queue, and without end if it is
\* empty, the cells within n steps are entered, at most n deep.
LEMMA BallsSearched ==
  ASSUME NEW free, NEW start \in free, NEW goal, NEW s, NEW depth,
         Searched(free, start, goal, s, depth), NEW n \in Nat,
         s.queue # <<>> => n <= depth[s.queue[1]]
  PROVE  \A x \in Ball(free, start, n) : x \in Entered(s.from) /\ depth[x] <= n
<1> DEFINE q == s.queue
           cells == Entered(s.from)
           Covered(m) == \A x \in Ball(free, start, m) : x \in cells /\ depth[x] <= m
           Bad == {m \in 0..n : ~Covered(m)}
<1>1. /\ Tree(free, start, s.from, depth) /\ q \in Seq(cells)
      /\ depth \in [cells -> Nat] /\ start \in cells /\ depth[start] = 0
  BY DEF Searched, Tree
<1>2. SUFFICES ASSUME Bad # {} PROVE FALSE
  OBVIOUS
<1>3. PICK k \in Bad : \A m \in Bad : k <= m
  <2> DEFINE M == [m \in Bad |-> m]
  <2>1. \A m \in Bad : M[m] \in Nat
    OBVIOUS
  <2> HIDE DEF Bad
  <2>2. \E x \in Bad : \A y \in Bad : M[x] <= M[y]
    BY <1>2, <2>1, LeastMeasure
  <2> QED
    BY <2>2
<1> HIDE DEF Covered
<1>4. Covered(0)
  BY <1>1, BallGrows DEF Covered
<1>5. k \in Nat /\ k # 0 /\ k <= n
  BY <1>3, <1>4
<1>6. Covered(k - 1)
  <2>1. k - 1 \in 0..n /\ ~(k <= k - 1)
    BY <1>5
  <2> QED
    BY <1>3, <2>1
<1>7. Ball(free, start, k) = Grown(free, Ball(free, start, k - 1))
  BY <1>5, BallBefore
<1>8. ASSUME NEW x \in Ball(free, start, k - 1)
      PROVE  /\ x \in cells /\ depth[x] <= k /\ depth[x] \in Nat
             /\ \A d \in free : Adjacent(x, d) => d \in cells /\ depth[d] <= k
  <2>1. x \in cells /\ depth[x] <= k - 1 /\ depth[x] \in Nat
    <3> HIDE DEF cells
    <3> QED
      BY <1>1, <1>6 DEF Covered
  <2>2. x \notin ToSet(q)
    <3> SUFFICES ASSUME x \in ToSet(q) PROVE FALSE
      OBVIOUS
    <3>1. PICK i \in 1..Len(q) : x = q[i]
      BY <1>1 DEF ToSet
    <3>2. q # <<>> /\ 1 \in 1..Len(q) /\ 1 <= i
      BY <1>1, <3>1
    <3>3. depth[q[1]] <= depth[x] /\ n <= depth[q[1]]
      BY <3>1, <3>2 DEF Searched
    <3>4. depth[q[1]] \in Nat
      BY <1>1, <3>2
    <3> HIDE DEF q
    <3> QED
      BY <1>5, <2>1, <3>3, <3>4
  <2>3. \A d \in free : Adjacent(x, d) => d \in cells /\ depth[d] <= depth[x] + 1
    BY <2>1, <2>2 DEF Searched
  <2>4. \A d \in free : Adjacent(x, d) => d \in cells /\ depth[d] <= k
    <3> SUFFICES ASSUME NEW d \in free, Adjacent(x, d) PROVE d \in cells /\ depth[d] <= k
      OBVIOUS
    <3>1. d \in cells /\ depth[d] <= depth[x] + 1 /\ depth[d] \in Nat
      BY <1>1, <2>3
    <3> HIDE DEF cells
    <3> QED
      BY <1>5, <2>1, <3>1
  <2>5. depth[x] <= k
    BY <1>5, <2>1
  <2> QED
    BY <2>1, <2>4, <2>5
<1>9. Covered(k)
  <2> SUFFICES ASSUME NEW x \in Ball(free, start, k) PROVE x \in cells /\ depth[x] <= k
    BY DEF Covered
  <2>1. x \in Grown(free, Ball(free, start, k - 1))
    BY <1>7
  <2> HIDE DEF cells
  <2> QED
    BY <1>8, <2>1 DEF Grown
<1> QED
  BY <1>3, <1>9

\* came_from when a search has ended: a tree that has the goal at most num/den
\* times as deep as it lies away, or does not have it because there is no way.
SearchDone(free, start, goal, num, den, from) ==
  \E depth : /\ Tree(free, start, from, depth)
             /\ IF goal \in Entered(from)
                THEN \A n \in Nat : goal \in Ball(free, start, n) =>
                                      den * depth[goal] <= num * n
                ELSE \A n \in Nat : goal \notin Ball(free, start, n)

LEMMA SearchedIsComplete ==
  ASSUME NEW free, NEW start \in free, NEW goal, NEW s, NEW depth,
         Searched(free, start, goal, s, depth), s.queue = <<>> \/ Head(s.queue) = goal
  PROVE  SearchDone(free, start, goal, 1, 1, s.from)
<1> DEFINE q == s.queue
           cells == Entered(s.from)
<1>1. /\ Tree(free, start, s.from, depth) /\ q \in Seq(cells)
      /\ depth \in [cells -> Nat]
  BY DEF Searched, Tree
<1>2. CASE q = <<>>
  <2>1. ToSet(q) = {}
    BY <1>2 DEF ToSet
  <2>2. goal \notin cells
    BY <2>1 DEF Searched
  <2>3. \A n \in Nat : goal \notin Ball(free, start, n)
    BY <1>2, <2>2, BallsSearched
  <2> QED
    BY <1>1, <2>2, <2>3 DEF SearchDone
<1>3. CASE q # <<>>
  <2>1. goal = q[1] /\ goal \in cells
    BY <1>1, <1>3, HeadAndTail
  <2>2. depth[goal] \in Nat
    BY <1>1, <2>1
  <2>3. ASSUME NEW n \in Nat, goal \in Ball(free, start, n)
        PROVE  1 * depth[goal] <= 1 * n
    <3>1. CASE n <= depth[goal]
      <4>1. depth[goal] <= n
        BY <2>1, <2>3, <3>1, BallsSearched
      <4> QED
        BY <2>2, <4>1
    <3>2. CASE ~(n <= depth[goal])
      BY <2>2, <3>2
    <3> QED
      BY <3>1, <3>2
  <2> QED
    BY <1>1, <2>1, <2>3 DEF SearchDone
<1> QED
  BY <1>2, <1>3

LEMMA VisitInSearches ==
  ASSUME NEW open, NEW free, NEW start, NEW goal, Setting(open, free, start, goal),
         NEW s \in Searches(open), s.queue # <<>>
  PROVE  Visit(free, s) \in Searches(open)
<1> DEFINE c == Head(s.queue)
           found == FoundFrom(free, s.from, c)
           F == free \ Entered(s.from)
           fs == ToSet(found)
<1>1. s.queue \in Seq(open) /\ s.from \in CameFrom(open)
  BY DEF Searches
<1>2. c \in open /\ Tail(s.queue) \in Seq(open)
  BY <1>1, HeadAndTail
<1>3. open \subseteq Nat \X Nat /\ free \subseteq open /\ F \subseteq open
  BY DEF Setting
<1>4. free \in SUBSET (Nat \X Nat) /\ c \in Nat \X Nat
  BY <1>2, <1>3
<1>5. found \in Seq(F) /\ \A d \in fs : d \in F
  <2> HIDE DEF c
  <2> QED
    BY <1>4, FoundAll
<1>6. Tail(s.queue) \o found \in Seq(open)
  <2>1. found \in Seq(open)
    <3> HIDE DEF found, F
    <3> QED
      BY <1>3, <1>5
  <2> HIDE DEF found
  <2> QED
    BY <1>2, <2>1
<1>7. s.from \union {<<d, c>> : d \in fs} \in CameFrom(open)
  <2> HIDE DEF c, fs, F
  <2> QED
    BY <1>1, <1>2, <1>3, <1>5 DEF CameFrom
<1> QED
  BY <1>6, <1>7 DEF Visit, Enter, FoundFrom, Searches

\* A visit shortens the queue or enters a cell: it lessens this number.
ToDo(free, s) == Len(s.queue) + 5 * Cardinality(free \ Entered(s.from))

LEMMA ToDoIsNat ==
  ASSUME NEW open, NEW free, NEW start, NEW goal, Setting(open, free, start, goal),
         NEW s \in Searches(open)
  PROVE  ToDo(free, s) \in Nat
<1>1. Len(s.queue) \in Nat
  BY DEF Searches
<1>2. IsFiniteSet(free \ Entered(s.from))
  BY FS_Subset DEF Setting
<1>3. Cardinality(free \ Entered(s.from)) \in Nat
  BY <1>2, FS_CardinalityType
<1> QED
  BY <1>1, <1>3 DEF ToDo

LEMMA VisitLessens ==
  ASSUME NEW open, NEW free, NEW start, NEW goal, Setting(open, free, start, goal),
         NEW s \in Searches(open), NEW depth, Searched(free, start, goal, s, depth),
         s.queue # <<>>, Head(s.queue) # goal
  PROVE  ToDo(free, Visit(free, s)) < ToDo(free, s)
<1> DEFINE t == Visit(free, s)
           S == free \ Entered(s.from)
           T == free \ Entered(t.from)
<1>1. /\ t \in Searches(open)
      /\ Entered(s.from) \subseteq Entered(t.from) /\ Entered(t.from) \subseteq free
      /\ \/ Len(t.queue) < Len(s.queue)
         \/ Len(t.queue) <= Len(s.queue) + 3 /\ Entered(t.from) # Entered(s.from)
  BY VisitKeeps
<1> HIDE DEF t
<1>2. Len(s.queue) \in Nat /\ Len(t.queue) \in Nat
  BY <1>1 DEF Searches
<1>3. IsFiniteSet(S) /\ T \in SUBSET S
  BY <1>1, FS_Subset DEF Setting
<1>4. Entered(t.from) # Entered(s.from) => S # T
  BY <1>1
<1> HIDE DEF S, T
<1>5. /\ IsFiniteSet(T) /\ Cardinality(T) <= Cardinality(S)
      /\ Cardinality(S) = Cardinality(T) => S = T
  BY <1>3, FS_Subset
<1>6. Cardinality(S) \in Nat /\ Cardinality(T) \in Nat
  BY <1>3, <1>5, FS_CardinalityType
<1>7. Len(t.queue) + 5 * Cardinality(T) < Len(s.queue) + 5 * Cardinality(S)
  <2>1. CASE Len(t.queue) < Len(s.queue)
    BY <1>2, <1>5, <1>6, <2>1
  <2>2. CASE Len(t.queue) <= Len(s.queue) + 3 /\ Entered(t.from) # Entered(s.from)
    <3>1. Cardinality(T) + 1 <= Cardinality(S)
      BY <1>4, <1>5, <1>6, <2>2
    <3> QED
      BY <1>2, <1>6, <2>2, <3>1
  <2> QED
    BY <1>1, <2>1, <2>2
<1> QED
  BY <1>7 DEF ToDo, S, T, t

\* The search begins with the start alone.
FirstSearch(start) == [queue |-> <<start>>, from |-> {<<start, Nowhere>>}]

LEMMA FirstSearched ==
  ASSUME NEW open, NEW free, NEW start, NEW goal, Setting(open, free, start, goal)
  PROVE  /\ FirstSearch(start) \in Searches(open)
         /\ \E depth : Searched(free, start, goal, FirstSearch(start), depth)
<1> DEFINE from == {<<start, Nowhere>>}
           q == <<start>>
           depth == [c \in {start} |-> 0]
<1>1. start \in open
  BY DEF Setting
<1>2. Entered(from) = {start}
  BY DEF Entered
<1>3. /\ q \in Seq({start}) /\ q \in Seq(open) /\ Len(q) = 1 /\ q[1] = start
      /\ DOMAIN q = {1} /\ 1..Len(q) = {1}
  BY <1>1
<1>4. from \in CameFrom(open)
  BY <1>1 DEF CameFrom
<1>5. ToSet(q) = {start}
  BY <1>3 DEF ToSet
<1>6. Tree(free, start, from, depth)
  <2>1. \A e \in from : e = <<start, Nowhere>> /\ e[1] = start
    OBVIOUS
  <2>2. depth \in [{start} -> Nat] /\ depth[start] = 0
    OBVIOUS
  <2> HIDE DEF from, depth
  <2> QED
    BY <1>2, <2>1, <2>2 DEF Tree
<1> HIDE DEF from, q
<1>7. \A i \in 1..Len(q) : i = 1 /\ depth[q[i]] = 0
  BY <1>3
<1> HIDE DEF depth
<1>8. /\ \A i, j \in 1..Len(q) : i <= j => depth[q[i]] <= depth[q[j]]
      /\ \A j \in 1..Len(q) : depth[q[j]] <= depth[q[1]] + 1
  BY <1>3, <1>7
<1>9. Entered(from) \ ToSet(q) = {}
  BY <1>2, <1>5
<1> DEFINE s == [queue |-> q, from |-> from]
<1>10. s.queue = q /\ s.from = from
  OBVIOUS
<1> HIDE DEF s
<1>11. Searched(free, start, goal, s, depth)
  BY <1>2, <1>3, <1>6, <1>8, <1>9, <1>10 DEF Searched
<1>12. s = FirstSearch(start)
  BY DEF FirstSearch, s, q, from
<1>13. s \in Searches(open)
  BY <1>3, <1>4 DEF Searches, s
<1> QED
  BY <1>11, <1>12, <1>13

LEMMA SearchCompletes ==
  ASSUME NEW open, NEW free, NEW start, NEW goal, Setting(open, free, start, goal)
  PROVE  SearchDone(free, start, goal, 1, 1, BFSSearch(open, free, goal)[FirstSearch(start)])
<1> DEFINE D == Searches(open)
           Stop == {s \in D : s.queue = <<>> \/ Head(s.queue) = goal}
           Step == [s \in D |-> Visit(free, s)]
           Result == [s \in D |-> s.from]
           F == BFSSearch(open, free, goal)
           Inv == {s \in D : \E depth : Searched(free, start, goal, s, depth)}
           M == [s \in D |-> ToDo(free, s)]
           Good == {f \in CameFrom(open) : SearchDone(free, start, goal, 1, 1, f)}
<1>1. \A s \in D \ Stop : Step[s] \in D
  BY VisitInSearches
<1>2. IsLoop(F, D, Stop, Step, Result)
  <2> DEFINE body(f, s) == IF s.queue = <<>> \/ Head(s.queue) = goal THEN s.from
                           ELSE f[Visit(free, s)]
  <2>1. \A f : f = [s \in D |-> body(f, s)] <=> IsLoop(f, D, Stop, Step, Result)
    <3> TAKE f
    <3>1. ASSUME NEW s \in D
          PROVE  body(f, s) = (IF s \in Stop THEN Result[s] ELSE f[Step[s]])
      OBVIOUS
    <3> HIDE DEF Stop, Result, Step, body, D
    <3> QED
      BY <3>1 DEF IsLoop
  <2>2. \E f : IsLoop(f, D, Stop, Step, Result)
    <3> HIDE DEF D, Stop, Step, Result
    <3> QED
      BY <1>1, LoopExists
  <2>3. F = CHOOSE f : f = [s \in D |-> body(f, s)]
    BY DEF BFSSearch
  <2> HIDE DEF D, Stop, Step, Result, F, body
  <2>4. F = [s \in D |-> body(F, s)]
    BY <2>1, <2>2, <2>3
  <2> QED
    BY <2>1, <2>4
<1>3. Inv \in SUBSET D /\ \A s \in Inv : M[s] \in Nat
  BY ToDoIsNat
<1>4. ASSUME NEW s \in Inv \ Stop PROVE Step[s] \in Inv /\ M[Step[s]] < M[s]
  <2>1. s \in D /\ s.queue # <<>> /\ Head(s.queue) # goal
    OBVIOUS
  <2>2. PICK depth : Searched(free, start, goal, s, depth)
    OBVIOUS
  <2> DEFINE t == Visit(free, s)
  <2>3. t \in D /\ \E new : Searched(free, start, goal, t, new)
    BY <2>1, <2>2, VisitKeeps
  <2>4. ToDo(free, t) < ToDo(free, s)
    BY <2>1, <2>2, VisitLessens
  <2>5. Step[s] = t /\ M[t] = ToDo(free, t) /\ M[s] = ToDo(free, s)
    BY <2>1, <2>3
  <2> HIDE DEF t
  <2> QED
    BY <2>3, <2>4, <2>5
<1>5. ASSUME NEW s \in Inv \cap Stop PROVE Result[s] \in Good
  <2>1. s \in D /\ (s.queue = <<>> \/ Head(s.queue) = goal)
    OBVIOUS
  <2>2. PICK depth : Searched(free, start, goal, s, depth)
    OBVIOUS
  <2>3. start \in free
    BY DEF Setting
  <2>4. SearchDone(free, start, goal, 1, 1, s.from)
    BY <2>1, <2>2, <2>3, SearchedIsComplete
  <2> QED
    BY <2>1, <2>4 DEF Searches
<1>6. FirstSearch(start) \in Inv
  BY FirstSearched
<1> HIDE DEF D, Stop, Step, Result, F, Inv, M
<1>7. \A s \in Inv : F[s] \in Good
  <2> HIDE DEF Good
  <2>1. Descends(Inv, M, D, Stop, Step)
    BY <1>3, <1>4 DEF Descends
  <2> QED
    BY <1>2, <1>5, <2>1, LoopEnds
<1>8. F[FirstSearch(start)] \in Good
  BY <1>6, <1>7
<1> QED
  BY <1>8 DEF F

-----------------------------------------------------------------------------
(* The planners.                                                           *)

\* A route has at most num/den times as many steps as its goal is away, and there
\* is no route only if there is no way.
Finds(p, free, start, goal, num, den) ==
  IF p = NoPath THEN \A n \in Nat : goal \notin Ball(free, start, n)
  ELSE /\ Leads(free, start, p, goal) /\ (p = <<>> <=> start = goal)
       /\ \A n \in Nat : goal \in Ball(free, start, n) => den * Len(p) <= num * n

LEMMA ProductIsNat == \A m, a \in Nat : m * a \in Nat
OBVIOUS

LEMMA ProductGrows == \A m, k, a, b \in Nat : m <= k /\ a <= b => m * a <= k * b
<1> SUFFICES ASSUME NEW m \in Nat, NEW k \in Nat, NEW a \in Nat, NEW b \in Nat,
                    m <= k, a <= b
             PROVE  m * a <= k * b
  OBVIOUS
<1>1. m * a <= m * b
  OBVIOUS
<1>2. m * b <= k * b
  OBVIOUS
<1>3. m * a \in Nat /\ m * b \in Nat /\ k * b \in Nat
  BY ProductIsNat
<1> QED
  BY <1>1, <1>2, <1>3

LEMMA PlanFinds ==
  ASSUME NEW open, NEW free, NEW start, NEW goal, Setting(open, free, start, goal),
         NEW num \in Nat, NEW den \in Nat, NEW from, NEW p,
         SearchDone(free, start, goal, num, den, from),
         p = IF start = goal THEN <<>> ELSE Reconstruct(from, start, goal)
  PROVE  Finds(p, free, start, goal, num, den)
<1>1. CASE start = goal
  <2>1. p = <<>> /\ p # NoPath
    BY <1>1 DEF NoPath
  <2>2. Leads(free, start, <<>>, goal) /\ Len(<<>>) = 0
    BY <1>1 DEF Leads
  <2>3. \A n \in Nat : den * 0 <= num * n
    <3>1. den * 0 = 0
      OBVIOUS
    <3> QED
      BY <3>1, ProductIsNat
  <2> QED
    BY <1>1, <2>1, <2>2, <2>3 DEF Finds
<1>2. CASE start # goal
  <2>1. PICK depth : /\ Tree(free, start, from, depth)
                     /\ IF goal \in Entered(from)
                        THEN \A n \in Nat : goal \in Ball(free, start, n) =>
                                              den * depth[goal] <= num * n
                        ELSE \A n \in Nat : goal \notin Ball(free, start, n)
    BY DEF SearchDone
  <2>2. CASE goal \notin Entered(from)
    <3>1. p = NoPath
      BY <1>2, <2>2 DEF Reconstruct
    <3> QED
      BY <2>1, <2>2, <3>1 DEF Finds
  <2>3. CASE goal \in Entered(from)
    <3>1. p = TraceBack(from, start)[[cell |-> goal, path |-> <<>>]]
      BY <1>2, <2>3 DEF Reconstruct
    <3>2. Leads(free, start, p, goal) /\ Len(p) <= depth[goal]
      BY <2>1, <2>3, <3>1, TraceLeads
    <3>3. p # <<>>
      BY <1>2, <3>2 DEF Leads
    <3>4. p # NoPath
      <4>1. Nowhere \notin free
        <5>1. free \subseteq Nat \X Nat
          BY DEF Setting
        <5> QED
          BY <5>1 DEF Nowhere
      <4>2. p \in Seq(free) /\ p[1] \in free
        BY <3>2, <3>3 DEF Leads
      <4> QED
        BY <4>1, <4>2 DEF NoPath
    <3>5. ASSUME NEW n \in Nat, goal \in Ball(free, start, n)
          PROVE  den * Len(p) <= num * n
      <4>1. Len(p) \in Nat /\ depth[goal] \in Nat
        BY <2>1, <2>3, <3>2 DEF Leads, Tree
      <4>2. den * depth[goal] <= num * n
        BY <2>1, <2>3, <3>5
      <4>3. den * Len(p) <= den * depth[goal]
        BY <3>2, <4>1, ProductGrows
      <4>4. den * Len(p) \in Nat /\ den * depth[goal] \in Nat /\ num * n \in Nat
        BY <4>1, ProductIsNat
      <4> QED
        BY <4>2, <4>3, <4>4
    <3> QED
      BY <1>2, <3>2, <3>3, <3>4, <3>5 DEF Finds
  <2> QED
    BY <2>2, <2>3
<1> QED
  BY <1>1, <1>2

LEMMA FindsIsPlan ==
  ASSUME NEW free, IsFiniteSet(free), NEW start, NEW goal, NEW num \in Nat,
         NEW den \in Nat, NEW p, Finds(p, free, start, goal, num, den)
  PROVE  IsPlan(p, free, start, goal, num, den)
<1> DEFINE limit == Cardinality(free)
<1>1. limit \in Nat
  BY FS_CardinalityType
<1> HIDE DEF limit
<1>2. \A n \in Nat : WithinSteps(free, start, n) = Ball(free, start, n)
  BY WithinStepsIsBall
<1>3. CASE p = NoPath
  <2>1. goal \notin WithinSteps(free, start, limit)
    BY <1>1, <1>2, <1>3 DEF Finds
  <2> QED
    BY <1>3, <2>1 DEF IsPlan, limit
<1>4. CASE p # NoPath
  <2>1. /\ p \in Seq(free) /\ Len(p) \in Nat /\ DOMAIN p = 1..Len(p)
        /\ p = <<>> <=> start = goal
        /\ p # <<>> => Adjacent(start, p[1]) /\ p[Len(p)] = goal
        /\ \A i \in 1..Len(p) : i > 1 => Adjacent(p[i - 1], p[i])
    BY <1>4 DEF Finds, Leads
  <2>2. IsRoute(p, free, start, goal)
    <3>1. \A i \in DOMAIN p : p[i] \in free
      BY <2>1
    <3> QED
      BY <2>1, <3>1 DEF IsRoute, Last
  <2>3. ASSUME NEW n \in 0..limit, goal \in WithinSteps(free, start, n)
        PROVE  den * Len(p) <= num * n
    <3>1. n \in Nat /\ goal \in Ball(free, start, n)
      BY <1>1, <1>2, <2>3
    <3> QED
      BY <1>4, <3>1 DEF Finds
  <2> QED
    BY <1>4, <2>2, <2>3 DEF IsPlan, limit
<1> QED
  BY <1>3, <1>4

LEMMA FreeFinite ==
  ASSUME NEW open, IsFiniteSet(open), NEW start, NEW goal, NEW blocked
  PROVE  IsFiniteSet(Free(open, start, goal, blocked))
<1>1. Free(open, start, goal, blocked) \subseteq open
  BY DEF Free
<1> QED
  BY <1>1, FS_Subset

LEMMA BFSPathFinds ==
  ASSUME NEW open, IsFiniteSet(open), open \subseteq Nat \X Nat,
         NEW start \in open, NEW goal \in open, NEW blocked
  PROVE  Finds(BFSPath(open, start, goal, blocked), Free(open, start, goal, blocked),
               start, goal, 1, 1)
<1> DEFINE free == Free(open, start, goal, blocked)
           p == BFSPath(open, start, goal, blocked)
           from == BFSSearch(open, free, goal)[FirstSearch(start)]
<1>1. Setting(open, free, start, goal)
  BY DEF Setting, Free
<1>2. p = IF start = goal THEN <<>> ELSE Reconstruct(from, start, goal)
  BY DEF BFSPath, Plan, FirstSearch
<1>3. SearchDone(free, start, goal, 1, 1, from)
  BY <1>1, SearchCompletes
<1> HIDE DEF p, free, from
<1>4. Finds(p, free, start, goal, 1, 1)
  BY <1>1, <1>2, <1>3, PlanFinds
<1> QED
  BY <1>4 DEF p, free

\* Asked for a way between two cells of any finite floor, with any cells to be
\* avoided, the breadth-first planner returns a route through free cells with
\* the fewest steps there can be, and None only if there is no way.
THEOREM BFSDelivers ==
  ASSUME NEW open, IsFiniteSet(open), open \subseteq Nat \X Nat,
         NEW start \in open, NEW goal \in open, NEW blocked
  PROVE  IsPlan(BFSPath(open, start, goal, blocked), Free(open, start, goal, blocked),
                start, goal, 1, 1)
BY BFSPathFinds, FindsIsPlan, FreeFinite

-----------------------------------------------------------------------------
(* A*.                                                                     *)

\* The distance the heuristic measures grows by at most one with a step.
LEMMA ManhattanGrows ==
  ASSUME NEW a \in Nat \X Nat, NEW b \in Nat \X Nat, NEW c \in Nat \X Nat
  PROVE  /\ Manhattan(a, b) \in Nat /\ Manhattan(a, a) = 0
         /\ Adjacent(b, c) => Manhattan(a, c) <= Manhattan(a, b) + 1
<1>1. PICK x \in Nat, y \in Nat : a = <<x, y>>
  OBVIOUS
<1>2. PICK u \in Nat, v \in Nat : b = <<u, v>>
  OBVIOUS
<1>3. PICK p \in Nat, q \in Nat : c = <<p, q>>
  OBVIOUS
<1> QED
  BY <1>1, <1>2, <1>3 DEF Adjacent, Manhattan, AbsDiff

\* The entry that leaves a heap has the least f.
LEMMA PopIsLeast ==
  ASSUME NEW heap, heap # {}, \A e \in heap : e[1] \in Nat /\ e[2] \in Nat
  PROVE  Pop(heap) \in heap /\ \A d \in heap : Pop(heap)[1] <= d[1]
<1> DEFINE f == [e \in heap |-> e[1]]
           age == [e \in heap |-> e[2]]
<1>1. PICK a \in heap : \A d \in heap : a[1] <= d[1]
  <2>1. \A e \in heap : f[e] \in Nat
    OBVIOUS
  <2> HIDE DEF f
  <2>2. \E a \in heap : \A d \in heap : f[a] <= f[d]
    BY <2>1, LeastMeasure
  <2> QED
    BY <2>2 DEF f
<1> DEFINE ties == {e \in heap : e[1] = a[1]}
<1>2. PICK b \in ties : \A d \in ties : b[2] <= d[2]
  <2>1. (\A e \in ties : age[e] \in Nat) /\ ties # {}
    OBVIOUS
  <2>2. \A e \in ties : age[e] = e[2]
    OBVIOUS
  <2> HIDE DEF age, ties
  <2>3. \E b \in ties : \A d \in ties : age[b] <= age[d]
    BY <2>1, LeastMeasure
  <2> QED
    BY <2>2, <2>3
<1>3. b \in heap /\ \A d \in heap : b[1] < d[1] \/ (b[1] = d[1] /\ b[2] <= d[2])
  BY <1>1, <1>2
<1> DEFINE e == Pop(heap)
<1>4. e \in heap /\ \A d \in heap : e[1] < d[1] \/ (e[1] = d[1] /\ e[2] <= d[2])
  BY <1>3 DEF Pop
<1> HIDE DEF e
<1>5. \A d \in heap : e[1] <= d[1]
  BY <1>4
<1> QED
  BY <1>4, <1>5 DEF e

\* An expansion, in parts: the entry popped, the cells found, and what becomes
\* of the entries of g_score and came_from.
Popped(s) == Pop(s.heap)
Bettered(free, s) ==
  IF Latest(s, Popped(s))
  THEN Found(Shorter(free, s.g, Popped(s)[3] + 1), Around(Popped(s)[4])) ELSE <<>>
Entry(goal, num, den, s, found, i) ==
  LET n == Popped(s)[3] + 1
  IN  <<Score(goal, num, den, n, found[i]), s.counter + i, n, found[i]>>

LEMMA ExpandIs ==
  ASSUME NEW free, NEW goal, NEW num, NEW den, NEW s
  PROVE  LET found == Bettered(free, s)
             fs == ToSet(found)
             e == Popped(s)
         IN  Expand(free, goal, num, den, s) =
             [heap |-> (s.heap \ {e}) \union
                       {Entry(goal, num, den, s, found, i) : i \in DOMAIN found},
              counter |-> s.counter + Len(found),
              g    |-> {x \in s.g : x[1] \notin fs} \union {<<d, e[3] + 1>> : d \in fs},
              from |-> {x \in s.from : x[1] \notin fs} \union {<<d, e[4]>> : d \in fs}]
BY DEF Expand, Bettered, Popped, Entry

LEMMA BetteredAre ==
  ASSUME NEW open, NEW free, NEW start, NEW goal, Setting(open, free, start, goal),
         NEW s \in Guided(open), s.heap # {}
  PROVE  LET e == Popped(s)
             found == Bettered(free, s)
         IN  /\ e \in s.heap /\ \A d \in s.heap : e[1] <= d[1]
             /\ e[3] \in Nat /\ e[4] \in open
             /\ found \in Seq(free) /\ Len(found) <= 4
             /\ \A d : d \in ToSet(found)
                  <=> /\ Latest(s, e) /\ d \in free /\ Adjacent(e[4], d)
                      /\ \A x \in s.g : x[1] = d => e[3] + 1 < x[2]
<1> DEFINE e == Popped(s)
           F == Shorter(free, s.g, e[3] + 1)
           found == Bettered(free, s)
<1>1. s.heap \subseteq Nat \X Nat \X Nat \X open
  BY DEF Guided
<1>2. \A d \in s.heap : d[1] \in Nat /\ d[2] \in Nat /\ d[3] \in Nat /\ d[4] \in open
  BY <1>1
<1>3. e \in s.heap /\ \A d \in s.heap : e[1] <= d[1]
  BY <1>2, PopIsLeast DEF Popped
<1>4. F \in SUBSET (Nat \X Nat) /\ F \subseteq free /\ e[4] \in Nat \X Nat
  <2>1. e[4] \in open /\ open \subseteq Nat \X Nat /\ free \subseteq open
    BY <1>2, <1>3 DEF Setting
  <2>2. F \subseteq free
    BY DEF Shorter
  <2> HIDE DEF e, F
  <2> QED
    BY <2>1, <2>2
<1>5. \A d : d \in F <=> d \in free /\ \A x \in s.g : x[1] = d => e[3] + 1 < x[2]
  BY DEF Shorter
<1>6. found = IF Latest(s, e) THEN Found(F, Around(e[4])) ELSE <<>>
  BY DEF Bettered
<1> HIDE DEF e, F, found
<1>7. CASE Latest(s, e)
  <2>1. /\ found \in Seq(F) /\ Len(found) <= 4
        /\ \A d : d \in ToSet(found) <=> d \in F /\ Adjacent(e[4], d)
    BY <1>4, <1>6, <1>7, FoundAround
  <2>2. found \in Seq(free)
    BY <1>4, <2>1
  <2> QED
    BY <1>2, <1>3, <1>5, <1>7, <2>1, <2>2 DEF e, found
<1>8. CASE ~Latest(s, e)
  <2>1. found = <<>> /\ ToSet(found) = {} /\ found \in Seq(free) /\ Len(found) <= 4
    BY <1>6, <1>8 DEF ToSet
  <2> QED
    BY <1>2, <1>3, <1>8, <2>1 DEF e, found
<1> QED
  BY <1>7, <1>8

LEMMA ScoreIsNat ==
  ASSUME NEW goal \in Nat \X Nat, NEW c \in Nat \X Nat,
         NEW num \in Nat, NEW den \in Nat, NEW n \in Nat
  PROVE  Score(goal, num, den, n, c) \in Nat
<1>1. Manhattan(c, goal) \in Nat
  BY ManhattanGrows
<1>2. den * n \in Nat /\ num * Manhattan(c, goal) \in Nat
  BY <1>1, ProductIsNat
<1> QED
  BY <1>2 DEF Score

LEMMA ExpandInGuided ==
  ASSUME NEW open, NEW free, NEW start, NEW goal, Setting(open, free, start, goal),
         NEW num \in Nat, NEW den \in Nat, NEW s \in Guided(open), s.heap # {}
  PROVE  Expand(free, goal, num, den, s) \in Guided(open)
<1> DEFINE e == Popped(s)
           found == Bettered(free, s)
           fs == ToSet(found)
           entry(i) == Entry(goal, num, den, s, found, i)
           t == Expand(free, goal, num, den, s)
<1>1. /\ e[3] \in Nat /\ e[4] \in open
      /\ found \in Seq(free)
  BY BetteredAre, Zenon
<1>2. /\ free \subseteq open /\ open \subseteq Nat \X Nat /\ goal \in Nat \X Nat
  BY DEF Setting
<1>3. /\ s.heap \in SUBSET (Nat \X Nat \X Nat \X open) /\ s.counter \in Nat
      /\ s.g \in SUBSET (open \X Nat) /\ s.from \in CameFrom(open)
  BY DEF Guided
<1>4. /\ t.heap = (s.heap \ {e}) \union {entry(i) : i \in DOMAIN found}
      /\ t.counter = s.counter + Len(found)
      /\ t.g = {x \in s.g : x[1] \notin fs} \union {<<d, e[3] + 1>> : d \in fs}
      /\ t.from = {x \in s.from : x[1] \notin fs} \union {<<d, e[4]>> : d \in fs}
      /\ t = [heap |-> t.heap, counter |-> t.counter, g |-> t.g, from |-> t.from]
  BY ExpandIs
<1>5. fs \subseteq free /\ Len(found) \in Nat /\ \A i \in DOMAIN found : i \in Nat /\ found[i] \in free
  <2> HIDE DEF found
  <2> QED
    BY <1>1 DEF ToSet
<1>6. \A i \in DOMAIN found : entry(i) \in Nat \X Nat \X Nat \X open
  <2> TAKE i \in DOMAIN found
  <2>1. found[i] \in open /\ found[i] \in Nat \X Nat /\ i \in Nat
    BY <1>2, <1>5
  <2>2. e[3] + 1 \in Nat /\ s.counter + i \in Nat
    BY <1>1, <1>3, <2>1
  <2>3. Score(goal, num, den, e[3] + 1, found[i]) \in Nat
    BY <1>2, <2>1, <2>2, ScoreIsNat
  <2> HIDE DEF e, found
  <2> QED
    BY <2>1, <2>2, <2>3 DEF Entry, e
<1> HIDE DEF e, found, fs, entry, t
<1>7. t.heap \in SUBSET (Nat \X Nat \X Nat \X open)
  BY <1>3, <1>4, <1>6
<1>8. t.counter \in Nat
  BY <1>3, <1>4, <1>5
<1>9. t.g \in SUBSET (open \X Nat)
  <2>1. e[3] + 1 \in Nat /\ \A d \in fs : d \in open
    BY <1>1, <1>2, <1>5
  <2>2. \A d \in fs : <<d, e[3] + 1>> \in open \X Nat
    BY <2>1
  <2> QED
    BY <1>3, <1>4, <2>2
<1>10. t.from \in CameFrom(open)
  BY <1>1, <1>2, <1>3, <1>4, <1>5 DEF CameFrom
<1>11. t \in Guided(open)
  BY <1>4, <1>7, <1>8, <1>9, <1>10 DEF Guided
<1> QED
  BY <1>11 DEF t

\* What A* knows at any time: g_score has the length of a way to every cell that
\* was reached, along came_from or shorter, and fewer steps than there are such
\* cells; f is the length of the way and the weighted distance that is left; and
\* every cell reached waits in the heap with its best way, or it is settled: its
\* free neighbours can be reached in a step more.
Waits(s, score, c) == \E e \in s.heap : e[4] = c /\ e[3] = score[c]
Settled(free, goal, s, score, c) ==
  /\ c # goal
  /\ \A d \in free : Adjacent(c, d) =>
       d \in Entered(s.from) /\ score[d] <= score[c] + 1

Guides(free, start, goal, num, den, s, score) ==
  LET cells == Entered(s.from)
  IN  /\ Tree(free, start, s.from, score)
      /\ s.g = {<<c, score[c]>> : c \in cells}
      /\ \A c \in cells : score[c] < Cardinality(cells)
      /\ IsFiniteSet(s.heap)
      /\ \A e \in s.heap : e[4] \in cells /\ e[1] = Score(goal, num, den, e[3], e[4])
      /\ \A c \in cells : Waits(s, score, c) \/ Settled(free, goal, s, score, c)

\* came_from and g_score after an expansion from cell c, when the cells fs are
\* reached in n steps.
Reached(from, fs, c) == {x \in from : x[1] \notin fs} \union {<<d, c>> : d \in fs}
Rescored(from, score, fs, n) ==
  [x \in Entered(from) \union fs |-> IF x \in fs THEN n ELSE score[x]]

LEMMA TreeGrows ==
  ASSUME NEW free, NEW start \in free, NEW from, NEW score, Tree(free, start, from, score),
         NEW fs \in SUBSET free, NEW c, NEW n \in Nat, c \in Entered(from),
         fs # {} => n = score[c] + 1, start \notin fs, c \notin fs,
         \A d \in fs : Adjacent(c, d) /\ (d \in Entered(from) => n < score[d])
  PROVE  /\ Entered(Reached(from, fs, c)) = Entered(from) \union fs
         /\ Tree(free, start, Reached(from, fs, c), Rescored(from, score, fs, n))
<1> DEFINE cells == Entered(from)
           kept == {x \in from : x[1] \notin fs}
           more == kept \union {<<d, c>> : d \in fs}
           cells2 == cells \union fs
           new == [x \in cells2 |-> IF x \in fs THEN n ELSE score[x]]
<1>1. Entered(more) = cells2
  <2>1. ASSUME NEW e \in more PROVE e[1] \in cells2
    BY DEF Entered
  <2>2. ASSUME NEW x \in fs PROVE \E e \in more : e[1] = x
    <3>1. <<x, c>> \in more /\ <<x, c>>[1] = x
      OBVIOUS
    <3> QED
      BY <3>1, Zenon
  <2>3. ASSUME NEW x \in cells \ fs PROVE \E e \in more : e[1] = x
    <3>1. PICK e \in from : e[1] = x
      BY DEF Entered
    <3>2. e \in kept
      BY <3>1
    <3> QED
      BY <3>1, <3>2
  <2>4. \A x : x \in Entered(more) <=> \E e \in more : e[1] = x
    BY DEF Entered
  <2> HIDE DEF more, cells
  <2>5. \A x : x \in Entered(more) <=> x \in cells \/ x \in fs
    BY <2>1, <2>2, <2>3, <2>4
  <2> QED
    BY <2>5
<1>2. /\ \A e, f \in from : e[1] = f[1] => e = f
      /\ score \in [cells -> Nat] /\ start \in cells /\ score[start] = 0
      /\ \A e \in from : e[1] # start =>
           /\ e[1] \in free /\ e[2] \in cells
           /\ Adjacent(e[2], e[1]) /\ score[e[1]] >= score[e[2]] + 1
  BY DEF Tree
<1>3. /\ new \in [cells2 -> Nat] /\ \A x \in cells : new[x] <= score[x]
      /\ \A x \in fs : new[x] = n
      /\ \A x \in cells \ fs : new[x] = score[x]
  BY <1>2
<1>4. \A e, f \in more : e[1] = f[1] => e = f
  <2> SUFFICES ASSUME NEW e \in more, NEW f \in more, e[1] = f[1] PROVE e = f
    OBVIOUS
  <2>1. CASE e[1] \in fs
    <3>1. e \notin kept /\ f \notin kept
      BY <2>1
    <3>2. PICK d \in fs : e = <<d, c>>
      BY <3>1
    <3>3. PICK b \in fs : f = <<b, c>>
      BY <3>1
    <3> QED
      BY <3>2, <3>3
  <2>2. CASE e[1] \notin fs
    <3>1. e \in kept /\ f \in kept
      BY <2>2
    <3> QED
      BY <1>2, <3>1
  <2> QED
    BY <2>1, <2>2
<1>5. ASSUME NEW e \in more, e[1] # start
      PROVE  /\ e[1] \in free /\ e[2] \in cells2
             /\ Adjacent(e[2], e[1]) /\ new[e[1]] >= new[e[2]] + 1
  <2>1. CASE e \in kept
    <3>1. e \in from /\ e[1] \in cells /\ e[1] \notin fs
      BY <2>1 DEF Entered
    <3>2. /\ e[1] \in free /\ e[2] \in cells
          /\ Adjacent(e[2], e[1]) /\ score[e[1]] >= score[e[2]] + 1
      BY <1>2, <1>5, <3>1
    <3>3. new[e[1]] = score[e[1]] /\ new[e[2]] <= score[e[2]]
      BY <1>3, <3>1, <3>2
    <3>4. /\ score[e[1]] \in Nat /\ score[e[2]] \in Nat
          /\ new[e[1]] \in Nat /\ new[e[2]] \in Nat /\ e[2] \in cells2
      BY <1>2, <1>3, <3>1, <3>2
    <3>5. new[e[1]] >= new[e[2]] + 1
      <4> HIDE DEF new
      <4> QED
        BY <3>2, <3>3, <3>4
    <3> QED
      BY <3>2, <3>4, <3>5
  <2>2. CASE e \notin kept
    <3>1. PICK d \in fs : e = <<d, c>>
      BY <2>2
    <3>2. e[1] = d /\ e[2] = c /\ d \in free /\ Adjacent(c, d) /\ c \in cells
      BY <3>1
    <3>3. new[d] = n /\ new[c] = score[c] /\ n = score[c] + 1
      BY <1>3, <3>2
    <3>4. new[d] >= new[c] + 1
      BY <1>3, <3>2, <3>3
    <3> QED
      BY <3>2, <3>4
  <2> QED
    BY <2>1, <2>2
<1>6. start \in cells2 /\ new[start] = 0
  BY <1>2, <1>3
<1>7. Tree(free, start, more, new)
  <2> HIDE DEF more, new, cells2
  <2> QED
    BY <1>1, <1>3, <1>4, <1>5, <1>6 DEF Tree
<1> QED
  BY <1>1, <1>7 DEF Reached, Rescored

LEMMA ImageFinite ==
  ASSUME NEW S, IsFiniteSet(S), NEW f
  PROVE  /\ IsFiniteSet({f[x] : x \in S})
         /\ Cardinality({f[x] : x \in S}) <= Cardinality(S)
<1> DEFINE T == {f[x] : x \in S}
           g == [x \in S |-> f[x]]
<1>1. g \in [S -> T] /\ \A y \in T : \E x \in S : g[x] = y
  OBVIOUS
<1>2. g \in Surjection(S, T)
  BY <1>1 DEF Surjection
<1> HIDE DEF T, g
<1>3. IsFiniteSet(T) /\ Cardinality(T) <= Cardinality(S)
  BY <1>2, FS_Surjection
<1> QED
  BY <1>3 DEF T

LEMMA ExpandKeeps ==
  ASSUME NEW open, NEW free, NEW start, NEW goal, Setting(open, free, start, goal),
         NEW num \in Nat, NEW den \in Nat, NEW s \in Guided(open), NEW score,
         Guides(free, start, goal, num, den, s, score), s.heap # {}, ~AtGoal(s, goal)
  PROVE  \E new : Guides(free, start, goal, num, den,
                         Expand(free, goal, num, den, s), new)
<1> DEFINE e == Popped(s)
           c == e[4]
           n == e[3] + 1
           found == Bettered(free, s)
           fs == ToSet(found)
           entry(i) == Entry(goal, num, den, s, found, i)
           cells == Entered(s.from)
           cells2 == cells \union fs
           new == [x \in cells2 |-> IF x \in fs THEN n ELSE score[x]]
           t == Expand(free, goal, num, den, s)
<1>1. /\ e \in s.heap /\ e[3] \in Nat /\ n \in Nat
      /\ found \in Seq(free)
      /\ \A d : d \in fs <=> /\ Latest(s, e) /\ d \in free /\ Adjacent(c, d)
                             /\ \A x \in s.g : x[1] = d => n < x[2]
  <2>1. /\ e \in s.heap /\ e[3] \in Nat
        /\ found \in Seq(free)
        /\ \A d : d \in fs <=> /\ Latest(s, e) /\ d \in free /\ Adjacent(c, d)
                               /\ \A x \in s.g : x[1] = d => n < x[2]
    BY BetteredAre, Zenon
  <2> HIDE DEF e
  <2> QED
    BY <2>1
<1>2. /\ t.heap = (s.heap \ {e}) \union {entry(i) : i \in DOMAIN found}
      /\ t.g = {x \in s.g : x[1] \notin fs} \union {<<d, n>> : d \in fs}
      /\ t.from = {x \in s.from : x[1] \notin fs} \union {<<d, c>> : d \in fs}
  BY ExpandIs
<1>3. /\ Tree(free, start, s.from, score) /\ score \in [cells -> Nat]
      /\ start \in cells /\ score[start] = 0
      /\ s.g = {<<x, score[x]>> : x \in cells}
      /\ \A x \in cells : score[x] < Cardinality(cells)
      /\ IsFiniteSet(s.heap)
      /\ \A d \in s.heap : d[4] \in cells /\ d[1] = Score(goal, num, den, d[3], d[4])
      /\ \A x \in cells : Waits(s, score, x) \/ Settled(free, goal, s, score, x)
  BY DEF Guides, Tree
<1>4. /\ start \in free /\ free \subseteq Nat \X Nat /\ IsFiniteSet(free)
      /\ cells \subseteq free
  <2>1. start \in free /\ free \subseteq Nat \X Nat /\ IsFiniteSet(free)
    BY FS_Subset DEF Setting
  <2> QED
    BY <1>3, <2>1, EnteredAreFree
<1>5. c \in cells /\ (Latest(s, e) <=> e[3] = score[c]) /\ ~(Latest(s, e) /\ c = goal)
  <2>1. c \in cells
    BY <1>1, <1>3
  <2>2. Latest(s, e) <=> e[3] = score[c]
    BY <1>3, <2>1 DEF Latest
  <2>3. ~(Latest(s, e) /\ c = goal)
    BY DEF AtGoal, Popped
  <2> QED
    BY <2>1, <2>2, <2>3
<1> HIDE DEF e, found, entry, t
<1>6. \A d : d \in fs <=> /\ Latest(s, e) /\ d \in free /\ Adjacent(c, d)
                          /\ d \in cells => n < score[d]
  <2> TAKE d
  <2>1. (\A x \in s.g : x[1] = d => n < x[2]) <=> (d \in cells => n < score[d])
    <3>1. d \in cells => <<d, score[d]>> \in s.g
      BY <1>3
    <3>2. \A x \in s.g : x[1] \in cells /\ x[2] = score[x[1]]
      BY <1>3
    <3> QED
      BY <3>1, <3>2
  <2> QED
    BY <1>1, <2>1
<1>7. /\ fs \subseteq free /\ start \notin fs /\ c \notin fs
      /\ fs # {} => n = score[c] + 1
  <2>1. ~Adjacent(c, c)
    BY <1>4, <1>5, ManhattanGrows DEF Adjacent
  <2>2. fs # {} => Latest(s, e)
    BY <1>6
  <2>3. ~(n < 0)
    BY <1>1
  <2> HIDE DEF fs, c
  <2> QED
    BY <1>3, <1>5, <1>6, <2>1, <2>2, <2>3
<1>8. Entered(t.from) = cells2 /\ Tree(free, start, t.from, new)
  <2>1. \A d \in fs : Adjacent(c, d) /\ (d \in cells => n < score[d])
    BY <1>6
  <2> HIDE DEF fs, c, n
  <2>2. /\ start \in free /\ Tree(free, start, s.from, score) /\ fs \in SUBSET free
        /\ n \in Nat /\ c \in Entered(s.from) /\ (fs # {} => n = score[c] + 1)
        /\ start \notin fs /\ c \notin fs
        /\ \A d \in fs : Adjacent(c, d) /\ (d \in Entered(s.from) => n < score[d])
    BY <1>1, <1>3, <1>4, <1>5, <1>7, <2>1
  <2>3. /\ Entered(Reached(s.from, fs, c)) = Entered(s.from) \union fs
        /\ Tree(free, start, Reached(s.from, fs, c), Rescored(s.from, score, fs, n))
    BY <2>2, TreeGrows, Zenon
  <2>4. new = Rescored(s.from, score, fs, n) /\ t.from = Reached(s.from, fs, c)
    BY <1>2 DEF Reached, Rescored
  <2> HIDE DEF new
  <2> QED
    BY <2>3, <2>4
<1>9. /\ new \in [cells2 -> Nat] /\ \A x \in cells : new[x] <= score[x]
      /\ \A x \in fs : new[x] = n
      /\ \A x \in cells \ fs : new[x] = score[x]
  <2>1. n \in Nat /\ \A x \in fs \cap cells : n < score[x]
    BY <1>1, <1>6
  <2> HIDE DEF fs, n
  <2> QED
    BY <1>3, <2>1
<1>10. t.g = {<<x, new[x]>> : x \in cells2}
  <2>1. ASSUME NEW x \in t.g PROVE x \in {<<y, new[y]>> : y \in cells2}
    <3>1. CASE x \in s.g /\ x[1] \notin fs
      <4>1. PICK y \in cells : x = <<y, score[y]>>
        BY <1>3, <3>1
      <4>2. new[y] = score[y]
        BY <1>9, <3>1, <4>1
      <4> QED
        BY <4>1, <4>2
    <3>2. ASSUME NEW d \in fs, x = <<d, n>> PROVE x \in {<<y, new[y]>> : y \in cells2}
      BY <1>9, <3>2
    <3> HIDE DEF fs, n
    <3> QED
      BY <1>2, <2>1, <3>1, <3>2
  <2>2. ASSUME NEW y \in cells2 PROVE <<y, new[y]>> \in t.g
    <3>1. CASE y \in fs
      BY <1>2, <1>9, <3>1
    <3>2. CASE y \notin fs
      <4>1. <<y, score[y]>> \in s.g /\ new[y] = score[y]
        BY <1>3, <1>9, <3>2
      <4>2. <<y, score[y]>>[1] = y
        OBVIOUS
      <4> HIDE DEF fs, n
      <4> QED
        BY <1>2, <3>2, <4>1, <4>2
    <3> QED
      BY <3>1, <3>2
  <2> HIDE DEF new, cells2
  <2> QED
    BY <2>1, <2>2
<1>11. ASSUME NEW x \in cells2 PROVE new[x] < Cardinality(cells2)
  <2>1. /\ IsFiniteSet(cells2) /\ IsFiniteSet(cells)
        /\ Cardinality(cells) \in Nat /\ Cardinality(cells2) \in Nat
        /\ Cardinality(cells) <= Cardinality(cells2)
        /\ Cardinality(cells) = Cardinality(cells2) => cells = cells2
    <3>1. cells2 \subseteq free /\ cells \in SUBSET cells2
      BY <1>4, <1>7
    <3>2. IsFiniteSet(cells2)
      BY <1>4, <3>1, FS_Subset
    <3> HIDE DEF cells, cells2
    <3> QED
      BY <3>1, <3>2, FS_Subset, FS_CardinalityType
  <2>2. CASE x \in cells
    <3>1. score[x] < Cardinality(cells) /\ new[x] <= score[x]
          /\ score[x] \in Nat /\ new[x] \in Nat
      BY <1>3, <1>9, <2>2
    <3> HIDE DEF new, cells, cells2
    <3> QED
      BY <2>1, <3>1
  <2>3. CASE x \notin cells
    <3>1. x \in fs /\ cells # cells2
      BY <2>3
    <3>2. new[x] = score[c] + 1 /\ score[c] < Cardinality(cells) /\ score[c] \in Nat
      BY <1>3, <1>5, <1>7, <1>9, <3>1
    <3> HIDE DEF new, cells, cells2, fs, c, n
    <3> QED
      BY <2>1, <3>1, <3>2
  <2> QED
    BY <2>2, <2>3
<1>12. DOMAIN found = 1..Len(found) /\ Len(found) \in Nat
       /\ (\A i \in DOMAIN found : found[i] \in fs) /\ \A d \in fs : \E i \in DOMAIN found : found[i] = d
  BY <1>1 DEF ToSet
<1>13. IsFiniteSet(t.heap)
  <2> DEFINE f == [i \in DOMAIN found |-> entry(i)]
             E == {f[i] : i \in DOMAIN found}
             H == s.heap \ {e}
  <2>1. IsFiniteSet(DOMAIN found)
    BY <1>12, FS_Interval
  <2>2. t.heap = H \union E
    BY <1>2
  <2> HIDE DEF f
  <2>3. IsFiniteSet(E)
    BY <2>1, ImageFinite
  <2>4. IsFiniteSet(H)
    BY <1>3, FS_Difference
  <2> HIDE DEF E, H
  <2> QED
    BY <2>2, <2>3, <2>4, FS_Union
<1>14. \A i : entry(i)[1] = Score(goal, num, den, n, found[i])
              /\ entry(i)[3] = n /\ entry(i)[4] = found[i]
  BY DEF Entry, entry, e
<1>15. ASSUME NEW d \in t.heap
       PROVE  d[4] \in cells2 /\ d[1] = Score(goal, num, den, d[3], d[4])
  <2>1. CASE d \in s.heap
    BY <1>3, <2>1
  <2>2. ASSUME NEW i \in DOMAIN found, d = entry(i)
        PROVE  d[4] \in cells2 /\ d[1] = Score(goal, num, den, d[3], d[4])
    BY <1>12, <1>14, <2>2
  <2> QED
    BY <1>2, <1>15, <2>1, <2>2
<1>16. ASSUME NEW x \in cells2
       PROVE  Waits(t, new, x) \/ Settled(free, goal, t, new, x)
  <2>1. CASE x \in fs
    <3>1. PICK i \in DOMAIN found : found[i] = x
      BY <1>12, <2>1
    <3>2. entry(i) \in t.heap /\ entry(i)[4] = x /\ entry(i)[3] = new[x]
      BY <1>2, <1>9, <1>14, <2>1, <3>1
    <3> QED
      BY <3>2 DEF Waits
  <2>2. CASE x \notin fs /\ Settled(free, goal, s, score, x)
    <3>1. x # goal /\ x \in cells /\ new[x] = score[x]
      BY <1>9, <2>2 DEF Settled
    <3>2. ASSUME NEW d \in free, Adjacent(x, d)
          PROVE  d \in cells2 /\ new[d] <= new[x] + 1
      <4>1. d \in cells /\ score[d] <= score[x] + 1
        BY <2>2, <3>2 DEF Settled
      <4>2. new[d] <= score[d] /\ new[d] \in Nat /\ score[d] \in Nat /\ score[x] \in Nat
        BY <1>3, <1>9, <3>1, <4>1
      <4> HIDE DEF new
      <4> QED
        BY <3>1, <4>1, <4>2
    <3> HIDE DEF new, cells2
    <3> QED
      BY <1>8, <3>1, <3>2 DEF Settled
  <2>3. ASSUME x \notin fs, NEW q \in s.heap, q[4] = x, q[3] = score[x], q # e
        PROVE  Waits(t, new, x)
    <3>1. q \in t.heap /\ new[x] = score[x]
      BY <1>2, <1>9, <2>3
    <3> QED
      BY <2>3, <3>1 DEF Waits
  <2>4. ASSUME x \notin fs, e[4] = x, e[3] = score[x]
        PROVE  Settled(free, goal, t, new, x)
    <3>1. Latest(s, e) /\ x # goal /\ x = c /\ x \in cells
      BY <1>5, <2>4
    <3>2. n = new[x] + 1 /\ n \in Nat
      BY <1>1, <1>9, <2>4, <3>1
    <3>3. ASSUME NEW d \in free, Adjacent(x, d)
          PROVE  d \in cells2 /\ new[d] <= new[x] + 1
      <4>1. CASE d \in fs
        BY <1>9, <3>2, <4>1
      <4>2. CASE d \notin fs
        <5>1. d \in cells /\ ~(n < score[d])
          BY <1>6, <3>1, <3>3, <4>2
        <5>2. new[d] = score[d] /\ score[d] \in Nat
          BY <1>3, <1>9, <4>2, <5>1
        <5> HIDE DEF new, n
        <5> QED
          BY <3>2, <5>1, <5>2
      <4> QED
        BY <4>1, <4>2
    <3> HIDE DEF new, cells2
    <3> QED
      BY <1>8, <3>1, <3>3 DEF Settled
  <2>5. CASE x \notin fs /\ ~Settled(free, goal, s, score, x)
    <3>1. PICK q \in s.heap : q[4] = x /\ q[3] = score[x]
      BY <1>3, <2>5 DEF Waits
    <3> QED
      BY <2>3, <2>4, <2>5, <3>1
  <2> QED
    BY <2>1, <2>2, <2>5
<1>17. Guides(free, start, goal, num, den, t, new)
  <2> HIDE DEF new, cells2
  <2> QED
    BY <1>8, <1>10, <1>11, <1>13, <1>15, <1>16 DEF Guides
<1> QED
  BY <1>17 DEF t

\* An expansion shortens the heap, or takes one of the lengths that a better way
\* to some cell could have: it lessens this number.
Hopes(free, s) ==
  {p \in free \X (0..Cardinality(free)) : \A x \in s.g : x[1] = p[1] => p[2] < x[2]}
AStarToDo(free, s) == Cardinality(s.heap) + 5 * Cardinality(Hopes(free, s))

LEMMA UpToFinite ==
  ASSUME NEW n \in Nat
  PROVE  IsFiniteSet(1..n) /\ Cardinality(1..n) = n
BY FS_Interval

LEMMA HopesFinite ==
  ASSUME NEW open, NEW free, NEW start, NEW goal, Setting(open, free, start, goal), NEW s
  PROVE  IsFiniteSet(Hopes(free, s)) /\ Cardinality(Hopes(free, s)) \in Nat
<1>1. IsFiniteSet(free)
  BY FS_Subset DEF Setting
<1>2. IsFiniteSet(0..Cardinality(free))
  BY <1>1, FS_CardinalityType, FS_Interval
<1>3. IsFiniteSet(free \X (0..Cardinality(free)))
  BY <1>1, <1>2, FS_Product
<1>4. Hopes(free, s) \subseteq free \X (0..Cardinality(free))
  BY DEF Hopes
<1> QED
  BY <1>3, <1>4, FS_Subset, FS_CardinalityType

LEMMA AStarToDoIsNat ==
  ASSUME NEW open, NEW free, NEW start, NEW goal, Setting(open, free, start, goal),
         NEW s, IsFiniteSet(s.heap)
  PROVE  AStarToDo(free, s) \in Nat
<1>1. Cardinality(s.heap) \in Nat /\ Cardinality(Hopes(free, s)) \in Nat
  BY HopesFinite, FS_CardinalityType
<1> QED
  BY <1>1 DEF AStarToDo

LEMMA ExpandLessens ==
  ASSUME NEW open, NEW free, NEW start, NEW goal, Setting(open, free, start, goal),
         NEW num \in Nat, NEW den \in Nat, NEW s \in Guided(open), NEW score,
         Guides(free, start, goal, num, den, s, score), s.heap # {}
  PROVE  AStarToDo(free, Expand(free, goal, num, den, s)) < AStarToDo(free, s)
<1> DEFINE e == Popped(s)
           c == e[4]
           n == e[3] + 1
           found == Bettered(free, s)
           fs == ToSet(found)
           entry(i) == Entry(goal, num, den, s, found, i)
           t == Expand(free, goal, num, den, s)
           H == s.heap \ {e}
           f == [i \in DOMAIN found |-> entry(i)]
           E == {f[i] : i \in DOMAIN found}
           cells == Entered(s.from)
<1>1. /\ e \in s.heap /\ e[3] \in Nat
      /\ found \in Seq(free) /\ Len(found) <= 4
      /\ \A d : d \in fs <=> /\ Latest(s, e) /\ d \in free /\ Adjacent(c, d)
                             /\ \A x \in s.g : x[1] = d => e[3] + 1 < x[2]
  BY BetteredAre, Zenon
<1>2. /\ t.heap = H \union E
      /\ t.g = {x \in s.g : x[1] \notin fs} \union {<<d, n>> : d \in fs}
  <2>1. /\ t.heap = (s.heap \ {e}) \union {entry(i) : i \in DOMAIN found}
        /\ t.g = {x \in s.g : x[1] \notin fs} \union {<<d, n>> : d \in fs}
    BY ExpandIs
  <2> HIDE DEF e, found, fs, entry, t
  <2> QED
    BY <2>1
<1>3. IsFiniteSet(s.heap) /\ c \in cells /\ cells \subseteq free /\ IsFiniteSet(free)
      /\ free \subseteq Nat \X Nat
  <2>1. start \in free /\ IsFiniteSet(free) /\ free \subseteq Nat \X Nat
    BY FS_Subset DEF Setting
  <2>2. Tree(free, start, s.from, score) /\ IsFiniteSet(s.heap)
        /\ \A d \in s.heap : d[4] \in cells
    BY DEF Guides
  <2>3. cells \subseteq free
    BY <2>1, <2>2, EnteredAreFree
  <2> HIDE DEF e
  <2> QED
    BY <1>1, <2>1, <2>2, <2>3
<1>4. Latest(s, e) => n <= Cardinality(free) /\ n \in Nat
  <2>1. s.g = {<<x, score[x]>> : x \in cells} /\ score \in [cells -> Nat]
        /\ \A x \in cells : score[x] < Cardinality(cells)
    BY DEF Guides, Tree
  <2>2. Latest(s, e) => e[3] = score[c]
    <3> HIDE DEF e, cells
    <3> QED
      BY <2>1 DEF Latest
  <2> HIDE DEF e, cells
  <2>3. cells \in SUBSET free
    BY <1>3
  <2>4. Cardinality(cells) <= Cardinality(free) /\ Cardinality(cells) \in Nat
        /\ Cardinality(free) \in Nat
    BY <1>3, <2>3, FS_Subset, FS_CardinalityType
  <2>5. score[c] < Cardinality(cells) /\ score[c] \in Nat
    BY <1>3, <2>1
  <2> QED
    BY <1>1, <2>2, <2>4, <2>5
<1> HIDE DEF e, found, t, cells
<1>5. Len(found) \in Nat /\ DOMAIN found = 1..Len(found)
  BY <1>1
<1>6. /\ Cardinality(t.heap) \in Nat /\ Cardinality(s.heap) \in Nat
      /\ Cardinality(t.heap) <= Cardinality(s.heap) - 1 + Len(found)
  <2>1. IsFiniteSet(DOMAIN found) /\ Cardinality(DOMAIN found) = Len(found)
    <3>1. IsFiniteSet(1..Len(found)) /\ Cardinality(1..Len(found)) = Len(found)
      BY <1>5, UpToFinite
    <3> QED
      BY <1>5, <3>1
  <2> HIDE DEF f
  <2>2. IsFiniteSet(E) /\ Cardinality(E) <= Len(found) /\ Cardinality(E) \in Nat
    <3>1. IsFiniteSet(E) /\ Cardinality(E) <= Cardinality(DOMAIN found)
      BY <2>1, ImageFinite
    <3> QED
      BY <2>1, <3>1, FS_CardinalityType
  <2>3. /\ IsFiniteSet(H) /\ Cardinality(H) = Cardinality(s.heap) - 1
        /\ Cardinality(s.heap) \in Nat /\ Cardinality(H) \in Nat
    BY <1>1, <1>3, FS_RemoveElement, FS_CardinalityType
  <2> HIDE DEF E, H
  <2>4. IsFiniteSet(H \union E) /\ IsFiniteSet(H \cap E)
        /\ Cardinality(H \union E) = Cardinality(H) + Cardinality(E) - Cardinality(H \cap E)
    BY <2>2, <2>3, FS_Union, FS_Intersection
  <2>5. Cardinality(H \union E) \in Nat /\ Cardinality(H \cap E) \in Nat
    BY <2>4, FS_CardinalityType
  <2>6. t.heap = H \union E
    BY <1>2
  <2> QED
    BY <1>5, <2>2, <2>3, <2>4, <2>5, <2>6
<1> DEFINE A == Hopes(free, s)
           B == Hopes(free, t)
<1>7. IsFiniteSet(A) /\ Cardinality(A) \in Nat /\ Cardinality(B) \in Nat
  BY HopesFinite
<1>8. B \in SUBSET A
  <2> SUFFICES ASSUME NEW p \in B, NEW x \in s.g, x[1] = p[1] PROVE p[2] < x[2]
    BY DEF Hopes
  <2>1. p[2] \in Nat /\ \A y \in t.g : y[1] = p[1] => p[2] < y[2]
    BY DEF Hopes
  <2>2. CASE x[1] \notin fs
    <3>1. x \in t.g
      BY <1>2, <2>2
    <3> QED
      BY <2>1, <3>1
  <2>3. CASE x[1] \in fs
    <3>1. <<p[1], n>> \in t.g
      BY <1>2, <2>3
    <3>2. p[2] < n
      BY <2>1, <3>1
    <3>3. n < x[2] /\ x[2] \in Nat /\ n \in Nat
      <4>1. x[2] \in Nat
        BY DEF Guided
      <4> QED
        BY <1>1, <2>3, <4>1
    <3> QED
      BY <2>1, <3>2, <3>3
  <2> QED
    BY <2>2, <2>3
<1>9. Cardinality(B) <= Cardinality(A) /\ (Cardinality(A) = Cardinality(B) => A = B)
  <2> HIDE DEF A, B
  <2> QED
    BY <1>7, <1>8, FS_Subset
<1>10. Len(found) # 0 => A # B
  <2> SUFFICES ASSUME Len(found) # 0 PROVE A # B
    OBVIOUS
  <2>1. found[1] \in fs
    BY <1>5 DEF ToSet
  <2>2. PICK d \in fs : TRUE
    BY <2>1
  <2>3. /\ Latest(s, e) /\ d \in free
        /\ \A x \in s.g : x[1] = d => n < x[2]
    BY <1>1
  <2>4. n \in 0..Cardinality(free)
    BY <1>3, <1>4, <2>3, FS_CardinalityType
  <2>5. <<d, n>> \in A
    BY <2>3, <2>4 DEF Hopes
  <2>6. <<d, n>> \in t.g
    BY <1>2
  <2>7. <<d, n>> \notin B
    <3>1. ~(n < n)
      BY <1>1
    <3> QED
      BY <2>6, <3>1 DEF Hopes
  <2> QED
    BY <2>5, <2>7
<1>11. AStarToDo(free, t) < AStarToDo(free, s)
  <2> HIDE DEF A, B
  <2>1. CASE Len(found) = 0
    BY <1>6, <1>7, <1>9, <2>1 DEF AStarToDo, A, B
  <2>2. CASE Len(found) # 0
    <3>1. Cardinality(B) + 1 <= Cardinality(A) /\ Len(found) <= 4
      BY <1>1, <1>7, <1>9, <1>10, <2>2
    <3> QED
      BY <1>5, <1>6, <1>7, <3>1 DEF AStarToDo, A, B
  <2> QED
    BY <2>1, <2>2
<1> QED
  BY <1>11 DEF t

\* A cell within k steps has been reached in k steps, or a cell waits in the heap
\* from which it is no further away than k allows.
Nears(s, score, x, k) ==
  \E y \in Entered(s.from) : Waits(s, score, y) /\ score[y] + Manhattan(y, x) <= k

LEMMA BallsGuided ==
  ASSUME NEW free \in SUBSET (Nat \X Nat), NEW start \in free, NEW goal, NEW num, NEW den,
         NEW s, NEW score, Guides(free, start, goal, num, den, s, score), NEW n \in Nat
  PROVE  \A x \in Ball(free, start, n) :
            \/ x \in Entered(s.from) /\ score[x] <= n
            \/ Nears(s, score, x, n)
<1> DEFINE cells == Entered(s.from)
           Known(x, k) == (x \in cells /\ score[x] <= k) \/ Nears(s, score, x, k)
           Bad == {k \in Nat : ~ \A x \in Ball(free, start, k) : Known(x, k)}
<1>1. /\ Tree(free, start, s.from, score) /\ score \in [cells -> Nat]
      /\ start \in cells /\ score[start] = 0 /\ cells \subseteq free
      /\ \A c \in cells : Waits(s, score, c) \/ Settled(free, goal, s, score, c)
  BY EnteredAreFree DEF Guides, Tree
<1>2. SUFFICES ASSUME Bad # {} PROVE FALSE
  OBVIOUS
<1>3. PICK k \in Bad : \A m \in Bad : k <= m
  <2> DEFINE M == [m \in Bad |-> m]
  <2>1. \A m \in Bad : M[m] \in Nat
    OBVIOUS
  <2> HIDE DEF Bad
  <2>2. \E x \in Bad : \A y \in Bad : M[x] <= M[y]
    BY <1>2, <2>1, LeastMeasure
  <2> QED
    BY <2>2
<1>4. PICK x \in Ball(free, start, k) : ~Known(x, k)
  OBVIOUS
<1>5. k # 0
  <2>1. x = start => Known(x, 0)
    BY <1>1
  <2> HIDE DEF Known
  <2> QED
    BY <1>4, <2>1, BallGrows
<1>6. k \in Nat /\ k - 1 \in Nat /\ k - 1 \notin Bad /\ (k - 1) + 1 = k
  BY <1>3, <1>5
<1>7. \A z \in Ball(free, start, k - 1) : Known(z, k - 1)
  BY <1>6
<1>8. x \in Grown(free, Ball(free, start, k - 1))
  BY <1>4, <1>5, <1>6, BallBefore
<1>9. x \in free /\ x \in Nat \X Nat
  BY <1>4, BallInCells
<1>10. ASSUME Known(x, k - 1) PROVE FALSE
  <2>1. CASE x \in cells /\ score[x] <= k - 1
    <3>1. score[x] \in Nat /\ score[x] <= k
      BY <1>1, <1>6, <2>1
    <3> QED
      BY <1>4, <2>1, <3>1
  <2>2. CASE Nears(s, score, x, k - 1)
    <3>1. PICK y \in cells : Waits(s, score, y) /\ score[y] + Manhattan(y, x) <= k - 1
      BY <2>2 DEF Nears
    <3>2. score[y] \in Nat /\ Manhattan(y, x) \in Nat
      BY <1>1, <1>9, ManhattanGrows
    <3>3. score[y] + Manhattan(y, x) <= k
      BY <1>6, <3>1, <3>2
    <3> QED
      BY <1>4, <3>1, <3>3 DEF Nears
  <2> QED
    BY <1>10, <2>1, <2>2
<1>11. ASSUME NEW z \in Ball(free, start, k - 1), Adjacent(z, x) PROVE FALSE
  <2>1. z \in Nat \X Nat
    BY BallInCells
  <2>2. ASSUME NEW y \in cells, Waits(s, score, y), score[y] + Manhattan(y, z) <= k - 1
        PROVE  FALSE
    <3>1. /\ score[y] \in Nat /\ Manhattan(y, z) \in Nat /\ Manhattan(y, x) \in Nat
          /\ Manhattan(y, x) <= Manhattan(y, z) + 1
      BY <1>1, <1>9, <1>11, <2>1, ManhattanGrows
    <3>2. score[y] + Manhattan(y, x) <= k
      BY <1>6, <2>2, <3>1
    <3> QED
      BY <1>4, <2>2, <3>2 DEF Nears
  <2>3. ASSUME z \in cells, score[z] <= k - 1 PROVE FALSE
    <3>1. CASE Waits(s, score, z)
      <4>1. score[z] + Manhattan(z, z) <= k - 1
        BY <1>1, <1>6, <2>1, <2>3, ManhattanGrows
      <4> QED
        BY <2>2, <2>3, <3>1, <4>1
    <3>2. CASE Settled(free, goal, s, score, z)
      <4>1. x \in cells /\ score[x] <= score[z] + 1
        BY <1>9, <1>11, <3>2 DEF Settled
      <4>2. score[x] <= k
        <5>1. score[x] \in Nat /\ score[z] \in Nat
          BY <1>1, <2>3, <4>1
        <5> QED
          BY <1>6, <2>3, <4>1, <5>1
      <4> QED
        BY <1>4, <4>1, <4>2
    <3> QED
      BY <1>1, <2>3, <3>1, <3>2
  <2>4. Known(z, k - 1)
    BY <1>7
  <2> QED
    BY <2>2, <2>3, <2>4 DEF Nears
<1> HIDE DEF Known
<1> QED
  BY <1>7, <1>8, <1>10, <1>11 DEF Grown

\* How much longer than a shortest route a planner's may be: a weight below one
\* does not make routes worse.
Bound(num, den) == IF num < den THEN den ELSE num

LEMMA GuidedIsComplete ==
  ASSUME NEW open, NEW free, NEW start, NEW goal, Setting(open, free, start, goal),
         NEW num \in Nat, NEW den \in Nat, NEW s \in Guided(open), NEW score,
         Guides(free, start, goal, num, den, s, score), s.heap = {} \/ AtGoal(s, goal)
  PROVE  SearchDone(free, start, goal, Bound(num, den), den, s.from)
<1> DEFINE cells == Entered(s.from)
           top == Bound(num, den)
<1>1. /\ Tree(free, start, s.from, score) /\ score \in [cells -> Nat]
      /\ s.g = {<<x, score[x]>> : x \in cells}
      /\ \A d \in s.heap : d[4] \in cells /\ d[1] = Score(goal, num, den, d[3], d[4])
      /\ \A c \in cells : Waits(s, score, c) \/ Settled(free, goal, s, score, c)
  BY DEF Guides, Tree
<1>2. free \in SUBSET (Nat \X Nat) /\ start \in free /\ goal \in free
      /\ goal \in Nat \X Nat /\ cells \subseteq Nat \X Nat
  <2>1. free \in SUBSET (Nat \X Nat) /\ start \in free /\ goal \in free
    BY DEF Setting
  <2> QED
    BY <1>1, <2>1, EnteredAreFree
<1>3. ASSUME NEW n \in Nat, goal \in Ball(free, start, n)
      PROVE  (goal \in cells /\ score[goal] <= n) \/ Nears(s, score, goal, n)
  BY <1>2, <1>3, BallsGuided
<1>4. CASE s.heap = {}
  <2>1. \A c : ~Waits(s, score, c)
    BY <1>4 DEF Waits
  <2>2. goal \notin cells
    BY <1>1, <2>1 DEF Settled
  <2>3. \A n \in Nat : goal \notin Ball(free, start, n)
    BY <1>3, <2>1, <2>2 DEF Nears
  <2> QED
    BY <1>1, <2>2, <2>3 DEF SearchDone
<1>5. CASE s.heap # {} /\ AtGoal(s, goal)
  <2> DEFINE e == Popped(s)
  <2>1. e \in s.heap /\ \A d \in s.heap : e[1] <= d[1]
    BY <1>5, BetteredAre, Zenon
  <2>2. <<goal, e[3]>> \in s.g /\ e[4] = goal
    BY <1>5 DEF AtGoal, Latest, Popped
  <2> HIDE DEF e
  <2>3. goal \in cells /\ e[3] = score[goal] /\ score[goal] \in Nat
    BY <1>1, <2>2
  <2>4. /\ top \in Nat /\ num <= top /\ den <= top
    BY DEF Bound
  <2> HIDE DEF top
  <2>5. e[1] = den * score[goal]
    <3>1. e[1] = den * score[goal] + num * Manhattan(goal, goal)
      BY <1>1, <2>1, <2>2, <2>3 DEF Score
    <3>2. Manhattan(goal, goal) = 0
      BY <1>2, ManhattanGrows
    <3>3. num * 0 = 0 /\ den * score[goal] \in Nat
      BY <2>3, ProductIsNat
    <3>4. e[1] = den * score[goal] + num * 0
      BY <3>1, <3>2, Zenon
    <3> QED
      BY <3>3, <3>4
  <2>6. ASSUME NEW n \in Nat, goal \in Ball(free, start, n)
        PROVE  den * score[goal] <= top * n
    <3>1. CASE score[goal] <= n
      BY <2>3, <2>4, <3>1, ProductGrows
    <3>2. CASE Nears(s, score, goal, n)
      <4>1. PICK y \in cells : Waits(s, score, y) /\ score[y] + Manhattan(y, goal) <= n
        BY <3>2 DEF Nears
      <4>2. PICK d \in s.heap : d[4] = y /\ d[3] = score[y]
        BY <4>1 DEF Waits
      <4> DEFINE a == score[y]
                 b == Manhattan(y, goal)
      <4>3. a \in Nat /\ b \in Nat /\ a + b <= n
        BY <1>1, <1>2, <4>1, ManhattanGrows
      <4>4. e[1] <= d[1] /\ d[1] = den * a + num * b
        BY <1>1, <2>1, <4>2 DEF Score
      <4> HIDE DEF a, b
      <4>5. den * a <= top * a /\ num * b <= top * b
        BY <2>4, <4>3, ProductGrows
      <4>6. top * a + top * b = top * (a + b)
        BY <2>4, <4>3
      <4>7. top * (a + b) <= top * n
        BY <2>4, <4>3, ProductGrows
      <4>8. /\ den * a \in Nat /\ num * b \in Nat /\ top * a \in Nat /\ top * b \in Nat
            /\ top * (a + b) \in Nat /\ top * n \in Nat /\ den * score[goal] \in Nat
        BY <2>3, <2>4, <4>3, ProductIsNat
      <4> QED
        BY <2>5, <4>4, <4>5, <4>6, <4>7, <4>8
    <3> QED
      BY <1>3, <2>6, <3>1, <3>2
  <2>7. SearchDone(free, start, goal, top, den, s.from)
    BY <1>1, <2>3, <2>6 DEF SearchDone
  <2> QED
    BY <2>7 DEF top
<1> QED
  BY <1>4, <1>5

\* The search begins with the start alone.
FirstGuided(start, goal, num, den) ==
  [heap |-> {<<Score(goal, num, den, 0, start), 0, 0, start>>}, counter |-> 0,
   g |-> {<<start, 0>>}, from |-> {<<start, Nowhere>>}]

LEMMA FirstGuides ==
  ASSUME NEW open, NEW free, NEW start, NEW goal, Setting(open, free, start, goal),
         NEW num \in Nat, NEW den \in Nat
  PROVE  LET s == FirstGuided(start, goal, num, den)
         IN  s \in Guided(open) /\ \E score : Guides(free, start, goal, num, den, s, score)
<1> DEFINE f == Score(goal, num, den, 0, start)
           from == {<<start, Nowhere>>}
           score == [c \in {start} |-> 0]
           s == FirstGuided(start, goal, num, den)
<1>1. start \in open /\ start \in Nat \X Nat /\ f \in Nat
  <2>1. start \in open /\ start \in Nat \X Nat /\ goal \in Nat \X Nat
    BY DEF Setting
  <2> QED
    BY <2>1, ScoreIsNat
<1> HIDE DEF f
<1>2. /\ s.heap = {<<f, 0, 0, start>>} /\ s.counter = 0 /\ s.g = {<<start, 0>>}
      /\ s.from = from
      /\ s = [heap |-> s.heap, counter |-> s.counter, g |-> s.g, from |-> s.from]
  BY DEF FirstGuided, f
<1> HIDE DEF s
<1>3. from \in CameFrom(open) /\ Entered(from) = {start}
  BY <1>1 DEF CameFrom, Entered
<1>4. s \in Guided(open)
  <2>1. s.heap \in SUBSET (Nat \X Nat \X Nat \X open)
    BY <1>1, <1>2
  <2>2. s.g \in SUBSET (open \X Nat)
    BY <1>1, <1>2
  <2>3. s.counter \in Nat /\ s.from \in CameFrom(open)
    BY <1>2, <1>3
  <2> QED
    BY <1>2, <2>1, <2>2, <2>3 DEF Guided
<1>5. Tree(free, start, from, score)
  <2>1. \A e \in from : e = <<start, Nowhere>> /\ e[1] = start
    OBVIOUS
  <2>2. score \in [{start} -> Nat] /\ score[start] = 0
    OBVIOUS
  <2> HIDE DEF from, score
  <2> QED
    BY <1>3, <2>1, <2>2 DEF Tree
<1>6. IsFiniteSet(s.heap) /\ Cardinality({start}) = 1
  BY <1>2, FS_Singleton
<1>7. s.g = {<<c, score[c]>> : c \in {start}}
  BY <1>2
<1>8. \A e \in s.heap : e[4] = start /\ e[3] = 0 /\ e[1] = Score(goal, num, den, e[3], e[4])
  BY <1>2 DEF f
<1>9. Waits(s, score, start)
  BY <1>2 DEF Waits
<1>10. Guides(free, start, goal, num, den, s, score)
  <2>1. score[start] = 0
    OBVIOUS
  <2> HIDE DEF score, from
  <2> QED
    BY <1>2, <1>3, <1>5, <1>6, <1>7, <1>8, <1>9, <2>1 DEF Guides
<1> QED
  BY <1>4, <1>10 DEF s

LEMMA AStarCompletes ==
  ASSUME NEW open, NEW free, NEW start, NEW goal, Setting(open, free, start, goal),
         NEW num \in Nat, NEW den \in Nat
  PROVE  SearchDone(free, start, goal, Bound(num, den), den,
           AStarSearch(open, free, goal, num, den)[FirstGuided(start, goal, num, den)])
<1> DEFINE D == Guided(open)
           Done(s) == s.heap = {} \/ AtGoal(s, goal)
           next(s) == Expand(free, goal, num, den, s)
           Stop == {s \in D : Done(s)}
           Step == [s \in D |-> next(s)]
           Result == [s \in D |-> s.from]
           F == AStarSearch(open, free, goal, num, den)
           Inv == {s \in D : \E score : Guides(free, start, goal, num, den, s, score)}
           M == [s \in D |-> AStarToDo(free, s)]
           Good == {f \in CameFrom(open) :
                      SearchDone(free, start, goal, Bound(num, den), den, f)}
           first == FirstGuided(start, goal, num, den)
<1>1. \A s \in D \ Stop : Step[s] \in D
  BY ExpandInGuided
<1>2. IsLoop(F, D, Stop, Step, Result)
  <2> DEFINE body(f, s) == IF s.heap = {} \/ AtGoal(s, goal) THEN s.from ELSE f[next(s)]
  <2>1. \A f : f = [s \in D |-> body(f, s)] <=> IsLoop(f, D, Stop, Step, Result)
    <3> TAKE f
    <3>1. ASSUME NEW s \in D
          PROVE  body(f, s) = (IF s \in Stop THEN Result[s] ELSE f[Step[s]])
      OBVIOUS
    <3> HIDE DEF Stop, Result, Step, body, D
    <3> QED
      BY <3>1 DEF IsLoop
  <2>2. \E f : IsLoop(f, D, Stop, Step, Result)
    <3> HIDE DEF D, Stop, Step, Result
    <3> QED
      BY <1>1, LoopExists
  <2>3. F = CHOOSE f : f = [s \in D |-> body(f, s)]
    BY DEF AStarSearch
  <2> HIDE DEF D, Stop, Step, Result, F, body
  <2>4. F = [s \in D |-> body(F, s)]
    BY <2>1, <2>2, <2>3
  <2> QED
    BY <2>1, <2>4
<1>3. Inv \in SUBSET D /\ \A s \in Inv : M[s] \in Nat
  <2> SUFFICES ASSUME NEW s \in Inv PROVE M[s] \in Nat
    OBVIOUS
  <2>1. IsFiniteSet(s.heap)
    BY DEF Guides
  <2>2. AStarToDo(free, s) \in Nat
    BY <2>1, AStarToDoIsNat
  <2> QED
    BY <2>2
<1>4. ASSUME NEW s \in Inv \ Stop PROVE Step[s] \in Inv /\ M[Step[s]] < M[s]
  <2>1. s \in D /\ s.heap # {} /\ ~AtGoal(s, goal)
    OBVIOUS
  <2>2. PICK score : Guides(free, start, goal, num, den, s, score)
    OBVIOUS
  <2> DEFINE t == next(s)
  <2>3. t \in D
    BY <2>1, ExpandInGuided
  <2>4. \E new : Guides(free, start, goal, num, den, t, new)
    BY <2>1, <2>2, ExpandKeeps
  <2>5. AStarToDo(free, t) < AStarToDo(free, s)
    BY <2>1, <2>2, ExpandLessens
  <2>6. Step[s] = t /\ M[t] = AStarToDo(free, t) /\ M[s] = AStarToDo(free, s)
    BY <2>1, <2>3
  <2> HIDE DEF t, next
  <2> QED
    BY <2>3, <2>4, <2>5, <2>6
<1>5. ASSUME NEW s \in Inv \cap Stop PROVE Result[s] \in Good
  <2>1. s \in D /\ Done(s)
    OBVIOUS
  <2>2. PICK score : Guides(free, start, goal, num, den, s, score)
    OBVIOUS
  <2>3. SearchDone(free, start, goal, Bound(num, den), den, s.from)
    BY <2>1, <2>2, GuidedIsComplete
  <2> QED
    BY <2>1, <2>3 DEF Guided
<1>6. first \in Inv
  BY FirstGuides
<1> HIDE DEF D, Stop, Step, Result, F, Inv, M, first
<1>7. \A s \in Inv : F[s] \in Good
  <2> HIDE DEF Good
  <2>1. Descends(Inv, M, D, Stop, Step)
    BY <1>3, <1>4 DEF Descends
  <2> QED
    BY <1>2, <1>5, <2>1, LoopEnds
<1>8. F[first] \in Good
  BY <1>6, <1>7
<1> QED
  BY <1>8 DEF F, first

LEMMA AStarPathFinds ==
  ASSUME NEW open, IsFiniteSet(open), open \subseteq Nat \X Nat,
         NEW start \in open, NEW goal \in open, NEW blocked,
         NEW num \in Nat, NEW den \in Nat
  PROVE  Finds(AStarPath(open, start, goal, blocked, num, den),
               Free(open, start, goal, blocked), start, goal, Bound(num, den), den)
<1> DEFINE free == Free(open, start, goal, blocked)
           p == AStarPath(open, start, goal, blocked, num, den)
           from == AStarSearch(open, free, goal, num, den)[FirstGuided(start, goal, num, den)]
           top == Bound(num, den)
<1>1. Setting(open, free, start, goal) /\ top \in Nat
  BY DEF Setting, Free, Bound
<1>2. p = IF start = goal THEN <<>> ELSE Reconstruct(from, start, goal)
  BY DEF AStarPath, Plan, FirstGuided
<1>3. SearchDone(free, start, goal, top, den, from)
  BY <1>1, AStarCompletes
<1> HIDE DEF p, free, from, top
<1>4. Finds(p, free, start, goal, top, den)
  BY <1>1, <1>2, <1>3, PlanFinds
<1> QED
  BY <1>4 DEF p, free, top

\* A* with a weight num/den of at least one ends, whatever is asked of it on a
\* finite floor, with a route that is at most so many times longer than a shortest
\* one, or with None if there is no way; with a smaller weight, with a shortest.
THEOREM AStarDelivers ==
  ASSUME NEW open, IsFiniteSet(open), open \subseteq Nat \X Nat,
         NEW start \in open, NEW goal \in open, NEW blocked,
         NEW num \in Nat, NEW den \in Nat
  PROVE  IsPlan(AStarPath(open, start, goal, blocked, num, den),
                Free(open, start, goal, blocked), start, goal, Bound(num, den), den)
<1>1. Bound(num, den) \in Nat
  BY DEF Bound
<1> QED
  BY <1>1, AStarPathFinds, FindsIsPlan, FreeFinite
=============================================================================
