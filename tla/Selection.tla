----------------------------- MODULE Selection -----------------------------
(***************************************************************************)
(* What the decision studies conclude from the rows of their trials:       *)
(* decision/robustness.py, optimizer.py, multiobjective.py and             *)
(* sensitivity.py.                                                         *)
(*                                                                         *)
(* A row is [trial, group, cost, cycle]: the trial, the candidate, choice  *)
(* or level it belongs to, the objective and the constrained metric.       *)
(* Metrics are natural numbers; Missing is Python's None.  Means are       *)
(* fractions <<sum, count>>.                                               *)
(***************************************************************************)
EXTENDS Integers, Sequences, FiniteSets, SequencesExt, FiniteSetsExt

Missing == -1
NoGroup == 0
NoMean  == <<0, 0>>

\* A group's rows: no two have the trial in common.
RowsOf(rows, g) == {row \in ToSet(rows) : row.group = g}

Total(metric, some) == MapThenSumSet(LAMBDA row : row[metric], some)

\* fmean over the rows that have the metric.
Mean(some, metric) ==
  LET has == {row \in some : row[metric] # Missing}
  IN  <<Total(metric, has), Cardinality(has)>>

Less(a, b) == a[1] * b[2] < b[1] * a[2]

\* Better under a direction; a mean there is beats one that is missing.
Better(direction, a, b) ==
  /\ a # NoMean
  /\ b = NoMean \/ (IF direction = "minimize" THEN Less(a, b) ELSE Less(b, a))

\* The first of the best by a stable comparison: min, max, or sort and head.
FirstBest(groups, IsBetter(_, _)) ==
  IF groups = {} THEN NoGroup
  ELSE CHOOSE g \in groups : \A h \in groups \ {g} :
         IsBetter(g, h) \/ (~IsBetter(h, g) /\ g < h)

\* sorted: Before is a strict total order.
Sorted(S, Before(_, _)) ==
  CHOOSE q \in [1..Cardinality(S) -> S] :
    \A k, l \in 1..Cardinality(S) : k < l => Before(q[k], q[l])

\* cycle_max: no mean, no feasibility.
Meets(mean, limit) == mean # NoMean /\ mean[1] <= limit * mean[2]

-----------------------------------------------------------------------------
(* Robustness: the share of a candidate's rows that meet the constraint.   *)
(* Replications that failed have no row and do not count.                  *)

PassingRows(some, limit) ==
  {row \in some : row.cycle # Missing /\ row.cycle <= limit}

RobustPass(some, limit, share) ==
  /\ some # {}
  /\ Cardinality(PassingRows(some, limit)) * share[2] >= Cardinality(some) * share[1]

\* robust_first: robust candidates come before others, then the better mean.
RobustFirst(rows, g, h, direction, limit, share) ==
  LET robust(c) == RobustPass(RowsOf(rows, c), limit, share)
  IN  \/ robust(g) /\ ~robust(h)
      \/ /\ robust(g) <=> robust(h)
         /\ Better(direction, Mean(RowsOf(rows, g), "cost"), Mean(RowsOf(rows, h), "cost"))

Recommended(rows, groups, direction, limit, share) ==
  LET first == FirstBest(groups, LAMBDA g, h :
                 RobustFirst(rows, g, h, direction, limit, share))
  IN  IF first # NoGroup /\ RobustPass(RowsOf(rows, first), limit, share)
      THEN first ELSE NoGroup

-----------------------------------------------------------------------------
(* Optimization: a choice is feasible if all its replications ran and the  *)
(* mean meets the constraint.                                              *)

Feasible(rows, g, reps, limit) ==
  Cardinality(RowsOf(rows, g)) = reps /\ Meets(Mean(RowsOf(rows, g), "cycle"), limit)

FeasibleGroups(rows, groups, reps, limit) ==
  {g \in groups : Feasible(rows, g, reps, limit)}

BestTrial(rows, groups, reps, direction, limit) ==
  FirstBest(FeasibleGroups(rows, groups, reps, limit), LAMBDA g, h :
    Better(direction, Mean(RowsOf(rows, g), "cost"), Mean(RowsOf(rows, h), "cost")))

-----------------------------------------------------------------------------
(* Multi-objective optimization: cost in a direction, cycle minimized.  A  *)
(* missing objective has the worst value.                                  *)

Objectives(rows, g) ==
  <<Mean(RowsOf(rows, g), "cost"), Mean(RowsOf(rows, g), "cycle")>>

\* A fault: a choice as good as another dominates it.
DominatesOrEquals(direction, a, b) ==
  ~Better(direction, b[1], a[1]) /\ ~Better("minimize", b[2], a[2])

Dominates(direction, a, b) ==
  /\ ~Better(direction, b[1], a[1]) /\ ~Better("minimize", b[2], a[2])
  /\ Better(direction, a[1], b[1]) \/ Better("minimize", a[2], b[2])

ParetoTrials(rows, groups, reps, direction, limit) ==
  LET feasible == FeasibleGroups(rows, groups, reps, limit)
      front == {g \in feasible : \A h \in feasible \ {g} :
                  ~Dominates(direction, Objectives(rows, h), Objectives(rows, g))}
      cost(g) == Objectives(rows, g)[1]
  IN  Sorted(front, LAMBDA g, h :
        \/ Better(direction, cost(g), cost(h))
        \/ ~Better(direction, cost(h), cost(g)) /\ g < h)

-----------------------------------------------------------------------------
(* Sensitivity: group 1 is the baseline; the others are levels, which      *)
(* enter the tornado by how far their mean lies from the baseline's.       *)

Delta(rows, g) ==
  LET a == Mean(RowsOf(rows, g), "cost")
      b == Mean(RowsOf(rows, 1), "cost")
      d == a[1] * b[2] - b[1] * a[2]
  IN  <<IF d < 0 THEN -d ELSE d, a[2] * b[2]>>

Tornado(rows, groups) ==
  LET entries == {g \in groups \ {1} : Delta(rows, g)[2] # 0}
  IN  Sorted(entries, LAMBDA g, h :
        \/ Less(Delta(rows, h), Delta(rows, g))
        \/ ~Less(Delta(rows, g), Delta(rows, h)) /\ g < h)
============================================================================
