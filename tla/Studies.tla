------------------------------ MODULE Studies ------------------------------
(***************************************************************************)
(* A decision study: many trials of a simulated warehouse, the wait for    *)
(* each of them, and what is concluded.  A study is                        *)
(*   kind       "monte_carlo", "sensitivity", "robustness", "optimizer",   *)
(*              "multiobjective" or "study"                                *)
(*   groups     levels, candidates, parameter choices or combinations; one *)
(*              of a Monte Carlo study                                     *)
(*   reps       replications of each group                                 *)
(*   invalid    the groups whose configuration is refused                  *)
(*   headless   trials write no artifacts and run in the pool of           *)
(*              parallel.py (trial_artifact_mode metrics_only)             *)
(*   workers    of the pool                                                *)
(*   reports    there is a progress callback                               *)
(*   direction, limit, share   of the objective, the constraint and the    *)
(*              demanded share of replications that pass                   *)
(* Only Monte Carlo studies are headless or report.  Trials are numbered   *)
(* through all groups; seeds go with the replications.                     *)
(***************************************************************************)
EXTENDS Selection

CONSTANTS
  StudyPlans,   \* the studies
  Values        \* the values of a metric

VARIABLES
  study,
  stage,        \* of the study: "next", "wait", "pool", "conclude", "ended", "failed"
  next,         \* the trial whose turn it is
  thread,       \* of that trial's ExperimentRunner
  poll,         \* where the study is in its wait for that thread
  fate,         \* [trials -> how the trial ended]
  results,      \* run_trial_specs: [trials -> HeadlessTrialResult or None]
  rows, errors, \* what the study collects
  progress,     \* the last number reported as completed
  chosen        \* what the study concludes

studyVars == <<study, stage, next, thread, poll, fate, results, rows, errors,
               progress, chosen>>

ASSUME StudiesAssumption ==
  /\ Values \subseteq Nat \union {Missing}
  /\ \A s \in StudyPlans : /\ s.groups \in Nat \ {0} /\ s.reps \in Nat \ {0}
                           /\ s.workers \in Nat \ {0}
                           /\ s.invalid \subseteq 1..s.groups

-----------------------------------------------------------------------------
Groups == 1..study.groups
Trials == 1..(study.groups * study.reps)
GroupOf(i) == (i - 1) \div study.reps + 1

\* How a trial ends.  "dead": its loop ended well, and its thread then failed
\* while it wrote the summary.  A trial can end well and have no metric: without
\* a completed task there is no cycle time.
Pending == [kind |-> "none"]
Failure(kind) == [kind |-> kind]
Success == [kind : {"ok"}, cost : Values, cycle : Values]
Outcomes == Success \union {Failure("error")}

\* The metrics of a run without a summary file (load_run gives {}): no time has
\* passed, so it cost nothing (penalties, which no study here compares, aside).
EmptySummary == [kind |-> "ok", cost |-> 0, cycle |-> Missing]

RowOf(i, f) == [trial |-> i, group |-> GroupOf(i), cost |-> f.cost, cycle |-> f.cycle]

\* The optimizers give a choice up when a replication fails.
GivesUp == study.kind \in {"optimizer", "multiobjective"}

AfterFailure(i) == IF GivesUp THEN GroupOf(i) * study.reps + 1 ELSE i + 1

\* A sensitivity study ends if the baseline, its first level, has no row.
Baseless(i, collected) ==
  study.kind = "sensitivity" /\ i > study.reps /\ collected = <<>>

GoesOn(i, collected) ==
  /\ next' = i
  /\ stage' = IF i > Cardinality(Trials) \/ Baseless(i, collected)
              THEN "conclude" ELSE "next"

-----------------------------------------------------------------------------
(* One trial after the other, each with an ExperimentRunner of its own.    *)

Start ==
  /\ stage = "next" /\ ~study.headless
  /\ IF study.kind = "monte_carlo" /\ study.reports
     THEN \* _run_monte_carlo_full reports the trial, and goes on to the next
          /\ progress' = next
          /\ errors' = IF GroupOf(next) \in study.invalid THEN Append(errors, next) ELSE errors
          /\ GoesOn(next + 1, rows)
          /\ fate' = IF GroupOf(next) \in study.invalid
                     THEN [fate EXCEPT ![next] = Failure("invalid")] ELSE fate
          /\ UNCHANGED <<thread, poll>>
     ELSE IF GroupOf(next) \in study.invalid
     THEN \* in a full Monte Carlo study the trial is then tried all the same
          /\ errors' = errors \o (IF study.kind = "monte_carlo" THEN <<next, next>> ELSE <<next>>)
          /\ fate' = [fate EXCEPT ![next] = Failure("invalid")]
          /\ GoesOn(AfterFailure(next), rows)
          /\ UNCHANGED <<thread, poll, progress>>
     ELSE /\ thread' = "running" /\ poll' = "begin" /\ stage' = "wait"
          /\ UNCHANGED <<next, fate, errors, progress>>
  /\ UNCHANGED <<study, results, rows, chosen>>

\* The loop of ExperimentRunner._run ends, with an error or without.
ThreadEnds ==
  /\ thread = "running"
  /\ \E f \in Outcomes : fate' = [fate EXCEPT ![next] = f]
  /\ thread' = "closing"
  /\ UNCHANGED <<study, stage, next, poll, results, rows, errors, progress, chosen>>

\* _finalize: the summary is written, or the thread dies.  The reason of an
\* erroneous end is set before.
ThreadCloses ==
  /\ thread = "closing"
  /\ \/ thread' = "finished" /\ UNCHANGED fate
     \/ /\ thread' = "dead"
        /\ fate' = IF fate[next].kind = "ok"
                   THEN [fate EXCEPT ![next] = Failure("dead")] ELSE fate
  /\ UNCHANGED <<study, stage, next, poll, results, rows, errors, progress, chosen>>

Active   == thread \in {"running", "closing"}     \* is_active
Finished == thread = "finished"                   \* finished

\* The trial counts as failed, or as what it was.
Fails ==
  /\ errors' = Append(errors, next)
  /\ GoesOn(AfterFailure(next), rows)
  /\ UNCHANGED rows

\* The trial's row: its metrics.
Counts(metrics) ==
  /\ rows' = Append(rows, RowOf(next, metrics))
  /\ GoesOn(next + 1, rows')
  /\ UNCHANGED errors

Concludes == IF fate[next].kind = "ok" THEN Counts(fate[next]) ELSE Fails

\* StudyRunner never reads finished: unless the stop reason is an error, it loads
\* what the run has written, which is no summary if its thread died.
Analyzes ==
  IF fate[next].kind = "error" THEN Fails
  ELSE Counts(IF fate[next].kind = "dead" THEN EmptySummary ELSE fate[next])

\* _execute_trial reads is_active and finished one at a time, while the thread
\* goes on: finished is read again before a thread that is not active is
\* given up.  StudyRunner waits only until the thread is not active.
PollTo(step) == poll' = step /\ UNCHANGED <<stage, next, rows, errors>>

Begins == poll = "begin" /\ study.kind # "study" /\ (Active \/ Finished) /\ PollTo("finished?")
Vanished == poll = "begin" /\ study.kind # "study" /\ ~(Active \/ Finished)
            /\ Fails /\ poll' = "none"
SeesEnd == poll \in {"finished?", "again?"} /\ Finished /\ Concludes /\ poll' = "none"
SeesNoEnd == poll = "finished?" /\ ~Finished /\ PollTo("active?")
SeesWork == poll = "active?" /\ Active /\ PollTo("finished?")
SeesRest == poll = "active?" /\ ~Active /\ PollTo("again?")
GivesTrialUp == poll = "again?" /\ ~Finished /\ Fails /\ poll' = "none"
StudyGoesOn == poll = "begin" /\ study.kind = "study" /\ ~Active /\ Analyzes /\ poll' = "none"

Poll ==
  /\ stage = "wait"
  /\ \/ Begins \/ Vanished \/ SeesEnd \/ SeesNoEnd
     \/ SeesWork \/ SeesRest \/ GivesTrialUp \/ StudyGoesOn
  /\ thread' = IF poll' = "none" THEN "none" ELSE thread
  /\ UNCHANGED <<study, fate, results, progress, chosen>>

-----------------------------------------------------------------------------
(* run_trial_specs: headless trials, in this process or in a pool.         *)

Collected == {i \in Trials : results[i].kind # "none"}

StartHeadless ==
  /\ stage = "next" /\ study.headless
  /\ stage' = "pool"
  /\ UNCHANGED <<study, next, thread, poll, fate, results, rows, errors, progress, chosen>>

\* The trials that workers have taken up and not ended: the first ones.
InHand ==
  LET open == {i \in Trials : fate[i] = Pending}
  IN  {i \in open : Cardinality({j \in open : j < i}) < study.workers}

\* A worker returns the trial's result; a refused configuration is one too.
TrialEnds ==
  /\ stage = "pool" /\ (study.workers = 1 => Collected = {i \in Trials : fate[i] # Pending})
  /\ \E i \in InHand :
       \E f \in IF GroupOf(i) \in study.invalid THEN {Failure("error")} ELSE Outcomes :
         fate' = [fate EXCEPT ![i] = f]
  /\ UNCHANGED <<study, stage, next, thread, poll, results, rows, errors, progress, chosen>>

\* A worker process dies: every future that has no result raises.
PoolBreaks ==
  /\ stage = "pool" /\ study.workers > 1 /\ InHand # {}
  /\ fate' = [i \in Trials |-> IF fate[i] = Pending THEN Failure("dead") ELSE fate[i]]
  /\ UNCHANGED <<study, stage, next, thread, poll, results, rows, errors, progress, chosen>>

\* It dies while trials are still submitted: submit raises out of the study.
SubmitRaises ==
  /\ stage = "pool" /\ study.workers > 1 /\ InHand # {} /\ Collected = {}
  /\ fate' = [i \in Trials |-> IF fate[i] = Pending THEN Failure("dead") ELSE fate[i]]
  /\ stage' = "failed"
  /\ UNCHANGED <<study, next, thread, poll, results, rows, errors, progress, chosen>>

\* A fault: results are kept in the order in which they come.
PlaceOfArrival(i) == Cardinality(Collected) + 1

\* as_completed yields a future: its result goes to the place of its trial.
Place(i) == i

\* A fault: the trial's number is reported.
CompletedUpTo(i) == i

\* What is reported: the results there are, with this one.
Completed(i) == Cardinality(Collected \union {i})

Collect ==
  /\ stage = "pool"
  /\ \E i \in Trials \ Collected :
       /\ fate[i] # Pending
       /\ results' = [results EXCEPT ![Place(i)] = fate[i]]
       /\ progress' = Completed(i)
  /\ UNCHANGED <<study, stage, next, thread, poll, fate, rows, errors, chosen>>

InOrder(S) == Sorted(S, LAMBDA i, j : i < j)

\* Specifications and outcomes are paired, in the order of the trials.
Pair ==
  /\ stage = "pool" /\ Collected = Trials
  /\ LET good == {i \in Trials : results[i].kind = "ok"}
         order == InOrder(good)
     IN  /\ rows' = [k \in DOMAIN order |-> RowOf(order[k], results[order[k]])]
         /\ errors' = InOrder(Trials \ good)
  /\ stage' = "conclude"
  /\ UNCHANGED <<study, next, thread, poll, fate, results, progress, chosen>>

-----------------------------------------------------------------------------
\* The summary.
Conclusion ==
  CASE study.kind = "robustness" ->
         <<Recommended(rows, Groups, study.direction, study.limit, study.share)>>
    [] study.kind = "optimizer" ->
         <<BestTrial(rows, Groups, study.reps, study.direction, study.limit)>>
    [] study.kind = "multiobjective" ->
         ParetoTrials(rows, Groups, study.reps, study.direction, study.limit)
    [] study.kind = "sensitivity" -> Tornado(rows, Groups)
    [] OTHER -> <<>>

Conclude ==
  /\ stage = "conclude"
  /\ chosen' = Conclusion
  /\ stage' = "ended"
  /\ UNCHANGED <<study, next, thread, poll, fate, results, rows, errors, progress>>

StudyEnded == stage \in {"ended", "failed"} /\ UNCHANGED studyVars

StudyInit ==
  /\ study \in StudyPlans
  /\ stage = "next" /\ next = 1 /\ thread = "none" /\ poll = "none"
  /\ fate = [i \in Trials |-> Pending]
  /\ results = [i \in Trials |-> Pending]
  /\ rows = <<>> /\ errors = <<>> /\ progress = 0 /\ chosen = <<>>

StudyNext ==
  \/ Start \/ ThreadEnds \/ ThreadCloses \/ Poll
  \/ StartHeadless \/ TrialEnds \/ PoolBreaks \/ SubmitRaises \/ Collect \/ Pair
  \/ Conclude \/ StudyEnded

StudySpec == StudyInit /\ [][StudyNext]_studyVars

-----------------------------------------------------------------------------
(* Properties.                                                             *)

HasEnded(i) == fate[i] # Pending
Succeeded(i) == fate[i].kind = "ok"

\* What a study collects is what happened: each row carries the metrics of its
\* own trial, in the order of the trials, whichever of them came first; a
\* thread that ends between two looks at it is not taken for a failure; and in
\* the end every trial that was run is either a row or an error.  The exception
\* is the row that StudyRunner makes of a run whose thread died in _finalize: it
\* has the metrics of an empty summary.  No other study counts such a run.
ResultsMatch ==
  /\ \A k \in DOMAIN rows :
       LET i == rows[k].trial
       IN  \/ Succeeded(i) /\ rows[k] = RowOf(i, fate[i])
           \/ /\ study.kind = "study" /\ fate[i] = Failure("dead")
              /\ rows[k] = RowOf(i, EmptySummary)
  /\ \A k, l \in DOMAIN rows : k < l => rows[k].trial < rows[l].trial
  /\ \A k \in DOMAIN errors : HasEnded(errors[k]) /\ ~Succeeded(errors[k])
  /\ stage = "ended" =>
       {i \in Trials : HasEnded(i)} =
       {rows[k].trial : k \in DOMAIN rows} \union {errors[k] : k \in DOMAIN errors}

\* "Completed trial n of m" (monte_carlo.py) is never more than the trials that
\* have ended, and a study that reports ends with all of them.
ProgressTrue ==
  LET ended == {i \in Trials : HasEnded(i)}
  IN  /\ progress <= Cardinality(ended)
      /\ stage = "ended" /\ study.reports => progress = Cardinality(Trials)

\* What the trials of a group that succeeded have shown, and sums over it.
Ok(g) == {RowOf(i, fate[i]) : i \in {j \in Trials : GroupOf(j) = g /\ Succeeded(j)}}
Costed(g) == {row \in Ok(g) : row.cost # Missing}
Cost(g) == Total("cost", Costed(g))
Cycled(g) == {row \in Ok(g) : row.cycle # Missing}
Cycle(g) == Total("cycle", Cycled(g))

Sign == IF study.direction = "minimize" THEN 1 ELSE -1

\* A group's average cost is known and better than the other's, if that has one.
Cheaper(g, h) ==
  /\ Costed(g) # {}
  /\ Costed(h) # {} => Sign * (Cost(g) * Cardinality(Costed(h))
                               - Cost(h) * Cardinality(Costed(g))) < 0

\* Trials without a cycle time do not pass, but count.
Robust(g) ==
  LET passing == {row \in Cycled(g) : row.cycle <= study.limit}
  IN  Ok(g) # {} /\ Cardinality(passing) * study.share[2] >= Cardinality(Ok(g)) * study.share[1]

\* All replications ended well, and the average of the cycle times there are is
\* within the limit.
Keeps(g) ==
  /\ Cardinality(Ok(g)) = study.reps
  /\ Cycled(g) # {} /\ Cycle(g) <= study.limit * Cardinality(Cycled(g))

\* The same for the cycle time, which is to be short.
Quicker(g, h) ==
  /\ Cycled(g) # {}
  /\ Cycled(h) # {} => Cycle(g) * Cardinality(Cycled(h)) < Cycle(h) * Cardinality(Cycled(g))

\* At least as good in both objectives.
AsGood(g, h) == ~Cheaper(h, g) /\ ~Quicker(h, g)

\* What a study concludes follows from what its trials showed: no robust
\* candidate, or choice within the constraint, is better than the one that is
\* recommended, and one is recommended if there is one; each choice that is not
\* on the front is beaten by one that is, and no two on the front beat each
\* other; the tornado has all levels that can be compared, the widest first.
BestIsBest ==
  LET shown == {chosen[k] : k \in DOMAIN chosen}
      best(good) == /\ shown = {NoGroup} <=> good = {}
                    /\ shown # {NoGroup} =>
                         shown \subseteq good /\ \A g \in shown, h \in good : ~Cheaper(h, g)
      kept == {g \in Groups : Keeps(g)}
      off(g) == LET d == Cost(g) * Cardinality(Costed(1)) - Cost(1) * Cardinality(Costed(g))
                IN  IF d < 0 THEN -d ELSE d
  IN  stage = "ended" =>
        /\ study.kind = "robustness" => best({g \in Groups : Robust(g)})
        /\ study.kind = "optimizer" => best(kept)
        /\ study.kind = "multiobjective" =>
             /\ shown \subseteq kept
             /\ \A h \in kept \ shown : \E g \in shown : AsGood(g, h) /\ ~AsGood(h, g)
             /\ \A g, h \in shown : AsGood(g, h) => AsGood(h, g)
        /\ study.kind = "sensitivity" =>
             /\ shown = {g \in Groups \ {1} : Costed(g) # {} /\ Costed(1) # {}}
             /\ \A k, l \in DOMAIN chosen : k < l =>
                  off(chosen[k]) * Cardinality(Costed(chosen[l])) >=
                  off(chosen[l]) * Cardinality(Costed(chosen[k]))
============================================================================
