----------------------------- MODULE MCStudies -----------------------------
(***************************************************************************)
(* One study of each kind, of two to four trials.                          *)
(***************************************************************************)
EXTENDS Studies, TLC

Study(kind, groups, reps) ==
  [kind |-> kind, groups |-> groups, reps |-> reps, invalid |-> {}, headless |-> FALSE,
   workers |-> 1, reports |-> FALSE, direction |-> "minimize", limit |-> 1,
   share |-> <<1, 2>>]

Pooled(reps, workers) ==
  [Study("monte_carlo", 1, reps) EXCEPT !.headless = TRUE, !.reports = TRUE,
                                        !.workers = workers]

MCStudyPlans ==
  { Study("monte_carlo", 1, 3),
    [Study("monte_carlo", 1, 2) EXCEPT !.invalid = {1}],
    Pooled(3, 1), Pooled(3, 2), [Pooled(3, 2) EXCEPT !.invalid = {1}],
    Study("sensitivity", 3, 1), [Study("sensitivity", 3, 1) EXCEPT !.invalid = {1}],
    Study("robustness", 2, 2), [Study("robustness", 2, 2) EXCEPT !.direction = "maximize"],
    Study("optimizer", 3, 1),
    [Study("optimizer", 2, 2) EXCEPT !.direction = "maximize", !.limit = 2],
    [Study("multiobjective", 3, 1) EXCEPT !.limit = 2],
    Study("multiobjective", 2, 2),
    [Study("study", 3, 1) EXCEPT !.invalid = {2}] }

MCValues == {Missing, 1, 2}

\* A study as the decision jobs start it: with artifacts and reports.
MCReported == { [Study("monte_carlo", 1, 3) EXCEPT !.reports = TRUE] }
============================================================================
