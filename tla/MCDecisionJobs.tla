--------------------------- MODULE MCDecisionJobs ---------------------------
(* DecisionJobs with interchangeable jobs and workers. *)
EXTENDS DecisionJobs, TLC

Symmetric == Permutations(Jobs) \union Permutations(Workers)
=============================================================================
