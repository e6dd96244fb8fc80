---------------------------- MODULE JobLifecycle ----------------------------
(***************************************************************************)
(* The life of a job as DecisionJobManager lets its clients see it,        *)
(* without threads, queue or file.  It is translated from the code and is  *)
(* not the life that the documents describe: there only queued jobs are    *)
(* cancelled (API_SURFACE.md:6106 "Running decision jobs cannot be         *)
(* cancelled yet.", :6129 "cancelled: cancelled before execution",         *)
(* jobs.py:205), where cancel_job takes a request for a running job, and   *)
(* _run_job then ends it as cancelled.                                     *)
(***************************************************************************)
EXTENDS Naturals

CONSTANT Jobs

VARIABLES
  state,   \* the status of each job, "none" before it is accepted
  asked    \* the jobs whose cancellation has been requested

Running == {j \in Jobs : state[j] = "running"}
Open    == {j \in Jobs : state[j] \in {"queued", "running"}}

Init == state = [j \in Jobs |-> "none"] /\ asked = {}

Accept(j) ==
  /\ state[j] = "none"
  /\ state' = [state EXCEPT ![j] = "queued"]
  /\ UNCHANGED asked

Start(j) ==
  /\ state[j] = "queued"
  /\ state' = [state EXCEPT ![j] = "running"]
  /\ UNCHANGED asked

\* A queued job is cancelled at once.
Withdraw(j) ==
  /\ state[j] = "queued"
  /\ state' = [state EXCEPT ![j] = "cancelled"]
  /\ asked' = asked \union {j}

\* A running job takes note of the request and carries on.  (By the documents
\* the request is refused.)
Ask(j) ==
  /\ state[j] = "running"
  /\ asked' = asked \union {j}
  /\ UNCHANGED state

\* A job that was asked to stop never ends as finished: it ends as cancelled,
\* after it was executed.
End(j) ==
  /\ state[j] = "running"
  /\ \E s \in {"failed", IF j \in asked THEN "cancelled" ELSE "finished"} :
       state' = [state EXCEPT ![j] = s]
  /\ UNCHANGED asked

\* The server comes back without its threads: open jobs have failed.
Restart ==
  /\ state' = [j \in Jobs |-> IF j \in Open THEN "failed" ELSE state[j]]
  /\ asked' = {}

Next ==
  \/ \E j \in Jobs : Accept(j) \/ Start(j) \/ Withdraw(j) \/ Ask(j) \/ End(j)
  \/ Restart

Spec == Init /\ [][Next]_<<state, asked>>
=============================================================================
