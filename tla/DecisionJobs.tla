---------------------------- MODULE DecisionJobs ----------------------------
(***************************************************************************)
(* DecisionJobManager (decision/jobs.py): jobs submitted by Flask request  *)
(* threads, run by a ThreadPoolExecutor, cancelled by other requests, and  *)
(* kept in one JSON file that is rewritten on every change.                *)
(*                                                                         *)
(* Each block under the manager's lock is one step.  A save inside a block *)
(* may raise (full disk), which leaves the file as it was and the changes  *)
(* to memory in place.  The process may die between any two steps; a death *)
(* inside a block loses the same memory as one before it, because the file *)
(* is replaced in one rename.                                              *)
(*                                                                         *)
(* Left out: timestamps, error texts and progress percentages; the futures *)
(* dict, which is written and never read; requests that validation         *)
(* rejects, which change nothing.                                          *)
(***************************************************************************)
EXTENDS Integers, Sequences, FiniteSets

CONSTANTS
  Jobs,         \* job ids, each submitted at most once (uuid4)
  Workers,      \* the executor's threads, max_workers many
  NoJob,        \* an idle worker
  MaxFaults,    \* bound: saves that raise
  MaxRestarts   \* bound: deaths of the process

ASSUME JobsAssumption ==
  /\ NoJob \notin Jobs
  /\ MaxFaults \in Nat /\ MaxRestarts \in Nat

VARIABLES
  jobs,       \* _jobs: the status of each job and whether it has an artifact
  file,       \* decision_jobs.json: the same of the jobs when last saved
  cancel,     \* the jobs whose cancel event is set
  queue,      \* the executor's work queue
  request,    \* where the submit call of each job is
  job,        \* the job each worker has taken
  pc,         \* where each worker is in _run_job
  faults, restarts

vars == <<jobs, file, cancel, queue, request, job, pc, faults, restarts>>

Terminal == {"finished", "failed", "cancelled"}
Status   == {"none", "queued", "running"} \union Terminal
Requests == {"new", "saved", "enqueued", "refused", "lost"}
Stages   == {"idle", "claimed", "preparing", "announcing", "executing",
             "reporting", "closing", "raised"}

Entry  == [status : Status, artifact : BOOLEAN]
Absent == [status |-> "none", artifact |-> FALSE]   \* not in the dict, or the file

Shown(j) == jobs[j].status

-----------------------------------------------------------------------------
(* Saving.                                                                 *)

\* _save_jobs_locked writes all of _jobs, at the end of a block.
Saved == file' = jobs' /\ UNCHANGED faults

SaveRaises ==
  /\ faults < MaxFaults /\ faults' = faults + 1
  /\ UNCHANGED file

Save == Saved \/ SaveRaises

-----------------------------------------------------------------------------
(* Requests.                                                               *)

\* A mutant of Submit: the file is left to the worker that starts the job.
SubmitUnsaved(j) ==
  /\ request[j] = "new"
  /\ jobs' = [jobs EXCEPT ![j].status = "queued"]
  /\ request' = [request EXCEPT ![j] = "saved"]
  /\ UNCHANGED <<file, faults, cancel, queue, job, pc, restarts>>

\* The first block of submit.  When the save raises, the client gets an error
\* and the job stays behind in _jobs.
Submit(j) ==
  /\ request[j] = "new"
  /\ jobs' = [jobs EXCEPT ![j].status = "queued"]
  /\ \/ Saved      /\ request' = [request EXCEPT ![j] = "saved"]
     \/ SaveRaises /\ request' = [request EXCEPT ![j] = "refused"]
  /\ UNCHANGED <<cancel, queue, job, pc, restarts>>

\* executor.submit, outside the lock, and the answer to the client.
Enqueue(j) ==
  /\ request[j] = "saved"
  /\ queue' = Append(queue, j)
  /\ request' = [request EXCEPT ![j] = "enqueued"]
  /\ UNCHANGED <<jobs, file, cancel, job, pc, faults, restarts>>

\* cancel_job of a queued job.
CancelQueued(j) ==
  /\ Shown(j) = "queued"
  /\ cancel' = cancel \union {j}
  /\ jobs' = [jobs EXCEPT ![j].status = "cancelled"]
  /\ Save
  /\ UNCHANGED <<queue, request, job, pc, restarts>>

\* A mutant of CancelRunning: the job is closed under its worker's feet.
CancelRunningAtOnce(j) ==
  /\ Shown(j) = "running"
  /\ cancel' = cancel \union {j}
  /\ jobs' = [jobs EXCEPT ![j].status = "cancelled"]
  /\ Save
  /\ UNCHANGED <<queue, request, job, pc, restarts>>

\* cancel_job of a running job leaves a message, no more.
CancelRunning(j) ==
  /\ Shown(j) = "running"
  /\ cancel' = cancel \union {j}
  /\ UNCHANGED jobs /\ Save
  /\ UNCHANGED <<queue, request, job, pc, restarts>>

-----------------------------------------------------------------------------
(* _run_job.                                                               *)

At(w, stage) == pc[w] = stage
Goto(w, stage) == pc' = [pc EXCEPT ![w] = stage]

\* A mutant of Leave: the worker keeps its last job.
LeaveKeepingJob(w) == Goto(w, "idle") /\ UNCHANGED job

\* The worker is done with its job.
Leave(w) == Goto(w, "idle") /\ job' = [job EXCEPT ![w] = NoJob]

\* An idle worker takes the head of the queue.
Take(w) ==
  /\ At(w, "idle") /\ queue # <<>>
  /\ job' = [job EXCEPT ![w] = Head(queue)]
  /\ queue' = Tail(queue)
  /\ Goto(w, "claimed")
  /\ UNCHANGED <<jobs, file, cancel, request, faults, restarts>>

\* The job was cancelled while it waited: return.
Skip(w) ==
  /\ At(w, "claimed") /\ Shown(job[w]) # "queued"
  /\ Leave(w)
  /\ UNCHANGED <<jobs, file, cancel, queue, request, faults,
                 restarts>>

\* A mutant of Begin: the job runs whatever its status is.
BeginAnyway(w) ==
  /\ At(w, "claimed")
  /\ jobs' = [jobs EXCEPT ![job[w]].status = "running"]
  /\ \/ Saved      /\ Goto(w, "preparing") /\ UNCHANGED job
     \/ SaveRaises /\ Leave(w)
  /\ UNCHANGED <<cancel, queue, request, restarts>>

\* The first block.  It is outside the try: when its save raises, the worker
\* drops the job and leaves it running.
Begin(w) ==
  /\ At(w, "claimed") /\ Shown(job[w]) = "queued"
  /\ jobs' = [jobs EXCEPT ![job[w]].status = "running"]
  /\ \/ Saved      /\ Goto(w, "preparing") /\ UNCHANGED job
     \/ SaveRaises /\ Leave(w)
  /\ UNCHANGED <<cancel, queue, request, restarts>>

\* _set_progress inside the try, on the way from one stage to the next.
SetProgress(w, from, to) ==
  /\ At(w, from) /\ UNCHANGED jobs
  /\ \/ Saved      /\ Goto(w, to)
     \/ SaveRaises /\ Goto(w, "raised")
  /\ UNCHANGED <<cancel, queue, request, job, restarts>>

Report(w) ==
  \/ SetProgress(w, "preparing", "announcing")
  \/ SetProgress(w, "announcing", "executing")
  \/ SetProgress(w, "reporting", "closing")

\* The module's progress callback.
Progress(w) == SetProgress(w, "executing", "executing")

\* _execute_module returns or raises.
Execute(w) ==
  /\ At(w, "executing")
  /\ Goto(w, "reporting") \/ Goto(w, "raised")
  /\ UNCHANGED <<jobs, file, cancel, queue, request, job, faults,
                 restarts>>

\* A mutant of Close: the cancel event is not looked at.
CloseFinished(w) ==
  LET j == job[w]
  IN /\ At(w, "closing")
     /\ jobs' = [jobs EXCEPT ![j].status = "finished", ![j].artifact = TRUE]
     /\ \/ Saved      /\ Leave(w)
        \/ SaveRaises /\ Goto(w, "raised") /\ UNCHANGED job
     /\ UNCHANGED <<cancel, queue, request, restarts>>

\* The last block of the try.
Close(w) ==
  LET j == job[w]
  IN /\ At(w, "closing")
     /\ jobs' = [jobs EXCEPT
                   ![j].status   = IF j \in cancel THEN "cancelled" ELSE "finished",
                   ![j].artifact = TRUE]
     /\ \/ Saved      /\ Leave(w)
        \/ SaveRaises /\ Goto(w, "raised") /\ UNCHANGED job
     /\ UNCHANGED <<cancel, queue, request, restarts>>

\* The except clause.
Handle(w) ==
  /\ At(w, "raised")
  /\ jobs' = [jobs EXCEPT ![job[w]].status = "failed"]
  /\ Save /\ Leave(w)
  /\ UNCHANGED <<cancel, queue, request, restarts>>

-----------------------------------------------------------------------------
(* Death and restart.                                                      *)

\* A mutant of Loaded: the file is believed.
LoadedAsIs(s) == s

\* A mutant of Loaded: a job that never started is taken up as it was.
LoadedAsQueued(s) == IF s = "running" THEN "failed" ELSE s

\* _load_jobs.
Loaded(s) == IF s \in {"queued", "running"} THEN "failed" ELSE s

\* The process dies and a new manager reads the file.  It does not write it.
Restart ==
  /\ restarts < MaxRestarts /\ restarts' = restarts + 1
  /\ jobs' = [j \in Jobs |-> [file[j] EXCEPT !.status = Loaded(@)]]
  /\ cancel' = {} /\ queue' = <<>>
  /\ request' = [j \in Jobs |-> IF request[j] = "saved" THEN "lost"
                                ELSE request[j]]
  /\ job' = [w \in Workers |-> NoJob] /\ pc' = [w \in Workers |-> "idle"]
  /\ UNCHANGED <<file, faults>>

-----------------------------------------------------------------------------

Init ==
  /\ jobs = [j \in Jobs |-> Absent] /\ file = jobs
  /\ cancel = {} /\ queue = <<>>
  /\ request = [j \in Jobs |-> "new"]
  /\ job = [w \in Workers |-> NoJob] /\ pc = [w \in Workers |-> "idle"]
  /\ faults = 0 /\ restarts = 0

Work(w) ==
  Take(w) \/ Skip(w) \/ Begin(w) \/ Report(w) \/ Execute(w) \/ Close(w) \/ Handle(w)

Next ==
  \/ \E j \in Jobs : Submit(j) \/ Enqueue(j) \/ CancelQueued(j) \/ CancelRunning(j)
  \/ \E w \in Workers : Work(w) \/ Progress(w)
  \/ Restart

\* A request that has saved its job enqueues it, a worker goes on with its job,
\* and a module returns or raises.  Nobody has to submit, cancel or report.
Fairness ==
  /\ \A j \in Jobs : WF_vars(Enqueue(j))
  /\ \A w \in Workers : WF_vars(Work(w))

Spec == Init /\ [][Next]_vars /\ Fairness

-----------------------------------------------------------------------------
(* Properties.                                                             *)

\* The manager's memory, its file and its threads have their types, and a worker
\* has a job exactly while it is busy.
TypeOK ==
  /\ jobs \in [Jobs -> Entry] /\ file \in [Jobs -> Entry]
  /\ cancel \subseteq Jobs /\ queue \in Seq(Jobs)
  /\ request \in [Jobs -> Requests]
  /\ job \in [Workers -> Jobs \union {NoJob}] /\ pc \in [Workers -> Stages]
  /\ \A w \in Workers : job[w] = NoJob <=> At(w, "idle")
  /\ faults \in 0..MaxFaults /\ restarts \in 0..MaxRestarts

\* Submit answers only when the job is on disk: whatever raises or dies later, an
\* accepted job is never unknown to the server again.
AcceptedIsDurable ==
  \A j \in Jobs : request[j] = "enqueued" =>
    file[j].status # "none" /\ Shown(j) # "none"

\* Why SettledIsFinal holds: a job that has been accepted is in one place, the
\* queue or one worker, and what its place asks of its status is true.

\* Jobs are queued once, after they have been accepted.
QueueSound ==
  \A i \in 1..Len(queue) :
    /\ request[queue[i]] = "enqueued"
    /\ \A k \in 1..Len(queue) : queue[i] = queue[k] => i = k

\* A worker's job was accepted, has left the queue and is no other worker's.
WorkersApart ==
  \A w \in Workers : job[w] # NoJob =>
    /\ request[job[w]] = "enqueued"
    /\ \A i \in 1..Len(queue) : queue[i] # job[w]
    /\ \A v \in Workers : job[v] = job[w] => v = w

\* Between the first block of _run_job and the last, the job is running.
BusyIsRunning ==
  \A w \in Workers :
    pc[w] \in {"preparing", "announcing", "executing", "reporting", "closing"}
      => Shown(job[w]) = "running"

\* Memory and file know the jobs that were saved, and none that was not submitted.
SubmittedIsKnown ==
  \A j \in Jobs :
    /\ request[j] \in {"saved", "enqueued"} =>
         Shown(j) # "none" /\ file[j].status # "none"
    /\ request[j] = "new" => Shown(j) = "none" /\ file[j].status = "none"

JobsInv == QueueSound /\ WorkersApart /\ BusyIsRunning /\ SubmittedIsKnown

\* The job has ended, in memory as on disk, and no worker is about to handle a
\* save that raised while it closed the job (until then the job is shown, and may
\* be saved by another request, as finished).
Settled(j) ==
  /\ Shown(j) \in Terminal /\ jobs[j] = file[j]
  /\ \A w \in Workers : job[w] = j => ~At(w, "raised")

\* A settled end is final: no late worker, cancellation, failed save or restart
\* changes what clients see or what the file says, and artifacts stay linked.
SettledIsFinal ==
  [][\A j \in Jobs : Settled(j) => Settled(j)' /\ jobs'[j] = jobs[j]]_vars

\* A job that ended, as its clients see it, is not started (again).
EndedNeverStarts ==
  [][\A j \in Jobs : Shown(j) \in Terminal => Shown(j)' # "running"]_vars

\* Through all interleavings of requests, workers and restarts a job's status
\* moves only as JobLifecycle has it, one step at a time: no job is started twice,
\* ends twice, or ends as finished after a request to cancel it was taken.
Lifecycle == INSTANCE JobLifecycle WITH state <- [j \in Jobs |-> Shown(j)], asked <- cancel
FollowsLifecycle == Lifecycle!Spec

\* Every job that is queued comes to an end.
JobsSettle == \A j \in Jobs : Shown(j) = "queued" ~> Shown(j) \in Terminal

\* A job that is shown as running is being run by a worker.
RunningIsExecuting ==
  \A j \in Jobs : Shown(j) = "running" => \E w \in Workers : job[w] = j
=============================================================================
