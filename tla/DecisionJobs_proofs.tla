------------------------ MODULE DecisionJobs_proofs ------------------------
(***************************************************************************)
(* Proofs about DecisionJobs, for any number of jobs, workers, failing     *)
(* saves and restarts.                                                     *)
(***************************************************************************)
EXTENDS DecisionJobs, TLAPS

\* What a step of the system is, one case per action.
LEMMA NextCases ==
  ASSUME Next
  PROVE  \/ \E j \in Jobs : Submit(j) \/ Enqueue(j) \/ CancelQueued(j)
                            \/ CancelRunning(j)
         \/ \E w \in Workers :
              \/ Take(w) \/ Skip(w) \/ Begin(w)
              \/ \E from \in {"preparing", "announcing", "reporting", "executing"},
                    to \in {"announcing", "executing", "closing"} :
                      SetProgress(w, from, to)
              \/ Execute(w) \/ Close(w) \/ Handle(w)
         \/ Restart
<1>1. ASSUME NEW w \in Workers, Report(w) \/ Progress(w)
      PROVE  \E from \in {"preparing", "announcing", "reporting", "executing"},
                to \in {"announcing", "executing", "closing"} :
                  SetProgress(w, from, to)
  BY <1>1 DEF Report, Progress
<1> QED
  BY <1>1 DEF Next, Work

\* The state of a job keeps its type when its status or artifact is replaced.
LEMMA EntryUpdate ==
  ASSUME NEW m \in [Jobs -> Entry], NEW j \in Jobs, NEW s \in Status
  PROVE  [m EXCEPT ![j].status = s] \in [Jobs -> Entry]
BY DEF Entry

\* A save that returns and one that raises leave a well-typed file.
LEMMA SaveTypes ==
  ASSUME TypeOK, jobs' \in [Jobs -> Entry], Saved \/ SaveRaises
  PROVE  file' \in [Jobs -> Entry] /\ faults' \in 0..MaxFaults
<1>1. file \in [Jobs -> Entry] /\ faults \in 0..MaxFaults
  BY DEF TypeOK
<1>2. CASE Saved
  BY <1>1, <1>2 DEF Saved
<1>3. CASE SaveRaises
  BY <1>1, <1>3, JobsAssumption DEF SaveRaises
<1> QED
  BY <1>2, <1>3

\* The worker's part of the type invariant.
WorkersOK ==
  /\ job \in [Workers -> Jobs \union {NoJob}] /\ pc \in [Workers -> Stages]
  /\ \A w \in Workers : job[w] = NoJob <=> At(w, "idle")

\* A busy worker goes on with its job or leaves it.
LEMMA WorkerTypes ==
  ASSUME WorkersOK, NEW w \in Workers, ~At(w, "idle"),
         \/ Leave(w)
         \/ /\ UNCHANGED job
            /\ \E stage \in Stages \ {"idle"} : Goto(w, stage)
  PROVE  WorkersOK'
<1>1. CASE Leave(w)
  BY <1>1 DEF WorkersOK, At, Leave, Goto, Stages
<1>2. CASE UNCHANGED job /\ \E stage \in Stages \ {"idle"} : Goto(w, stage)
  BY <1>2 DEF WorkersOK, At, Goto, Stages
<1> QED
  BY <1>1, <1>2

-----------------------------------------------------------------------------
(* Type correctness.                                                       *)

\* Every action keeps the types, whatever raises and whenever the process dies.
THEOREM TypeCorrect == Spec => []TypeOK
<1>1. Init => TypeOK
  BY JobsAssumption
     DEF Init, TypeOK, Entry, Absent, Status, Requests, Stages, At
<1>2. TypeOK /\ [Next]_vars => TypeOK'
  <2> SUFFICES ASSUME TypeOK, [Next]_vars PROVE TypeOK'
    OBVIOUS
  <2>a. TypeOK <=> /\ jobs \in [Jobs -> Entry] /\ file \in [Jobs -> Entry]
                   /\ cancel \subseteq Jobs /\ queue \in Seq(Jobs)
                   /\ request \in [Jobs -> Requests]
                   /\ WorkersOK
                   /\ faults \in 0..MaxFaults /\ restarts \in 0..MaxRestarts
    BY DEF TypeOK, WorkersOK
  <2>b. ASSUME NEW w \in Workers, ~At(w, "idle") PROVE job[w] \in Jobs
    BY <2>a, <2>b DEF WorkersOK
  <2>c. UNCHANGED <<job, pc>> => WorkersOK'
    BY <2>a DEF WorkersOK, At
  <2>d. TypeOK' <=> /\ jobs' \in [Jobs -> Entry] /\ file' \in [Jobs -> Entry]
                    /\ cancel' \subseteq Jobs /\ queue' \in Seq(Jobs)
                    /\ request' \in [Jobs -> Requests]
                    /\ WorkersOK'
                    /\ faults' \in 0..MaxFaults /\ restarts' \in 0..MaxRestarts
    BY DEF TypeOK, WorkersOK
  <2>1. ASSUME NEW j \in Jobs, Submit(j) PROVE TypeOK'
    <3>1. jobs' \in [Jobs -> Entry]
      BY <2>1, <2>a, EntryUpdate DEF Submit, Status
    <3>2. request' \in [Jobs -> Requests]
      BY <2>1, <2>a DEF Submit, Requests
    <3>3. file' \in [Jobs -> Entry] /\ faults' \in 0..MaxFaults
      BY <2>1, <3>1, SaveTypes DEF Submit
    <3> QED
      BY <2>1, <2>a, <2>c, <2>d, <3>1, <3>2, <3>3 DEF Submit
  <2>2. ASSUME NEW j \in Jobs, Enqueue(j) PROVE TypeOK'
    <3>1. request' \in [Jobs -> Requests] /\ queue' \in Seq(Jobs)
      BY <2>2, <2>a DEF Enqueue, Requests
    <3> QED
      BY <2>2, <2>a, <2>c, <2>d, <3>1 DEF Enqueue
  <2>3. ASSUME NEW j \in Jobs, CancelQueued(j) PROVE TypeOK'
    <3>1. jobs' \in [Jobs -> Entry]
      BY <2>3, <2>a, EntryUpdate DEF CancelQueued, Status, Terminal
    <3>2. file' \in [Jobs -> Entry] /\ faults' \in 0..MaxFaults
      BY <2>3, <3>1, SaveTypes DEF CancelQueued, Save
    <3> QED
      BY <2>3, <2>a, <2>c, <2>d, <3>1, <3>2 DEF CancelQueued
  <2>4. ASSUME NEW j \in Jobs, CancelRunning(j) PROVE TypeOK'
    <3>1. file' \in [Jobs -> Entry] /\ faults' \in 0..MaxFaults
      BY <2>4, <2>a, SaveTypes DEF CancelRunning, Save
    <3> QED
      BY <2>4, <2>a, <2>c, <2>d, <3>1 DEF CancelRunning
  <2>5. ASSUME NEW w \in Workers, Take(w) PROVE TypeOK'
    <3>1. Head(queue) \in Jobs /\ queue' \in Seq(Jobs)
      BY <2>5, <2>a DEF Take
    <3>2. WorkersOK'
      BY <2>5, <2>a, <3>1, JobsAssumption DEF Take, Goto, At, Stages, WorkersOK
    <3> QED
      BY <2>5, <2>a, <2>d, <3>1, <3>2 DEF Take
  <2>6. ASSUME NEW w \in Workers, Skip(w) PROVE TypeOK'
    <3>1. WorkersOK'
      BY <2>6, <2>a, WorkerTypes DEF Skip, At
    <3> QED
      BY <2>6, <2>a, <2>d, <3>1 DEF Skip
  <2>7. ASSUME NEW w \in Workers, Begin(w) PROVE TypeOK'
    <3>1. job[w] \in Jobs
      BY <2>7, <2>b DEF Begin, At
    <3>2. jobs' \in [Jobs -> Entry]
      BY <2>7, <2>a, <3>1, EntryUpdate DEF Begin, Status
    <3>3. file' \in [Jobs -> Entry] /\ faults' \in 0..MaxFaults
      BY <2>7, <3>2, SaveTypes DEF Begin
    <3>4. WorkersOK'
      BY <2>7, <2>a, WorkerTypes DEF Begin, At, Stages
    <3> QED
      BY <2>7, <2>a, <2>d, <3>2, <3>3, <3>4 DEF Begin
  <2>8. ASSUME NEW w \in Workers,
               NEW from \in {"preparing", "announcing", "reporting", "executing"},
               NEW to \in {"announcing", "executing", "closing"},
               SetProgress(w, from, to)
        PROVE  TypeOK'
    <3>1. file' \in [Jobs -> Entry] /\ faults' \in 0..MaxFaults
      BY <2>8, <2>a, SaveTypes DEF SetProgress
    <3>2. WorkersOK'
      BY <2>8, <2>a, WorkerTypes DEF SetProgress, At, Stages
    <3> QED
      BY <2>8, <2>a, <2>d, <3>1, <3>2 DEF SetProgress
  <2>9. ASSUME NEW w \in Workers, Execute(w) PROVE TypeOK'
    <3>1. WorkersOK'
      BY <2>9, <2>a, WorkerTypes DEF Execute, At, Stages
    <3> QED
      BY <2>9, <2>a, <2>d, <3>1 DEF Execute
  <2>10. ASSUME NEW w \in Workers, Close(w) PROVE TypeOK'
    <3>1. job[w] \in Jobs
      BY <2>10, <2>b DEF Close, At
    <3>2. jobs' \in [Jobs -> Entry]
      BY <2>10, <2>a, <3>1 DEF Close, Entry, Status, Terminal
    <3>3. file' \in [Jobs -> Entry] /\ faults' \in 0..MaxFaults
      BY <2>10, <3>2, SaveTypes DEF Close
    <3>4. WorkersOK'
      BY <2>10, <2>a, WorkerTypes DEF Close, At, Stages
    <3> QED
      BY <2>10, <2>a, <2>d, <3>2, <3>3, <3>4 DEF Close
  <2>11. ASSUME NEW w \in Workers, Handle(w) PROVE TypeOK'
    <3>1. job[w] \in Jobs
      BY <2>11, <2>b DEF Handle, At
    <3>2. jobs' \in [Jobs -> Entry]
      BY <2>11, <2>a, <3>1, EntryUpdate DEF Handle, Status, Terminal
    <3>3. file' \in [Jobs -> Entry] /\ faults' \in 0..MaxFaults
      BY <2>11, <3>2, SaveTypes DEF Handle, Save
    <3>4. WorkersOK'
      BY <2>11, <2>a, WorkerTypes DEF Handle, At, Stages
    <3> QED
      BY <2>11, <2>a, <2>d, <3>2, <3>3, <3>4 DEF Handle
  <2>12. CASE Restart
    <3>1. jobs' \in [Jobs -> Entry]
      BY <2>12, <2>a DEF Restart, Loaded, Entry, Status, Terminal
    <3>2. request' \in [Jobs -> Requests]
      BY <2>12, <2>a DEF Restart, Requests
    <3>3. WorkersOK'
      BY <2>12 DEF Restart, WorkersOK, At, Stages
    <3>4. restarts' \in 0..MaxRestarts
      BY <2>12, <2>a, JobsAssumption DEF Restart
    <3> QED
      BY <2>12, <2>a, <2>d, <3>1, <3>2, <3>3, <3>4 DEF Restart
  <2>13. CASE UNCHANGED vars
    BY <2>13, <2>a, <2>c, <2>d DEF vars
  <2> QED
    BY <2>1, <2>2, <2>3, <2>4, <2>5, <2>6, <2>7, <2>8, <2>9, <2>10, <2>11,
       <2>12, <2>13, NextCases
<1> QED
  BY <1>1, <1>2, PTL DEF Spec

-----------------------------------------------------------------------------
(* The invariant.                                                          *)

\* The actions that touch the queue or a request.
LEMMA QueueCases ==
  ASSUME [Next]_vars
  PROVE  \/ UNCHANGED <<queue, request>>
         \/ \E j \in Jobs : Submit(j) \/ Enqueue(j)
         \/ \E w \in Workers : Take(w)
         \/ Restart
BY NextCases DEF vars, CancelQueued, CancelRunning, Skip, Begin, SetProgress,
                 Execute, Close, Handle

\* Jobs stay queued once.
LEMMA QueueSoundStep ==
  ASSUME TypeOK, JobsInv, [Next]_vars PROVE QueueSound'
<1>1. /\ queue \in Seq(Jobs) /\ QueueSound
      /\ request \in [Jobs -> Requests]
  BY DEF TypeOK, JobsInv
<1>2. CASE UNCHANGED <<queue, request>>
  BY <1>1, <1>2 DEF QueueSound
<1>3. ASSUME NEW j \in Jobs, Submit(j) PROVE QueueSound'
  <2>1. queue' = queue /\ request[j] = "new"
    BY <1>3 DEF Submit
  <2>2. \A k \in Jobs : k # j => request'[k] = request[k]
    BY <1>1, <1>3 DEF Submit
  <2>3. \A i \in 1..Len(queue) : queue[i] \in Jobs /\ queue[i] # j
    BY <1>1, <2>1 DEF QueueSound
  <2> QED
    BY <1>1, <2>1, <2>2, <2>3 DEF QueueSound
<1>4. ASSUME NEW j \in Jobs, Enqueue(j) PROVE QueueSound'
  <2>1. queue' = Append(queue, j) /\ request[j] = "saved"
    BY <1>4 DEF Enqueue
  <2>2. \A i \in 1..Len(queue) : queue[i] \in Jobs /\ queue[i] # j
    BY <1>1, <2>1 DEF QueueSound
  <2>3. request'[j] = "enqueued" /\ \A k \in Jobs : k # j => request'[k] = request[k]
    BY <1>1, <1>4 DEF Enqueue
  <2>4. /\ Len(queue') = Len(queue) + 1 /\ queue'[Len(queue) + 1] = j
        /\ \A i \in 1..Len(queue) : queue'[i] = queue[i]
    BY <1>1, <2>1
  <2> QED
    BY <1>1, <2>2, <2>3, <2>4 DEF QueueSound
<1>5. ASSUME NEW w \in Workers, Take(w) PROVE QueueSound'
  <2>1. queue # <<>> /\ queue' = Tail(queue) /\ request' = request
    BY <1>5 DEF Take
  <2>2. /\ Len(queue') = Len(queue) - 1
        /\ \A i \in 1..Len(queue') : i + 1 \in 1..Len(queue) /\ queue'[i] = queue[i + 1]
    BY <1>1, <2>1
  <2> QED
    BY <1>1, <2>1, <2>2 DEF QueueSound
<1>6. CASE Restart
  BY <1>6 DEF Restart, QueueSound
<1> QED
  BY <1>2, <1>3, <1>4, <1>5, <1>6, QueueCases

\* The actions that give a worker a job or take one away.
LEMMA WorkerCases ==
  ASSUME [Next]_vars
  PROVE  \/ UNCHANGED <<queue, request, job>>
         \/ \E j \in Jobs : Submit(j) \/ Enqueue(j)
         \/ \E w \in Workers : Take(w)
         \/ \E w \in Workers : Leave(w) /\ UNCHANGED <<queue, request>>
         \/ Restart
BY NextCases DEF vars, CancelQueued, CancelRunning, Skip, Begin, SetProgress,
                 Execute, Close, Handle

\* No two workers ever have one job, and none is queued while it runs.
LEMMA WorkersApartStep ==
  ASSUME TypeOK, JobsInv, [Next]_vars PROVE WorkersApart'
<1>1. /\ queue \in Seq(Jobs) /\ QueueSound /\ WorkersApart
      /\ request \in [Jobs -> Requests]
      /\ job \in [Workers -> Jobs \union {NoJob}]
      /\ \A w \in Workers : job[w] = NoJob <=> At(w, "idle")
  BY DEF TypeOK, JobsInv
<1>2. CASE UNCHANGED <<queue, request, job>>
  BY <1>1, <1>2 DEF WorkersApart
<1>3. ASSUME NEW j \in Jobs, Submit(j) PROVE WorkersApart'
  <2>1. queue' = queue /\ job' = job /\ request[j] = "new"
    BY <1>3 DEF Submit
  <2>2. \A k \in Jobs : k # j => request'[k] = request[k]
    BY <1>1, <1>3 DEF Submit
  <2> QED
    BY <1>1, <2>1, <2>2 DEF WorkersApart
<1>4. ASSUME NEW j \in Jobs, Enqueue(j) PROVE WorkersApart'
  <2>1. queue' = Append(queue, j) /\ job' = job /\ request[j] = "saved"
    BY <1>4 DEF Enqueue
  <2>2. \A k \in Jobs : k # j => request'[k] = request[k]
    BY <1>1, <1>4 DEF Enqueue
  <2>3. \A i \in 1..Len(queue') : queue'[i] = j \/ (i \in 1..Len(queue) /\ queue'[i] = queue[i])
    BY <1>1, <2>1
  <2> QED
    BY <1>1, <2>1, <2>2, <2>3 DEF WorkersApart
<1>5. ASSUME NEW w \in Workers, Take(w) PROVE WorkersApart'
  <2>1. /\ queue # <<>> /\ queue' = Tail(queue) /\ request' = request
        /\ job[w] = NoJob /\ job' = [job EXCEPT ![w] = Head(queue)]
    BY <1>1, <1>5 DEF Take
  <2>2. /\ 1 \in 1..Len(queue) /\ Head(queue) = queue[1] /\ queue[1] \in Jobs
        /\ \A i \in 1..Len(queue') :
             i + 1 \in 1..Len(queue) /\ i + 1 # 1 /\ queue'[i] = queue[i + 1]
    <3>1. Len(queue) \in Nat /\ Len(queue) # 0 /\ Len(queue') = Len(queue) - 1
      BY <1>1, <2>1
    <3>2. \A i \in 1..Len(queue') : queue'[i] = queue[i + 1]
      BY <1>1, <2>1
    <3>3. Head(queue) = queue[1] /\ queue[1] \in Jobs
      BY <1>1, <2>1, <3>1
    <3> QED
      BY <3>1, <3>2, <3>3
  <2>3. /\ request[queue[1]] = "enqueued"
        /\ \A i \in 1..Len(queue') : queue'[i] # queue[1]
        /\ \A v \in Workers : job[v] # NoJob => job[v] # queue[1]
    BY <1>1, <2>2 DEF QueueSound, WorkersApart
  <2>4. ASSUME NEW v \in Workers, job'[v] # NoJob
        PROVE  /\ request'[job'[v]] = "enqueued"
               /\ \A i \in 1..Len(queue') : queue'[i] # job'[v]
               /\ \A u \in Workers : job'[u] = job'[v] => u = v
    BY <1>1, <2>1, <2>2, <2>3, <2>4 DEF WorkersApart
  <2> QED
    BY <2>4 DEF WorkersApart
<1>6. ASSUME NEW w \in Workers, Leave(w), UNCHANGED <<queue, request>>
      PROVE  WorkersApart'
  BY <1>1, <1>6 DEF Leave, WorkersApart
<1>7. CASE Restart
  BY <1>7 DEF Restart, WorkersApart
<1> QED
  BY <1>2, <1>3, <1>4, <1>5, <1>6, <1>7, WorkerCases

\* The actions by what they may do to the statuses of jobs.
LEMMA StatusCases ==
  ASSUME [Next]_vars
  PROVE  \/ UNCHANGED <<jobs, job, pc>>
         \/ \E j \in Jobs : Submit(j) \/ CancelQueued(j)
         \/ \E w \in Workers :
              \/ Take(w) \/ Skip(w) \/ Begin(w)
              \/ \E from \in {"preparing", "announcing", "reporting", "executing"},
                    to \in {"announcing", "executing", "closing"} :
                      SetProgress(w, from, to)
              \/ Execute(w) \/ Close(w) \/ Handle(w)
         \/ Restart
BY NextCases DEF vars, Enqueue, CancelRunning

Busy == {"preparing", "announcing", "executing", "reporting", "closing"}

\* Only its own worker changes the status of a running job.
LEMMA BusyIsRunningStep ==
  ASSUME TypeOK, JobsInv, [Next]_vars PROVE BusyIsRunning'
<1>1. /\ WorkersApart
      /\ \A w \in Workers : pc[w] \in Busy => Shown(job[w]) = "running"
      /\ \A j \in Jobs : request[j] = "new" => Shown(j) = "none"
      /\ jobs \in [Jobs -> Entry]
      /\ pc \in [Workers -> Stages] /\ job \in [Workers -> Jobs \union {NoJob}]
      /\ \A w \in Workers : job[w] = NoJob <=> pc[w] = "idle"
  BY DEF TypeOK, JobsInv, BusyIsRunning, SubmittedIsKnown, At, Busy
<1>2. \A w \in Workers : pc[w] # "idle" => job[w] \in Jobs
  BY <1>1
<1>3. \A v, w \in Workers : pc[v] # "idle" /\ job[v] = job[w] => v = w
  BY <1>1, <1>2 DEF WorkersApart
<1> SUFFICES ASSUME NEW v \in Workers, pc'[v] \in Busy
             PROVE  jobs'[job'[v]].status = "running"
  BY DEF BusyIsRunning, Shown, Busy
<1>4. CASE UNCHANGED <<jobs, job, pc>>
  BY <1>1, <1>4 DEF Shown
<1>5. ASSUME NEW j \in Jobs, Submit(j) \/ CancelQueued(j)
      PROVE  jobs'[job'[v]].status = "running"
  <2>1. UNCHANGED <<job, pc>> /\ jobs[j].status # "running"
    BY <1>1, <1>5 DEF Submit, CancelQueued, Shown
  <2>2. \A k \in Jobs : k # j => jobs'[k] = jobs[k]
    BY <1>1, <1>5 DEF Submit, CancelQueued
  <2>3. jobs[job[v]].status = "running" /\ job[v] \in Jobs
    BY <1>1, <1>2, <2>1 DEF Shown, Busy
  <2> QED
    BY <2>1, <2>2, <2>3
<1>6. ASSUME NEW w \in Workers,
             \/ Take(w) \/ Skip(w) \/ Begin(w)
             \/ \E from \in {"preparing", "announcing", "reporting", "executing"},
                   to \in {"announcing", "executing", "closing"} :
                     SetProgress(w, from, to)
             \/ Execute(w) \/ Close(w) \/ Handle(w)
      PROVE  jobs'[job'[v]].status = "running"
  <2>1. /\ \A u \in Workers : u # w => job'[u] = job[u] /\ pc'[u] = pc[u]
        /\ \A k \in Jobs : k # job[w] => jobs'[k] = jobs[k]
    BY <1>1, <1>6 DEF Take, Skip, Begin, SetProgress, Execute, Close, Handle,
                      Leave, Goto
  <2>2. CASE v # w
    <3>1. job[v] \in Jobs /\ jobs[job[v]].status = "running" /\ job[v] # job[w]
      BY <1>1, <1>2, <1>3, <2>1, <2>2 DEF Shown, Busy
    <3> QED
      BY <2>1, <2>2, <3>1
  <2>3. CASE v = w
    <3>1. CASE Take(w) \/ Skip(w)
      BY <1>1, <2>3, <3>1 DEF Take, Skip, Leave, Goto, Busy
    <3>2. CASE Begin(w)
      BY <1>1, <1>2, <2>3, <3>2 DEF Begin, Leave, Goto, At, Busy, Entry
    <3>3. CASE \/ \E from \in {"preparing", "announcing", "reporting", "executing"},
                     to \in {"announcing", "executing", "closing"} :
                       SetProgress(w, from, to)
               \/ Execute(w)
      BY <1>1, <2>3, <3>3 DEF SetProgress, Execute, Goto, At, Busy, Shown
    <3>4. CASE Close(w) \/ Handle(w)
      BY <1>1, <2>3, <3>4 DEF Close, Handle, Leave, Goto, Busy
    <3> QED
      BY <1>6, <3>1, <3>2, <3>3, <3>4
  <2> QED
    BY <2>2, <2>3
<1>7. CASE Restart
  BY <1>7 DEF Restart, Busy
<1> QED
  BY <1>4, <1>5, <1>6, <1>7, StatusCases

\* A step other than a restart changes the entries of submitted jobs only, never
\* back to an absent one, and leaves the file alone or rewrites it.
LEMMA EntryStep ==
  ASSUME TypeOK, JobsInv, [Next]_vars, ~Restart
  PROVE  /\ file' = file \/ file' = jobs'
         /\ \A k \in Jobs :
              /\ request'[k] = "new" => request[k] = "new"
              /\ \/ jobs'[k] = jobs[k]
                 \/ jobs'[k].status # "none" /\ request'[k] # "new"
<1>1. /\ jobs \in [Jobs -> Entry] /\ request \in [Jobs -> Requests]
      /\ job \in [Workers -> Jobs \union {NoJob}]
      /\ \A w \in Workers : job[w] = NoJob <=> pc[w] = "idle"
      /\ \A w \in Workers : job[w] # NoJob => request[job[w]] = "enqueued"
      /\ \A j \in Jobs : request[j] = "new" => jobs[j].status = "none"
  BY DEF TypeOK, At, JobsInv, WorkersApart, SubmittedIsKnown, Shown
<1>2. CASE UNCHANGED vars
  BY <1>2 DEF vars
<1>3. ASSUME NEW j \in Jobs, Submit(j)
      PROVE  /\ file' = file \/ file' = jobs'
             /\ \A k \in Jobs : k # j => jobs'[k] = jobs[k] /\ request'[k] = request[k]
             /\ jobs'[j].status = "queued" /\ request'[j] # "new"
  BY <1>1, <1>3 DEF Submit, Saved, SaveRaises, Entry, Requests
<1>4. ASSUME NEW j \in Jobs, CancelQueued(j)
      PROVE  /\ file' = file \/ file' = jobs'
             /\ \A k \in Jobs : k # j => jobs'[k] = jobs[k]
             /\ jobs[j].status = "queued" /\ jobs'[j].status = "cancelled"
             /\ request' = request
  BY <1>1, <1>4 DEF CancelQueued, Save, Saved, SaveRaises, Entry, Shown
<1>5. ASSUME NEW j \in Jobs, Enqueue(j) \/ CancelRunning(j)
      PROVE  /\ file' = file \/ file' = jobs'
             /\ jobs' = jobs /\ \A k \in Jobs : request'[k] = "new" => request[k] = "new"
  BY <1>1, <1>5 DEF Enqueue, CancelRunning, Save, Saved, SaveRaises, Requests
<1>6. ASSUME NEW w \in Workers,
             \/ Take(w) \/ Skip(w) \/ Execute(w)
             \/ \E from \in {"preparing", "announcing", "reporting", "executing"},
                   to \in {"announcing", "executing", "closing"} :
                     SetProgress(w, from, to)
      PROVE  (file' = file \/ file' = jobs') /\ jobs' = jobs /\ request' = request
  BY <1>6 DEF Take, Skip, Execute, SetProgress, Saved, SaveRaises
<1>7. ASSUME NEW w \in Workers, Begin(w) \/ Close(w) \/ Handle(w)
      PROVE  /\ file' = file \/ file' = jobs'
             /\ job[w] \in Jobs /\ request[job[w]] = "enqueued"
             /\ jobs'[job[w]].status # "none" /\ request' = request
             /\ \A k \in Jobs : k # job[w] => jobs'[k] = jobs[k]
  <2>1. job[w] \in Jobs /\ request[job[w]] = "enqueued"
    BY <1>1, <1>7 DEF Begin, Close, Handle, At
  <2> QED
    BY <1>1, <1>7, <2>1
       DEF Begin, Close, Handle, Save, Saved, SaveRaises, Entry
<1>8. CASE \E j \in Jobs : Submit(j) \/ CancelQueued(j) \/ Enqueue(j) \/ CancelRunning(j)
  BY <1>1, <1>3, <1>4, <1>5, <1>8
<1>9. CASE \E w \in Workers : Begin(w) \/ Close(w) \/ Handle(w)
  <2>1. PICK w \in Workers : Begin(w) \/ Close(w) \/ Handle(w)
    BY <1>9
  <2> QED
    BY <1>7, <2>1
<1> QED
  BY <1>2, <1>6, <1>8, <1>9, NextCases

\* A restart knows the jobs that the file knows.
LEMMA LoadedKnown ==
  ASSUME NEW s PROVE /\ Loaded(s) = "none" <=> s = "none"
                     /\ Loaded(s) # "running"
                     /\ s \in Terminal => Loaded(s) = s
BY DEF Loaded, Terminal

\* What was saved stays known.
LEMMA SubmittedIsKnownStep ==
  ASSUME TypeOK, JobsInv, [Next]_vars PROVE SubmittedIsKnown'
<1>1. SubmittedIsKnown /\ file \in [Jobs -> Entry]
  BY DEF JobsInv, TypeOK
<1>2. CASE Restart
  <2>1. \A j \in Jobs : jobs'[j].status = Loaded(file[j].status)
    BY <1>1, <1>2 DEF Restart, Entry
  <2>2. /\ file' = file
        /\ \A j \in Jobs :
             /\ request'[j] \in {"saved", "enqueued"} => request[j] \in {"saved", "enqueued"}
             /\ request'[j] = "new" => request[j] = "new"
    BY <1>2 DEF Restart
  <2> QED
    BY <1>1, <2>1, <2>2, LoadedKnown DEF SubmittedIsKnown, Shown
<1>3. CASE ~Restart
  <2>1. ASSUME NEW k \in Jobs, request'[k] = "new"
        PROVE  jobs'[k].status = "none" /\ file'[k].status = "none"
    BY <1>1, <1>3, <2>1, EntryStep DEF SubmittedIsKnown, Shown
  <2>2. ASSUME NEW k \in Jobs, request[k] \in {"saved", "enqueued"}
        PROVE  jobs'[k].status # "none" /\ file'[k].status # "none"
    BY <1>1, <1>3, <2>2, EntryStep DEF SubmittedIsKnown, Shown
  <2>3. ASSUME NEW k \in Jobs, request'[k] \in {"saved", "enqueued"},
               request[k] \notin {"saved", "enqueued"}
        PROVE  jobs'[k].status # "none" /\ file'[k] = jobs'[k]
    <3>1. \E j \in Jobs : Submit(j) /\ request' # request
      BY <1>3, <2>3, NextCases
         DEF Enqueue, CancelQueued, CancelRunning, Take, Skip, Begin, SetProgress,
             Execute, Close, Handle, vars, TypeOK
    <3>2. Submit(k)
      BY <2>3, <3>1 DEF Submit, TypeOK
    <3> QED
      BY <2>3, <3>2 DEF Submit, Saved, TypeOK, Entry
  <2> QED
    BY <2>1, <2>2, <2>3 DEF SubmittedIsKnown, Shown
<1> QED
  BY <1>2, <1>3

\* A job that has been accepted is in one place, the queue or one worker, and its
\* place agrees with its status, in every interleaving of requests, workers,
\* raising saves and restarts.
THEOREM JobsInvariant == Spec => []JobsInv
<1>1. Init => JobsInv
  BY DEF Init, JobsInv, QueueSound, WorkersApart, BusyIsRunning,
         SubmittedIsKnown, Shown, Absent
<1>2. TypeOK /\ JobsInv /\ [Next]_vars => JobsInv'
  BY QueueSoundStep, WorkersApartStep, BusyIsRunningStep, SubmittedIsKnownStep
     DEF JobsInv
<1> QED
  BY <1>1, <1>2, TypeCorrect, PTL DEF Spec

-----------------------------------------------------------------------------
(* What clients can rely on.                                               *)

\* An accepted job is never unknown to the server again.
THEOREM AcceptedDurable == Spec => []AcceptedIsDurable
<1>1. JobsInv => AcceptedIsDurable
  BY DEF JobsInv, SubmittedIsKnown, AcceptedIsDurable
<1> QED
  BY <1>1, JobsInvariant, PTL

\* The invariant leaves only the raised workers, and Settled excludes those.
LEMMA SettledStep ==
  ASSUME TypeOK, JobsInv, [Next]_vars, NEW j \in Jobs, Settled(j)
  PROVE  Settled(j)' /\ jobs'[j] = jobs[j]
<1>1. /\ jobs \in [Jobs -> Entry] /\ file \in [Jobs -> Entry]
      /\ jobs[j].status \in Terminal /\ jobs[j] = file[j]
      /\ \A w \in Workers : job[w] = j => ~(pc[w] \in Busy \union {"raised"})
      /\ request[j] # "new"
      /\ pc \in [Workers -> Stages] /\ job \in [Workers -> Jobs \union {NoJob}]
  BY DEF TypeOK, JobsInv, BusyIsRunning, SubmittedIsKnown, Settled, Shown, Busy,
         Terminal, At
<1>2. CASE Restart
  <2>1. jobs'[j].status = file[j].status /\ jobs'[j].artifact = file[j].artifact
    BY <1>1, <1>2, LoadedKnown DEF Restart, Entry
  <2>2. jobs'[j] \in Entry
    BY <1>1, <1>2 DEF Restart, Loaded, Entry, Status, Terminal
  <2>3. jobs'[j] = file[j]
    BY <1>1, <2>1, <2>2 DEF Entry
  <2>4. file' = file /\ \A w \in Workers : pc'[w] = "idle"
    BY <1>2 DEF Restart
  <2> QED
    BY <1>1, <2>3, <2>4 DEF Settled, Shown, At
<1>3. CASE ~Restart
  <2>1. jobs'[j] = jobs[j]
    BY <1>1, StatusCases, <1>3
       DEF Submit, CancelQueued, Take, Skip, Begin, SetProgress, Execute, Close,
           Handle, At, Busy, Shown, Terminal
  <2>2. file'[j] = file[j] \/ file'[j] = jobs'[j]
    BY <1>3, EntryStep
  <2>3. \A w \in Workers : job'[w] = j => pc'[w] # "raised"
    BY <1>1, <1>3, StatusCases
       DEF Submit, CancelQueued, Take, Skip, Begin, SetProgress, Execute, Close,
           Handle, At, Busy, Leave, Goto
  <2> QED
    BY <1>1, <2>1, <2>2, <2>3 DEF Settled, Shown, At
<1> QED
  BY <1>2, <1>3

\* No late worker, cancellation, failed save or restart changes a settled end.
THEOREM EndsAreFinal == Spec => SettledIsFinal
<1>1. TypeOK /\ JobsInv /\ [Next]_vars =>
        [\A j \in Jobs : Settled(j) => Settled(j)' /\ jobs'[j] = jobs[j]]_vars
  BY SettledStep
<1> QED
  BY <1>1, TypeCorrect, JobsInvariant, PTL DEF Spec, SettledIsFinal

\* A job that clients see ended is never started again.
THEOREM EndedJobsStayEnded == Spec => EndedNeverStarts
<1>1. TypeOK /\ [Next]_vars =>
        [\A j \in Jobs : Shown(j) \in Terminal => Shown(j)' # "running"]_vars
  <2> SUFFICES ASSUME TypeOK, [Next]_vars, NEW j \in Jobs, Shown(j) \in Terminal
               PROVE  jobs'[j].status # "running"
    BY DEF Shown
  <2>1. jobs \in [Jobs -> Entry] /\ file \in [Jobs -> Entry]
    BY DEF TypeOK
  <2>2. jobs[j].status # "running" /\ jobs[j].status # "queued"
    BY DEF Shown, Terminal
  <2>3. CASE Restart
    BY <2>1, <2>3, LoadedKnown DEF Restart, Entry
  <2>4. ASSUME NEW k \in Jobs, Submit(k) \/ CancelQueued(k)
        PROVE  jobs'[j].status # "running"
    BY <2>1, <2>2, <2>4 DEF Submit, CancelQueued, Entry
  <2>5. ASSUME NEW w \in Workers, Begin(w) PROVE jobs'[j].status # "running"
    <3>1. job[w] # j
      BY <2>2, <2>5 DEF Begin, Shown
    <3> QED
      BY <2>1, <2>2, <2>5, <3>1 DEF Begin
  <2>6. ASSUME NEW w \in Workers, Close(w) \/ Handle(w)
        PROVE  jobs'[j].status # "running"
    <3>1. jobs'[j] = jobs[j] \/ jobs'[j].status \in Terminal
      BY <2>1, <2>6 DEF Close, Handle, Entry, Terminal
    <3> QED
      BY <2>2, <3>1 DEF Terminal
  <2>7. jobs' = jobs => jobs'[j].status # "running"
    BY <2>2
  <2> QED
    BY <2>3, <2>4, <2>5, <2>6, <2>7, StatusCases
       DEF Take, Skip, SetProgress, Execute
<1> QED
  BY <1>1, TypeCorrect, PTL DEF Spec, EndedNeverStarts

-----------------------------------------------------------------------------
(* While no save raises, the manager implements JobLifecycle.              *)

\* The file lags memory only by what a restart makes of it, the except clause is
\* reached by running jobs only, and a running job has its worker.
FaultlessInv ==
  /\ faults = 0
  /\ \A j \in Jobs : Loaded(file[j].status) = Loaded(Shown(j))
  /\ \A w \in Workers : pc[w] = "raised" => Shown(job[w]) = "running"
  /\ \A w \in Workers : pc[w] = "claimed" => Shown(job[w]) # "running"
  /\ RunningIsExecuting

\* Without faults a save is a save.
LEMMA SavesReturn ==
  ASSUME MaxFaults = 0, TypeOK PROVE ~SaveRaises
BY DEF TypeOK, SaveRaises

\* The file and the number of faults after a step.
LEMMA FaultlessFile ==
  ASSUME MaxFaults = 0, TypeOK, JobsInv, FaultlessInv, [Next]_vars
  PROVE  /\ faults' = 0
         /\ \A j \in Jobs : Loaded(file'[j].status) = Loaded(jobs'[j].status)
<1>1. /\ faults = 0 /\ file \in [Jobs -> Entry] /\ ~SaveRaises
      /\ \A j \in Jobs : Loaded(file[j].status) = Loaded(jobs[j].status)
  BY SavesReturn DEF TypeOK, FaultlessInv, Shown
<1>2. CASE Restart
  <2>1. \A j \in Jobs : jobs'[j].status = Loaded(file[j].status)
    BY <1>1, <1>2 DEF Restart, Entry
  <2>2. \A s : Loaded(Loaded(s)) = Loaded(s)
    BY DEF Loaded
  <2> QED
    BY <1>1, <1>2, <2>1, <2>2 DEF Restart
<1>3. CASE UNCHANGED <<jobs, file, faults>>
  BY <1>1, <1>3
<1>4. CASE Saved
  BY <1>1, <1>4 DEF Saved
<1>5. Restart \/ UNCHANGED <<jobs, file, faults>> \/ Saved
  BY <1>1, NextCases
     DEF vars, Submit, Enqueue, CancelQueued, CancelRunning, Take, Skip, Begin,
         SetProgress, Execute, Close, Handle, Save
<1> QED
  BY <1>2, <1>3, <1>4, <1>5

\* How a worker's steps move its job through its life: none is forgotten.
LEMMA FaultlessWorkers ==
  ASSUME MaxFaults = 0, TypeOK, JobsInv, FaultlessInv, [Next]_vars
  PROVE  /\ \A w \in Workers : pc'[w] = "raised" => jobs'[job'[w]].status = "running"
         /\ \A w \in Workers : pc'[w] = "claimed" => jobs'[job'[w]].status # "running"
         /\ \A j \in Jobs : jobs'[j].status = "running" => \E w \in Workers : job'[w] = j
<1>1. /\ ~SaveRaises /\ WorkersApart
      /\ \A w \in Workers : pc[w] \in Busy \union {"raised"} => jobs[job[w]].status = "running"
      /\ \A w \in Workers : pc[w] = "claimed" => jobs[job[w]].status # "running"
      /\ \A j \in Jobs : jobs[j].status = "running" => \E w \in Workers : job[w] = j
      /\ \A j \in Jobs : request[j] = "new" => jobs[j].status = "none"
      /\ jobs \in [Jobs -> Entry] /\ file \in [Jobs -> Entry] /\ queue \in Seq(Jobs)
      /\ pc \in [Workers -> Stages] /\ job \in [Workers -> Jobs \union {NoJob}]
      /\ \A w \in Workers : job[w] = NoJob <=> pc[w] = "idle"
  BY SavesReturn
     DEF TypeOK, JobsInv, FaultlessInv, BusyIsRunning, RunningIsExecuting,
         SubmittedIsKnown, Shown, At, Busy
<1>2. /\ \A w \in Workers : pc[w] # "idle" => job[w] \in Jobs
      /\ \A v, w \in Workers : pc[v] # "idle" /\ job[v] = job[w] => v = w
  BY <1>1 DEF WorkersApart
<1>3. CASE UNCHANGED <<jobs, job, pc>>
  BY <1>1, <1>3
<1>4. ASSUME NEW j \in Jobs, Submit(j) \/ CancelQueued(j)
      PROVE  /\ UNCHANGED <<job, pc>>
             /\ jobs[j].status # "running" /\ jobs'[j].status # "running"
             /\ \A k \in Jobs : k # j => jobs'[k] = jobs[k]
  BY <1>1, <1>4 DEF Submit, CancelQueued, Shown, Entry
<1>5. CASE \E j \in Jobs : Submit(j) \/ CancelQueued(j)
  <2>1. PICK j \in Jobs : Submit(j) \/ CancelQueued(j)
    BY <1>5
  <2>2. \A k \in Jobs : jobs'[k].status = "running" <=> jobs[k].status = "running"
    BY <1>4, <2>1
  <2> QED
    BY <1>1, <1>2, <1>4, <2>1, <2>2 DEF Stages
<1>6. ASSUME NEW w \in Workers, Take(w)
      PROVE  /\ jobs' = jobs /\ pc'[w] = "claimed" /\ job[w] = NoJob
             /\ job'[w] \in Jobs /\ jobs[job'[w]].status # "running"
             /\ \A u \in Workers : u # w => job'[u] = job[u] /\ pc'[u] = pc[u]
  <2>1. Len(queue) \in Nat /\ Len(queue) # 0 /\ Head(queue) = queue[1]
        /\ queue[1] \in Jobs
    BY <1>1, <1>6 DEF Take
  <2>2. \A u \in Workers : job[u] # queue[1]
    BY <1>1, <2>1, JobsAssumption DEF WorkersApart
  <2>3. job' = [job EXCEPT ![w] = queue[1]]
    BY <1>6, <2>1 DEF Take
  <2> QED
    BY <1>1, <1>6, <2>1, <2>2, <2>3 DEF Take, Goto, At
<1>7. CASE \E w \in Workers : Take(w)
  <2>1. PICK w \in Workers : Take(w)
    BY <1>7
  <2> QED
    BY <1>1, <1>6, <2>1, JobsAssumption
<1>8. ASSUME NEW w \in Workers, Skip(w) \/ Close(w) \/ Handle(w)
      PROVE  /\ pc'[w] = "idle" /\ job[w] \in Jobs /\ jobs'[job[w]].status # "running"
             /\ \A k \in Jobs : k # job[w] => jobs'[k] = jobs[k]
             /\ \A u \in Workers : u # w => job'[u] = job[u] /\ pc'[u] = pc[u]
  <2>1. job[w] \in Jobs /\ Leave(w)
    BY <1>1, <1>2, <1>8 DEF Skip, Close, Handle, At
  <2>2. pc'[w] = "idle" /\ \A u \in Workers : u # w => job'[u] = job[u] /\ pc'[u] = pc[u]
    BY <1>1, <2>1 DEF Leave, Goto
  <2> QED
    BY <1>1, <1>8, <2>1, <2>2 DEF Skip, Close, Handle, At, Entry
<1>9. CASE \E w \in Workers : Skip(w) \/ Close(w) \/ Handle(w)
  <2>1. PICK w \in Workers : Skip(w) \/ Close(w) \/ Handle(w)
    BY <1>9
  <2> QED
    BY <1>1, <1>2, <1>8, <2>1
<1>10. ASSUME NEW w \in Workers, Begin(w)
       PROVE  /\ job' = job /\ pc'[w] = "preparing" /\ job[w] \in Jobs
              /\ jobs'[job[w]].status = "running"
              /\ \A k \in Jobs : k # job[w] => jobs'[k] = jobs[k]
              /\ \A u \in Workers : u # w => pc'[u] = pc[u]
  BY <1>1, <1>2, <1>10 DEF Begin, Goto, At, Entry
<1>11. CASE \E w \in Workers : Begin(w)
  <2>1. PICK w \in Workers : Begin(w)
    BY <1>11
  <2> QED
    BY <1>1, <1>2, <1>10, <2>1
<1>12. ASSUME NEW w \in Workers,
              \/ \E from \in {"preparing", "announcing", "reporting", "executing"},
                    to \in {"announcing", "executing", "closing"} :
                      SetProgress(w, from, to)
              \/ Execute(w)
       PROVE  /\ jobs' = jobs /\ job' = job /\ pc'[w] # "claimed" /\ pc[w] \in Busy
              /\ \A u \in Workers : u # w => pc'[u] = pc[u]
  BY <1>1, <1>12 DEF SetProgress, Execute, Goto, At, Busy
<1>13. CASE \E w \in Workers :
              \/ \E from \in {"preparing", "announcing", "reporting", "executing"},
                    to \in {"announcing", "executing", "closing"} :
                      SetProgress(w, from, to)
              \/ Execute(w)
  <2>1. PICK w \in Workers :
               \/ \E from \in {"preparing", "announcing", "reporting", "executing"},
                     to \in {"announcing", "executing", "closing"} :
                       SetProgress(w, from, to)
               \/ Execute(w)
    BY <1>13
  <2> QED
    BY <1>1, <1>12, <2>1
<1>14. CASE Restart
  <2>1. \A j \in Jobs : jobs'[j].status # "running"
    BY <1>1, <1>14, LoadedKnown DEF Restart, Entry
  <2> QED
    BY <1>14, <2>1 DEF Restart
<1> QED
  BY <1>3, <1>5, <1>7, <1>9, <1>11, <1>13, <1>14, StatusCases

\* The strengthened invariant of the manager whose saves return.
LEMMA FaultlessInvariant ==
  ASSUME MaxFaults = 0 PROVE Spec => []FaultlessInv
<1>1. Init => FaultlessInv
  BY DEF Init, FaultlessInv, RunningIsExecuting, Shown, Absent
<1>2. TypeOK /\ JobsInv /\ FaultlessInv /\ [Next]_vars => FaultlessInv'
  BY FaultlessFile, FaultlessWorkers DEF FaultlessInv, RunningIsExecuting, Shown
<1> QED
  BY <1>1, <1>2, TypeCorrect, JobsInvariant, PTL DEF Spec

\* While no save raises, a job that is shown as running has its worker.
THEOREM RunningJobsExecute ==
  ASSUME MaxFaults = 0 PROVE Spec => []RunningIsExecuting
<1>1. FaultlessInv => RunningIsExecuting
  BY DEF FaultlessInv
<1> QED
  BY <1>1, FaultlessInvariant, PTL

States == [j \in Jobs |-> Shown(j)]

\* One entry changes, so one state does.
LEMMA OneStateChanges ==
  ASSUME NEW j \in Jobs, \A k \in Jobs : k # j => jobs'[k] = jobs[k]
  PROVE  States' = [States EXCEPT ![j] = jobs'[j].status]
BY DEF States, Shown

\* A step of the manager is a step of JobLifecycle or leaves its state alone.
LEMMA LifecycleStep ==
  ASSUME MaxFaults = 0, TypeOK, JobsInv, FaultlessInv, [Next]_vars
  PROVE  [Lifecycle!Next]_<<States, cancel>>
<1>1. /\ ~SaveRaises
      /\ \A w \in Workers : pc[w] \in Busy \union {"raised"} => jobs[job[w]].status = "running"
      /\ \A j \in Jobs : request[j] = "new" => jobs[j].status = "none"
      /\ \A j \in Jobs : Loaded(file[j].status) = Loaded(jobs[j].status)
      /\ jobs \in [Jobs -> Entry] /\ file \in [Jobs -> Entry]
      /\ \A w \in Workers : pc[w] # "idle" => job[w] \in Jobs
  BY SavesReturn
     DEF TypeOK, JobsInv, FaultlessInv, BusyIsRunning, SubmittedIsKnown, Shown, At, Busy
<1>2. \A j \in Jobs : States[j] = jobs[j].status
  BY DEF States, Shown
<1>3. ASSUME NEW j \in Jobs, Submit(j) PROVE Lifecycle!Accept(j)
  <2>1. States' = [States EXCEPT ![j] = "queued"]
    BY <1>1, <1>3, OneStateChanges DEF Submit, Entry
  <2> QED
    BY <1>1, <1>2, <1>3, <2>1 DEF Submit, Lifecycle!Accept, States
<1>4. ASSUME NEW j \in Jobs, CancelQueued(j) PROVE Lifecycle!Withdraw(j)
  <2>1. States' = [States EXCEPT ![j] = "cancelled"]
    BY <1>1, <1>4, OneStateChanges DEF CancelQueued, Entry
  <2> QED
    BY <1>2, <1>4, <2>1 DEF CancelQueued, Lifecycle!Withdraw, Shown, States
<1>5. ASSUME NEW j \in Jobs, CancelRunning(j) PROVE Lifecycle!Ask(j)
  BY <1>2, <1>5 DEF CancelRunning, Lifecycle!Ask, Shown, States
<1>6. ASSUME NEW w \in Workers, Begin(w) PROVE Lifecycle!Start(job[w])
  <2>1. States' = [States EXCEPT ![job[w]] = "running"]
    BY <1>1, <1>6, OneStateChanges DEF Begin, At, Entry
  <2> QED
    BY <1>1, <1>2, <1>6, <2>1 DEF Begin, At, Lifecycle!Start, Shown, States
<1>7. ASSUME NEW w \in Workers, Close(w) \/ Handle(w) PROVE Lifecycle!End(job[w])
  <2>1. /\ job[w] \in Jobs /\ jobs[job[w]].status = "running"
        /\ UNCHANGED cancel
        /\ \A k \in Jobs : k # job[w] => jobs'[k] = jobs[k]
        /\ jobs'[job[w]].status \in
             {"failed", IF job[w] \in cancel THEN "cancelled" ELSE "finished"}
    BY <1>1, <1>7 DEF Close, Handle, At, Busy, Entry
  <2>2. States' = [States EXCEPT ![job[w]] = jobs'[job[w]].status]
    BY <2>1, OneStateChanges
  <2> QED
    BY <1>2, <2>1, <2>2 DEF Lifecycle!End, States
<1>8. CASE Restart
  <2>1. \A j \in Jobs : jobs'[j].status = Loaded(jobs[j].status)
    BY <1>1, <1>8 DEF Restart, Entry
  <2>2. Lifecycle!Restart
    BY <1>8, <2>1 DEF Restart, Loaded, Lifecycle!Restart, Lifecycle!Open, States, Shown
  <2> QED
    BY <2>2 DEF Lifecycle!Next
<1>9. CASE UNCHANGED <<jobs, cancel>>
  BY <1>9 DEF States, Shown
<1>10. \/ UNCHANGED <<jobs, cancel>> \/ Restart
       \/ \E j \in Jobs : Submit(j) \/ CancelQueued(j) \/ CancelRunning(j)
       \/ \E w \in Workers : Begin(w) \/ Close(w) \/ Handle(w)
  BY NextCases DEF vars, Enqueue, Take, Skip, SetProgress, Execute
<1>11. ASSUME NEW w \in Workers, Begin(w) \/ Close(w) \/ Handle(w) PROVE job[w] \in Jobs
  BY <1>1, <1>11 DEF Begin, Close, Handle, At
<1> QED
  BY <1>3, <1>4, <1>5, <1>6, <1>7, <1>8, <1>9, <1>10, <1>11 DEF Lifecycle!Next

\* While no save raises, threads, queue, locks and file together implement
\* JobLifecycle: a job's status moves only as that has it, whatever requests,
\* workers and restarts do in between.
THEOREM LifecycleFollowed ==
  ASSUME MaxFaults = 0 PROVE Spec => FollowsLifecycle
<1>1. Init => Lifecycle!Init
  BY DEF Init, Lifecycle!Init, Shown, Absent
<1>2. TypeOK /\ JobsInv /\ FaultlessInv /\ [Next]_vars
        => [Lifecycle!Next]_<<[j \in Jobs |-> Shown(j)], cancel>>
  BY LifecycleStep DEF States
<1> QED
  BY <1>1, <1>2, TypeCorrect, JobsInvariant, FaultlessInvariant, PTL
     DEF Spec, FollowsLifecycle, Lifecycle!Spec
=============================================================================
