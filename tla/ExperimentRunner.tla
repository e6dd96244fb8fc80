--------------------------- MODULE ExperimentRunner ---------------------------
(***************************************************************************)
(* ExperimentRunner (experiment/runner.py) and the holder of app.py: each  *)
(* experiment has a runner, a simulation of its own and a thread that      *)
(* ticks it; Flask request threads start, stop, reset, pause and resume    *)
(* experiments and delete their directories meanwhile.                     *)
(*                                                                         *)
(* No lock is shared by the runner's thread and the requests: stop_reason, *)
(* the two events of the simulation and the holder are read and written    *)
(* one at a time, so each read-and-branch and each write is a step here.   *)
(*                                                                         *)
(* Left out: requests that are refused or only read; the default           *)
(* simulation's ticks (create_app does not start it) and its pause; a      *)
(* directory that is deleted while a file is being created in it.          *)
(***************************************************************************)
EXTENDS Integers, FiniteSets

CONSTANTS
  Runs,        \* the experiments, each started at most once (uuid4)
  Clients,     \* request threads
  Operators,   \* those that may start and reset experiments
  Default,     \* the simulation the server shows when no experiment is held
  NoRunner,    \* None
  MaxTicks,    \* config.max_ticks
  MaxFaults    \* bound: files that cannot be opened for writing

ASSUME RunnerAssumption ==
  /\ Runs \intersect Clients = {} /\ Operators \subseteq Clients
  /\ Default \notin Runs /\ NoRunner \notin Runs
  /\ MaxTicks \in Nat \ {0} /\ MaxFaults \in Nat

VARIABLES
  run,      \* each runner with its simulation, its recorder and its directory
  holder,   \* app.py's holder: the runner and the simulation requests act on
  pc,       \* where each runner's thread and each request is
  aim,      \* its locals: the runner it works on, and the reason it would give
  draft,    \* the summary it has built
  faults

vars == <<run, holder, pc, aim, draft, faults>>

Threads == Runs \union Clients
Reasons == {"none", "user", "reset", "ticks", "target", "error"}
Summary == [reason : Reasons, tick : 0..MaxTicks]

RunType ==
  [reason    : Reasons,                    \* stop_reason
   stopped   : BOOLEAN, going : BOOLEAN,   \* _stop_event and _running_event
   tick      : 0..MaxTicks,                \* _tick_count
   rows      : 0..MaxTicks,                \* rows of timeseries.csv
   open      : BOOLEAN,                    \* not recorder._closed
   dir       : {"none", "there", "gone"},  \* run_dir
   summary   : Summary,                    \* summary.json
   finalized : BOOLEAN]                    \* _finalized

RunStages == {"new", "loop", "tick", "announce", "halt", "compile", "write",
              "settle", "ended"}
RequestStages == {"idle", "checked", "launched", "held", "stop", "name", "signal",
                  "wait", "compile", "write", "settle", "renew", "drop"}

NoSummary == [reason |-> "none", tick |-> 0]
Unmade    == [reason |-> "none", stopped |-> FALSE, going |-> FALSE, tick |-> 0,
              rows |-> 0, open |-> FALSE, dir |-> "none", summary |-> NoSummary,
              finalized |-> FALSE]
NoAim     == [run |-> NoRunner, why |-> "none"]

At(t, stage)   == pc[t] = stage
Goto(t, stage) == pc' = [pc EXCEPT ![t] = stage]
On(t)          == aim[t].run

Alive(r)  == pc[r] \notin {"new", "ended"}
Active(r) == r \in Runs /\ Alive(r) /\ ~run[r].finalized
Unused    == {r \in Runs : At(r, "new")}   \* bound: no more starts than Runs
Paused(r) == run[r].stopped \/ ~run[r].going

-----------------------------------------------------------------------------
(* The runner's thread: _run.                                              *)

\* A mutant of Look: a paused simulation is not asked whether it was stopped.
LookPausedFirst(r) ==
  /\ At(r, "loop") /\ ~Paused(r)
  /\ Goto(r, IF run[r].stopped THEN "compile" ELSE "tick")
  /\ UNCHANGED <<run, holder, aim, draft, faults>>

\* The head of the loop: leave it, tick, or (no step) sleep while paused.
Look(r) ==
  /\ At(r, "loop") /\ (run[r].stopped \/ ~Paused(r))
  /\ Goto(r, IF run[r].stopped THEN "compile" ELSE "tick")
  /\ UNCHANGED <<run, holder, aim, draft, faults>>

\* A mutant of Verdicts: off by one.
VerdictsLate(t) == {IF t > MaxTicks THEN "ticks" ELSE "none", "target"}

\* evaluate_stop_condition after the t-th tick: a workload may be done at any.
Verdicts(t) == {IF t >= MaxTicks THEN "ticks" ELSE "none", "target"}

\* One round under the simulation's lock: tick, snapshot, record, evaluate.
Tick(r) ==
  /\ At(r, "tick") /\ run[r].open
  /\ run' = [run EXCEPT ![r].tick = @ + 1, ![r].rows = @ + 1]
  /\ \E v \in Verdicts(run[r].tick + 1) :
       /\ aim' = [aim EXCEPT ![r].why = v]
       /\ Goto(r, IF v = "none" THEN "loop" ELSE "announce")
  /\ UNCHANGED <<holder, draft, faults>>

\* The round raises: before the tick is counted, or before or after its row.
TickRaises(r) ==
  /\ At(r, "tick")
  /\ \E t, n \in {0, 1} :
       /\ n <= t /\ (run[r].open \/ n = 0)
       /\ run' = [run EXCEPT ![r].tick = @ + t, ![r].rows = @ + n]
  /\ aim' = [aim EXCEPT ![r].why = "error"]
  /\ Goto(r, "announce")
  /\ UNCHANGED <<holder, draft, faults>>

\* The thread gives its reason, whatever another was given meanwhile ...
Announce(r) ==
  /\ At(r, "announce")
  /\ run' = [run EXCEPT ![r].reason = aim[r].why]
  /\ aim' = [aim EXCEPT ![r].why = "none"]
  /\ Goto(r, "halt")
  /\ UNCHANGED <<holder, draft, faults>>

\* ... stops its simulation and leaves the loop.
Halt(r) ==
  /\ At(r, "halt")
  /\ run' = [run EXCEPT ![r].stopped = TRUE, ![r].going = TRUE]
  /\ Goto(r, "compile")
  /\ UNCHANGED <<holder, aim, draft, faults>>

-----------------------------------------------------------------------------
(* _finalize, called by the thread and by stop.                            *)

\* stop has returned: /api/experiment/stop answers, /api/reset goes on.
AfterStop(t) == IF aim[t].why = "reset" THEN "renew" ELSE "idle"

\* _finalize has returned, or raised (and the request ends with status 500).
Done(t)   == IF t \in Runs THEN "ended" ELSE AfterStop(t)
Raised(t) == IF t \in Runs THEN "ended" ELSE "idle"

\* Return at once if it was done; else close the recorder, build the summary.
Compile(t) ==
  LET r == On(t)
  IN /\ At(t, "compile")
     /\ IF run[r].finalized
          THEN Goto(t, Done(t)) /\ UNCHANGED <<run, draft>>
          ELSE /\ run' = [run EXCEPT ![r].open = FALSE]
               /\ draft' = [draft EXCEPT ![t] = [reason |-> run[r].reason,
                                                 tick   |-> run[r].tick]]
               /\ Goto(t, "write")
     /\ UNCHANGED <<holder, aim, faults>>

Write(t) ==
  LET r == On(t)
  IN /\ At(t, "write") /\ run[r].dir = "there"
     /\ run' = [run EXCEPT ![r].summary = draft[t]]
     /\ draft' = [draft EXCEPT ![t] = NoSummary]
     /\ Goto(t, "settle")
     /\ UNCHANGED <<holder, aim, faults>>

\* summary.json cannot be opened: its directory is gone, or the disk is full.
WriteRaises(t) ==
  /\ At(t, "write")
  /\ \/ run[On(t)].dir # "there" /\ UNCHANGED faults
     \/ faults < MaxFaults /\ faults' = faults + 1
  /\ draft' = [draft EXCEPT ![t] = NoSummary]
  /\ Goto(t, Raised(t))
  /\ UNCHANGED <<run, holder, aim>>

Settle(t) ==
  /\ At(t, "settle")
  /\ run' = [run EXCEPT ![On(t)].finalized = TRUE]
  /\ Goto(t, Done(t))
  /\ UNCHANGED <<holder, aim, draft, faults>>

-----------------------------------------------------------------------------
(* Requests.                                                               *)

\* A mutant of AskStart: an experiment that is paused may be replaced.
AskStartIfPaused(c) ==
  /\ At(c, "idle") /\ Unused # {}
  /\ Active(holder.runner) => Paused(holder.runner)
  /\ aim' = [aim EXCEPT ![c] = NoAim]
  /\ Goto(c, "checked")
  /\ UNCHANGED <<run, holder, draft, faults>>

\* /api/experiment/start: the held runner is looked at, ...
AskStart(c) ==
  /\ At(c, "idle") /\ ~Active(holder.runner) /\ Unused # {}
  /\ aim' = [aim EXCEPT ![c] = NoAim]
  /\ Goto(c, "checked")
  /\ UNCHANGED <<run, holder, draft, faults>>

\* ... a new runner makes its simulation, directory and recorder and starts its
\* thread, ...
Launch(c, r) ==
  /\ At(c, "checked") /\ At(r, "new")
  /\ run' = [run EXCEPT ![r] = [Unmade EXCEPT !.going = TRUE, !.open = TRUE,
                                              !.dir = "there"]]
  /\ aim' = [aim EXCEPT ![c].run = r]
  /\ pc' = [pc EXCEPT ![c] = "launched", ![r] = "loop"]
  /\ UNCHANGED <<holder, draft, faults>>

\* ... and the holder gets the runner and then the simulation.
HoldRunner(c) ==
  /\ At(c, "launched")
  /\ holder' = [holder EXCEPT !.runner = On(c)]
  /\ Goto(c, "held")
  /\ UNCHANGED <<run, aim, draft, faults>>

HoldSimulation(c) ==
  /\ At(c, "held")
  /\ holder' = [holder EXCEPT !.simulation = On(c)]
  /\ Goto(c, "idle")
  /\ UNCHANGED <<run, aim, draft, faults>>

\* /api/experiment/stop.
AskStop(c) ==
  /\ At(c, "idle") /\ holder.runner # NoRunner
  /\ aim' = [aim EXCEPT ![c] = [run |-> holder.runner, why |-> "user"]]
  /\ Goto(c, "stop")
  /\ UNCHANGED <<run, holder, draft, faults>>

\* A mutant of AskReset: the simulation is replaced before the runner is stopped.
AskResetShowingFirst(c) ==
  /\ At(c, "idle")
  /\ aim' = [aim EXCEPT ![c] = [run |-> holder.runner, why |-> "reset"]]
  /\ holder' = [holder EXCEPT !.simulation = Default]
  /\ Goto(c, IF holder.runner = NoRunner THEN "renew" ELSE "stop")
  /\ UNCHANGED <<run, draft, faults>>

\* /api/reset: stop the held runner, if any, ...
AskReset(c) ==
  /\ At(c, "idle")
  /\ aim' = [aim EXCEPT ![c] = [run |-> holder.runner, why |-> "reset"]]
  /\ Goto(c, IF holder.runner = NoRunner THEN "renew" ELSE "stop")
  /\ UNCHANGED <<run, holder, draft, faults>>

\* ... hold a new default simulation, ...
Renew(c) ==
  /\ At(c, "renew")
  /\ holder' = [holder EXCEPT !.simulation = Default]
  /\ Goto(c, "drop")
  /\ UNCHANGED <<run, aim, draft, faults>>

\* ... and let go of the runner.
Drop(c) ==
  /\ At(c, "drop")
  /\ holder' = [holder EXCEPT !.runner = NoRunner]
  /\ Goto(c, "idle")
  /\ UNCHANGED <<run, aim, draft, faults>>

\* /api/pause and /api/resume act on the held simulation.  (Once its thread has
\* ended nothing runs that would look at _running_event.)
Pause ==
  /\ holder.simulation \in Runs /\ Alive(holder.simulation)
  /\ run' = [run EXCEPT ![holder.simulation].going = FALSE]
  /\ UNCHANGED <<holder, pc, aim, draft, faults>>

Resume ==
  /\ holder.simulation \in Runs /\ Alive(holder.simulation)
  /\ run' = [run EXCEPT ![holder.simulation].going = TRUE]
  /\ UNCHANGED <<holder, pc, aim, draft, faults>>

\* DELETE /api/runs/<run_id> of a run that goes on, too.  (A finished runner does
\* not come back to its directory.)
Delete(r) ==
  /\ run[r].dir = "there" /\ ~run[r].finalized
  /\ run' = [run EXCEPT ![r].dir = "gone"]
  /\ UNCHANGED <<holder, pc, aim, draft, faults>>

-----------------------------------------------------------------------------
(* stop, called by the two requests.                                       *)

\* A mutant of StopCheck: the simulation is stopped before a reason is given.
StopCheckStopping(c) ==
  LET r == On(c)
  IN /\ At(c, "stop")
     /\ run' = [run EXCEPT ![r].stopped = TRUE]
     /\ Goto(c, IF run[r].finalized THEN AfterStop(c)
                ELSE IF run[r].reason = "none" THEN "name" ELSE "signal")
     /\ UNCHANGED <<holder, aim, draft, faults>>

\* Nothing to do, a reason to give, or one that was given already.
StopCheck(c) ==
  LET r == On(c)
  IN /\ At(c, "stop")
     /\ Goto(c, IF run[r].finalized THEN AfterStop(c)
                ELSE IF run[r].reason = "none" THEN "name" ELSE "signal")
     /\ UNCHANGED <<run, holder, aim, draft, faults>>

Name(c) ==
  /\ At(c, "name")
  /\ run' = [run EXCEPT ![On(c)].reason = aim[c].why]
  /\ Goto(c, "signal")
  /\ UNCHANGED <<holder, aim, draft, faults>>

Signal(c) ==
  /\ At(c, "signal")
  /\ run' = [run EXCEPT ![On(c)].stopped = TRUE, ![On(c)].going = TRUE]
  /\ Goto(c, "wait")
  /\ UNCHANGED <<holder, aim, draft, faults>>

\* A mutant of Wait: a thread that does not end in time is finalized for it.
WaitThenFinalize(c) ==
  /\ At(c, "wait")
  /\ Goto(c, IF run[On(c)].finalized THEN AfterStop(c) ELSE "compile")
  /\ UNCHANGED <<run, holder, aim, draft, faults>>

\* Join the thread for two seconds, so that the call may return before the thread
\* has ended; a thread that died before it was done is finalized for it.
Wait(c) ==
  /\ At(c, "wait")
  /\ Goto(c, IF Alive(On(c)) \/ run[On(c)].finalized
               THEN AfterStop(c) ELSE "compile")
  /\ UNCHANGED <<run, holder, aim, draft, faults>>

-----------------------------------------------------------------------------

Init ==
  /\ run = [r \in Runs |-> Unmade]
  /\ holder = [runner |-> NoRunner, simulation |-> Default]
  /\ pc = [t \in Threads |-> IF t \in Runs THEN "new" ELSE "idle"]
  /\ aim = [t \in Threads |-> IF t \in Runs THEN [NoAim EXCEPT !.run = t] ELSE NoAim]
  /\ draft = [t \in Threads |-> NoSummary]
  /\ faults = 0

Finalize(t) == Compile(t) \/ Write(t) \/ WriteRaises(t) \/ Settle(t)

Execute(r) ==
  Look(r) \/ Tick(r) \/ TickRaises(r) \/ Announce(r) \/ Halt(r) \/ Finalize(r)

Serve(c) ==
  \/ \E r \in Runs : Launch(c, r)
  \/ HoldRunner(c) \/ HoldSimulation(c) \/ Renew(c) \/ Drop(c)
  \/ StopCheck(c) \/ Name(c) \/ Signal(c) \/ Wait(c) \/ Finalize(c)

Ask ==
  \/ \E c \in Operators : AskStart(c) \/ AskReset(c)
  \/ \E c \in Clients : AskStop(c)
  \/ Pause \/ Resume
  \/ \E r \in Runs : Delete(r)

Next ==
  \/ \E r \in Runs : Execute(r)
  \/ \E c \in Clients : Serve(c)
  \/ Ask

\* Threads that can go on do.  Nobody has to ask for anything, and a simulation
\* may stay paused for good.
Fairness ==
  /\ \A r \in Runs : WF_vars(Execute(r))
  /\ \A c \in Clients : WF_vars(Serve(c))

Spec == Init /\ [][Next]_vars /\ Fairness

-----------------------------------------------------------------------------
(* Properties.                                                             *)

\* Runners, holder and threads have their types.
TypeOK ==
  /\ run \in [Runs -> RunType]
  /\ holder \in [runner : Runs \union {NoRunner}, simulation : Runs \union {Default}]
  /\ DOMAIN pc = Threads
  /\ \A r \in Runs : pc[r] \in RunStages
  /\ \A c \in Clients : pc[c] \in RequestStages
  /\ aim \in [Threads -> [run : Runs \union {NoRunner}, why : Reasons]]
  /\ \A r \in Runs : On(r) = r
  /\ draft \in [Threads -> Summary]
  /\ faults \in 0..MaxFaults

\* The recorder is open as long as the thread may record a tick: no request, not
\* even one that gave up waiting for the thread, closes it under the thread's feet.
RecorderOpen == \A r \in Runs : pc[r] \in {"loop", "tick"} => run[r].open

\* The summary of a finished run has a reason and counts every tick that was ever
\* run; a run that ended by itself has a row for each of them, and gives the
\* horizon as its reason only if it has reached it.
SummaryJustified ==
  \A r \in Runs : run[r].finalized =>
    LET s == run[r].summary
    IN /\ s.reason # "none" /\ s.tick = run[r].tick
       /\ s.reason \in {"ticks", "target"} => run[r].rows = s.tick
       /\ s.reason = "ticks" => s.tick = MaxTicks
       /\ At(r, "ended")

\* The runs that nobody has stopped.
Live == {r \in Runs : pc[r] \in {"loop", "tick"} /\ ~run[r].stopped}

\* With one operator, at most one experiment goes on, and it is the one requests
\* act on: none is left running out of reach, though a reset lets go of a runner
\* whose thread has not ended.
Controlled ==
  /\ Cardinality(Live) <= 1
  /\ \A r \in Live : \/ holder.runner = r
                     \/ \E c \in Operators : At(c, "launched") /\ On(c) = r

\* Between the operator's requests, also after one that failed, the simulation the
\* server shows, pauses and resumes is that of the runner it stops.
HolderAgrees ==
  (\A c \in Operators : pc[c] \notin {"held", "drop"}) =>
    holder.simulation = IF holder.runner = NoRunner THEN Default ELSE holder.runner

\* A run that was told to stop, paused or not, comes to its summary, unless its
\* directory was deleted or could not be written to.
StopIsReported ==
  \A r \in Runs : run[r].stopped ~>
    run[r].finalized \/ run[r].dir = "gone" \/ faults > 0
=============================================================================
