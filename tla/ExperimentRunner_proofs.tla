----------------------- MODULE ExperimentRunner_proofs -----------------------
(***************************************************************************)
(* Proofs about ExperimentRunner, for any number of experiments, clients,  *)
(* operators, ticks and faults: whatever requests overlap, the recorder is *)
(* not closed early and summaries are justified; with one operator, who    *)
(* is stopped, shown and paused is the one experiment that goes on.        *)
(***************************************************************************)
EXTENDS ExperimentRunner, FiniteSetTheorems, TLAPS

\* A runner q may give the reason why.
Gives(q, why) ==
  /\ why \in {"ticks", "target"} => q.rows = q.tick
  /\ why = "ticks" => q.tick = MaxTicks

\* The summary s is one that runner q may have.
Justified(q, s) == s.reason # "none" /\ s.tick = q.tick /\ Gives(q, s.reason)

\* A runner and its thread.
RunSound(r) ==
  LET q == run[r]
  IN /\ pc[r] \in {"loop", "tick"} =>
          /\ q.open /\ q.rows = q.tick /\ q.tick < MaxTicks
          /\ q.reason \in {"none", "user", "reset"}
     /\ pc[r] = "announce" =>
          aim[r].why \in {"ticks", "target", "error"} /\ Gives(q, aim[r].why)
     /\ pc[r] \in {"halt", "compile", "write", "settle", "ended"} => q.reason # "none"
     /\ q.stopped => q.reason # "none"
     /\ Gives(q, q.reason)
     /\ pc[r] = "write" => Justified(q, draft[r])
     /\ pc[r] = "settle" => Justified(q, q.summary)
     /\ q.finalized => pc[r] = "ended" /\ Justified(q, q.summary)

\* A request and the runner it works on.
RequestSound(c) ==
  LET r == On(c)
  IN /\ pc[c] \in {"launched", "held", "stop", "name", "signal", "wait", "compile",
                   "write", "settle"} => r \in Runs /\ pc[r] # "new"
     /\ pc[c] \in {"stop", "name", "signal", "wait", "compile", "write", "settle"} =>
          aim[c].why \in {"user", "reset"}
     /\ pc[c] = "signal" => run[r].reason # "none"
     /\ pc[c] \in {"compile", "write", "settle"} => pc[r] = "ended"
     /\ pc[c] = "write" => Justified(run[r], draft[c])
     /\ pc[c] = "settle" => Justified(run[r], run[r].summary)

\* What is held has been started.
HolderSound ==
  /\ holder.runner \in Runs => pc[holder.runner] # "new"
  /\ holder.simulation \in Runs => pc[holder.simulation] # "new"

Inv ==
  /\ TypeOK
  /\ \A r \in Runs : RunSound(r)
  /\ \A c \in Clients : RequestSound(c)
  /\ HolderSound

LEMMA InitInv == Init => Inv
BY RunnerAssumption
   DEF Init, Inv, TypeOK, RunSound, RequestSound, HolderSound, Gives, Justified, On,
       Threads, RunType, RunStages, RequestStages, Reasons, Summary, NoSummary,
       Unmade, NoAim

\* A runner is sound as long as nothing of it changes.
LEMMA RunKept ==
  ASSUME NEW r \in Runs, RunSound(r), run'[r] = run[r], pc'[r] = pc[r],
         aim'[r] = aim[r], draft'[r] = draft[r]
  PROVE  RunSound(r)'
BY DEF RunSound, Gives, Justified

\* What others may do to a runner that a request is working on.
Respects(r) ==
  /\ pc[r] # "new" =>
       pc'[r] # "new" /\ (run[r].reason # "none" => run'[r].reason # "none")
  /\ pc[r] = "ended" =>
       /\ pc'[r] = "ended"
       /\ run'[r].tick = run[r].tick /\ run'[r].rows = run[r].rows
       /\ run'[r].summary = run[r].summary \/ Justified(run'[r], run'[r].summary)

\* Steps that respect the runners keep the requests sound that do not move.
LEMMA StepInv ==
  ASSUME Inv, TypeOK', HolderSound',
         \A r \in Runs : RunSound(r)' /\ Respects(r),
         NEW t,
         t \in Clients => RequestSound(t)',
         \A c \in Clients \ {t} :
           pc'[c] = pc[c] /\ aim'[c] = aim[c] /\ draft'[c] = draft[c]
  PROVE  Inv'
<1>1. ASSUME NEW c \in Clients \ {t} PROVE RequestSound(c)'
  <2>1. RequestSound(c) /\ On(c)' = On(c)
    BY DEF Inv, On
  <2>2. On(c) \in Runs => Respects(On(c))
    OBVIOUS
  <2> QED
    BY <2>1, <2>2 DEF RequestSound, Respects, Gives, Justified
<1> QED
  BY <1>1 DEF Inv

\* ... and the holder as long as it stays what it is.
LEMMA HolderKept ==
  ASSUME Inv, \A r \in Runs : Respects(r), UNCHANGED holder
  PROVE  HolderSound'
BY DEF Inv, HolderSound, Respects

\* The types, as the provers want them.
LEMMA Types ==
  ASSUME Inv
  PROVE  /\ run \in [Runs -> RunType] /\ DOMAIN pc = Threads
         /\ aim \in [Threads -> [run : Runs \union {NoRunner}, why : Reasons]]
         /\ draft \in [Threads -> Summary]
         /\ Runs \subseteq Threads /\ Clients \subseteq Threads
         /\ \A r \in Runs : RunSound(r) /\ On(r) = r /\ r \notin Clients
         /\ \A c \in Clients : RequestSound(c) /\ c \notin Runs
         /\ MaxTicks \in Nat \ {0} /\ NoRunner \notin Runs
BY RunnerAssumption DEF Inv, TypeOK, Threads

-----------------------------------------------------------------------------
(* The thread.                                                             *)

LEMMA LookInv == ASSUME NEW r \in Runs, Inv, Look(r) PROVE Inv'
<1>1. TypeOK'
  BY RunnerAssumption DEF Inv, TypeOK, Look, At, Goto, Threads, RunStages, On
<1>2. ASSUME NEW s \in Runs PROVE RunSound(s)' /\ Respects(s)
  <2>1. RunSound(s) /\ DOMAIN pc = Threads /\ s \in Threads /\ r \in Threads
    BY DEF Inv, TypeOK, Threads
  <2>2. CASE s = r
    BY <2>1, <2>2 DEF RunSound, Respects, Look, At, Goto, Gives, Justified
  <2>3. CASE s # r
    BY <2>1, <2>3, RunKept DEF Respects, Look, Goto
  <2> QED
    BY <2>2, <2>3
<1>3. \A c \in Clients : pc'[c] = pc[c]
  BY RunnerAssumption DEF Inv, TypeOK, Look, Goto, Threads
<1> QED
  BY <1>1, <1>2, <1>3, RunnerAssumption, StepInv, HolderKept DEF Look

LEMMA TickInv == ASSUME NEW r \in Runs, Inv, Tick(r) PROVE Inv'
<1>0. RunSound(r) /\ run[r] \in RunType /\ MaxTicks \in Nat
  BY RunnerAssumption DEF Inv, TypeOK
<1>1. TypeOK'
  <2>1. PICK v \in Verdicts(run[r].tick + 1) :
          /\ aim' = [aim EXCEPT ![r].why = v]
          /\ Goto(r, IF v = "none" THEN "loop" ELSE "announce")
    BY DEF Tick
  <2>2. v \in Reasons
    BY DEF Verdicts, Reasons
  <2>3. run' \in [Runs -> RunType]
    BY <1>0 DEF Inv, TypeOK, Tick, At, RunSound, RunType
  <2> QED
    BY <2>1, <2>2, <2>3, RunnerAssumption
    DEF Inv, TypeOK, Tick, At, Goto, Threads, RunStages, On
<1>2. ASSUME NEW s \in Runs PROVE RunSound(s)' /\ Respects(s)
  <2>1. RunSound(s) /\ DOMAIN pc = Threads /\ s \in Threads /\ r \in Threads
        /\ run \in [Runs -> RunType]
        /\ aim \in [Threads -> [run : Runs \union {NoRunner}, why : Reasons]]
    BY DEF Inv, TypeOK, Threads
  <2>2. CASE s = r
    BY <1>0, <2>1, <2>2
    DEF RunSound, Respects, Tick, At, Goto, Gives, Justified, Verdicts, RunType
  <2>3. CASE s # r
    BY <2>1, <2>3, RunKept DEF Respects, Tick, Goto
  <2> QED
    BY <2>2, <2>3
<1>3. \A c \in Clients : pc'[c] = pc[c] /\ aim'[c] = aim[c]
  BY RunnerAssumption DEF Inv, TypeOK, Tick, Goto, Threads
<1> QED
  BY <1>1, <1>2, <1>3, RunnerAssumption, StepInv, HolderKept DEF Tick

LEMMA TickRaisesInv == ASSUME NEW r \in Runs, Inv, TickRaises(r) PROVE Inv'
<1>0. RunSound(r) /\ run[r] \in RunType /\ MaxTicks \in Nat
  BY Types
<1>1. TypeOK'
  <2>1. run' \in [Runs -> RunType]
    <3>1. PICK t, n \in {0, 1} :
            /\ n <= t
            /\ run' = [run EXCEPT ![r].tick = @ + t, ![r].rows = @ + n]
      BY DEF TickRaises
    <3>2. run[r].tick + t \in 0..MaxTicks /\ run[r].rows + n \in 0..MaxTicks
      BY <1>0, <3>1, Types DEF TickRaises, At, RunSound, RunType
    <3>3. [run[r] EXCEPT !.tick = @ + t, !.rows = @ + n] \in RunType
      BY <1>0, <3>2 DEF RunType
    <3> QED
      BY <3>1, <3>3, Types
  <2>2. "error" \in Reasons
    BY DEF Reasons
  <2> QED
    BY <2>1, <2>2, RunnerAssumption
    DEF Inv, TypeOK, TickRaises, At, Goto, Threads, RunStages, On
<1>2. ASSUME NEW s \in Runs PROVE RunSound(s)' /\ Respects(s)
  <2>1. CASE s = r
    BY <1>0, <2>1, Types
    DEF RunSound, Respects, TickRaises, At, Goto, Gives, Justified
  <2>2. CASE s # r
    BY <2>2, Types, RunKept DEF Respects, TickRaises, Goto
  <2> QED
    BY <2>1, <2>2
<1>3. \A c \in Clients : pc'[c] = pc[c] /\ aim'[c] = aim[c]
  BY Types DEF TickRaises, Goto
<1> QED
  BY <1>1, <1>2, <1>3, StepInv, HolderKept, Types DEF TickRaises

LEMMA AnnounceInv == ASSUME NEW r \in Runs, Inv, Announce(r) PROVE Inv'
<1>1. TypeOK'
  <2>1. run' \in [Runs -> RunType]
    BY Types DEF Announce, RunType
  <2>2. "none" \in Reasons
    BY DEF Reasons
  <2> QED
    BY <2>1, <2>2, RunnerAssumption
    DEF Inv, TypeOK, Announce, At, Goto, Threads, RunStages, On
<1>2. ASSUME NEW s \in Runs PROVE RunSound(s)' /\ Respects(s)
  <2>1. CASE s = r
    BY <2>1, Types
    DEF RunSound, Respects, Announce, At, Goto, Gives, Justified, RunType
  <2>2. CASE s # r
    BY <2>2, Types, RunKept DEF Respects, Announce, Goto
  <2> QED
    BY <2>1, <2>2
<1>3. \A c \in Clients : pc'[c] = pc[c] /\ aim'[c] = aim[c]
  BY Types DEF Announce, Goto
<1> QED
  BY <1>1, <1>2, <1>3, StepInv, HolderKept, Types DEF Announce

LEMMA HaltInv == ASSUME NEW r \in Runs, Inv, Halt(r) PROVE Inv'
<1>1. TypeOK'
  <2>1. run' \in [Runs -> RunType]
    <3>1. [run[r] EXCEPT !.stopped = TRUE, !.going = TRUE] \in RunType
      <4>1. run[r] \in RunType
        BY Types
      <4> QED
        BY <4>1, Zenon DEF RunType
    <3> QED
      BY <3>1, Types DEF Halt
  <2> QED
    BY <2>1, RunnerAssumption
    DEF Inv, TypeOK, Halt, At, Goto, Threads, RunStages, On
<1>2. ASSUME NEW s \in Runs PROVE RunSound(s)' /\ Respects(s)
  <2>1. CASE s = r
    BY <2>1, Types DEF RunSound, Respects, Halt, At, Goto, Gives, Justified, RunType
  <2>2. CASE s # r
    BY <2>2, Types, RunKept DEF Respects, Halt, Goto
  <2> QED
    BY <2>1, <2>2
<1>3. \A c \in Clients : pc'[c] = pc[c]
  BY Types DEF Halt, Goto
<1> QED
  BY <1>1, <1>2, <1>3, StepInv, HolderKept, Types DEF Halt

-----------------------------------------------------------------------------
(* _finalize.                                                              *)

\* Whoever finalizes a runner: it has a reason, and its thread is not in its loop.
LEMMA Finalizing ==
  ASSUME Inv, NEW t \in Threads, pc[t] \in {"compile", "write", "settle"}
  PROVE  /\ On(t) \in Runs /\ (t \in Runs => On(t) = t)
         /\ run[On(t)].reason # "none" /\ Gives(run[On(t)], run[On(t)].reason)
         /\ t \notin Runs => t \in Clients /\ pc[On(t)] = "ended"
         /\ pc[t] = "write" => Justified(run[On(t)], draft[t])
         /\ pc[t] = "settle" => Justified(run[On(t)], run[On(t)].summary)
<1>1. CASE t \in Runs
  BY <1>1, Types DEF RunSound
<1>2. CASE t \in Clients
  <2>1. On(t) \in Runs /\ RequestSound(t) /\ pc[On(t)] = "ended"
    BY <1>2, Types DEF RequestSound
  <2> QED
    BY <1>2, <2>1, Types DEF RequestSound, RunSound
<1> QED
  BY <1>1, <1>2 DEF Threads

\* Where a thread or a request goes on afterwards.
LEMMA Continuation ==
  ASSUME Inv, NEW t \in Threads
  PROVE  /\ t \in Runs => Done(t) = "ended" /\ Raised(t) = "ended"
         /\ t \in Clients => Done(t) \in {"idle", "renew"} /\ Raised(t) = "idle"
BY Types DEF Done, Raised, AfterStop

LEMMA CompileInv == ASSUME NEW t \in Threads, Inv, Compile(t) PROVE Inv'
<1> DEFINE r == On(t)
<1>0. /\ r \in Runs /\ (t \in Runs => r = t) /\ (t \notin Runs => t \in Clients)
      /\ run[r].reason # "none" /\ Gives(run[r], run[r].reason)
      /\ t \in Clients => pc[r] = "ended" /\ r # t
  BY Finalizing, Types DEF Compile, At
<1>a. ASSUME ~run[r].finalized
      PROVE  /\ run' = [run EXCEPT ![r].open = FALSE]
             /\ pc'[t] = "write" /\ Justified(run'[r], draft'[t])
             /\ run'[r].reason # "none" /\ Gives(run'[r], run'[r].reason)
             /\ run'[r].stopped = run[r].stopped /\ ~run'[r].finalized
             /\ run'[r].tick = run[r].tick /\ run'[r].rows = run[r].rows
             /\ run'[r].summary = run[r].summary
  BY <1>0, <1>a, Types, SMTT(30) DEF Compile, Goto, Justified, Gives, RunType
<1>1. TypeOK'
  <2>1. run' \in [Runs -> RunType]
    <3>1. [run[r] EXCEPT !.open = FALSE] \in RunType
      <4>1. run[r] \in RunType
        BY <1>0, Types
      <4> QED
        BY <4>1, Zenon DEF RunType
    <3>2. CASE run[r].finalized
      BY <3>2, Types DEF Compile
    <3>3. CASE ~run[r].finalized
      BY <3>1, <3>3, <1>0, Types DEF Compile
    <3> QED
      BY <3>2, <3>3
  <2>2. draft' \in [Threads -> Summary]
    <3>1. [reason |-> run[r].reason, tick |-> run[r].tick] \in Summary
      BY <1>0, Types DEF RunType, Summary
    <3>2. CASE run[r].finalized
      BY <3>2, Types DEF Compile
    <3>3. CASE ~run[r].finalized
      BY <3>1, <3>3, <1>0, Types DEF Compile
    <3> QED
      BY <3>2, <3>3
  <2> QED
    BY <2>1, <2>2, Continuation, Types, RunnerAssumption
    DEF Inv, TypeOK, Compile, At, Goto, Threads, RunStages, RequestStages, On
<1>2. ASSUME NEW s \in Runs PROVE RunSound(s)' /\ Respects(s)
  <2>1. CASE s = r
    <3>1. CASE run[r].finalized
      BY <1>0, <2>1, <3>1, Continuation, Types
      DEF RunSound, Respects, Compile, At, Goto, Gives, Justified
    <3>2. CASE ~run[r].finalized
      <4>1. CASE t \in Runs
        BY <1>0, <1>a, <2>1, <3>2, <4>1, Types DEF RunSound, Respects, Compile, At
      <4>2. CASE t \in Clients
        <5>1. pc'[s] = "ended" /\ pc[s] = "ended"
          BY <1>0, <2>1, <4>2, Types DEF Compile, Goto
        <5> QED
          BY <1>a, <2>1, <3>2, <5>1 DEF RunSound, Respects
      <4> QED
        BY <1>0, <4>1, <4>2
    <3> QED
      BY <3>1, <3>2
  <2>2. CASE s # r
    BY <1>0, <2>2, Types, RunKept DEF Respects, Compile, Goto
  <2> QED
    BY <2>1, <2>2
<1>3. t \in Clients => RequestSound(t)'
  <2>1. CASE run[r].finalized
    BY <2>1, Continuation, Types DEF RequestSound, Compile, At, Goto, On
  <2>2. CASE ~run[r].finalized
    <3>1. CASE t \in Clients
      <4>1. pc'[t] = "write" /\ pc'[r] = "ended" /\ aim'[t] = aim[t]
            /\ aim[t].why \in {"user", "reset"} /\ On(t)' = r
        BY <1>0, <1>a, <2>2, <3>1, Types DEF RequestSound, Compile, At, Goto, On
      <4> QED
        BY <1>0, <1>a, <2>2, <4>1 DEF RequestSound
    <3> QED
      BY <3>1
  <2> QED
    BY <2>1, <2>2
<1>4. \A c \in Clients \ {t} : pc'[c] = pc[c] /\ aim'[c] = aim[c] /\ draft'[c] = draft[c]
  BY Types DEF Compile, Goto
<1> QED
  BY <1>1, <1>2, <1>3, <1>4, StepInv, HolderKept DEF Compile

LEMMA WriteInv == ASSUME NEW t \in Threads, Inv, Write(t) PROVE Inv'
<1> DEFINE r == On(t)
<1>0. /\ r \in Runs /\ (t \in Runs => r = t) /\ (t \notin Runs => t \in Clients)
      /\ run[r].reason # "none" /\ Justified(run[r], draft[t])
      /\ t \in Clients => pc[r] = "ended" /\ r # t
  BY Finalizing, Types DEF Write, At
<1>1. TypeOK'
  <2>1. run' \in [Runs -> RunType]
    BY <1>0, Types DEF Write, RunType
  <2>2. draft' \in [Threads -> Summary]
    BY Types DEF Write, NoSummary, Summary, Reasons
  <2> QED
    BY <2>1, <2>2, Types, RunnerAssumption
    DEF Inv, TypeOK, Write, At, Goto, Threads, RunStages, RequestStages, On
<1>2. ASSUME NEW s \in Runs PROVE RunSound(s)' /\ Respects(s)
  <2>1. CASE s = r
    BY <1>0, <2>1, Types
    DEF RunSound, Respects, Write, At, Goto, Gives, Justified
  <2>2. CASE s # r
    BY <1>0, <2>2, Types, RunKept DEF Respects, Write, Goto
  <2> QED
    BY <2>1, <2>2
<1>3. t \in Clients => RequestSound(t)'
  BY <1>0, Types DEF RequestSound, Write, At, Goto, On, Gives, Justified
<1>4. \A c \in Clients \ {t} : pc'[c] = pc[c] /\ aim'[c] = aim[c] /\ draft'[c] = draft[c]
  BY Types DEF Write, Goto
<1> QED
  BY <1>1, <1>2, <1>3, <1>4, StepInv, HolderKept DEF Write

LEMMA WriteRaisesInv == ASSUME NEW t \in Threads, Inv, WriteRaises(t) PROVE Inv'
<1>0. /\ t \notin Runs => t \in Clients
      /\ t \in Runs => On(t) = t /\ run[t].reason # "none" /\ pc[t] = "write"
  BY Finalizing, Types DEF WriteRaises, At
<1>1. TypeOK'
  <2>1. draft' \in [Threads -> Summary]
    BY Types DEF WriteRaises, NoSummary, Summary, Reasons
  <2>2. faults' \in 0..MaxFaults
    BY RunnerAssumption DEF Inv, TypeOK, WriteRaises
  <2> QED
    BY <2>1, <2>2, Continuation, Types, RunnerAssumption
    DEF Inv, TypeOK, WriteRaises, At, Goto, Threads, RunStages, RequestStages, On
<1>2. ASSUME NEW s \in Runs PROVE RunSound(s)' /\ Respects(s)
  <2>1. CASE s = t
    BY <1>0, <2>1, Continuation, Types
    DEF RunSound, Respects, WriteRaises, Goto, Gives, Justified
  <2>2. CASE s # t
    BY <2>2, Types, RunKept DEF Respects, WriteRaises, Goto
  <2> QED
    BY <2>1, <2>2
<1>3. t \in Clients => RequestSound(t)'
  BY Continuation, Types DEF RequestSound, WriteRaises, Goto, On
<1>4. \A c \in Clients \ {t} : pc'[c] = pc[c] /\ aim'[c] = aim[c] /\ draft'[c] = draft[c]
  BY Types DEF WriteRaises, Goto
<1> QED
  BY <1>1, <1>2, <1>3, <1>4, StepInv, HolderKept DEF WriteRaises

LEMMA SettleInv == ASSUME NEW t \in Threads, Inv, Settle(t) PROVE Inv'
<1> DEFINE r == On(t)
<1>0. /\ r \in Runs /\ (t \in Runs => r = t) /\ (t \notin Runs => t \in Clients)
      /\ run[r].reason # "none" /\ Justified(run[r], run[r].summary)
      /\ t \in Clients => pc[r] = "ended" /\ r # t
  BY Finalizing, Types DEF Settle, At
<1>1. TypeOK'
  <2>1. run' \in [Runs -> RunType]
    <3>1. [run[r] EXCEPT !.finalized = TRUE] \in RunType
      <4>1. run[r] \in RunType
        BY <1>0, Types
      <4> QED
        BY <4>1, Zenon DEF RunType
    <3> QED
      BY <1>0, <3>1, Types DEF Settle
  <2> QED
    BY <2>1, Continuation, Types, RunnerAssumption
    DEF Inv, TypeOK, Settle, At, Goto, Threads, RunStages, RequestStages, On
<1>2. ASSUME NEW s \in Runs PROVE RunSound(s)' /\ Respects(s)
  <2>1. CASE s = r
    <3>1. pc'[s] = "ended"
      BY <1>0, <2>1, Continuation, Types DEF Settle, Goto
    <3>2. /\ run'[s].reason = run[s].reason /\ run'[s].summary = run[s].summary
          /\ run'[s].tick = run[s].tick /\ run'[s].rows = run[s].rows
      BY <1>0, <2>1, Types DEF Settle, RunType
    <3> QED
      BY <1>0, <2>1, <3>1, <3>2, Types DEF RunSound, Respects, Gives, Justified
  <2>2. CASE s # r
    BY <1>0, <2>2, Types, RunKept DEF Respects, Settle, Goto
  <2> QED
    BY <2>1, <2>2
<1>3. t \in Clients => RequestSound(t)'
  BY Continuation, Types DEF RequestSound, Settle, Goto, On
<1>4. \A c \in Clients \ {t} : pc'[c] = pc[c] /\ aim'[c] = aim[c] /\ draft'[c] = draft[c]
  BY Types DEF Settle, Goto
<1> QED
  BY <1>1, <1>2, <1>3, <1>4, StepInv, HolderKept DEF Settle

-----------------------------------------------------------------------------
(* Requests.                                                               *)

\* Steps of a request that change no runner.
LEMMA RequestStepInv ==
  ASSUME Inv, TypeOK', HolderSound', NEW c \in Clients, RequestSound(c)',
         UNCHANGED run, NEW stage, Goto(c, stage), draft' = draft,
         \A t \in Threads \ {c} : aim'[t] = aim[t]
  PROVE  Inv'
<1>1. ASSUME NEW s \in Runs PROVE RunSound(s)' /\ Respects(s)
  BY Types, RunKept DEF Respects, Goto
<1>2. \A d \in Clients \ {c} : pc'[d] = pc[d] /\ aim'[d] = aim[d] /\ draft'[d] = draft[d]
  BY Types DEF Goto
<1> QED
  BY <1>1, <1>2, StepInv

LEMMA AskInv ==
  ASSUME NEW c \in Clients, Inv, AskStart(c) \/ AskStop(c) \/ AskReset(c)
  PROVE  Inv'
<1> DEFINE stage == pc'[c]
<1>1. /\ UNCHANGED <<run, holder, draft, faults>>
      /\ stage \in {"checked", "stop", "renew"} /\ Goto(c, stage)
      /\ aim' \in [Threads -> [run : Runs \union {NoRunner}, why : Reasons]]
      /\ \A t \in Threads \ {c} : aim'[t] = aim[t]
  BY Types DEF AskStart, AskStop, AskReset, Goto, NoAim, Reasons, Inv, TypeOK
<1>2. stage = "stop" => aim'[c].run = holder.runner /\ holder.runner \in Runs
                        /\ aim'[c].why \in {"user", "reset"}
  BY Types DEF AskStart, AskStop, AskReset, Goto, Inv, TypeOK
<1>3. TypeOK'
  BY <1>1, Types DEF Inv, TypeOK, Goto, Threads, RequestStages, On
<1>4. RequestSound(c)'
  BY <1>1, <1>2, Types DEF RequestSound, Inv, HolderSound, Goto, On
<1>5. HolderSound'
  BY <1>1, Types DEF Inv, HolderSound, Goto
<1> QED
  BY <1>1, <1>3, <1>4, <1>5, RequestStepInv

LEMMA HoldInv ==
  ASSUME NEW c \in Clients, Inv,
         HoldRunner(c) \/ HoldSimulation(c) \/ Renew(c) \/ Drop(c)
  PROVE  Inv'
<1> DEFINE stage == pc'[c]
<1>1. /\ UNCHANGED <<run, aim, draft, faults>>
      /\ stage \in {"held", "idle", "drop"} /\ Goto(c, stage)
  BY Types DEF HoldRunner, HoldSimulation, Renew, Drop, Goto
<1>2. stage = "held" => On(c) \in Runs /\ pc[On(c)] # "new"
  BY Types DEF HoldRunner, HoldSimulation, Renew, Drop, Goto, At, RequestSound
<1>3. /\ holder' \in [runner : Runs \union {NoRunner}, simulation : Runs \union {Default}]
      /\ HolderSound'
  <2>1. CASE HoldRunner(c) \/ HoldSimulation(c)
    <3>1. On(c) \in Runs /\ pc[On(c)] # "new"
      BY <2>1, Types DEF HoldRunner, HoldSimulation, At, RequestSound
    <3> QED
      BY <2>1, <3>1, Types
      DEF HoldRunner, HoldSimulation, Inv, TypeOK, HolderSound, Goto
  <2>2. CASE Renew(c) \/ Drop(c)
    BY <2>2, Types, RunnerAssumption DEF Renew, Drop, Inv, TypeOK, HolderSound, Goto
  <2> QED
    BY <2>1, <2>2
<1>4. TypeOK'
  BY <1>1, <1>3, Types DEF Inv, TypeOK, Goto, Threads, RequestStages, On
<1>5. RequestSound(c)'
  BY <1>1, <1>2, Types DEF RequestSound, Goto, On
<1> QED
  BY <1>1, <1>3, <1>4, <1>5, RequestStepInv

LEMMA StopCheckInv ==
  ASSUME NEW c \in Clients, Inv, StopCheck(c) \/ Wait(c)
  PROVE  Inv'
<1> DEFINE r == On(c)  stage == pc'[c]
<1>1. /\ UNCHANGED <<run, holder, aim, draft, faults>>
      /\ r \in Runs /\ pc[r] # "new" /\ r # c /\ aim[c].why \in {"user", "reset"}
  BY Types DEF StopCheck, Wait, At, RequestSound
<1>2. /\ Goto(c, stage)
      /\ stage \in {"idle", "renew", "name", "signal", "compile"}
      /\ stage = "signal" => run[r].reason # "none"
      /\ stage = "compile" => pc[r] = "ended"
  BY <1>1, Types DEF StopCheck, Wait, AfterStop, Goto, Alive
<1>3. TypeOK' /\ HolderSound'
  BY <1>1, <1>2, Types DEF Inv, TypeOK, HolderSound, Goto, Threads, RequestStages, On
<1>4. RequestSound(c)'
  BY <1>1, <1>2, Types DEF RequestSound, Goto, On
<1> QED
  BY <1>1, <1>2, <1>3, <1>4, RequestStepInv

LEMMA LaunchInv ==
  ASSUME NEW c \in Clients, NEW r \in Runs, Inv, Launch(c, r)
  PROVE  Inv'
<1> DEFINE q == [Unmade EXCEPT !.going = TRUE, !.open = TRUE, !.dir = "there"]
<1>1. /\ run' = [run EXCEPT ![r] = q] /\ pc[r] = "new" /\ pc[c] = "checked"
      /\ pc' = [pc EXCEPT ![c] = "launched", ![r] = "loop"]
      /\ aim' = [aim EXCEPT ![c].run = r]
      /\ UNCHANGED <<holder, draft, faults>> /\ c # r
  BY Types DEF Launch, At
<1>2. /\ q \in RunType /\ q.open /\ q.rows = 0 /\ q.tick = 0 /\ q.reason = "none"
      /\ ~q.stopped /\ ~q.finalized
  <2>1. Unmade \in RunType
    BY Types DEF Unmade, RunType, Reasons, Summary, NoSummary
  <2>2. q \in RunType
    BY <2>1, Zenon DEF RunType
  <2>3. q.rows = 0 /\ q.tick = 0 /\ q.reason = "none"
    BY DEF Unmade
  <2>4. q.open /\ ~q.stopped /\ ~q.finalized
    BY Zenon DEF Unmade
  <2> QED
    BY <2>2, <2>3, <2>4
<1>3. /\ DOMAIN pc' = Threads /\ pc'[c] = "launched" /\ pc'[r] = "loop"
      /\ \A t \in Threads \ {c, r} : pc'[t] = pc[t]
      /\ \A t \in Threads \ {c} : aim'[t] = aim[t]
      /\ aim' \in [Threads -> [run : Runs \union {NoRunner}, why : Reasons]]
      /\ aim'[c].run = r
  BY <1>1, Types
<1>4. TypeOK'
  BY <1>1, <1>2, <1>3, Types
  DEF Inv, TypeOK, Threads, RunStages, RequestStages, On
<1>5. ASSUME NEW s \in Runs PROVE RunSound(s)' /\ Respects(s)
  <2>1. CASE s = r
    <3>1. run'[s] = q
      BY <1>1, <2>1, Types
    <3> HIDE DEF q
    <3> QED
      BY <1>1, <1>2, <1>3, <2>1, <3>1, Types DEF RunSound, Respects, Gives, Justified
  <2>2. CASE s # r
    BY <1>1, <1>3, <2>2, Types, RunKept DEF Respects
  <2> QED
    BY <2>1, <2>2
<1>6. RequestSound(c)'
  BY <1>3 DEF RequestSound, On
<1>7. \A d \in Clients \ {c} : pc'[d] = pc[d] /\ aim'[d] = aim[d] /\ draft'[d] = draft[d]
  BY <1>1, <1>3, Types
<1> QED
  BY <1>1, <1>4, <1>5, <1>6, <1>7, StepInv, HolderKept

LEMMA NameInv == ASSUME NEW c \in Clients, Inv, Name(c) PROVE Inv'
<1> DEFINE r == On(c)
<1>1. /\ r \in Runs /\ pc[r] # "new" /\ r # c /\ aim[c].why \in {"user", "reset"}
      /\ run' = [run EXCEPT ![r].reason = aim[c].why] /\ Goto(c, "signal")
      /\ UNCHANGED <<holder, aim, draft, faults>>
  BY Types DEF Name, At, RequestSound
<1>2. /\ run'[r].reason = aim[c].why /\ run'[r].stopped = run[r].stopped
      /\ run'[r].open = run[r].open /\ run'[r].finalized = run[r].finalized
      /\ run'[r].tick = run[r].tick /\ run'[r].rows = run[r].rows
      /\ run'[r].summary = run[r].summary
  BY <1>1, Types DEF RunType
<1>3. TypeOK'
  <2>1. run' \in [Runs -> RunType]
    BY <1>1, Types DEF RunType
  <2> QED
    BY <1>1, <2>1, Types DEF Inv, TypeOK, Goto, Threads, RequestStages, On
<1>4. ASSUME NEW s \in Runs PROVE RunSound(s)' /\ Respects(s)
  <2>1. CASE s = r
    BY <1>1, <1>2, <2>1, Types DEF RunSound, Respects, Goto, Gives, Justified
  <2>2. CASE s # r
    BY <1>1, <2>2, Types, RunKept DEF Respects, Goto
  <2> QED
    BY <2>1, <2>2
<1>5. RequestSound(c)'
  BY <1>1, <1>2, Types DEF RequestSound, Goto, On
<1>6. \A d \in Clients \ {c} : pc'[d] = pc[d] /\ aim'[d] = aim[d] /\ draft'[d] = draft[d]
  BY <1>1, Types DEF Goto
<1> QED
  BY <1>1, <1>3, <1>4, <1>5, <1>6, StepInv, HolderKept

LEMMA SignalInv == ASSUME NEW c \in Clients, Inv, Signal(c) PROVE Inv'
<1> DEFINE r == On(c)
<1>1. /\ r \in Runs /\ pc[r] # "new" /\ r # c /\ aim[c].why \in {"user", "reset"}
      /\ run[r].reason # "none" /\ Goto(c, "wait")
      /\ run' = [run EXCEPT ![r] = [run[r] EXCEPT !.stopped = TRUE, !.going = TRUE]]
      /\ UNCHANGED <<holder, aim, draft, faults>>
  BY Types DEF Signal, At, RequestSound
<1>2. /\ run'[r].reason = run[r].reason /\ run'[r].open = run[r].open
      /\ run'[r].finalized = run[r].finalized /\ run'[r].summary = run[r].summary
      /\ run'[r].tick = run[r].tick /\ run'[r].rows = run[r].rows
  BY <1>1, Types DEF RunType
<1>3. TypeOK'
  <2>1. run[r] \in RunType
    BY <1>1, Types
  <2>2. [run[r] EXCEPT !.stopped = TRUE, !.going = TRUE] \in RunType
    BY <2>1, Zenon DEF RunType
  <2> QED
    BY <1>1, <2>2, Types DEF Inv, TypeOK, Goto, Threads, RequestStages, On
<1>4. ASSUME NEW s \in Runs PROVE RunSound(s)' /\ Respects(s)
  <2>1. CASE s = r
    BY <1>1, <1>2, <2>1, Types DEF RunSound, Respects, Goto, Gives, Justified
  <2>2. CASE s # r
    BY <1>1, <2>2, Types, RunKept DEF Respects, Goto
  <2> QED
    BY <2>1, <2>2
<1>5. RequestSound(c)'
  BY <1>1, <1>2, Types DEF RequestSound, Goto, On
<1>6. \A d \in Clients \ {c} : pc'[d] = pc[d] /\ aim'[d] = aim[d] /\ draft'[d] = draft[d]
  BY <1>1, Types DEF Goto
<1> QED
  BY <1>1, <1>3, <1>4, <1>5, <1>6, StepInv, HolderKept

\* Pausing, resuming and deleting change nothing that matters to the thread's
\* or the requests' bookkeeping.
LEMMA TouchInv ==
  ASSUME NEW r \in Runs, Inv, UNCHANGED <<holder, pc, aim, draft, faults>>,
         NEW q \in RunType, run' = [run EXCEPT ![r] = q],
         q.reason = run[r].reason, q.stopped = run[r].stopped, q.open = run[r].open,
         q.tick = run[r].tick, q.rows = run[r].rows, q.summary = run[r].summary,
         q.finalized = run[r].finalized
  PROVE  Inv'
<1>1. TypeOK'
  BY Types DEF Inv, TypeOK, On
<1>2. ASSUME NEW s \in Runs PROVE RunSound(s)' /\ Respects(s)
  <2>1. CASE s = r
    BY <2>1, Types DEF RunSound, Respects, Gives, Justified
  <2>2. CASE s # r
    BY <2>2, Types, RunKept DEF Respects
  <2> QED
    BY <2>1, <2>2
<1> QED
  BY <1>1, <1>2, StepInv, HolderKept, Types

LEMMA OtherInv ==
  ASSUME Inv, Pause \/ Resume \/ (\E r \in Runs : Delete(r))
  PROVE  Inv'
<1>1. ASSUME NEW b \in BOOLEAN, holder.simulation \in Runs,
             run' = [run EXCEPT ![holder.simulation].going = b],
             UNCHANGED <<holder, pc, aim, draft, faults>>
      PROVE  Inv'
  <2> DEFINE r == holder.simulation  q == [run[r] EXCEPT !.going = b]
  <2>1. run[r] \in RunType
    BY <1>1, Types
  <2>2. q \in RunType
    BY <2>1, Zenon DEF RunType
  <2>3. /\ q.reason = run[r].reason /\ q.stopped = run[r].stopped
        /\ q.open = run[r].open /\ q.tick = run[r].tick /\ q.rows = run[r].rows
        /\ q.summary = run[r].summary /\ q.finalized = run[r].finalized
    BY <2>1 DEF RunType
  <2>4. run' = [run EXCEPT ![r] = q]
    BY <1>1, Types
  <2> QED
    BY <1>1, <2>2, <2>3, <2>4, TouchInv
<1>2. CASE Pause
  BY <1>1, <1>2 DEF Pause
<1>3. CASE Resume
  BY <1>1, <1>3 DEF Resume
<1>4. ASSUME NEW r \in Runs, Delete(r) PROVE Inv'
  <2> DEFINE q == [run[r] EXCEPT !.dir = "gone"]
  <2>1. run[r] \in RunType
    BY Types
  <2>2. q \in RunType
    BY <2>1, Zenon DEF RunType
  <2>3. /\ q.reason = run[r].reason /\ q.stopped = run[r].stopped
        /\ q.open = run[r].open /\ q.tick = run[r].tick /\ q.rows = run[r].rows
        /\ q.summary = run[r].summary /\ q.finalized = run[r].finalized
    BY <2>1 DEF RunType
  <2>4. run' = [run EXCEPT ![r] = q] /\ UNCHANGED <<holder, pc, aim, draft, faults>>
    BY <1>4, Types DEF Delete
  <2> QED
    BY <2>2, <2>3, <2>4, TouchInv
<1> QED
  BY <1>2, <1>3, <1>4

-----------------------------------------------------------------------------

LEMMA NextInv == ASSUME Inv, [Next]_vars PROVE Inv'
<1>1. ASSUME NEW t \in Threads, Finalize(t) PROVE Inv'
  BY <1>1, CompileInv, WriteInv, WriteRaisesInv, SettleInv DEF Finalize
<1>2. ASSUME NEW r \in Runs, Execute(r) PROVE Inv'
  BY <1>1, <1>2, Types, LookInv, TickInv, TickRaisesInv, AnnounceInv, HaltInv
  DEF Execute
<1>3. ASSUME NEW c \in Clients, Serve(c) PROVE Inv'
  BY <1>1, <1>3, Types, LaunchInv, HoldInv, StopCheckInv, NameInv, SignalInv DEF Serve
<1>4. CASE Ask
  BY <1>4, RunnerAssumption, AskInv, OtherInv DEF Ask
<1>5. CASE UNCHANGED vars
  <2>1. TypeOK' /\ HolderSound'
    BY <1>5 DEF Inv, TypeOK, HolderSound, vars, On
  <2>2. ASSUME NEW r \in Runs PROVE RunSound(r)'
    BY <1>5, Types, RunKept DEF vars
  <2>3. ASSUME NEW c \in Clients PROVE RequestSound(c)'
    BY <1>5, Types DEF RequestSound, Gives, Justified, On, vars
  <2> QED
    BY <2>1, <2>2, <2>3 DEF Inv
<1> QED
  BY <1>2, <1>3, <1>4, <1>5 DEF Next

LEMMA RunnerInvariant == Spec => []Inv
<1>1. Init => Inv
  BY InitInv
<1>2. Inv /\ [Next]_vars => Inv'
  BY NextInv
<1> QED
  BY <1>1, <1>2, PTL DEF Spec

\* Runners, holder and threads keep their types; in particular no run ticks, or
\* records, beyond its horizon, whatever overlaps.
THEOREM RunnerTypeCorrect == Spec => []TypeOK
<1>1. Inv => TypeOK
  BY DEF Inv
<1> QED
  BY <1>1, RunnerInvariant, PTL

\* No request closes a recorder that the thread may still write to.
THEOREM RecorderStaysOpen == Spec => []RecorderOpen
<1>1. Inv => RecorderOpen
  BY DEF Inv, RunSound, RecorderOpen
<1> QED
  BY <1>1, RunnerInvariant, PTL

\* A finished run has a summary that its ticks, its rows and its horizon justify,
\* however often and by whomever it was written.
THEOREM SummariesJustified == Spec => []SummaryJustified
<1>1. Inv => SummaryJustified
  BY DEF Inv, RunSound, Justified, Gives, SummaryJustified, At
<1> QED
  BY <1>1, RunnerInvariant, PTL

-----------------------------------------------------------------------------
(* Who controls a run, where one operator starts and resets experiments.   *)

\* A run that has been started and goes on no more, if it is one.
Calm(r) == r \in Runs => pc[r] # "new" /\ r \notin Live

Stopping == {"stop", "name", "signal", "wait", "compile", "write", "settle"}

\* What a request knows of the holder and of the run it works on.
ControlSound(c) ==
  /\ c \notin Operators =>
       /\ pc[c] \notin {"checked", "launched", "held", "renew", "drop"}
       /\ pc[c] \in Stopping => aim[c].why = "user"
  /\ pc[c] \in {"checked", "launched", "renew", "drop"} => Calm(holder.runner)
  /\ pc[c] \in {"wait", "compile", "write", "settle"} => Calm(On(c))
  /\ pc[c] \in Stopping /\ aim[c].why = "reset" => On(c) = holder.runner
  /\ pc[c] = "held" => holder.runner = On(c)
  /\ pc[c] = "drop" => holder.simulation = Default

Followed ==
  \A r \in Live : \/ holder.runner = r
                  \/ \E c \in Operators : At(c, "launched") /\ On(c) = r

ControlInv ==
  /\ \A c \in Clients : ControlSound(c)
  /\ Followed /\ HolderAgrees

\* No run is started.
Tame ==
  \A r \in Runs : /\ pc[r] # "new" => pc'[r] # "new"
                  /\ pc'[r] \in {"loop", "tick"} /\ ~run'[r].stopped =>
                       pc[r] \in {"loop", "tick"} /\ ~run[r].stopped

LEMMA FewerLive ==
  ASSUME Tame
  PROVE  Live' \subseteq Live
BY DEF Tame, Live

LEMMA StaysCalm ==
  ASSUME Tame, NEW r, Calm(r)
  PROVE  r \in Runs => pc'[r] # "new" /\ r \notin Live'
BY FewerLive DEF Tame, Calm

LEMMA BecomesCalm ==
  ASSUME NEW c, NEW r \in Runs, On(c)' = r, pc'[r] # "new",
         pc'[r] \notin {"loop", "tick"} \/ run'[r].stopped
  PROVE  Calm(On(c))'
<1>1. r \notin Live'
  BY DEF Live
<1> QED
  BY <1>1 DEF Calm

\* A step that starts no run and leaves the holder alone.
LEMMA ControlKept ==
  ASSUME ControlInv, Tame, UNCHANGED holder, Operators \subseteq Clients,
         \A c \in Clients :
            \/ pc'[c] = pc[c] /\ aim'[c] = aim[c]
            \/ pc[c] \notin {"launched", "held", "drop"} /\ ControlSound(c)'
  PROVE  ControlInv'
<1>1. ASSUME NEW c \in Clients, pc'[c] = pc[c], aim'[c] = aim[c]
      PROVE  ControlSound(c)'
  <2>1. ControlSound(c) /\ On(c)' = On(c) /\ pc'[c] = pc[c] /\ aim'[c] = aim[c]
    BY <1>1 DEF ControlInv, On
  <2>2. ASSUME Calm(On(c)) PROVE Calm(On(c))'
    BY <2>1, <2>2, StaysCalm DEF Calm
  <2>3. ASSUME Calm(holder.runner) PROVE Calm(holder.runner)'
    BY <2>3, StaysCalm DEF Calm
  <2> QED
    BY <2>1, <2>2, <2>3 DEF ControlSound
<1>2. Followed'
  <2> SUFFICES ASSUME NEW r \in Live'
               PROVE  \/ holder.runner = r
                      \/ \E c \in Operators : At(c, "launched")' /\ On(c)' = r
    BY DEF Followed
  <2>1. r \in Live
    BY FewerLive
  <2>2. CASE holder.runner = r
    BY <2>2
  <2>3. ASSUME NEW c \in Operators, At(c, "launched"), On(c) = r
        PROVE  At(c, "launched")' /\ On(c)' = r
    <3>1. c \in Clients /\ pc[c] = "launched"
      BY <2>3 DEF At
    <3>2. pc'[c] = pc[c] /\ aim'[c] = aim[c]
      BY <3>1
    <3> QED
      BY <2>3, <3>2 DEF At, On
  <2> QED
    BY <2>1, <2>2, <2>3 DEF ControlInv, Followed
<1>3. HolderAgrees'
  <2>1. ASSUME \A c \in Operators : pc'[c] \notin {"held", "drop"}
        PROVE  \A c \in Operators : pc[c] \notin {"held", "drop"}
    BY <2>1
  <2> QED
    BY <2>1 DEF ControlInv, HolderAgrees
<1> QED
  BY <1>1, <1>2, <1>3 DEF ControlInv

LEMMA ThreadControl ==
  ASSUME Inv, ControlInv, NEW r \in Runs,
         Look(r) \/ Tick(r) \/ TickRaises(r) \/ Announce(r) \/ Halt(r)
  PROVE  ControlInv'
<1>1. /\ UNCHANGED holder
      /\ \A t \in Threads \ {r} : pc'[t] = pc[t] /\ aim'[t] = aim[t]
  BY Types DEF Look, Tick, TickRaises, Announce, Halt, Goto
<1>2. \A s \in Runs : run'[s].stopped = run[s].stopped \/ (s = r /\ run'[s].stopped)
  <2>1. CASE Look(r)
    BY <2>1 DEF Look
  <2>2. CASE Tick(r)
    BY <2>2, Types DEF Tick, RunType
  <2>3. CASE TickRaises(r)
    <3>1. PICK t, n \in {0, 1} :
            run' = [run EXCEPT ![r].tick = @ + t, ![r].rows = @ + n]
      BY <2>3 DEF TickRaises
    <3> QED
      BY <3>1, Types DEF RunType
  <2>4. CASE Announce(r)
    BY <2>4, Types DEF Announce, RunType
  <2>5. CASE Halt(r)
    <3>1. run' = [run EXCEPT ![r] = [[run[r] EXCEPT !.stopped = TRUE]
                                            EXCEPT !.going = TRUE]]
      BY <2>5, Types DEF Halt, RunType
    <3> QED
      BY <3>1, Types DEF RunType
  <2> QED
    BY <2>1, <2>2, <2>3, <2>4, <2>5
<1>3. pc[r] # "new" /\ pc'[r] # "new"
      /\ (pc'[r] \in {"loop", "tick"} => pc[r] \in {"loop", "tick"})
  BY Types DEF Look, Tick, TickRaises, Announce, Halt, Goto, At
<1>4. Tame
  BY <1>1, <1>2, <1>3, Types DEF Tame
<1> QED
  BY <1>1, <1>4, ControlKept, Types, RunnerAssumption

LEMMA FinalizeControl ==
  ASSUME Inv, ControlInv, NEW t \in Threads, Finalize(t)
  PROVE  ControlInv'
<1> DEFINE r == On(t)
<1>1. /\ UNCHANGED <<holder, aim>> /\ pc[t] \in {"compile", "write", "settle"}
      /\ \A u \in Threads \ {t} : pc'[u] = pc[u]
      /\ pc'[t] \in {"write", "settle", Done(t), Raised(t)}
  BY Types DEF Finalize, Compile, Write, WriteRaises, Settle, Goto, At
<1>2. r \in Runs
  BY <1>1, Finalizing
<1>3. \A s \in Runs : run'[s].stopped = run[s].stopped
  <2>1. CASE Compile(t)
    BY <1>2, <2>1, Types DEF Compile, RunType
  <2>2. CASE Write(t)
    BY <1>2, <2>2, Types DEF Write, RunType
  <2>3. CASE WriteRaises(t)
    BY <2>3 DEF WriteRaises
  <2>4. CASE Settle(t)
    BY <1>2, <2>4, Types DEF Settle, RunType
  <2> QED
    BY <2>1, <2>2, <2>3, <2>4 DEF Finalize
<1>4. Tame
  <2>1. CASE t \in Runs
    BY <1>1, <1>3, <2>1, Continuation, Types DEF Tame
  <2>2. CASE t \in Clients
    BY <1>1, <1>3, <2>2, Types DEF Tame
  <2> QED
    BY <2>1, <2>2 DEF Threads
<1>5. t \in Clients => ControlSound(t)'
  <2> SUFFICES ASSUME t \in Clients PROVE ControlSound(t)'
    OBVIOUS
  <2>1. /\ ControlSound(t) /\ Calm(r)'
        /\ On(t)' = r /\ aim'[t] = aim[t]
    BY <1>1, <1>4, StaysCalm DEF ControlInv, ControlSound, On, Calm
  <2>2. pc'[t] \in {"write", "settle", "idle", "renew"}
        /\ (pc'[t] = "renew" => aim[t].why = "reset")
    BY <1>1, Types DEF Done, Raised, AfterStop
  <2>3. aim[t].why = "reset" => t \in Operators /\ r = holder.runner
    BY <1>1, <2>1 DEF ControlSound, Stopping
  <2>4. pc'[t] = "renew" => t \in Operators /\ Calm(holder.runner)'
    BY <1>1, <2>1, <2>2, <2>3
  <2>5. t \notin Operators => pc'[t] # "renew" /\ aim[t].why = "user"
    BY <1>1, <2>1, <2>4 DEF ControlSound, Stopping
  <2> QED
    BY <1>1, <2>1, <2>2, <2>3, <2>4, <2>5 DEF ControlSound, Stopping
<1> QED
  BY <1>1, <1>4, <1>5, ControlKept, Types, RunnerAssumption

LEMMA StopControl ==
  ASSUME Inv, ControlInv, NEW c \in Clients,
         StopCheck(c) \/ Name(c) \/ Signal(c) \/ Wait(c)
  PROVE  ControlInv'
<1> DEFINE r == On(c)
<1>1. /\ UNCHANGED <<holder, aim>> /\ pc[c] \in {"stop", "name", "signal", "wait"}
      /\ \A t \in Threads \ {c} : pc'[t] = pc[t]
      /\ r \in Runs /\ pc[r] # "new" /\ On(c)' = r /\ r # c
  BY Types DEF StopCheck, Name, Signal, Wait, Goto, At, On, RequestSound
<1>2. \A s \in Runs : run'[s].stopped = run[s].stopped \/ (s = r /\ run'[s].stopped)
  <2>1. CASE StopCheck(c) \/ Wait(c)
    BY <2>1 DEF StopCheck, Wait
  <2>2. CASE Name(c)
    BY <1>1, <2>2, Types DEF Name, RunType
  <2>3. CASE Signal(c)
    BY <1>1, <2>3, Types DEF Signal, RunType
  <2> QED
    BY <2>1, <2>2, <2>3
<1>3. Tame
  BY <1>1, <1>2, Types DEF Tame
<1>4. ControlSound(c)
  BY DEF ControlInv
<1>5. /\ pc'[c] \in {"idle", "renew", "name", "signal", "wait", "compile"}
      /\ pc'[c] = "renew" => aim[c].why = "reset"
      /\ pc'[c] \in {"renew", "wait", "compile"} => Calm(r)'
  <2>1. CASE StopCheck(c)
    <3>1. pc'[c] = IF run[r].finalized THEN AfterStop(c)
                   ELSE IF run[r].reason = "none" THEN "name" ELSE "signal"
      BY <2>1, Types DEF StopCheck, Goto
    <3>2. run[r].finalized => pc'[r] = "ended"
      BY <1>1, Types DEF RunSound
    <3>3. run[r].finalized => Calm(r)'
      BY <1>1, <3>2, BecomesCalm
    <3> QED
      BY <3>1, <3>3 DEF AfterStop
  <2>2. CASE Name(c)
    BY <2>2, Types DEF Name, Goto
  <2>3. CASE Signal(c)
    <3>1. pc'[c] = "wait" /\ pc'[r] # "new"
      BY <1>1, <2>3, Types DEF Signal, Goto
    <3>2. run'[r].stopped
      <4>1. run' = [run EXCEPT ![r] = [[run[r] EXCEPT !.stopped = TRUE]
                                              EXCEPT !.going = TRUE]]
        BY <1>1, <2>3, Types DEF Signal, RunType
      <4> QED
        BY <1>1, <4>1, Types DEF RunType
    <3> QED
      BY <1>1, <3>1, <3>2, BecomesCalm
  <2>4. CASE Wait(c)
    <3>1. pc'[c] \in {AfterStop(c), "compile"}
      BY <2>4, Types DEF Wait, Goto
    <3>2. Calm(r)'
      BY <1>1, <1>3, <1>4, <2>4, StaysCalm DEF ControlSound, Wait, At, Calm
    <3> QED
      BY <3>1, <3>2 DEF AfterStop
  <2> QED
    BY <2>1, <2>2, <2>3, <2>4
<1>6. aim[c].why = "reset" => c \in Operators /\ r = holder.runner
  BY <1>1, <1>4 DEF ControlSound, Stopping
<1>7. pc'[c] = "renew" => c \in Operators /\ Calm(holder.runner)'
  BY <1>1, <1>5, <1>6
<1>8. c \notin Operators => aim[c].why = "user"
  BY <1>1, <1>4 DEF ControlSound, Stopping
<1>9. ControlSound(c)'
  BY <1>1, <1>5, <1>6, <1>7, <1>8 DEF ControlSound, Stopping
<1> QED
  BY <1>1, <1>3, <1>9, ControlKept, Types, RunnerAssumption

LEMMA AskControl ==
  ASSUME Inv, ControlInv, NEW c \in Clients,
         (c \in Operators /\ (AskStart(c) \/ AskReset(c))) \/ AskStop(c)
  PROVE  ControlInv'
<1>1. /\ UNCHANGED <<run, holder>> /\ pc[c] = "idle" /\ DOMAIN pc' = Threads
      /\ \A t \in Threads \ {c} : pc'[t] = pc[t] /\ aim'[t] = aim[t]
  BY Types DEF AskStart, AskReset, AskStop, Goto, At
<1>2. Tame
  BY <1>1, Types DEF Tame
<1>3. ControlSound(c)'
  <2>1. CASE c \in Operators /\ AskStart(c)
    <3>1. pc'[c] = "checked" /\ ~Active(holder.runner)
      BY <2>1, Types DEF AskStart, Goto
    <3>2. Calm(holder.runner)
      BY <3>1, Types DEF Inv, HolderSound, Active, Alive, Calm, Live, RunSound
    <3>3. Calm(holder.runner)'
      BY <1>1, <1>2, <3>2, StaysCalm DEF Calm
    <3> QED
      BY <2>1, <3>1, <3>3 DEF ControlSound, Stopping
  <2>2. CASE c \in Operators /\ AskReset(c)
    <3>1. /\ pc'[c] = IF holder.runner = NoRunner THEN "renew" ELSE "stop"
          /\ aim'[c] = [run |-> holder.runner, why |-> "reset"]
      BY <2>2, Types DEF AskReset, Goto
    <3>2. pc'[c] = "renew" => Calm(holder.runner)'
      BY <1>1, <3>1, Types DEF Calm
    <3> QED
      BY <1>1, <2>2, <3>1, <3>2 DEF ControlSound, Stopping, On
  <2>3. CASE AskStop(c)
    <3>1. pc'[c] = "stop" /\ aim'[c] = [run |-> holder.runner, why |-> "user"]
      BY <2>3, Types DEF AskStop, Goto
    <3> QED
      BY <3>1 DEF ControlSound, Stopping
  <2> QED
    BY <2>1, <2>2, <2>3
<1> QED
  BY <1>1, <1>2, <1>3, ControlKept, Types, RunnerAssumption

LEMMA TouchControl ==
  ASSUME Inv, ControlInv, Pause \/ Resume \/ (\E r \in Runs : Delete(r))
  PROVE  ControlInv'
<1>1. UNCHANGED <<holder, pc, aim>>
  BY DEF Pause, Resume, Delete
<1>2. \A s \in Runs : run'[s].stopped = run[s].stopped
  <2>1. CASE Pause
    BY <2>1, Types DEF Pause, RunType
  <2>2. CASE Resume
    <3> DEFINE r == holder.simulation
    <3>1. r \in Runs /\ run' = [run EXCEPT ![r] = [run[r] EXCEPT !.going = TRUE]]
      BY <2>2, Types DEF Resume
    <3> QED
      BY <3>1, Types DEF RunType
  <2>3. ASSUME NEW r \in Runs, Delete(r)
        PROVE  \A s \in Runs : run'[s].stopped = run[s].stopped
    BY <2>3, Types DEF Delete, RunType
  <2> QED
    BY <2>1, <2>2, <2>3
<1>3. Tame
  BY <1>1, <1>2 DEF Tame
<1> QED
  BY <1>1, <1>3, ControlKept, Types, RunnerAssumption

OneOperator == \A c, d \in Operators : c = d

\* The requests that leave the holder to the operator.
LEMMA OthersSound ==
  ASSUME ControlInv, OneOperator, NEW c \in Operators, NEW d \in Clients, d # c,
         pc'[d] = pc[d], aim'[d] = aim[d], Calm(On(d)) => Calm(On(d))'
  PROVE  ControlSound(d)'
<1>1. d \notin Operators
  BY DEF OneOperator
<1>2. ControlSound(d)
  BY DEF ControlInv
<1> QED
  BY <1>1, <1>2 DEF ControlSound, Stopping

LEMMA HoldControl ==
  ASSUME Inv, ControlInv, OneOperator, NEW c \in Clients,
         HoldRunner(c) \/ HoldSimulation(c) \/ Renew(c) \/ Drop(c)
  PROVE  ControlInv'
<1>1. /\ UNCHANGED <<run, aim>> /\ ControlSound(c)
      /\ pc[c] \in {"launched", "held", "renew", "drop"} /\ pc'[c] \in {"held", "idle", "drop"}
      /\ \A t \in Threads \ {c} : pc'[t] = pc[t]
  BY Types DEF HoldRunner, HoldSimulation, Renew, Drop, Goto, At, ControlInv
<1>2. c \in Operators /\ On(c)' = On(c)
  BY <1>1 DEF ControlSound, On
<1>3. Tame
  BY <1>1, Types DEF Tame
<1>4. ASSUME NEW d \in Clients, d # c PROVE ControlSound(d)'
  <2>1. pc'[d] = pc[d] /\ aim'[d] = aim[d]
    BY <1>1, <1>4, Types
  <2>2. ASSUME Calm(On(d)) PROVE Calm(On(d))'
    BY <1>3, <2>1, <2>2, StaysCalm DEF Calm, On
  <2> QED
    BY <1>2, <1>4, <2>1, <2>2, OthersSound
<1>5. \A r \in Live' : r \in Live
  BY <1>3, FewerLive
<1>6. \A d \in Operators : d = c
  BY <1>2 DEF OneOperator
<1>7. ControlSound(c)' /\ Followed' /\ HolderAgrees'
  <2>1. CASE HoldRunner(c)
    <3>1. /\ pc[c] = "launched" /\ pc'[c] = "held"
          /\ holder'.runner = On(c)
      BY <2>1, Types DEF Inv, TypeOK, HoldRunner, At, Goto
    <3>2. ControlSound(c)'
      BY <1>2, <3>1 DEF ControlSound, Stopping
    <3>3. HolderAgrees'
      BY <1>2, <3>1 DEF HolderAgrees
    <3>4. \A r \in Live : r = On(c)
      BY <1>1, <1>6, <3>1 DEF ControlInv, Followed, ControlSound, Calm, Live
    <3> QED
      BY <1>5, <3>1, <3>2, <3>3, <3>4 DEF Followed
  <2>2. CASE HoldSimulation(c)
    <3>1. /\ pc[c] = "held" /\ pc'[c] = "idle"
          /\ holder'.runner = On(c) /\ holder'.simulation = On(c) /\ On(c) \in Runs
          /\ holder'.runner = holder.runner
      BY <1>1, <2>2, Types DEF Inv, TypeOK, HoldSimulation, At, Goto, ControlSound,
         RequestSound
    <3>2. ControlSound(c)'
      BY <1>2, <3>1 DEF ControlSound, Stopping
    <3>3. HolderAgrees'
      BY <3>1, Types DEF HolderAgrees
    <3>4. \A r \in Live : holder.runner = r
      BY <1>6, <3>1 DEF ControlInv, Followed, At
    <3> QED
      BY <1>5, <3>1, <3>2, <3>3, <3>4 DEF Followed
  <2>3. CASE Renew(c)
    <3>1. /\ pc[c] = "renew" /\ pc'[c] = "drop"
          /\ holder'.runner = holder.runner /\ holder'.simulation = Default
      BY <2>3, Types DEF Inv, TypeOK, Renew, At, Goto
    <3>2. Calm(holder.runner)'
      BY <1>1, <1>3, <3>1, StaysCalm DEF ControlSound, Calm
    <3>3. ControlSound(c)'
      BY <1>2, <3>1, <3>2 DEF ControlSound, Stopping
    <3>4. HolderAgrees'
      BY <1>2, <3>1 DEF HolderAgrees
    <3>5. \A r \in Live : holder.runner = r
      BY <1>6, <3>1 DEF ControlInv, Followed, At
    <3> QED
      BY <1>5, <3>1, <3>3, <3>4, <3>5 DEF Followed
  <2>4. CASE Drop(c)
    <3>1. /\ pc[c] = "drop" /\ pc'[c] = "idle"
          /\ holder'.runner = NoRunner /\ holder'.simulation = Default
      BY <1>1, <2>4, Types DEF Inv, TypeOK, Drop, At, Goto, ControlSound
    <3>2. ControlSound(c)'
      BY <1>2, <3>1 DEF ControlSound, Stopping
    <3>3. HolderAgrees'
      BY <3>1 DEF HolderAgrees
    <3>4. Live = {}
      BY <1>1, <1>6, <3>1 DEF ControlInv, Followed, At, ControlSound, Calm, Live
    <3> QED
      BY <1>5, <3>2, <3>3, <3>4 DEF Followed
  <2> QED
    BY <2>1, <2>2, <2>3, <2>4
<1> QED
  BY <1>4, <1>7 DEF ControlInv

LEMMA LaunchControl ==
  ASSUME Inv, ControlInv, OneOperator, NEW c \in Clients, NEW r \in Runs, Launch(c, r)
  PROVE  ControlInv'
<1>1. /\ UNCHANGED holder /\ pc[c] = "checked" /\ pc'[c] = "launched" /\ pc[r] = "new"
      /\ pc'[r] = "loop" /\ On(c)' = r
      /\ \A t \in Threads \ {c, r} : pc'[t] = pc[t]
      /\ \A t \in Threads \ {c} : aim'[t] = aim[t]
      /\ \A s \in Runs \ {r} : run'[s] = run[s]
  BY Types DEF Launch, At, On
<1>2. c \in Operators /\ Calm(holder.runner)
  BY <1>1 DEF ControlInv, ControlSound
<1>3. ASSUME NEW s, Calm(s)
      PROVE  s \in Runs => pc'[s] # "new" /\ s \notin Live'
  <2>1. s # r /\ (s \in Runs => s # c)
    BY <1>1, <1>3, Types DEF Calm
  <2> QED
    BY <1>1, <1>3, <2>1, Types DEF Calm, Live
<1>4. ASSUME NEW d \in Clients, d # c PROVE ControlSound(d)'
  <2>1. pc'[d] = pc[d] /\ aim'[d] = aim[d]
    BY <1>1, <1>4, Types
  <2>2. ASSUME Calm(On(d)) PROVE Calm(On(d))'
    BY <1>3, <2>1, <2>2 DEF Calm, On
  <2> QED
    BY <1>2, <1>4, <2>1, <2>2, OthersSound
<1>5. ControlSound(c)'
  <2>1. Calm(holder.runner)'
    BY <1>1, <1>2, <1>3 DEF Calm
  <2> QED
    BY <1>1, <1>2, <2>1 DEF ControlSound, Stopping
<1>6. \A d \in Operators : d = c
  BY <1>2 DEF OneOperator
<1>7. Followed'
  <2>1. \A s \in Live' : s = r \/ s \in Live
    BY <1>1, Types DEF Live
  <2>2. \A s \in Live : holder.runner = s
    BY <1>1, <1>6 DEF ControlInv, Followed, At
  <2> QED
    BY <1>1, <1>2, <2>1, <2>2 DEF Followed, At
<1>8. HolderAgrees'
  BY <1>1, <1>6 DEF ControlInv, HolderAgrees
<1> QED
  BY <1>4, <1>5, <1>7, <1>8 DEF ControlInv

LEMMA NextControl ==
  ASSUME Inv, ControlInv, OneOperator, [Next]_vars
  PROVE  ControlInv'
<1>1. ASSUME NEW r \in Runs, Execute(r) PROVE ControlInv'
  BY <1>1, Types, ThreadControl, FinalizeControl DEF Execute
<1>2. ASSUME NEW c \in Clients, Serve(c) PROVE ControlInv'
  BY <1>2, Types, LaunchControl, HoldControl, StopControl, FinalizeControl DEF Serve
<1>3. CASE Ask
  BY <1>3, RunnerAssumption, AskControl, TouchControl DEF Ask
<1>4. CASE UNCHANGED vars
  <2>1. Tame /\ UNCHANGED <<holder, pc, aim>>
    BY <1>4 DEF Tame, vars
  <2> QED
    BY <2>1, ControlKept, RunnerAssumption
<1> QED
  BY <1>1, <1>2, <1>3, <1>4 DEF Next

LEMMA InitControl == Init => ControlInv
BY RunnerAssumption
   DEF Init, ControlInv, ControlSound, Followed, HolderAgrees, Live, Stopping, Threads

LEMMA ControlInvariant ==
  ASSUME OneOperator
  PROVE  Spec => []ControlInv
<1>1. Init => ControlInv
  BY InitControl
<1>2. Inv /\ ControlInv /\ [Next]_vars => ControlInv'
  BY NextControl
<1> QED
  BY <1>1, <1>2, RunnerInvariant, PTL DEF Spec

\* With one operator, the simulation that is shown and paused is that of the
\* runner that is stopped, whatever the operator's requests end with.
THEOREM HolderFollows ==
  ASSUME OneOperator
  PROVE  Spec => []HolderAgrees
<1>1. ControlInv => HolderAgrees
  BY DEF ControlInv
<1> QED
  BY <1>1, ControlInvariant, PTL

\* With one operator, no two experiments go on and none goes on out of reach,
\* however many clients stop, pause and delete meanwhile.
THEOREM OneControlled ==
  ASSUME OneOperator
  PROVE  Spec => []Controlled
<1>1. ControlInv => Controlled
  <2> SUFFICES ASSUME ControlInv PROVE Controlled
    OBVIOUS
  <2>1. \A r, s \in Live : r = s
    <3> SUFFICES ASSUME NEW r \in Live, NEW s \in Live, r # s PROVE FALSE
      OBVIOUS
    <3>1. ASSUME NEW c \in Operators, At(c, "launched") PROVE holder.runner \notin Live
      BY <3>1, RunnerAssumption DEF ControlInv, ControlSound, At, Calm, Live
    <3>2. \A c \in Operators : At(c, "launched") => On(c) # r \/ On(c) # s
      OBVIOUS
    <3> QED
      BY <3>1, <3>2 DEF ControlInv, Followed, OneOperator
  <2>2. Cardinality(Live) <= 1
    <3>1. CASE Live = {}
      BY <3>1, FS_EmptySet
    <3>2. CASE Live # {}
      <4>1. PICK r \in Live : Live = {r}
        BY <2>1, <3>2
      <4> QED
        BY <4>1, FS_Singleton
    <3> QED
      BY <3>1, <3>2
  <2> QED
    BY <2>2 DEF ControlInv, Followed, Controlled
<1> QED
  BY <1>1, ControlInvariant, PTL
=============================================================================
