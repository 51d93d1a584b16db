-------------------------------- MODULE Jobs --------------------------------
(***************************************************************************)
(* The manager of one job pipeline (internal/jobs/jobs.go) over the run    *)
(* history of its store: recovery and catch-up at Start, the cron loop,    *)
(* manual triggers, overlap admission, the life of a run, retention, Stop  *)
(* and crashes.  The engine of a run is abstracted to the outcome that     *)
(* Engine.Wait reports; the module CommitPath models its inside.           *)
(***************************************************************************)
EXTENDS Integers, FiniteSets, FiniteSetsExt

CONSTANTS
  Setups,   \* the job declarations, each with bounds on what may happen to it
  MaxTime,  \* bound: the clock
  MaxRuns   \* bound: run records

Ids == 1..MaxRuns
Times == 0..MaxTime
Kinds == {"wait", "async"}

\* The declaration of a job.
Declaration ==
  [overlap : {"skip", "latest", "all"},  \* run.overlap
   skip : BOOLEAN,                       \* run.skip_if_successful
   ticks : SUBSET (1..MaxTime),          \* times of run.schedule ({}: trigger only)
   window : Nat,                         \* run.catchup_window (0: no catch-up)
   retention : Nat]                      \* run.retention.history (0: for ever)

\* What its environment may do to it.
Bounds ==
  [triggers : SUBSET Kinds,  \* the kinds of manual trigger that arrive
   outlive : BOOLEAN,        \* may an engine outlive the bound of Engine.Wait?
   time : Times,             \* bound: the clock
   runs : 0..MaxRuns,        \* bound: run records
   back : Nat,               \* bound: how often the clock is set back by one
   crashes : Nat,            \* bound: crashes of the process
   stops : Nat,              \* bound: calls of Stop
   faults : Nat]             \* bound: failing writes of the run history

ASSUME BoundAssumption == MaxTime \in Nat \ {0} /\ MaxRuns \in Nat
ASSUME SetupAssumption == Setups \subseteq [job : Declaration, may : Bounds]

VARIABLES
  setup,    \* the job and its bounds, fixed
  \* the store
  row,      \* run id -> its record in job_run
  \* the process
  mgr,      \* where the manager is between New and the return of Stop
  ctxDone,  \* the context given to Start is canceled
  resume,   \* runs Start has read as runnable and not yet spawned
  loop,     \* control point of scheduleLoop
  next,     \* the tick scheduleLoop or maybeCatchup is about to fire
  deadline, \* when the loop's timer fires, on the monotonic clock
  pc,       \* run id -> control point of its goroutine ("idle": none)
  cause,    \* run id -> what canceled its context ("none": nothing did)
  out,      \* run id -> the status its goroutine will record
  request,  \* run id -> the trigger call whose context its own derives from
  zombie,   \* runs whose engine goroutine outlived its run
  \* the environment
  now, budget

runVars == <<pc, cause, out, request>>
procVars == <<setup, mgr, ctxDone, resume, loop, next, deadline, zombie>>
vars == <<setup, row, mgr, ctxDone, resume, loop, next, deadline, zombie, pc, cause,
          out, request, now, budget>>

Overlap == setup.job.overlap
Ticks == setup.job.ticks
Window == setup.job.window
Retention == setup.job.retention

Runnable == {"pending", "running"}
Terminal == {"success", "partial", "failed", "canceled"}
Causes == {"none", "stop", "latest", "reply"}

\* A record that was never created is "none", one retention has deleted "pruned"
\* (its tick is kept as history); tick 0 is a manual run, ended 0 not finished.
Row == [st : Runnable \union Terminal \union {"none", "pruned"},
        tick : Times, ended : Times]

Stored == {i \in Ids : row[i].st \notin {"none", "pruned"}}
Fresh == {i \in 1..setup.may.runs : row[i].st = "none"}

\* m.current: a run is registered from its admission until its goroutine leaves.
Current == {i \in Ids : pc[i] # "idle"}

\* The runs whose context derives from the one given to Start.
OfService == {i \in Current : request[i] = "no"}

-----------------------------------------------------------------------------
(* The schedule (cron.Schedule) and the queries of the run history.        *)

\* sched.Next: the first tick after t; MaxTime + 1 stands for one beyond the bound.
Next_(t) == Min({k \in Ticks : k > t} \union {MaxTime + 1})

\* The last tick in (t, u], which maybeCatchup finds by bisection (module Catchup).
LastTick(t, u) == Max({k \in Ticks : t < k /\ k <= u} \union {0})

\* Mutant of RunnableJobRuns: a run that had not started yet is not resumed.
RunnableStarted == {i \in Ids : row[i].st = "running"}

\* RunnableJobRuns: the runs to resume.
RunnableJobRuns == {i \in Ids : row[i].st \in Runnable}

\* HasSuccessfulRunFor.
HasSuccessfulRunFor(t) == \E i \in Stored : row[i].tick = t /\ row[i].st = "success"

\* Mutant of LastScheduledFor: only successful runs count as history.
LastSuccessfulFor ==
  Max({row[i].tick : i \in {j \in Stored : row[j].st = "success"}} \union {0})

\* LastScheduledFor: 0 when no scheduled run is recorded.
LastScheduledFor == Max({row[i].tick : i \in Stored} \union {0})

\* DeleteJobRunsBefore: only finished runs are pruned.
Expired(i) ==
  row[i].st \in Terminal /\ row[i].ended # 0 /\ row[i].ended < now - Retention

\* UpdateJobRun, whose error every caller ignores: a failing write changes nothing.
UpdateJobRun(i, st, ended) ==
  \/ /\ row' = [row EXCEPT ![i].st = st, ![i].ended = ended]
     /\ UNCHANGED budget
  \/ /\ budget.faults > 0
     /\ budget' = [budget EXCEPT !.faults = @ - 1]
     /\ UNCHANGED row

-----------------------------------------------------------------------------
Init ==
  /\ row = [i \in Ids |-> [st |-> "none", tick |-> 0, ended |-> 0]]
  /\ mgr = "off" /\ ctxDone = FALSE /\ resume = {}
  /\ loop = "off" /\ next = 0 /\ deadline = 0
  /\ pc = [i \in Ids |-> "idle"]
  /\ cause = [i \in Ids |-> "none"]
  /\ out = [i \in Ids |-> "none"]
  /\ request = [i \in Ids |-> "no"]
  /\ zombie = {}
  /\ now = 1
  /\ setup \in Setups
  /\ budget = [b \in {"back", "crashes", "stops", "faults"} |-> setup.may[b]]

\* cancel of the contexts of the runs in S; a context keeps its first cause.
Canceled(c, S, why) ==
  [i \in Ids |-> IF i \in S /\ c[i] = "none" THEN why ELSE c[i]]

\* runAsyncLocked: registers the run and starts its goroutine.  A run of the
\* service starts canceled when the context given to Start is done already.
Registered(c, i, req) ==
  [c EXCEPT ![i] = IF req = "no" /\ ctxDone THEN "stop" ELSE "none"]

\* The overlap policy refuses a run.
Refused == Overlap = "skip" /\ Current # {}

\* Mutant of Superseded: only runs whose engine runs are canceled.
SupersededRunning ==
  IF Overlap = "latest" THEN {i \in Ids : pc[i] = "engine"} ELSE {}

\* The runs an admitted run cancels.
Superseded == IF Overlap = "latest" THEN Current ELSE {}

\* spawn, admitted: one critical section from the overlap check to the registration.
\* The runs of overlap: latest are canceled before the record is created.
Admit(tick, req) ==
  LET i == Min(Fresh) IN
  /\ Fresh # {} /\ mgr # "stopping" /\ ~Refused
  /\ row' = [row EXCEPT ![i] = [st |-> "pending", tick |-> tick, ended |-> 0]]
  /\ pc' = [pc EXCEPT ![i] = "admitted"]
  /\ cause' = Registered(Canceled(cause, Superseded, "latest"), i, req)
  /\ request' = [request EXCEPT ![i] = req]
  /\ UNCHANGED <<out, budget>>

\* spawn, when CreateJobRun fails.
AdmitFails ==
  /\ Fresh # {} /\ mgr # "stopping" /\ ~Refused /\ budget.faults > 0
  /\ cause' = Canceled(cause, Superseded, "latest")
  /\ budget' = [budget EXCEPT !.faults = @ - 1]
  /\ UNCHANGED <<row, pc, out, request>>

\* spawn, refused: the manager is stopping or a run is active (overlap: skip).  A
\* tick beyond the bound on records ends here too.
AdmitRefused ==
  /\ mgr = "stopping" \/ Refused \/ Fresh = {}
  /\ UNCHANGED <<row, budget, runVars>>

spawn(tick, req) == Admit(tick, req) \/ AdmitFails \/ AdmitRefused

-----------------------------------------------------------------------------
(* Start: recovery, catch-up, then the schedule loop.  The instance is     *)
(* installed, and so reachable by triggers and Stop, when Start returned.  *)

\* New: a manager for a process that has none, or for the next instance.
New ==
  /\ mgr \in {"off", "stopped"}
  /\ mgr' = "new" /\ ctxDone' = FALSE
  /\ UNCHANGED <<setup, row, resume, loop, next, deadline, runVars, zombie, now,
                 budget>>

\* Start reads the runnable runs once.
Start ==
  /\ mgr = "new"
  /\ mgr' = "recover" /\ resume' = RunnableJobRuns
  /\ UNCHANGED <<setup, row, ctxDone, loop, next, deadline, runVars, zombie, now,
                 budget>>

\* spawnResume: no overlap check, the record exists.
spawnResume(i) ==
  /\ mgr = "recover" /\ i \in resume
  /\ resume' = resume \ {i}
  /\ pc' = [pc EXCEPT ![i] = "admitted"]
  /\ cause' = Registered(cause, i, "no")
  /\ UNCHANGED <<setup, row, mgr, ctxDone, loop, next, deadline, out, request, zombie,
                 now, budget>>

\* spawnResume when the recorded parameters no longer fit the declaration.
ResumeRejected(i) ==
  /\ mgr = "recover" /\ i \in resume
  /\ resume' = resume \ {i}
  /\ UpdateJobRun(i, "failed", now)
  /\ UNCHANGED <<setup, mgr, ctxDone, loop, next, deadline, runVars, zombie, now>>

\* Start after the recovery: without a schedule it returns.
Recovered ==
  /\ mgr = "recover" /\ resume = {}
  /\ mgr' = IF Ticks = {} THEN "up" ELSE "catchup"
  /\ UNCHANGED <<setup, row, ctxDone, resume, loop, next, deadline, runVars, zombie,
                 now, budget>>

\* The tick maybeCatchup fires, 0 when it stays idle: the newest missed one, and
\* only inside the window.
CatchupTick ==
  LET last == LastScheduledFor
      latest == LastTick(last, now)
  IN IF Window > 0 /\ last # 0 /\ Next_(last) <= now /\ now - latest <= Window
     THEN latest ELSE 0

\* skip_if_successful, read outside the lock that spawn takes.
Skipped(t) == setup.job.skip /\ HasSuccessfulRunFor(t)

\* maybeCatchup: decides on the tick from the history and the clock.
maybeCatchup ==
  /\ mgr = "catchup"
  /\ LET t == CatchupTick IN
     IF t = 0 \/ Skipped(t)
     THEN mgr' = "up" /\ loop' = "arm" /\ next' = 0
     ELSE mgr' = "catchfire" /\ next' = t /\ UNCHANGED loop
  /\ UNCHANGED <<setup, row, ctxDone, resume, deadline, runVars, zombie, now, budget>>

\* maybeCatchup: fires it, and Start goes on to the schedule loop.
CatchupFires ==
  /\ mgr = "catchfire"
  /\ spawn(next, "no")
  /\ mgr' = "up" /\ loop' = "arm" /\ next' = 0
  /\ UNCHANGED <<setup, ctxDone, resume, deadline, zombie, now>>

-----------------------------------------------------------------------------
(* scheduleLoop and Trigger.                                               *)

\* The monotonic clock: the wall clock is behind it by what it was set back.
Monotonic == now + (setup.may.back - budget.back)

\* scheduleLoop: the next tick is computed from the wall clock of this moment, and
\* the timer runs for the time until then on the monotonic clock.
Arm ==
  /\ loop = "arm"
  /\ loop' = "timer" /\ next' = Next_(now)
  /\ deadline' = Monotonic + (Next_(now) - now)
  /\ UNCHANGED <<setup, row, mgr, ctxDone, resume, runVars, zombie, now, budget>>

\* The timer has fired.  A tick beyond the bound on the clock never comes.
Due == next <= setup.may.time /\ Monotonic >= deadline

\* fireTick up to the check of skip_if_successful.
fireTick ==
  /\ loop = "timer" /\ Due
  /\ IF Skipped(next) THEN loop' = "arm" /\ next' = 0
     ELSE loop' = "fire" /\ UNCHANGED next
  /\ deadline' = 0
  /\ UNCHANGED <<setup, row, mgr, ctxDone, resume, runVars, zombie, now, budget>>

\* fireTick: the spawn.
TickSpawns ==
  /\ loop = "fire"
  /\ spawn(next, "no")
  /\ loop' = "arm" /\ next' = 0
  /\ UNCHANGED <<setup, mgr, ctxDone, resume, deadline, zombie, now>>

\* Mutant of LoopExits: the loop does not listen to stopCh.
LoopExitsOnCtx ==
  /\ loop = "timer" /\ ctxDone
  /\ loop' = "off" /\ next' = 0 /\ deadline' = 0
  /\ UNCHANGED <<setup, row, mgr, ctxDone, resume, runVars, zombie, now, budget>>

\* scheduleLoop returns.
LoopExits ==
  /\ loop = "timer" /\ (ctxDone \/ mgr = "stopping")
  /\ loop' = "off" /\ next' = 0 /\ deadline' = 0
  /\ UNCHANGED <<setup, row, mgr, ctxDone, resume, runVars, zombie, now, budget>>

\* Mutant of Installed: the instance is installed before Start.
InstalledEarly == mgr \in {"new", "recover", "up", "stopping"}

\* May a trigger reach the manager?  Its instance is installed after Start returned.
Installed == mgr \in {"up", "stopping"}

\* Trigger over the admin or MCP surface: the run's context is a child of the
\* context of the request.
Trigger(kind) ==
  /\ Installed /\ spawn(0, kind)
  /\ UNCHANGED <<procVars, now>>

\* The handler of an asynchronous trigger returns, which ends the request's context.
AsyncReply(i) ==
  /\ request[i] = "async"
  /\ request' = [request EXCEPT ![i] = "no"]
  /\ cause' = Canceled(cause, {i} \intersect Current, "reply")
  /\ UNCHANGED <<row, pc, out, procVars, now, budget>>

\* A waiting trigger returns when the run's goroutine is done, or its client goes.
WaitReply(i) ==
  /\ request[i] = "wait"
  /\ request' = [request EXCEPT ![i] = "no"]
  /\ cause' = Canceled(cause, {i} \intersect Current, "reply")
  /\ UNCHANGED <<row, pc, out, procVars, now, budget>>

-----------------------------------------------------------------------------
(* runOnce and the goroutine around it.                                    *)

\* runOnce begins: the record is running.
Begin(i) ==
  /\ pc[i] = "admitted"
  /\ UpdateJobRun(i, "running", 0)
  /\ pc' = [pc EXCEPT ![i] = "engine"]
  /\ UNCHANGED <<cause, out, request, procVars, now>>

\* classifyOutcome and its mapping onto the run status: a worker-fatal or source
\* error, or an Abandon that failed, is failed whatever else happened; then the
\* cancellation seen by Engine.Wait; then dead letters.
Outcomes(canceled) ==
  IF canceled THEN {"failed", "canceled"} ELSE {"failed", "partial", "success"}

\* Engine.Wait returns.  It reads the run's context once: a cancellation after that
\* has no effect.  When its bound expires, the goroutine of eng.Run is left running.
EngineEnds(i) ==
  /\ pc[i] = "engine"
  /\ \E s \in Outcomes(cause[i] # "none") : out' = [out EXCEPT ![i] = s]
  /\ zombie' \in {zombie} \union (IF setup.may.outlive THEN {zombie \union {i}} ELSE {})
  /\ pc' = [pc EXCEPT ![i] = "ended"]
  /\ UNCHANGED <<setup, row, cause, request, mgr, ctxDone, resume, loop, next,
                 deadline, now, budget>>

\* The goroutine of an engine that outlived its run ends.
ZombieEnds(i) ==
  /\ i \in zombie /\ zombie' = zombie \ {i}
  /\ UNCHANGED <<setup, row, runVars, mgr, ctxDone, resume, loop, next, deadline, now,
                 budget>>

\* fail: the terminal state is written to the history.
Record(i) ==
  /\ pc[i] = "ended"
  /\ UpdateJobRun(i, out[i], now)
  /\ pc' = [pc EXCEPT ![i] = "recorded"]
  /\ UNCHANGED <<cause, out, request, procVars, now>>

\* fail: the hook (a notification without effect here), then applyRetention.
applyRetention(i) ==
  /\ pc[i] = "recorded"
  /\ row' = [j \in Ids |->
               IF Retention > 0 /\ Expired(j) THEN [row[j] EXCEPT !.st = "pruned"]
               ELSE row[j]]
  /\ pc' = [pc EXCEPT ![i] = "leaving"]
  /\ UNCHANGED <<cause, out, request, procVars, now, budget>>

\* The goroutine unregisters the run, closes done and leaves the wait group.
Leave(i) ==
  /\ pc[i] = "leaving"
  /\ pc' = [pc EXCEPT ![i] = "idle"]
  /\ cause' = [cause EXCEPT ![i] = "none"]
  /\ out' = [out EXCEPT ![i] = "none"]
  /\ UNCHANGED <<row, request, procVars, now, budget>>

-----------------------------------------------------------------------------
(* Stop, crash, clock.                                                     *)

\* The instance's context is canceled (shutdown, a signal); Stop follows.
CtxDone ==
  /\ mgr \in {"new", "recover", "catchup", "catchfire", "up"}
  /\ ~ctxDone /\ budget.stops > 0
  /\ ctxDone' = TRUE
  /\ cause' = Canceled(cause, OfService, "stop")
  /\ UNCHANGED <<setup, row, pc, out, request, mgr, resume, loop, next, deadline,
                 zombie, now, budget>>

\* Stop: no run is admitted any more and the active ones are canceled.
Stop ==
  /\ mgr = "up" /\ budget.stops > 0
  /\ mgr' = "stopping"
  /\ cause' = Canceled(cause, Current, "stop")
  /\ budget' = [budget EXCEPT !.stops = @ - 1]
  /\ UNCHANGED <<setup, row, pc, out, request, ctxDone, resume, loop, next, deadline,
                 zombie, now>>

\* Mutant of Drained: the wait group counts the schedule loop only.
DrainedLoop == loop = "off"

\* m.wg.Wait: every run goroutine and the schedule loop are gone.
Drained == Current = {} /\ loop = "off"

\* Stop returns.
StopReturns ==
  /\ mgr = "stopping" /\ Drained
  /\ mgr' = "stopped"
  /\ UNCHANGED <<setup, row, ctxDone, resume, loop, next, deadline, runVars, zombie,
                 now, budget>>

\* The process dies: the history is all that is left.
Crash ==
  /\ mgr # "off" /\ budget.crashes > 0
  /\ mgr' = "off" /\ ctxDone' = FALSE /\ resume' = {}
  /\ loop' = "off" /\ next' = 0 /\ deadline' = 0 /\ zombie' = {}
  /\ pc' = [i \in Ids |-> "idle"]
  /\ cause' = [i \in Ids |-> "none"]
  /\ out' = [i \in Ids |-> "none"]
  /\ request' = [i \in Ids |-> "no"]
  /\ budget' = [budget EXCEPT !.crashes = @ - 1]
  /\ UNCHANGED <<setup, row, now>>

\* Time passes.
Passes ==
  /\ now < setup.may.time /\ now' = now + 1
  /\ UNCHANGED <<row, procVars, runVars, budget>>

\* The wall clock is set back under a running process.
SetBack ==
  /\ budget.back > 0 /\ now > 1 /\ now' = now - 1
  /\ budget' = [budget EXCEPT !.back = @ - 1]
  /\ UNCHANGED <<row, procVars, runVars>>

RunStep(i) ==
  Begin(i) \/ EngineEnds(i) \/ Record(i) \/ applyRetention(i) \/ Leave(i)

Boot ==
  \/ New \/ Start
  \/ \E i \in Ids : spawnResume(i) \/ ResumeRejected(i)
  \/ Recovered \/ maybeCatchup \/ CatchupFires

Next ==
  \/ Boot
  \/ Arm \/ fireTick \/ TickSpawns \/ LoopExits
  \/ \E kind \in setup.may.triggers : Trigger(kind)
  \/ \E i \in Ids : AsyncReply(i) \/ WaitReply(i) \/ RunStep(i) \/ ZombieEnds(i)
  \/ CtxDone \/ Stop \/ StopReturns \/ Crash \/ Passes \/ SetBack

Spec == Init /\ [][Next]_vars

\* Every goroutine of the process is scheduled, an engine run ends (its liveness is
\* the subject of CommitPath), a process that is not running is started again, and a
\* canceled instance is stopped.  Nothing makes a crash, a trigger or a stop happen.
FairSpec ==
  /\ Spec
  /\ WF_vars(mgr # "stopped" /\ Boot)
  /\ WF_vars(Arm) /\ WF_vars(TickSpawns) /\ WF_vars(LoopExits)
  /\ WF_vars(StopReturns) /\ WF_vars(ctxDone /\ Stop)
  /\ \A i \in Ids : WF_vars(RunStep(i)) /\ WF_vars(AsyncReply(i))

-----------------------------------------------------------------------------
(* Properties.                                                             *)

\* Every variable of the manager and every record of the history keeps its type; in
\* particular, the statuses written are the ones the store's queries know.
TypeOK ==
  /\ row \in [Ids -> Row]
  /\ mgr \in {"off", "new", "recover", "catchup", "catchfire", "up", "stopping",
              "stopped"}
  /\ ctxDone \in BOOLEAN
  /\ resume \subseteq Ids
  /\ loop \in {"off", "arm", "timer", "fire"}
  /\ next \in 0..(MaxTime + 1)
  /\ deadline \in Nat
  /\ zombie \subseteq Ids
  /\ pc \in [Ids -> {"idle", "admitted", "engine", "ended", "recorded", "leaving"}]
  /\ cause \in [Ids -> Causes]
  /\ out \in [Ids -> Terminal \union {"none"}]
  /\ request \in [Ids -> Kinds \union {"no"}]
  /\ now \in Times
  /\ setup \in Setups
  /\ budget \in [{"back", "crashes", "stops", "faults"} -> Nat]

\* Has a write of the history failed, the process crashed, the clock been set back?
Faulted == budget.faults < setup.may.faults
Crashed == budget.crashes < setup.may.crashes
BackInTime == budget.back < setup.may.back

\* overlap: skip admits one run at a time, and overlap: latest leaves at most one run
\* that is not being canceled, whatever triggers, ticks, catch-up and recovery do.  Two
\* exceptions of the code: a record whose terminal write failed is resumed beside a
\* newer one, and recovery resumes a superseded run that was draining at a crash.
OverlapHolds ==
  ~Faulted =>
    /\ Overlap = "skip" => Cardinality(Current) <= 1
    /\ Overlap = "latest" /\ ~Crashed =>
         Cardinality({i \in Current : cause[i] = "none"}) <= 1

\* Recovery never starts a run that a goroutine of this manager is driving already:
\* what Start read as runnable is still runnable, and undriven, when it is resumed.
RecoveryOwnsItsRuns == \A i \in resume : pc[i] = "idle" /\ row[i].st \in Runnable

\* Once Start has returned, a record that is pending or running has a goroutine that
\* will finish it: no run is forgotten by a crash or by a stop.  The exception of the
\* code: it drops the error of a failing terminal write.
NoOrphan ==
  Installed /\ ~Faulted => \A i \in Ids : row[i].st \in Runnable => i \in Current

\* When Stop has returned, every run has reached and persisted its terminal state,
\* unless a write of the history has failed.
StopPersists ==
  mgr = "stopped" /\ ~Faulted => \A i \in Ids : row[i].st \notin Runnable

\* When Stop has returned, nothing of this manager is in flight: the engines of its
\* runs have returned too.
StopLeavesNothing == mgr = "stopped" => zombie = {}

\* A scheduled tick starts at most one run, over crashes, restarts, catch-up and the
\* pruning of the history.  The exceptions of the code: the wall clock is set back, or
\* the history is shorter than the window in which catch-up looks at it.
TickOnce ==
  ~BackInTime /\ (Retention = 0 \/ Retention >= Window) =>
    \A i, j \in Ids : i # j /\ row[i].tick # 0 => row[i].tick # row[j].tick

\* A run ends as canceled only if the manager canceled it: by Stop or because a later
\* run superseded it under overlap: latest.
OnlyManagerCancels ==
  \A i \in Ids : out[i] = "canceled" => cause[i] \in {"stop", "latest"}

\* A terminal state in the history is final: recovery, a late goroutine or a second
\* run never overwrite it; only retention removes the record.
TerminalIsFinal ==
  [][\A i \in Ids :
       row[i].st \in Terminal => row'[i].st \in {row[i].st, "pruned"}]_vars

\* Every run that was created reaches a terminal state, crashes and stops included.
RunsFinish == \A i \in Ids : row[i].st = "pending" ~> row[i].st \notin Runnable

\* Stop returns, unless the process dies first.
StopEnds == mgr = "stopping" ~> mgr \in {"stopped", "off"}

=============================================================================
