------------------------------- MODULE Daemon -------------------------------
(***************************************************************************)
(* The operations service of a daemon process (internal/ops) over the      *)
(* store lease (internal/store owner.go and lease.go): Deploy, the reload  *)
(* of a directory, Drain, Pause, Resume, Trigger and Stop, called          *)
(* concurrently for one pipeline, and the goroutines of the instances they *)
(* start.  Deploy, Drain, Pause and Resume hold the lifecycle mutex of the *)
(* pipeline; Stop and Trigger do not, and Deploy writes the file before    *)
(* it takes it.                                                            *)
(***************************************************************************)
EXTENDS Integers, Sequences, FiniteSets

CONSTANTS Callers,       \* requests under way at a time
          Versions,      \* the configurations that can be deployed
          JobVersions,   \* those with run.mode: job
          MaxCalls,      \* bound: calls in all
          Operations     \* the calls a caller makes

None == 0
Other == -1

ASSUME DaemonAssumption == /\ JobVersions \subseteq Versions /\ MaxCalls \in Nat /\ None \notin Callers
                           /\ Operations \subseteq {"Deploy", "Reload", "Drain", "Pause", "Resume", "Stop"}

VARIABLES file,     \* the deployed copy under <DataDir>/pipelines
          lock,     \* who holds the lifecycle mutex
          entry,    \* s.pipelines[name]: an instance or None
          inst,     \* the instances, in the order they were started
          lease,    \* who holds the lock file: an instance, Other process or None
          call,     \* caller |-> what it does and where it is
          calls,    \* calls made so far
          refused,  \* who held the lease when Acquire was refused
          early,    \* a Trigger reached a manager before its Start returned
          stopped   \* Stop: "no", "begun" or "returned"

daemonVars == <<file, lock, entry, inst, lease, call, calls, refused, early, stopped>>

Idle == [op |-> "none", at |-> "idle", v |-> None, m |-> None, old |-> None]
\* stage: leased, starting (jobs.Manager.Start), up, ended (the run is over), released, done
Instance(v) == [v |-> v, job |-> v \in JobVersions, status |-> "running", canceled |-> FALSE, stage |-> "leased", answer |-> "none"]
Instances == 1..Len(inst)
Executing(i) == inst[i].stage \in {"starting", "up"}
Done(i) == inst[i].stage = "done"

DaemonInit ==
  /\ file = None /\ lock = None /\ entry = None /\ inst = <<>> /\ lease = None
  /\ call = [c \in Callers |-> Idle] /\ calls = 0
  /\ refused = {} /\ early = FALSE /\ stopped = "no"

At(c, place) == call[c].at = place
Set(c, fields) == call' = [call EXCEPT ![c] = fields]
Move(c, place) == Set(c, [call[c] EXCEPT !.at = place])
Return(c) == Set(c, Idle)
\* the deferred unlock
Unlock(c) == Return(c) /\ lock' = None

-----------------------------------------------------------------------------
(* A call begins.  Deploy has verified the configuration and writes the     *)
(* file; a reload leaves out what equals the file.                          *)

Called(c, op) ==
  /\ At(c, "idle") /\ calls < MaxCalls /\ stopped # "returned" /\ op \in Operations
  /\ calls' = calls + 1

Deploy(c, v) ==
  /\ Called(c, "Deploy")
  /\ file' = v
  /\ Set(c, [Idle EXCEPT !.op = "Deploy", !.at = "lock", !.v = v])
  /\ UNCHANGED <<lock, entry, inst, lease, refused, early, stopped>>

reloadDir(c, v) ==
  /\ Called(c, "Reload")
  /\ IF file = v THEN UNCHANGED <<file, call>>
     ELSE file' = v /\ Set(c, [Idle EXCEPT !.op = "Deploy", !.at = "lock", !.v = v])
  /\ UNCHANGED <<lock, entry, inst, lease, refused, early, stopped>>

Manage(c, op) ==
  /\ op \in {"Drain", "Pause", "Resume"} /\ Called(c, op)
  /\ Set(c, [Idle EXCEPT !.op = op, !.at = "lock"])
  /\ UNCHANGED <<file, lock, entry, inst, lease, refused, early, stopped>>

\* Stop takes the instances of the moment, and no lifecycle mutex
Stop(c) ==
  /\ Called(c, "Stop") /\ stopped = "no"
  /\ stopped' = "begun"
  /\ Set(c, [Idle EXCEPT !.op = "Stop", !.at = IF entry = None THEN "stopped" ELSE "shutdown", !.m = entry])
  /\ UNCHANGED <<file, lock, entry, inst, lease, refused, early>>

\* of, then jobs.Manager.Trigger (module Jobs)
Trigger ==
  /\ entry # None /\ inst[entry].job /\ stopped # "returned"
  /\ early' = (early \/ inst[entry].stage = "starting")
  /\ UNCHANGED <<file, lock, entry, inst, lease, call, calls, refused, stopped>>

-----------------------------------------------------------------------------
(* Under the lifecycle mutex                                                *)

\* what the call does with the instance it finds
Target(op) == CASE op = "Drain" -> "drained" [] op = "Pause" -> "paused" [] OTHER -> "running"
Proceeds(c) ==
  LET op == call[c].op
  IN IF op = "Deploy" THEN IF entry = None THEN "start" ELSE "shutdown"
     ELSE IF entry = None \/ inst[entry].status = Target(op) THEN "return"
     ELSE IF op = "Resume" THEN IF inst[entry].status \in {"paused", "drained"} THEN "start" ELSE "return"
     ELSE IF inst[entry].status = "running" THEN "shutdown" ELSE "return"
Enter(c) ==
  /\ At(c, "lock") /\ lock = None
  /\ IF Proceeds(c) = "return" THEN Unlock(c)
     ELSE /\ lock' = c
          /\ Set(c, [call[c] EXCEPT !.at = Proceeds(c), !.m = entry,
                                    !.v = IF call[c].op = "Deploy" THEN @ ELSE inst[entry].v])
  /\ UNCHANGED <<file, entry, inst, lease, calls, refused, early, stopped>>

\* Variant with a defect: Deploy leaves the old instance alone.
shutdownNot(c) ==
  /\ At(c, "shutdown")
  /\ Move(c, "start")
  /\ UNCHANGED <<file, lock, entry, inst, lease, calls, refused, early, stopped>>

\* Variant with a defect: the lease goes with the cancel.
shutdownReleases(c) ==
  /\ At(c, "shutdown")
  /\ inst' = [inst EXCEPT ![call[c].m].canceled = TRUE]
  /\ lease' = IF lease = call[c].m THEN None ELSE lease
  /\ Move(c, "wait")
  /\ UNCHANGED <<file, lock, entry, calls, refused, early, stopped>>

shutdown(c) ==
  /\ At(c, "shutdown")
  /\ inst' = [inst EXCEPT ![call[c].m].canceled = TRUE]
  /\ Move(c, "wait")
  /\ UNCHANGED <<file, lock, entry, lease, calls, refused, early, stopped>>

\* the instance closed done
Stopped(c) ==
  /\ At(c, "wait") /\ Done(call[c].m)
  /\ Move(c, CASE call[c].op = "Deploy" -> "start" [] call[c].op = "Stop" -> "stopped" [] OTHER -> "mark")
  /\ UNCHANGED <<file, lock, entry, inst, lease, calls, refused, early, stopped>>

\* Variant with a defect: the result of shutdown is not looked at.
TimeOutIgnored(c) ==
  /\ At(c, "wait") /\ ~Done(call[c].m)
  /\ Move(c, CASE call[c].op = "Deploy" -> "start" [] call[c].op = "Stop" -> "stopped" [] OTHER -> "mark")
  /\ UNCHANGED <<file, lock, entry, inst, lease, calls, refused, early, stopped>>

\* or 15 seconds passed; the call of a job manager's Stop before has no bound
TimeOut(c) ==
  /\ At(c, "wait") /\ ~Done(call[c].m)
  /\ inst[call[c].m].job => ~Executing(call[c].m)
  /\ IF call[c].op = "Stop" THEN Move(c, "stopped") /\ UNCHANGED lock ELSE Unlock(c)
  /\ UNCHANGED <<file, entry, inst, lease, calls, refused, early, stopped>>

\* instanceTransitions; no step takes the last two: Resume starts a new instance
Table == {<<"running", "paused">>, <<"running", "drained">>, <<"running", "completed">>, <<"running", "failed">>,
          <<"paused", "running">>, <<"drained", "running">>}
\* Drain and Pause
transition(c) ==
  /\ At(c, "mark")
  /\ inst' = [inst EXCEPT ![call[c].m].status =
                IF <<@, Target(call[c].op)>> \in Table THEN Target(call[c].op) ELSE @]
  /\ Unlock(c)
  /\ UNCHANGED <<file, entry, lease, calls, refused, early, stopped>>

StopReturns(c) ==
  /\ At(c, "stopped")
  /\ stopped' = "returned" /\ Return(c)
  /\ UNCHANGED <<file, lock, entry, inst, lease, calls, refused, early>>

-----------------------------------------------------------------------------
(* startManaged                                                             *)

\* a Deploy that fails takes the stopped instance out of the map
drop(c) == entry' = IF call[c].op = "Deploy" /\ entry = call[c].m THEN None ELSE entry

Acquire(c) ==
  /\ At(c, "start") /\ lease = None
  /\ inst' = Append(inst, Instance(call[c].v))
  /\ lease' = Len(inst) + 1
  /\ Set(c, [call[c] EXCEPT !.at = "build", !.old = call[c].m, !.m = Len(inst) + 1])
  /\ UNCHANGED <<file, lock, entry, calls, refused, early, stopped>>

Busy(c) ==
  /\ At(c, "start") /\ lease # None
  /\ refused' = refused \cup {lease}
  /\ drop(c) /\ Unlock(c)
  /\ UNCHANGED <<file, inst, lease, calls, early, stopped>>

\* the store, the engine or the manager cannot be made
BuildFails(c) ==
  /\ At(c, "build")
  /\ lease' = None
  /\ inst' = [inst EXCEPT ![call[c].m].stage = "done", ![call[c].m].canceled = TRUE]
  /\ entry' = IF call[c].op = "Deploy" /\ entry = call[c].old THEN None ELSE entry
  /\ Unlock(c)
  /\ UNCHANGED <<file, calls, refused, early, stopped>>

\* Variant with a defect: the instance is in the map before its Start.
BuiltEarly(c) ==
  /\ At(c, "build")
  /\ inst' = [inst EXCEPT ![call[c].m].stage = IF @ = "leased" /\ inst[call[c].m].job THEN "starting" ELSE "up"]
  /\ entry' = call[c].m
  /\ IF inst[call[c].m].job THEN Move(c, "await") /\ UNCHANGED lock ELSE Unlock(c)
  /\ UNCHANGED <<file, lease, calls, refused, early, stopped>>

\* an engine is installed and runs; a manager is started first
Built(c) ==
  /\ At(c, "build")
  /\ IF inst[call[c].m].job
     THEN /\ inst' = [inst EXCEPT ![call[c].m].stage = "starting"]
          /\ Move(c, "await") /\ UNCHANGED <<entry, lock>>
     ELSE /\ inst' = [inst EXCEPT ![call[c].m].stage = "up"]
          /\ entry' = call[c].m /\ Unlock(c)
  /\ UNCHANGED <<file, lease, calls, refused, early, stopped>>

\* <-startup
Started(c) ==
  /\ At(c, "await") /\ inst[call[c].m].answer # "none"
  /\ entry' = IF inst[call[c].m].answer = "ok" THEN call[c].m
              ELSE IF call[c].op = "Deploy" /\ entry = call[c].old THEN None ELSE entry
  /\ Unlock(c)
  /\ UNCHANGED <<file, inst, lease, calls, refused, early, stopped>>

-----------------------------------------------------------------------------
(* The goroutines of an instance                                            *)

InstStep(i, now, then) ==
  /\ i \in Instances /\ inst[i].stage = now
  /\ inst' = [inst EXCEPT ![i] = then]
  /\ UNCHANGED <<file, lock, entry, call, calls, refused, early, stopped>>

\* Variant with a defect: a failed start is not sent to the caller.
StartFailsSilently(i) == UNCHANGED lease /\ InstStep(i, "starting", [inst[i] EXCEPT !.stage = "ended", !.status = "failed"])

\* recovery fails: the caller has its answer before the lease is free
StartFails(i) == UNCHANGED lease /\ InstStep(i, "starting", [inst[i] EXCEPT !.stage = "ended", !.status = "failed", !.answer = "error"])
StartOk(i) == UNCHANGED lease /\ InstStep(i, "starting", [inst[i] EXCEPT !.stage = "up", !.answer = "ok"])

\* advance moves on from running only
advance(status, to) == IF status = "running" THEN to ELSE status
\* the run ends by itself, or because it was canceled: then the status is the canceler's
EndsItself(i, how) ==
  /\ ~inst[i].job /\ ~inst[i].canceled /\ how \in {"completed", "failed"}
  /\ UNCHANGED lease
  /\ InstStep(i, "up", [inst[i] EXCEPT !.stage = "ended", !.status = advance(@, how)])
EndsCanceled(i) ==
  /\ inst[i].canceled
  /\ UNCHANGED lease
  /\ InstStep(i, "up", [inst[i] EXCEPT !.stage = "ended"])

\* Variant with a defect: done closes first.
releaseLeaseLast(i) ==
  /\ \/ InstStep(i, "ended", [inst[i] EXCEPT !.stage = "done"]) /\ UNCHANGED lease
     \/ lease = i /\ lease' = None /\ InstStep(i, "done", inst[i])

releaseLease(i) ==
  /\ lease' = IF lease = i THEN None ELSE lease
  /\ InstStep(i, "ended", [inst[i] EXCEPT !.stage = "released"])

CloseDone(i) == UNCHANGED lease /\ InstStep(i, "released", [inst[i] EXCEPT !.stage = "done"])

\* another process of the same data directory runs the pipeline for a while
OtherProcess ==
  /\ \/ lease = None /\ lease' = Other
     \/ lease = Other /\ lease' = None
  /\ UNCHANGED <<file, lock, entry, inst, call, calls, refused, early, stopped>>

-----------------------------------------------------------------------------
CallerStep(c) ==
  \/ Enter(c) \/ shutdown(c) \/ Stopped(c) \/ TimeOut(c) \/ transition(c) \/ StopReturns(c)
  \/ Acquire(c) \/ Busy(c) \/ BuildFails(c) \/ Built(c) \/ Started(c)
InstanceStep(i) ==
  i \in Instances /\ (StartFails(i) \/ StartOk(i) \/ EndsCanceled(i) \/ releaseLease(i) \/ CloseDone(i))

DaemonNext ==
  \/ \E c \in Callers, v \in Versions : Deploy(c, v) \/ reloadDir(c, v)
  \/ \E c \in Callers, op \in {"Drain", "Pause", "Resume"} : Manage(c, op)
  \/ \E c \in Callers : Stop(c) \/ CallerStep(c)
  \/ \E i \in Instances : InstanceStep(i) \/ \E how \in {"completed", "failed"} : EndsItself(i, how)
  \/ Trigger \/ OtherProcess

\* a call that is runnable runs, and so does the goroutine of an instance
DaemonFairness ==
  /\ \A c \in Callers : WF_daemonVars(CallerStep(c))
  /\ \A i \in 1..MaxCalls : WF_daemonVars(InstanceStep(i))
DaemonSpec == DaemonInit /\ [][DaemonNext]_daemonVars /\ DaemonFairness

-----------------------------------------------------------------------------
\* One writer per store, across processes: what executes holds the lease.
SingleWriter == \A i \in Instances : Executing(i) => lease = i

\* An instance that executes and was not told to stop can be reached: it is in the
\* map, or its start is under way.  What Deploy replaces never runs on unseen.
NoStray ==
  \A i \in Instances : Executing(i) /\ ~inst[i].canceled =>
    entry = i \/ \E c \in Callers : call[c].m = i /\ At(c, "await")

\* A pipeline reported as paused, drained or finished has stopped: nothing of it
\* executes (Drain, Pause, watchEngineCompletion).
QuietMeansStopped == \A i \in Instances : inst[i].status # "running" => ~Executing(i)

\* No Trigger reaches a job manager before its recovery is over ("the deploy/trigger
\* race" of startManaged).
TriggerAfterRecovery == ~early

\* A refused Acquire met another process, or an instance whose start had failed a
\* moment ago: never one that a caller saw stop (releaseLease).
BusyIsForeign == \A i \in refused : i # Other => inst[i].status = "failed" /\ inst[i].answer = "error"

\* Deploy, Reload, Drain, Pause, Resume, Stop and Trigger of several callers, and another
\* process, leave one writer at most, which is managed, has recovered before it is
\* triggered, and never finds the lease taken by its own predecessor.
OneInstance == SingleWriter /\ NoStray /\ TriggerAfterRecovery /\ BusyIsForeign

\* Every call returns, so the lifecycle mutex is always given back.
CallsReturn == \A c \in Callers : ~At(c, "idle") ~> At(c, "idle")

-----------------------------------------------------------------------------
(* What the code's comments say and these steps do not keep *)

Quiet == lock = None /\ \A c \in Callers : At(c, "idle")

\* "Pause/Drain/Resume refuse instead of reporting a state the pipeline is not in":
\* a pipeline that reports running is not stopped.
NoFakeRunning ==
  Quiet /\ stopped = "no" /\ entry # None /\ inst[entry].status = "running" => ~Done(entry)

\* "Persist the deployed config (jobs reload it per run; restarts re-read it)": the
\* file is the configuration of the instance that is deployed.
FileIsDeployed == Quiet /\ entry # None => inst[entry].v = file

\* "closes it on shutdown - after the service stopped, so the engines' final writes
\* land first": when Stop has returned nothing executes.
StopIsFinal == stopped = "returned" => \A i \in Instances : ~Executing(i)
=============================================================================
