----------------------------- MODULE PluginHost -----------------------------
(***************************************************************************)
(* The host of an out-of-process plugin (internal/rpcplugin) and how the   *)
(* engine drives it.  A source is read by one goroutine (stream) while the *)
(* committer of the engine calls Commit (call); a sink is written by its   *)
(* node's goroutine (call).  Under grpc.restart: restart both go through a *)
(* supervisor, whose mutex is held over the backoff, the spawn and the     *)
(* Init of a new process; otherwise the one process is used as it is.      *)
(*                                                                         *)
(* The items of the outside system are numbered; a plugin restored with    *)
(* state k emits k+1 next, and its src_seq is that number.                 *)
(***************************************************************************)
EXTENDS Integers, Sequences, FiniteSets, FiniteSetsExt

CONSTANTS Policies,     \* kinds and crash policies: [kind, restart]
          PluginItems,  \* items of the outside system
          MaxFaults,    \* bound: crashes, wedges, refusals, failing spawns and Inits
          Cap           \* restartBackoffCap and restartUptimeReset, in base waits

ASSUME PluginAssumption ==
  /\ Policies \subseteq [kind : {"source", "sink"}, restart : BOOLEAN]
  /\ PluginItems \in Nat \ {0} /\ MaxFaults \in Nat /\ Cap \in Nat \ {0}

VARIABLES policy,
          procs,     \* the processes, in the order they were spawned
          sup,       \* the supervisor
          mu,        \* who holds its mutex
          actor,     \* stream and call: where each is, and with which process
          over,      \* how the run of the source ended
          taken,     \* the items the engine accepted (a sink: that the plugin wrote)
          frontier,  \* the engine committed the items up to here
          tried,     \* the frontier of the last Commit
          persisted, \* the persisted state
          flushed,   \* the committer made its last attempt
          canceled,  \* the engine's context
          since,     \* time since startedAt, up to Cap
          uptime,    \* how long the current process is up, up to Cap
          faults, restarts

pluginVars == <<policy, procs, sup, mu, actor, over, taken, frontier, tried, persisted, flushed, canceled, since,
                uptime, faults, restarts>>

Actors == {"stream", "call"}
NoProc == 0
Process == [up |-> TRUE, broken |-> FALSE, inited |-> FALSE, next |-> 1]
\* what it held is gone with it
Killed(p) == [procs[p] EXCEPT !.up = FALSE, !.broken = FALSE, !.next = 1]
Up(p) == p # NoProc /\ procs[p].up
Answers(p) == Up(p) /\ ~procs[p].broken

NoCall == [at |-> "idle", p |-> NoProc, inits |-> 0, again |-> FALSE]

PluginInit ==
  /\ policy \in Policies
  /\ procs = <<Process>>
  /\ persisted \in (IF policy.kind = "source" THEN {0, 1} ELSE {0})
  /\ sup = [proc |-> 1, inited |-> NoProc, state |-> persisted, attempt |-> 0, closed |-> FALSE]
  /\ mu = "none"
  /\ actor = [a \in Actors |-> IF a = "call" THEN NoCall ELSE [NoCall EXCEPT !.inits = IF persisted > 0 THEN 2 ELSE 1]]
  /\ over = "no"
  /\ taken = 1..persisted /\ frontier = persisted /\ tried = persisted
  /\ canceled = FALSE /\ flushed = FALSE
  /\ since = 0 /\ uptime = 0 /\ faults = 0 /\ restarts = 0

At(a, place) == actor[a].at = place
Returns == actor' = [actor EXCEPT !["call"] = NoCall]
Goes(a, place) == actor' = [actor EXCEPT ![a].at = place]
Engine == <<over, taken, frontier, tried, persisted, flushed, canceled>>
Clock == <<since, uptime>>
Faulty == faults < MaxFaults /\ faults' = faults + 1

-----------------------------------------------------------------------------
(* supervisor.live                                                          *)

\* Variant with a defect: a process that runs is taken for ready.
ReadyAlive(p) == Up(p)

Ready(p) == Up(p) /\ sup.inited = p

\* the process is handed out; the Init of the engine (with a persisted state) and
\* the init of the adapter have no use for it
Handed(a, p) ==
  actor' = [actor EXCEPT ![a] = IF @.inits > 0 THEN [@ EXCEPT !.at = "live", !.inits = actor[a].inits - 1]
                                ELSE [@ EXCEPT !.at = "have", !.p = p]]

Lock(a) ==
  /\ At(a, "live") /\ mu = "none" /\ policy.restart
  /\ CASE sup.closed -> Goes(a, "error") /\ UNCHANGED mu
       [] ~sup.closed /\ Ready(sup.proc) -> Handed(a, sup.proc) /\ UNCHANGED mu
       [] ~sup.closed /\ Up(sup.proc) /\ ~Ready(sup.proc) ->
            mu' = a /\ actor' = [actor EXCEPT ![a].at = "init", ![a].p = sup.proc]
       [] OTHER -> mu' = a /\ Goes(a, "backoff")
  /\ UNCHANGED <<policy, procs, sup, Engine, Clock, faults, restarts>>

\* backoffLocked: doubling, capped
Wait(n) == IF n = 0 THEN 0 ELSE Min({2 ^ (n - 1), Cap})
Backoff(a) ==
  /\ At(a, "backoff")
  /\ since' = Min({since + Wait(sup.attempt), Cap})
  /\ Goes(a, "spawn")
  /\ UNCHANGED <<policy, procs, sup, mu, Engine, uptime, faults, restarts>>

CtxDone(a) ==
  /\ At(a, "backoff") /\ sup.attempt > 0 /\ canceled /\ actor[a].inits = 0
  /\ mu' = "none" /\ Goes(a, "error")
  /\ UNCHANGED <<policy, procs, sup, Engine, Clock, faults, restarts>>

\* the time the process was down counts as uptime
Respawn(a) ==
  /\ At(a, "spawn")
  /\ procs' = Append(procs, Process)
  /\ sup' = [sup EXCEPT !.proc = Len(procs'), !.inited = NoProc,
                        !.attempt = 1 + IF since >= Cap THEN 0 ELSE @]
  /\ restarts' = restarts + 1 /\ since' = 0 /\ uptime' = 0
  /\ actor' = [actor EXCEPT ![a].at = "init", ![a].p = Len(procs')]
  /\ UNCHANGED <<policy, mu, Engine, faults>>

\* the command, the handshake or the dial fails, or the context ends: what was
\* started is killed
SpawnFails(a) ==
  /\ At(a, "spawn")
  /\ IF canceled /\ actor[a].inits = 0 THEN UNCHANGED faults ELSE Faulty
  /\ sup' = [sup EXCEPT !.attempt = @ + 1]
  /\ mu' = "none" /\ Goes(a, "error")
  /\ UNCHANGED <<policy, procs, Engine, Clock, restarts>>

\* the Init RPC delivers the configuration and the latest state
Reinit(a) ==
  /\ At(a, "init") /\ Answers(actor[a].p)
  /\ procs' = [procs EXCEPT ![actor[a].p].inited = TRUE, ![actor[a].p].next = sup.state + 1]
  /\ sup' = [sup EXCEPT !.inited = actor[a].p]
  /\ mu' = "none" /\ Handed(a, actor[a].p)
  /\ UNCHANGED <<policy, Engine, Clock, faults, restarts>>

ReinitFails(a) ==
  /\ At(a, "init")
  /\ IF Answers(actor[a].p) THEN Faulty ELSE UNCHANGED faults
  /\ mu' = "none" /\ Goes(a, "error")
  /\ UNCHANGED <<policy, procs, sup, Engine, Clock, restarts>>

\* Variant with a defect: whatever process is current is stopped.
dropAny(a) ==
  /\ At(a, "drop") /\ mu = "none"
  /\ procs' = [p \in DOMAIN procs |-> IF p \in {actor[a].p, sup.proc} THEN Killed(p) ELSE procs[p]]
  /\ sup' = [sup EXCEPT !.proc = NoProc]
  /\ actor' = [actor EXCEPT ![a].at = "live", ![a].again = TRUE]
  /\ UNCHANGED <<policy, mu, Engine, Clock, faults, restarts>>

\* Variant with a defect: the process is forgotten and runs on.
dropForgets(a) ==
  /\ At(a, "drop") /\ mu = "none"
  /\ sup' = [sup EXCEPT !.proc = IF @ = actor[a].p THEN NoProc ELSE @]
  /\ actor' = [actor EXCEPT ![a].at = "live", ![a].again = TRUE]
  /\ UNCHANGED <<policy, procs, mu, Engine, Clock, faults, restarts>>

\* Variant with a defect: a process that still runs is kept.
dropDead(a) ==
  /\ At(a, "drop") /\ mu = "none"
  /\ sup' = [sup EXCEPT !.proc = IF @ = actor[a].p /\ ~Up(@) THEN NoProc ELSE @]
  /\ actor' = [actor EXCEPT ![a].at = "live", ![a].again = TRUE]
  /\ UNCHANGED <<policy, procs, mu, Engine, Clock, faults, restarts>>

\* the process a call failed on is stopped; one that took its place is not
drop(a) ==
  /\ At(a, "drop") /\ mu = "none"
  /\ procs' = [procs EXCEPT ![actor[a].p] = Killed(actor[a].p)]
  /\ sup' = [sup EXCEPT !.proc = IF @ = actor[a].p THEN NoProc ELSE @]
  /\ actor' = [actor EXCEPT ![a].at = "live", ![a].again = TRUE]
  /\ UNCHANGED <<policy, mu, Engine, Clock, faults, restarts>>

-----------------------------------------------------------------------------
(* The stream of a source: Run and Pull                                     *)

\* without a supervisor Init is delivered once, and its error is kept
StreamStart ==
  /\ policy.kind = "source" /\ At("stream", "idle")
  /\ IF policy.restart THEN Goes("stream", "live") /\ UNCHANGED procs
     ELSE IF Answers(1)
     THEN /\ procs' = [procs EXCEPT ![1].inited = TRUE, ![1].next = sup.state + 1]
          /\ actor' = [actor EXCEPT !["stream"].at = "have", !["stream"].p = 1]
     ELSE Goes("stream", "error") /\ UNCHANGED procs
  /\ UNCHANGED <<policy, sup, mu, Engine, Clock, faults, restarts>>

InitOnceFails ==
  /\ policy.kind = "source" /\ ~policy.restart /\ At("stream", "idle") /\ Faulty
  /\ Goes("stream", "error")
  /\ UNCHANGED <<policy, procs, sup, mu, Engine, Clock, restarts>>

Reader == actor["stream"].p
\* emit: the engine spools the event
Receive ==
  /\ At("stream", "have") /\ Answers(Reader) /\ procs[Reader].next <= PluginItems /\ ~canceled
  /\ taken' = taken \cup {procs[Reader].next}
  /\ procs' = [procs EXCEPT ![Reader].next = @ + 1]
  /\ UNCHANGED <<policy, sup, mu, actor, over, frontier, tried, persisted, flushed, canceled, Clock, faults, restarts>>

\* the run of the source is over: a failure stops the engine
Ends(how) ==
  /\ over' = IF canceled THEN "canceled" ELSE how
  /\ canceled' = (canceled \/ how = "failed")
  /\ Goes("stream", "close")

\* under the restart policy a failed stream is opened again
Broken == IF policy.restart /\ ~canceled THEN Goes("stream", "drop") /\ UNCHANGED <<over, canceled>> ELSE Ends("failed")

\* Variant with a defect: a refused event is left out.
RefuseEventOne ==
  /\ At("stream", "have") /\ Answers(Reader) /\ procs[Reader].next <= PluginItems /\ ~canceled /\ Faulty
  /\ procs' = [procs EXCEPT ![Reader].next = @ + 1]
  /\ UNCHANGED <<policy, sup, mu, actor, over, taken, frontier, tried, persisted, flushed, canceled, Clock, restarts>>

RefuseEvent ==
  /\ At("stream", "have") /\ Answers(Reader) /\ procs[Reader].next <= PluginItems /\ ~canceled /\ Faulty
  /\ Broken
  /\ UNCHANGED <<policy, procs, sup, mu, taken, frontier, tried, persisted, flushed, Clock, restarts>>

StreamBreaks ==
  /\ At("stream", "have") /\ (~Answers(Reader) \/ canceled)
  /\ Broken
  /\ UNCHANGED <<policy, procs, sup, mu, taken, frontier, tried, persisted, flushed, Clock, faults, restarts>>

EndOfStream ==
  /\ At("stream", "have") /\ Answers(Reader) /\ procs[Reader].next > PluginItems
  /\ Ends("exhausted")
  /\ UNCHANGED <<policy, procs, sup, mu, taken, frontier, tried, persisted, flushed, Clock, faults, restarts>>

\* the engine ignores the error of its own Init
NoProcess ==
  /\ At("stream", "error")
  /\ IF policy.restart /\ actor["stream"].inits = 2
     THEN /\ actor' = [actor EXCEPT !["stream"].at = "live", !["stream"].inits = 1]
          /\ UNCHANGED <<over, canceled>>
     ELSE Ends("failed")
  /\ UNCHANGED <<policy, procs, sup, mu, taken, frontier, tried, persisted, flushed, Clock, faults, restarts>>

\* the engine closes the source when its run returns, not when its rows are committed
Close(a) ==
  /\ At(a, "close") /\ mu = "none"
  /\ procs' = [p \in DOMAIN procs |-> IF p = sup.proc THEN Killed(p) ELSE procs[p]]
  /\ sup' = [sup EXCEPT !.closed = policy.restart, !.proc = IF policy.restart THEN NoProc ELSE @]
  /\ Goes(a, "closed")
  /\ UNCHANGED <<policy, mu, Engine, Clock, faults, restarts>>

-----------------------------------------------------------------------------
(* Commit of a source, Write of a sink                                      *)

Advance ==
  /\ policy.kind = "source" /\ frontier + 1 \in taken
  /\ frontier' = frontier + 1
  /\ UNCHANGED <<policy, procs, sup, mu, actor, over, taken, tried, persisted, flushed, canceled, Clock, faults, restarts>>

\* a posted frontier; or the next batch, which the engine offers until it is
\* written
Wanted == IF policy.kind = "source" THEN frontier > tried ELSE ~canceled /\ taken # 1..PluginItems
\* the flush of a committer comes after the sources have returned
Flush == policy.kind = "source" /\ At("stream", "closed") /\ canceled /\ ~flushed /\ frontier > persisted
\* the adapter of a sink delivers the configuration before its first Write
CallStart ==
  /\ At("call", "idle") /\ (Wanted \/ Flush)
  /\ flushed' = (flushed \/ ~Wanted)
  /\ tried' = IF policy.kind = "source" THEN frontier ELSE tried
  /\ IF policy.restart
     THEN /\ actor' = [actor EXCEPT !["call"] = [NoCall EXCEPT !.at = "live", !.inits = IF policy.kind = "sink" THEN 1 ELSE 0]]
          /\ UNCHANGED procs
     ELSE /\ actor' = [actor EXCEPT !["call"].at = IF policy.kind = "sink" /\ ~procs[1].inited /\ ~Answers(1) THEN "error" ELSE "have",
                                    !["call"].p = 1]
          /\ procs' = IF policy.kind = "sink" /\ Answers(1) THEN [procs EXCEPT ![1].inited = TRUE] ELSE procs
  /\ UNCHANGED <<policy, sup, mu, over, taken, frontier, persisted, canceled, Clock, faults, restarts>>

\* Commit answers with the state of the frontier, which is kept for the next
\* process and persisted
CallAnswered ==
  /\ At("call", "have") /\ Answers(actor["call"].p)
  /\ Returns
  /\ IF policy.kind = "source"
     THEN /\ sup' = [sup EXCEPT !.state = tried] /\ persisted' = tried
          /\ UNCHANGED taken
     ELSE /\ taken' = taken \cup {Cardinality(taken) + 1}
          /\ UNCHANGED <<sup, persisted>>
  /\ UNCHANGED <<policy, procs, mu, over, frontier, tried, flushed, canceled, Clock, faults, restarts>>

\* one respawn and one more attempt within the call; a call whose context ends
\* breaks too
CallBreaks ==
  /\ At("call", "have") /\ (~Answers(actor["call"].p) \/ canceled)
  /\ IF policy.restart /\ ~actor["call"].again THEN Goes("call", "drop") ELSE Returns
  /\ UNCHANGED <<policy, procs, sup, mu, Engine, Clock, faults, restarts>>

\* the plugin answers with an error of its own: no restart
CallRefused ==
  /\ At("call", "have") /\ Answers(actor["call"].p) /\ Faulty
  /\ Returns
  /\ UNCHANGED <<policy, procs, sup, mu, Engine, Clock, restarts>>

\* the Init of an unsupervised sink fails; its error is kept, and no call is
\* made on the process any more
SinkInitFails ==
  /\ policy.kind = "sink" /\ ~policy.restart /\ At("call", "idle") /\ Wanted /\ ~procs[1].inited /\ Faulty
  /\ procs' = [procs EXCEPT ![1].broken = TRUE]
  /\ Goes("call", "error")
  /\ UNCHANGED <<policy, sup, mu, Engine, Clock, restarts>>

CallFails ==
  /\ At("call", "error")
  /\ Returns
  /\ UNCHANGED <<policy, procs, sup, mu, Engine, Clock, faults, restarts>>

\* a sink is closed when its node has stopped
CloseSink ==
  /\ policy.kind = "sink" /\ At("call", "idle") /\ canceled
  /\ Goes("call", "close")
  /\ UNCHANGED <<policy, procs, sup, mu, Engine, Clock, faults, restarts>>

-----------------------------------------------------------------------------
(* The outside                                                              *)

Crash == \E p \in DOMAIN procs :
  /\ Up(p) /\ Faulty
  /\ procs' = [procs EXCEPT ![p] = Killed(p)]
  /\ UNCHANGED <<policy, sup, mu, actor, Engine, Clock, restarts>>

\* the process runs and its connection does not
Wedge == \E p \in DOMAIN procs :
  /\ Answers(p) /\ Faulty
  /\ procs' = [procs EXCEPT ![p].broken = TRUE]
  /\ UNCHANGED <<policy, sup, mu, actor, Engine, Clock, restarts>>

Cancel ==
  /\ ~canceled /\ canceled' = TRUE
  /\ UNCHANGED <<policy, procs, sup, mu, actor, over, taken, frontier, tried, persisted, flushed, Clock, faults, restarts>>

\* the current process stays up for as long as resets the ladder (a ladder that
\* was not climbed has nothing to reset)
LongUp ==
  /\ policy.restart /\ sup.attempt > 0 /\ mu = "none" /\ Up(sup.proc) /\ uptime < Cap
  /\ since' = Cap /\ uptime' = Cap
  /\ UNCHANGED <<policy, procs, sup, mu, actor, Engine, faults, restarts>>

Live(a) == Lock(a) \/ Backoff(a) \/ CtxDone(a) \/ Respawn(a) \/ SpawnFails(a) \/ Reinit(a) \/ ReinitFails(a) \/ drop(a)
Stream == StreamStart \/ InitOnceFails \/ Receive \/ RefuseEvent \/ StreamBreaks \/ EndOfStream \/ NoProcess \/ Close("stream") \/ Live("stream")
Call == CallStart \/ CallAnswered \/ CallBreaks \/ CallRefused \/ SinkInitFails \/ CallFails \/ CloseSink \/ Close("call") \/ Live("call")
PluginNext == Stream \/ Call \/ Advance \/ Crash \/ Wedge \/ Cancel \/ LongUp

\* The two goroutines go on, and the plugin answers a call or its connection breaks: an
\* assumption on the plugin, since only the handshake and Close have a deadline.
PluginFairness == WF_pluginVars(Stream) /\ WF_pluginVars(Call)
PluginSpec == PluginInit /\ [][PluginNext]_pluginVars /\ PluginFairness

-----------------------------------------------------------------------------
\* At-least-once across restarts: no item is left out before one that was
\* accepted, and the state a process is restored with never covers an item that
\* was not (stream: "the respawn re-emits it - at-least-once, never loss").
NothingSkipped ==
  policy.kind = "source" =>
    /\ \A i \in taken : 1..i \subseteq taken
    /\ 1..Max({sup.state, persisted}) \subseteq taken

\* Every process a call is made on has had its configuration, also when the Init of
\* a new process failed in another call before (live, inited).
ConfiguredBeforeUse ==
  \A a \in Actors : At(a, "have") => procs[actor[a].p].inited

\* The supervisor knows every process that runs: none is left behind by a respawn, a
\* late drop or a Commit after Close (live, drop, close).
Supervised ==
  policy.restart => \A p \in DOMAIN procs : procs[p].up => p = sup.proc

\* While the engine runs, a failure that both goroutines notice costs one restart, not two: drop stops the
\* process the call failed on, never the one that has replaced it.
RestartsAreDue == ~canceled => restarts <= faults

\* Two goroutines share one supervised process: each call is made on a configured one,
\* none runs on unseen, and none is stopped for a failure of its predecessor.
SupervisionSound == ConfiguredBeforeUse /\ Supervised /\ RestartsAreDue

\* Whatever fails, a source run returns: a process whose connection broke is replaced
\* or given up, and the mutex is always given back.
SourceReturns == policy.kind = "source" ~> At("stream", "closed")

-----------------------------------------------------------------------------
(* What the code's comments and docs say and these steps do not keep *)

\* "after a process stayed up this long, the backoff ladder resets (a crash-loop is
\* what deserves growing delays)": it does not reset for a process that did not.
LadderClimbs == [][sup'.attempt < sup.attempt => uptime >= Cap]_pluginVars

\* "the host persists and feeds it back through the next Init": a source that was
\* read to its end without a fault has its last frontier persisted.
FrontierPersisted ==
  over = "exhausted" /\ faults = 0 /\ At("stream", "closed") /\ At("call", "idle") /\ tried = frontier => persisted = frontier
=============================================================================
