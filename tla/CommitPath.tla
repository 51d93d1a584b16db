----------------------------- MODULE CommitPath -----------------------------
(***************************************************************************)
(* The commit path of one pipeline: admission (internal/engine/            *)
(* admission.go), the commit tracker (commit.go), the checkpoint,          *)
(* retention, crash replay and Abandon (engine.go) and the source          *)
(* committers (sourcecommit.go), over the durable store, across process    *)
(* crashes, clean stops and restarts.                                      *)
(*                                                                         *)
(* A step is one critical section or one store call of one goroutine.      *)
(* What a message carries, and which edges it matches, is abstracted: a    *)
(* message in flight is its number of unfinished execution branches        *)
(* (live), and each step of a goroutine turns one branch into k.  The      *)
(* branches of a row dispatched by crash replay are told apart from those  *)
(* of the admission that appended it (Copies): a row is settled once all   *)
(* branches of one copy have ended.                                        *)
(***************************************************************************)
EXTENDS CommitTracker

CONSTANTS Injectors,       \* goroutines calling InjectAt / InjectReplay
          Workers,         \* transform and sink goroutines
          Runner,          \* the goroutine in Engine.Run: crash replay
          Abandoner,       \* the goroutine in Engine.Wait: Abandon
          HighWatermark,   \* capacity of the admission gate
          SpoolRetention,  \* rows kept behind the checkpoint
          PageSize,        \* rows per ReplayPage (500 / 256 in the code)
          MaxFan,          \* most branches one dispatch or transform creates
          MaxBranches,     \* bound: branches one message has in one run (the DAG's paths)
          MaxRuns,         \* bound: engine runs
          EarlyInject,     \* TRUE: injections may arrive before replay is done
          WriteFaults      \* TRUE: checkpoint writes may fail

Goroutines == Sources \cup Injectors \cup Workers \cup {Runner, Abandoner}
Callers == Sources \cup Injectors \cup {Runner}
Copies == {"emitted", "replayed"}
CopyOf(c) == IF c = Runner THEN "replayed" ELSE "emitted"

ASSUME CommitPathAssumption ==
  /\ HighWatermark \in Nat \ {0}
  /\ SpoolRetention \in Nat \ {0}
  /\ PageSize \in Nat \ {0}
  /\ MaxFan \in Nat \ {0} /\ MaxBranches \in Nat \ {0} /\ MaxRuns \in Nat \ {0}
  /\ EarlyInject \in BOOLEAN /\ WriteFaults \in BOOLEAN
  /\ Injectors \cap Sources = {}
  /\ Workers \cap (Sources \cup Injectors) = {}
  /\ Runner \notin Sources \cup Injectors \cup Workers
  /\ Abandoner \notin Sources \cup Injectors \cup Workers \cup {Runner}

VARIABLES
  \* the durable store
  spool,            \* sequences of the rows present
  lastSeq,          \* AUTOINCREMENT: the last sequence given out
  origin,           \* origin[q] = <<source, item>> of a row, <<NoNode, 0>> if injected
  checkpoint,       \* the durable checkpoint
  srcState,         \* srcState[s]: items of source s its durable state covers
  \* the engine of the current run
  phase, runs,
  trk,              \* Engine.commit
  gate, acquired,   \* admission: slots taken, and the ledger of their rows
  persistedThrough, flushAttempted, retentionDue,
  pending, persisted, wake,     \* the source committers
  base, emitted,    \* item a source resumed behind, and emissions of this run
  scan, page, more, \* ReplayFrom: last row read, rows of the page left, page was full
  abandonPage,      \* Abandon: outstanding rows of its page
  pc, at,           \* control point of each goroutine and the row it holds
  call,             \* callbacks a goroutine still owes (invoke)
  \* history: what is left to do, and what has been done
  live, born,       \* unfinished branches of each copy of a row in this run; all
                    \* branches created for it in this run
  settled           \* rows delivered in full once, or that Abandon dead-lettered

storeVars   == <<spool, lastSeq, origin, checkpoint, srcState>>
runVars     == <<phase, runs>>
admitVars   == <<gate, acquired>>
persistVars == <<persistedThrough, flushAttempted, retentionDue>>
committerVars == <<pending, persisted, wake>>
sourceVars  == <<base, emitted>>
scanVars    == <<scan, page, more, abandonPage>>
goVars      == <<pc, at, call>>
histVars    == <<live, born, settled>>
vars == <<storeVars, runVars, trk, admitVars, persistVars, committerVars,
          sourceVars, scanVars, goVars, histVars>>

Running == phase \in {"boot", "replay", "live", "stopping"}
Injected == <<NoNode, 0>>

-----------------------------------------------------------------------------
\* A first process, over an empty store; no engine is running.
Init ==
  /\ spool = {} /\ lastSeq = 0 /\ origin = [q \in Seqs |-> Injected]
  /\ checkpoint = 0 /\ srcState = [s \in Sources |-> 0]
  /\ phase = "down" /\ runs = 0
  /\ trk = newCommitTracker /\ gate = 0 /\ acquired = {}
  /\ persistedThrough = 0 /\ flushAttempted = 0 /\ retentionDue = 0
  /\ pending = [s \in Sources |-> 0] /\ persisted = [s \in Sources |-> 0]
  /\ wake = [s \in Sources |-> FALSE]
  /\ base = [s \in Sources |-> 0] /\ emitted = [s \in Sources |-> 0]
  /\ scan = 0 /\ page = {} /\ more = TRUE /\ abandonPage = {}
  /\ pc = [g \in Goroutines |-> "idle"] /\ at = [g \in Goroutines |-> 0]
  /\ call = [g \in Goroutines |-> NoCall]
  /\ live = [q \in Seqs |-> [x \in Copies |-> 0]] /\ born = [q \in Seqs |-> 0] /\ settled = {}

\* The engine object of a run is gone; New gives the next run these values.
EngineGone ==
  /\ trk' = newCommitTracker /\ gate' = 0 /\ acquired' = {}
  /\ persistedThrough' = 0 /\ flushAttempted' = 0 /\ retentionDue' = 0
  /\ pending' = [s \in Sources |-> 0] /\ persisted' = [s \in Sources |-> 0]
  /\ wake' = [s \in Sources |-> FALSE]
  /\ base' = [s \in Sources |-> 0] /\ emitted' = [s \in Sources |-> 0]
  /\ scan' = 0 /\ page' = {} /\ more' = TRUE /\ abandonPage' = {}
  /\ pc' = [g \in Goroutines |-> "idle"] /\ at' = [g \in Goroutines |-> 0]
  /\ call' = [g \in Goroutines |-> NoCall]
  /\ live' = [q \in Seqs |-> [x \in Copies |-> 0]] /\ born' = [q \in Seqs |-> 0]

-----------------------------------------------------------------------------
(***************************************************************************)
(* Run: committers and workers first (phase boot), then crash replay, then *)
(* the sources (phase live).  Faults, stops and Abandon strike in every    *)
(* run but the last (runs < MaxRuns), which can so be asked to finish.     *)
(***************************************************************************)
Start ==
  /\ phase = "down" /\ runs < MaxRuns
  /\ phase' = "boot" /\ runs' = runs + 1
  /\ UNCHANGED <<storeVars, trk, admitVars, persistVars, committerVars, sourceVars,
                 scanVars, goVars, histVars>>

Seeded(v) == IF checkpoint > v THEN checkpoint ELSE v

\* replaySpool reads the checkpoint; resumeCheckpoint seeds the tracker and
\* the persistence barriers with it (nothing to seed at 0).
resumeCheckpoint ==
  /\ phase = "boot"
  /\ phase' = "replay"
  /\ trk' = IF checkpoint > 0 THEN resumeFrom(trk, checkpoint) ELSE trk
  /\ persistedThrough' = Seeded(persistedThrough)
  /\ flushAttempted' = Seeded(flushAttempted)
  /\ scan' = checkpoint
  /\ UNCHANGED <<storeVars, runs, admitVars, retentionDue, committerVars, sourceVars,
                 page, more, abandonPage, goVars, histVars>>

\* Variant: an off-by-one in the page query skips the first row.
RowsSkipFirst(after) ==
  LET beyond == {q \in spool : q > after + 1}
  IN  {q \in beyond : Cardinality({r \in beyond : r < q}) < PageSize}

\* ReplayPage: the lowest rows beyond after, at most PageSize of them.
Rows(after) ==
  LET beyond == {q \in spool : q > after}
  IN  {q \in beyond : Cardinality({r \in beyond : r < q}) < PageSize}

\* Variant: a short page still reports more rows.
MoreAlways(rows) == TRUE
More(rows) == Cardinality(rows) = PageSize

RunnerFree == phase = "replay" /\ pc[Runner] = "idle" /\ call[Runner] = NoCall

ReplayPage ==
  /\ RunnerFree /\ page = {} /\ more
  /\ page' = Rows(scan)
  /\ more' = More(page')
  /\ UNCHANGED <<storeVars, runVars, trk, admitVars, persistVars, committerVars,
                 sourceVars, scan, abandonPage, goVars, histVars>>

\* A replayed row whose entry node still exists goes through admission.
ReplayRow ==
  /\ RunnerFree /\ page # {}
  /\ LET q == Min(page) IN
       /\ page' = page \ {q} /\ scan' = q
       /\ at' = [at EXCEPT ![Runner] = q]
  /\ pc' = [pc EXCEPT ![Runner] = "gate"]
  /\ UNCHANGED <<storeVars, runVars, trk, admitVars, persistVars, committerVars,
                 sourceVars, more, abandonPage, call, histVars>>

\* A row whose node left the configuration is released (arrived, done), not
\* left to block the prefix.  It takes no admission slot.
ReplayOrphan ==
  /\ RunnerFree /\ page # {}
  /\ LET q  == Min(page)
         t1 == arrived(trk, q, NoNode, 0) IN
       /\ page' = page \ {q} /\ scan' = q
       /\ \E p \in Ptrs : /\ addStopsAt(t1, q, -1, p)
                          /\ trk' = add(t1, q, -1, p)
                          /\ call' = [call EXCEPT ![Runner] = addCall(t1, q, -1, p)]
       /\ settled' = settled \cup {q}
  /\ UNCHANGED <<storeVars, runVars, admitVars, persistVars, committerVars,
                 sourceVars, more, abandonPage, pc, at, live, born>>

InitSource(s) == srcState[s]

\* replayDone, then startSources: every source resumes from its durable state.
ReplayDone ==
  /\ RunnerFree /\ page = {} /\ ~ more
  /\ phase' = "live" /\ base' = [s \in Sources |-> InitSource(s)]
  /\ UNCHANGED <<storeVars, runs, trk, admitVars, persistVars, committerVars, emitted,
                 scanVars, goVars, histVars>>

-----------------------------------------------------------------------------
(***************************************************************************)
(* admit.  A source goroutine emits one message at a time; an injector is  *)
(* an operator call.  Run publishes started before replay, so the code     *)
(* admits injections from phase boot on (EarlyInject).  A message emitted  *)
(* after cancellation fares as one emitted before it that still waits at   *)
(* the gate: the select may take either branch.                            *)
(***************************************************************************)
InFlight == Cardinality({c \in Sources \cup Injectors : pc[c] \in {"gate", "append"}})

Emit(c) ==
  /\ pc[c] = "idle" /\ call[c] = NoCall /\ lastSeq + InFlight < MaxSeq
  /\ \/ /\ c \in Sources /\ phase = "live"
        /\ emitted' = [emitted EXCEPT ![c] = @ + 1]
     \/ /\ c \in Injectors
        /\ phase = "live" \/ (EarlyInject /\ phase \in {"boot", "replay"})
        /\ UNCHANGED emitted
  /\ pc' = [pc EXCEPT ![c] = "gate"]
  /\ UNCHANGED <<storeVars, runVars, trk, admitVars, persistVars, committerVars, base,
                 scanVars, at, call, histVars>>

Gate(c) ==
  /\ pc[c] = "gate" /\ gate < HighWatermark
  /\ gate' = gate + 1
  /\ pc' = [pc EXCEPT ![c] = IF c = Runner THEN "register" ELSE "append"]
  /\ UNCHANGED <<storeVars, runVars, trk, acquired, persistVars, committerVars,
                 sourceVars, scanVars, at, call, histVars>>

\* The engine context is cancelled while the caller waits at the gate.
GateRefused(c) ==
  /\ pc[c] = "gate" /\ phase = "stopping"
  /\ pc' = [pc EXCEPT ![c] = "done"]
  /\ UNCHANGED <<storeVars, runVars, trk, admitVars, persistVars, committerVars,
                 sourceVars, scanVars, at, call, histVars>>

AppendSpool(c) ==
  /\ pc[c] = "append" /\ lastSeq < MaxSeq
  /\ LET q == lastSeq + 1 IN
       /\ lastSeq' = q /\ spool' = spool \cup {q}
       /\ origin' = [origin EXCEPT ![q] =
                       IF c \in Sources THEN <<c, base[c] + emitted[c]>> ELSE Injected]
       /\ at' = [at EXCEPT ![c] = q]
  /\ pc' = [pc EXCEPT ![c] = "register"]
  /\ UNCHANGED <<checkpoint, srcState, runVars, trk, admitVars, persistVars,
                 committerVars, sourceVars, scanVars, call, histVars>>

\* A failed append returns the slot; a refused source fails and stops the
\* engine, a refused injection is an error to its caller.
AppendRefused(c) ==
  /\ pc[c] = "append" /\ runs < MaxRuns
  /\ gate' = gate - 1
  /\ pc' = [pc EXCEPT ![c] = "done"]
  /\ phase' = IF c \in Sources THEN "stopping" ELSE phase
  /\ UNCHANGED <<storeVars, runs, trk, acquired, persistVars, committerVars,
                 sourceVars, scanVars, at, call, histVars>>

\* acquire, then arrived.  The ledger entry is private to this caller until
\* arrived publishes the row, so the two sections are one step.
Register(c) ==
  /\ pc[c] = "register"
  /\ LET q == at[c] IN
       /\ acquired' = acquired \cup {q}
       /\ trk' = IF c \in Sources THEN arrived(trk, q, c, emitted[c])
                 ELSE arrived(trk, q, NoNode, 0)
       /\ live' = [live EXCEPT ![q][CopyOf(c)] = @ + 1]
       /\ born' = [born EXCEPT ![q] = @ + 1]
  /\ pc' = [pc EXCEPT ![c] = "dispatch"]
  /\ UNCHANGED <<storeVars, runVars, gate, persistVars, committerVars, sourceVars,
                 scanVars, at, call, settled>>

(***************************************************************************)
(* One branch of copy x of row q becomes k: fanOut (and the 1-to-N         *)
(* transform) adds k - 1 before it delivers; no match, a sink write, an    *)
(* optional drop or a durable dead letter ends the branch with done.  The  *)
(* callbacks are owed by the goroutine g that took the step.               *)
(***************************************************************************)
Branch(g, q, x, k) ==
  /\ live[q][x] > 0
  /\ born[q] + k - 1 <= MaxBranches
  /\ \E p \in Ptrs : /\ addStopsAt(trk, q, k - 1, p)
                     /\ trk' = add(trk, q, k - 1, p)
                     /\ call' = [call EXCEPT ![g] = addCall(trk, q, k - 1, p)]
  /\ live' = [live EXCEPT ![q][x] = @ + k - 1]
  /\ born' = [born EXCEPT ![q] = IF k > 1 THEN @ + k - 1 ELSE @]
  /\ settled' = IF live'[q][x] = 0 THEN settled \cup {q} ELSE settled

\* dispatchFrom / dispatchInternal on the admitting goroutine.
Dispatch(c) ==
  /\ pc[c] = "dispatch"
  /\ \E k \in 0..MaxFan : Branch(c, at[c], CopyOf(c), k)
  /\ pc' = [pc EXCEPT ![c] = "return"]
  /\ UNCHANGED <<storeVars, runVars, admitVars, persistVars, committerVars, sourceVars,
                 scanVars, at>>

Return(c) ==
  /\ pc[c] = "return" /\ call[c] = NoCall
  /\ pc' = [pc EXCEPT ![c] = "idle"]
  /\ UNCHANGED <<storeVars, runVars, trk, admitVars, persistVars, committerVars,
                 sourceVars, scanVars, at, call, histVars>>

\* The single branch of a copy that is still with the goroutine dispatching it.
AtDispatch(q, x) == \E c \in Callers : pc[c] = "dispatch" /\ at[c] = q /\ CopyOf(c) = x

\* A worker takes a delivered branch of q through its node.
Work(w) ==
  /\ Running /\ call[w] = NoCall
  /\ \E q \in Seqs, x \in Copies :
       /\ ~ AtDispatch(q, x)
       /\ \E k \in 0..MaxFan : k # 1 /\ Branch(w, q, x, k)
  /\ UNCHANGED <<storeVars, runVars, admitVars, persistVars, committerVars, sourceVars,
                 scanVars, pc, at>>

-----------------------------------------------------------------------------
\* Variant: a slot is taken back without consulting the ledger.
ReleaseNoLedger(q) == acquired' = acquired \ {q} /\ gate' = gate - 1

\* release: idempotent through the ledger.
Release(q) ==
  /\ acquired' = acquired \ {q}
  /\ gate' = IF q \in acquired THEN gate - 1 ELSE gate

\* invoke, first half: onCommit frees the slot of one committed row.
OnCommit(g) ==
  /\ call[g].commits # {}
  /\ LET q == Min(call[g].commits)
         rest == [call[g] EXCEPT !.commits = @ \ {q}] IN
       /\ call' = [call EXCEPT ![g] = IF rest.commits = {} /\ ~ rest.advanced
                                      THEN NoCall ELSE rest]
       /\ Release(q)
  /\ UNCHANGED <<storeVars, runVars, trk, persistVars, committerVars, sourceVars,
                 scanVars, pc, at, histVars>>

\* Retention rides the durable progress pt: once per window, rows more than
\* SpoolRetention behind pt go.  A failed trim only waits for the next window.
Trim(pt) ==
  /\ retentionDue' = IF pt >= retentionDue
                     THEN (pt \div SpoolRetention + 1) * SpoolRetention ELSE retentionDue
  /\ \/ pt >= retentionDue /\ spool' = {q \in spool : q > pt - SpoolRetention}
     \/ UNCHANGED spool

\* sourceCommitter.post for every source: coalesced maximum, and one wake-up.
Post(frontiers) ==
  /\ pending' = [s \in Sources |-> IF frontiers[s] > pending[s] THEN frontiers[s]
                                   ELSE pending[s]]
  /\ wake' = [s \in Sources |-> wake[s] \/ (frontiers[s] > 0 /\ pending'[s] > persisted[s])]

\* Variant: the checkpoint is written without the monotonic guard.
AheadAlways(th) == TRUE
Ahead(th) == th > persistedThrough

(***************************************************************************)
(* invoke, second half: persistCheckpoint, one critical section under      *)
(* persistMu on the committing goroutine.  Two goroutines may get here in  *)
(* the other order than they swept.                                        *)
(***************************************************************************)
persistCheckpoint(g) ==
  /\ call[g].commits = {} /\ call[g].advanced
  /\ LET th == call[g].through
         pt == IF Ahead(th) THEN th ELSE persistedThrough IN
       /\ persistedThrough' = pt
       /\ checkpoint' = IF Ahead(th) THEN th ELSE checkpoint
       /\ flushAttempted' = IF th > flushAttempted THEN th ELSE flushAttempted
       /\ Trim(pt)
       /\ Post(call[g].frontiers)
  /\ call' = [call EXCEPT ![g] = NoCall]
  /\ UNCHANGED <<lastSeq, origin, srcState, runVars, trk, admitVars, persisted,
                 sourceVars, scanVars, pc, at, histVars>>

\* SetCheckpoint failed: the flush position is consumed, nothing else happens.
persistCheckpointFails(g) ==
  /\ WriteFaults
  /\ call[g].commits = {} /\ call[g].advanced
  /\ Ahead(call[g].through)
  /\ flushAttempted' = call[g].through
  /\ call' = [call EXCEPT ![g] = NoCall]
  /\ UNCHANGED <<storeVars, runVars, trk, admitVars, persistedThrough, retentionDue,
                 committerVars, sourceVars, scanVars, pc, at, histVars>>

\* sourceCommitter.run: one attempt per wake-up.  A failed Source.Commit or
\* state write keeps the frontier pending until the next advance or the flush.
SourceCommit(s) ==
  /\ phase \in {"boot", "replay", "live"} /\ wake[s]
  /\ wake' = [wake EXCEPT ![s] = FALSE]
  /\ \/ /\ pending[s] > persisted[s]
        /\ srcState' = [srcState EXCEPT ![s] = base[s] + pending[s]]
        /\ persisted' = [persisted EXCEPT ![s] = pending[s]]
     \/ UNCHANGED <<srcState, persisted>>
  /\ UNCHANGED <<spool, lastSeq, origin, checkpoint, runVars, trk, admitVars,
                 persistVars, pending, sourceVars, scanVars, goVars, histVars>>

-----------------------------------------------------------------------------
(***************************************************************************)
(* Abandon, on the goroutine of a cancelled caller: for every outstanding  *)
(* row of a page, first a durable dead letter, then forceTerminal, then    *)
(* (when it was still outstanding) its slot.  The dead letter settles the  *)
(* row: it is the durable record of a cancelled message.                   *)
(***************************************************************************)
Abandon ==
  /\ phase \in {"boot", "replay", "live"} /\ pc[Abandoner] = "idle" /\ runs < MaxRuns
  /\ at' = [at EXCEPT ![Abandoner] = trk.committedPtr - 1]
  /\ pc' = [pc EXCEPT ![Abandoner] = "page"]
  /\ UNCHANGED <<storeVars, runVars, trk, admitVars, persistVars, committerVars,
                 sourceVars, scanVars, call, histVars>>

AbandonRows ==
  /\ pc[Abandoner] = "page"
  /\ LET rows == Rows(at[Abandoner]) IN
       /\ abandonPage' = {q \in rows : isOutstanding(trk, q)}
       /\ at' = [at EXCEPT ![Abandoner] = IF rows = {} THEN @ ELSE Max(rows)]
       /\ pc' = [pc EXCEPT ![Abandoner] =
                   IF abandonPage' # {} THEN "write"
                   ELSE IF More(rows) THEN "page" ELSE "close"]
  /\ UNCHANGED <<storeVars, runVars, trk, admitVars, persistVars, committerVars,
                 sourceVars, scan, page, more, call, histVars>>

AbandonWrite ==
  /\ pc[Abandoner] = "write"
  /\ settled' = settled \cup {Min(abandonPage)}
  /\ pc' = [pc EXCEPT ![Abandoner] = "force"]
  /\ UNCHANGED <<storeVars, runVars, trk, admitVars, persistVars, committerVars,
                 sourceVars, scanVars, at, call, live, born>>

\* The dead letter could not be written within the bound: the rest stays.
AbandonGivesUp ==
  /\ pc[Abandoner] \in {"page", "write"}
  /\ pc' = [pc EXCEPT ![Abandoner] = "close"]
  /\ UNCHANGED <<storeVars, runVars, trk, admitVars, persistVars, committerVars,
                 sourceVars, scanVars, at, call, histVars>>

AbandonForce ==
  /\ pc[Abandoner] = "force"
  /\ LET q == Min(abandonPage) IN
       /\ \E p \in Ptrs :
            /\ forceStopsAt(trk, q, p)
            /\ trk' = forceTerminal(trk, q, p)
            /\ call' = [call EXCEPT ![Abandoner] = forceTerminalCall(trk, q, p)]
       /\ pc' = [pc EXCEPT ![Abandoner] = IF q \in trk.open THEN "release" ELSE "next"]
  /\ UNCHANGED <<storeVars, runVars, admitVars, persistVars, committerVars, sourceVars,
                 scanVars, at, histVars>>

AbandonNext ==
  /\ pc[Abandoner] \in {"release", "next"} /\ call[Abandoner] = NoCall
  /\ LET q == Min(abandonPage) IN
       /\ IF pc[Abandoner] = "release" THEN Release(q) ELSE UNCHANGED admitVars
       /\ abandonPage' = abandonPage \ {q}
       /\ pc' = [pc EXCEPT ![Abandoner] = IF abandonPage' = {} THEN "page" ELSE "write"]
  /\ UNCHANGED <<storeVars, runVars, trk, persistVars, committerVars, sourceVars,
                 scan, page, more, at, call, histVars>>

-----------------------------------------------------------------------------
\* Cancellation of the engine context: an operator stop, a worker-fatal
\* error, or Wait closing the engine after Abandon.
Cancel ==
  /\ phase \in {"boot", "replay", "live"} /\ runs < MaxRuns
  /\ pc[Abandoner] \in {"idle", "close"}
  /\ phase' = "stopping"
  /\ UNCHANGED <<storeVars, runs, trk, admitVars, persistVars, committerVars, sourceVars,
                 scanVars, goVars, histVars>>

\* shutdown: once drain has seen every goroutine return, each committer gets
\* one last synchronous attempt, and the engine is gone.
Shutdown ==
  /\ phase = "stopping"
  /\ \A c \in Callers : pc[c] \in {"idle", "done"}
  /\ pc[Abandoner] \in {"idle", "close"}
  /\ \A g \in Goroutines : call[g] = NoCall
  /\ \E flushed \in SUBSET {s \in Sources : pending[s] > persisted[s]} :
       srcState' = [s \in Sources |-> IF s \in flushed THEN base[s] + pending[s]
                                      ELSE srcState[s]]
  /\ phase' = "down"
  /\ EngineGone
  /\ UNCHANGED <<spool, lastSeq, origin, checkpoint, runs, settled>>

\* The process dies: only the store survives.
Crash ==
  /\ Running /\ runs < MaxRuns
  /\ phase' = "down"
  /\ EngineGone
  /\ UNCHANGED <<storeVars, runs, settled>>

Next ==
  \/ Start \/ resumeCheckpoint \/ ReplayPage \/ ReplayRow \/ ReplayOrphan \/ ReplayDone
  \/ \E c \in Sources \cup Injectors : Emit(c) \/ AppendSpool(c) \/ AppendRefused(c)
  \/ \E c \in Callers : Gate(c) \/ GateRefused(c) \/ Register(c) \/ Dispatch(c) \/ Return(c)
  \/ \E w \in Workers : Work(w)
  \/ \E g \in Goroutines : OnCommit(g) \/ persistCheckpoint(g) \/ persistCheckpointFails(g)
  \/ \E s \in Sources : SourceCommit(s)
  \/ Abandon \/ AbandonRows \/ AbandonWrite \/ AbandonGivesUp \/ AbandonForce \/ AbandonNext
  \/ Cancel \/ Shutdown \/ Crash

Spec == Init /\ [][Next]_vars

(***************************************************************************)
(* Fairness: while some goroutine can take a step, some goroutine does.    *)
(* The Go scheduler guarantees more (each goroutine runs), and locks,      *)
(* store calls, sink writes with their retries and dead-letter writes end. *)
(* Nothing makes a source emit, an operator inject, cancel or abandon, a   *)
(* row lose its node, a write fail or a process crash.                     *)
(***************************************************************************)
Step(g) ==
  \/ OnCommit(g) \/ persistCheckpoint(g)
  \/ g \in Callers /\ (Gate(g) \/ GateRefused(g) \/ Register(g) \/ Dispatch(g) \/ Return(g))
  \/ g \in Callers \ {Runner} /\ AppendSpool(g)
  \/ g = Runner /\ (Start \/ resumeCheckpoint \/ ReplayPage \/ ReplayRow \/ ReplayDone
                    \/ Shutdown)
  \/ g \in Workers /\ Work(g)
  \/ g = Abandoner /\ (AbandonRows \/ AbandonWrite \/ AbandonForce \/ AbandonNext)

Fairness == WF_vars(\E g \in Goroutines : Step(g))

FairSpec == Spec /\ Fairness

-----------------------------------------------------------------------------
TypeOK ==
  /\ spool \subseteq Seqs /\ lastSeq \in 0..MaxSeq
  /\ origin \in [Seqs -> (Sources \cup {NoNode}) \X Nat]
  /\ checkpoint \in 0..MaxSeq /\ srcState \in [Sources -> Nat]
  /\ phase \in {"down", "boot", "replay", "live", "stopping"} /\ runs \in 0..MaxRuns
  /\ trk \in Tracker
  /\ gate \in Int /\ acquired \subseteq Seqs
  /\ persistedThrough \in 0..MaxSeq /\ flushAttempted \in 0..MaxSeq
  /\ retentionDue \in Nat
  /\ pending \in [Sources -> Nat] /\ persisted \in [Sources -> Nat]
  /\ wake \in [Sources -> BOOLEAN]
  /\ base \in [Sources -> Nat] /\ emitted \in [Sources -> Nat]
  /\ scan \in 0..MaxSeq /\ page \subseteq Seqs /\ more \in BOOLEAN
  /\ abandonPage \subseteq Seqs
  /\ pc \in [Goroutines -> {"idle", "gate", "append", "register", "dispatch", "return",
                            "done", "page", "write", "force", "release", "next", "close"}]
  /\ at \in [Goroutines -> 0..MaxSeq]
  /\ call \in [Goroutines -> Call]
  /\ live \in [Seqs -> [Copies -> Nat]] /\ born \in [Seqs -> Nat]
  /\ settled \subseteq Seqs

(***************************************************************************)
(* Invariants 2 and 3 of the engine: a row with an unfinished branch is    *)
(* still in the spool and beyond the durable checkpoint, so a restart at   *)
(* this very moment replays it.  It is what the hole barrier, the sweep,   *)
(* the out-of-order flushes of persistCheckpoint and the retention cutoff  *)
(* have to preserve together.                                              *)
(***************************************************************************)
NoLoss == \A q \in 1..lastSeq : q \notin settled => q \in spool /\ q > checkpoint

Log == INSTANCE DurableLog
         WITH accepted <- lastSeq, kept <- spool, done <- settled, mark <- checkpoint

(***************************************************************************)
(* The commit path implements the durable log: through every interleaving  *)
(* of sweeps, flushes, retention, Abandon, crash and replay, each step     *)
(* either leaves the log alone or accepts a row, finishes one, or moves    *)
(* the checkpoint forward over finished rows only.                         *)
(***************************************************************************)
ImplementsDurableLog == Log!Spec

(***************************************************************************)
(* Crash replay re-creates the work of every unfinished row: once replay   *)
(* is done, such a row has an open branch in this run, or the goroutine    *)
(* that appended it is about to register it (or was refused, and its       *)
(* append never happened).                                                 *)
(***************************************************************************)
NothingForgotten ==
  phase = "live" =>
    \A q \in 1..lastSeq : q \notin settled =>
      \/ \E x \in Copies : live[q][x] > 0
      \/ \E c \in Sources \cup Injectors : pc[c] = "register" /\ at[c] = q

(***************************************************************************)
(* A source state never covers an item whose delivery could still be lost: *)
(* each item at or below the durable state of its source was spooled in    *)
(* some run, and that row is settled.  The frontier is a per-run counter   *)
(* over emissions, the checkpoint a counter over rows, and the state is    *)
(* written by another goroutine than the one that swept.                   *)
(***************************************************************************)
SourceStateCovered ==
  \A s \in Sources : \A i \in 1..srcState[s] :
    \E q \in 1..lastSeq : origin[q] = <<s, i>> /\ q \in settled

(***************************************************************************)
(* Admission slots: the gate holds one slot per row of the ledger and one  *)
(* per admission between its gate and its registration, and a ledger row   *)
(* is either uncommitted or about to be released by a goroutine, so no     *)
(* slot is leaked or freed twice by a commit racing Abandon.               *)
(***************************************************************************)
SlotsAccounted ==
  /\ gate = Cardinality(acquired) + Cardinality({c \in Callers :
               pc[c] \in {"append", "register"}})
  /\ gate \in 0..HighWatermark
  /\ \A q \in acquired :
       \/ q \in trk.open
       \/ \E g \in Goroutines : q \in call[g].commits
       \/ pc[Abandoner] = "release" /\ q = Min(abandonPage)

(***************************************************************************)
(* The tracker's count of a message is the number of branches really in    *)
(* flight, for every message Abandon has not dropped, and the running sum  *)
(* openBranches that Quiesced reads is the number of branches the map      *)
(* counts, message by message.                                             *)
(***************************************************************************)
BranchesCounted ==
  /\ \A q \in trk.open : trk.n[q] = live[q]["emitted"] + live[q]["replayed"]
  /\ \A q \in Seqs \ trk.open : (\E x \in Copies : live[q][x] > 0) => q \in settled
  /\ trk.openBranches = Cardinality(UNION {{q} \X (1..trk.n[q]) : q \in trk.open})

\* The two ledgers of the engine, slots and branches, are what really is in flight,
\* whatever admissions, workers, commits and Abandon do at the same time.
Accounted == SlotsAccounted /\ BranchesCounted

\* Variant: the poll does not look at admissions in flight.
QuiescedNoAdmitting ==
  /\ phase = "live"
  /\ trk.openBranches = 0 /\ flushAttempted >= trk.committedPtr - 1

(***************************************************************************)
(* Quiesced, as a job runner polls it, once the sources have stopped: no   *)
(* admission in flight, no open branch, every advance flushed.             *)
(***************************************************************************)
Quiesced ==
  /\ phase = "live"
  /\ \A c \in Callers : pc[c] \in {"idle", "done"}
  /\ trk.openBranches = 0 /\ flushAttempted >= trk.committedPtr - 1

(***************************************************************************)
(* A quiesced pipeline has nothing left: every row ever spooled is settled *)
(* and the prefix has crossed them all.                                    *)
(***************************************************************************)
QuiescedMeansDone ==
  Quiesced => 1..lastSeq \subseteq settled /\ trk.committedPtr = lastSeq + 1

(***************************************************************************)
(* The visibility barrier of durableThrough: the in-memory prefix leads    *)
(* the attempted flush only while the goroutine that swept it still has    *)
(* its persistCheckpoint ahead of it.                                      *)
(***************************************************************************)
FlushBarrier ==
  trk.committedPtr - 1 > flushAttempted =>
    \E g \in Goroutines : call[g].advanced /\ call[g].through = trk.committedPtr - 1

(***************************************************************************)
(* A source's durable state never moves back, across runs included: the    *)
(* committer's coalescing and the per-run frontier restart from the state  *)
(* the source resumed at.                                                  *)
(***************************************************************************)
SourceStateMonotone == [][\A s \in Sources : srcState'[s] >= srcState[s]]_vars

(***************************************************************************)
(* Every accepted row ends behind the durable checkpoint, crashes, stops,  *)
(* abandoned rows and rows that lost their node notwithstanding: no wait   *)
(* among the gate, the prefix and the replay is circular.                  *)
(***************************************************************************)
EveryRowCommits == (checkpoint < lastSeq) ~> (checkpoint = lastSeq)

\* Every admission slot comes back, whichever of commit and Abandon ends its row.
SlotsReturn == (gate > 0) ~> (gate = 0)

\* Crash replay terminates: it cannot wedge on the admission gate.
ReplayFinishes == (phase = "replay") ~> (phase # "replay")
=============================================================================
