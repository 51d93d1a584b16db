---------------------------- MODULE JobAdmission ----------------------------
(***************************************************************************)
(* The admission pool that the job manager shares between the engines of   *)
(* its runs (Manager.admission, Options.Admission): a slot is taken for    *)
(* every row an engine accepts or replays, and comes back through the      *)
(* ledger of that engine.  Runs follow each other and, with overlap: all,  *)
(* overlap.                                                                *)
(***************************************************************************)
EXTENDS Integers, FiniteSets

CONSTANTS
  Engines,        \* the engines that may be running at the same time
  HighWatermark,  \* limits.max_in_flight: the capacity of the pool
  MaxRows,        \* bound: spool rows
  MaxRuns         \* bound: runs

ASSUME PoolAssumption ==
  /\ IsFiniteSet(Engines) /\ HighWatermark \in Nat \ {0}
  /\ MaxRows \in Nat /\ MaxRuns \in Nat

VARIABLES
  open,    \* spool rows that are not committed
  rows,    \* rows appended so far
  taken,   \* slots taken in the pool of this process
  active,  \* the engines that are executing a run
  owed,    \* engine -> rows it has still to replay
  held,    \* engine -> acquired, the rows with a slot in its ledger
  runs,    \* runs begun
  failed   \* history: a run of this process has failed with rows in flight

poolVars == <<open, rows, taken, active, owed, held, runs, failed>>

PoolInit ==
  /\ open = {} /\ rows = 0 /\ taken = 0 /\ active = {} /\ runs = 0 /\ failed = FALSE
  /\ owed = [e \in Engines |-> {}] /\ held = [e \in Engines |-> {}]

\* runOnce: a new engine, with a ledger of its own, over the pool of the manager.  It
\* replays every uncommitted row: what earlier runs have left, and what a run that is
\* still active has in flight.
Begin(e) ==
  /\ e \notin active /\ runs < MaxRuns
  /\ active' = active \union {e} /\ runs' = runs + 1
  /\ owed' = [owed EXCEPT ![e] = open]
  /\ UNCHANGED <<open, rows, taken, held, failed>>

\* Mutant of Gate: every engine has a pool of its own.
GatePerRun(e) == Cardinality(held[e]) < HighWatermark

\* admit: waits for a slot of the pool, which counts the rows of all engines.
Gate(e) == taken < HighWatermark

\* admit, replay mode.
Replay(e, r) ==
  /\ e \in active /\ r \in owed[e] /\ Gate(e)
  /\ owed' = [owed EXCEPT ![e] = @ \ {r}]
  /\ held' = [held EXCEPT ![e] = @ \union {r}]
  /\ taken' = taken + 1
  /\ UNCHANGED <<open, rows, active, runs, failed>>

\* admit, live mode: sources start when the replay is over.
Accept(e) ==
  /\ e \in active /\ owed[e] = {} /\ rows < MaxRows /\ Gate(e)
  /\ rows' = rows + 1
  /\ open' = open \union {rows + 1}
  /\ held' = [held EXCEPT ![e] = @ \union {rows + 1}]
  /\ taken' = taken + 1
  /\ UNCHANGED <<active, owed, runs, failed>>

\* release: the slots of the rows in R that the ledger of e has.
Released(e, R) == taken - Cardinality(R \intersect held[e])

\* A row commits, or its terminal dead letter is written.
Commit(e, r) ==
  /\ e \in active /\ r \in held[e]
  /\ open' = open \ {r}
  /\ held' = [held EXCEPT ![e] = @ \ {r}]
  /\ taken' = Released(e, {r})
  /\ UNCHANGED <<rows, active, owed, runs, failed>>

\* Run returns and its engine is dropped, ledger included.
Gone(e) ==
  /\ active' = active \ {e}
  /\ held' = [held EXCEPT ![e] = {}]
  /\ owed' = [owed EXCEPT ![e] = {}]

\* Engine.Wait reports a run that is complete.
Complete(e) ==
  /\ e \in active /\ owed[e] = {} /\ held[e] = {}
  /\ Gone(e)
  /\ UNCHANGED <<open, rows, taken, runs, failed>>

\* Mutant of Abandon: the slots of the force-terminated rows are not released.
AbandonKeepsSlots(e) ==
  /\ e \in active
  /\ Gone(e)
  /\ open' = open \ held[e]
  /\ UNCHANGED <<rows, taken, runs, failed>>

\* A canceled run: Abandon dead-letters every outstanding row and releases its slot.
Abandon(e) ==
  /\ e \in active
  /\ Gone(e)
  /\ open' = open \ held[e]
  /\ taken' = Released(e, held[e])
  /\ UNCHANGED <<rows, runs, failed>>

\* A worker-fatal or source error, or an Abandon that cannot write: the rows stay
\* uncommitted for the replay of the next run, and nothing returns their slots.
Fail(e) ==
  /\ e \in active
  /\ Gone(e)
  /\ failed' = (failed \/ held[e] # {})
  /\ UNCHANGED <<open, rows, taken, runs>>

\* The process dies; the next one has a pool of its own.
Crash ==
  /\ active # {} /\ runs < MaxRuns
  /\ active' = {} /\ taken' = 0 /\ failed' = FALSE
  /\ held' = [e \in Engines |-> {}] /\ owed' = [e \in Engines |-> {}]
  /\ UNCHANGED <<open, rows, runs>>

EngineStep(e) == \E r \in 1..MaxRows : Replay(e, r) \/ Commit(e, r)

PoolNext ==
  \/ \E e \in Engines :
       Begin(e) \/ EngineStep(e) \/ Accept(e) \/ Complete(e) \/ Abandon(e) \/ Fail(e)
  \/ Crash

PoolSpec == PoolInit /\ [][PoolNext]_poolVars

\* An engine commits what it holds and replays what it owes; nothing makes it be
\* canceled, fail or crash.  The gate is a channel: its waiters are served in turn.
PoolFairness ==
  \A e \in Engines, r \in 1..MaxRows :
    WF_poolVars(Commit(e, r)) /\ SF_poolVars(Replay(e, r))
PoolFairSpec == PoolSpec /\ PoolFairness

-----------------------------------------------------------------------------
\* The slots in the ledgers of all engines.
Slots == {s \in Engines \X (1..MaxRows) : s[2] \in held[s[1]]}

\* The engines of overlapping runs together hold no more rows than max_in_flight, and
\* never more than the pool knows of, however their runs begin and end.
QuotaAggregates == Cardinality(Slots) <= taken /\ taken <= HighWatermark

\* When no run is active the whole pool is free: what one run took is not missing to
\* the runs after it.  The exception of the code: the slots of a run that failed.
PoolReturned == active = {} /\ ~failed => taken = 0

\* The pool neither admits more than it may nor loses slots.
PoolAccounted == QuotaAggregates /\ PoolReturned

\* The replay at the beginning of a run ends: every uncommitted row gets its slot,
\* unless the run ends first or an earlier one has failed.
ReplayFinishes == \A e \in Engines : owed[e] # {} ~> owed[e] = {} \/ failed

\* The replay of a run cannot wedge on the gate, whatever became of earlier runs.
ReplayNeverWedges == \A e \in Engines : owed[e] # {} ~> owed[e] = {}

=============================================================================
