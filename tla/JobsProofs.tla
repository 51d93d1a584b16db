------------------------------ MODULE JobsProofs ------------------------------
(***************************************************************************)
(* The run history of a job is sound, proved for every declaration, every  *)
(* number of runs and ticks and every bound on crashes, stops, failing     *)
(* writes and clock changes: overlap admission, recovery, Stop and the     *)
(* schedule keep what they promise, and a terminal status is final.        *)
(***************************************************************************)
EXTENDS Jobs, FiniteSetTheorems, WellFoundedInduction, NaturalsInduction, TLAPS

\* Nothing is spent beyond its bound, and a tick about to fire is on the clock.
Spendings == {"back", "crashes", "stops", "faults"}
BudgetBound == \A b \in Spendings : budget[b] <= setup.may[b]
FiringInTime == mgr = "catchfire" \/ loop = "fire" => next \in Times
\* The schedule loop runs while the manager is up.
LoopRuns == loop # "off" => mgr \in {"up", "stopping"}
TypeInv == TypeOK /\ BudgetBound /\ FiringInTime /\ LoopRuns

\* What the manager's phase says about its goroutines.
Phases ==
  /\ mgr \in {"off", "new", "stopped"} => \A i \in Ids : pc[i] = "idle"
  /\ mgr # "recover" => resume = {}

\* A goroutine that has not recorded its outcome drives a runnable record, and
\* the outcome it is about to record is a terminal one.
Drives ==
  \A i \in Ids :
    /\ pc[i] \in {"admitted", "engine", "ended"} => row[i].st \in Runnable
    /\ pc[i] # "idle" => row[i].st # "none"
    /\ pc[i] = "ended" => out[i] \in Terminal

\* While no write has failed, a recorded outcome is terminal, and a runnable
\* record is driven or about to be resumed, from recovery on.
Recorded == \A i \in Ids : pc[i] \in {"recorded", "leaving"} => row[i].st \notin Runnable
Driven ==
  mgr \notin {"off", "new"} =>
    \A i \in Ids : row[i].st \in Runnable => pc[i] # "idle" \/ i \in resume

\* overlap: skip has one run under way or to be resumed.
Alone ==
  \A i, j \in Ids :
    /\ pc[i] # "idle" \/ row[i].st \in Runnable
    /\ pc[j] # "idle" \/ row[j].st \in Runnable
    => i = j

\* Without a crash there is nothing to recover, and overlap: latest has one run
\* that is not canceled.
NothingToRecover ==
  /\ resume = {}
  /\ mgr \in {"off", "new", "stopped"} => \A i \in Ids : row[i].st \notin Runnable
OneWanted ==
  \A i, j \in Ids : pc[i] # "idle" /\ cause[i] = "none" /\ pc[j] # "idle" /\ cause[j] = "none" => i = j

HistoryInv ==
  /\ Phases /\ Drives /\ RecoveryOwnsItsRuns
  /\ ~ Faulted => /\ Recorded /\ Driven
                  /\ Overlap = "skip" => Alone
  /\ ~ Faulted /\ ~ Crashed => /\ NothingToRecover
                               /\ Overlap = "latest" => OneWanted

\* With a clock that never goes back: a tick is recorded when it has come, its run
\* has ended after it, and it is pruned when it is beyond the retention.
TicksPast ==
  \A i \in Ids :
    /\ row[i].tick <= now /\ (row[i].st = "none" => row[i].tick = 0)
    /\ row[i].ended # 0 => row[i].tick <= row[i].ended
    /\ row[i].st = "pruned" => Retention > 0 /\ row[i].tick < now - Retention
\* The timer is set to the tick it waits for.
TimerOnTick ==
  /\ loop = "timer" => deadline = next
  /\ mgr = "catchfire" \/ loop = "fire" => next <= now

\* The tick that is about to fire is later than every one recorded.
FiresNext ==
  mgr = "catchfire" \/ loop \in {"timer", "fire"} => \A i \in Ids : row[i].tick < next
TicksDistinct == \A i, j \in Ids : i # j /\ row[i].tick # 0 => row[i].tick # row[j].tick

TickInv ==
  ~ BackInTime =>
    /\ TicksPast /\ TimerOnTick
    /\ Retention = 0 \/ Retention >= Window => FiresNext /\ TicksDistinct
-----------------------------------------------------------------------------
\* Every nonempty set of naturals has a least element.
LEMMA LeastNat ==
  ASSUME NEW S \in SUBSET Nat, S # {}
  PROVE  \E m \in S : \A y \in S : m <= y
<1>1. \E m \in S : \A y \in S : ~ (<<y, m>> \in OpToRel(<, Nat))
  BY NatLessThanWellFounded, WFMin, Zenon
<1>2. PICK m \in S : \A y \in S : ~ (<<y, m>> \in OpToRel(<, Nat))
  BY <1>1, Zenon
<1>3. \A y \in S : ~ (y < m)
  BY <1>2, Zenon DEF OpToRel
<1> HIDE <1>2
<1> QED BY <1>3

\* Min of FiniteSetsExt on a nonempty set of naturals.
LEMMA MinNat ==
  ASSUME NEW S \in SUBSET Nat, S # {}
  PROVE  Min(S) \in S /\ \A y \in S : Min(S) <= y
<1>1. PICK m \in S : \A y \in S : m <= y
  BY LeastNat
<1> QED BY <1>1 DEF Min

\* Max of FiniteSetsExt on a nonempty bounded set of naturals.
LEMMA MaxNat ==
  ASSUME NEW S \in SUBSET Nat, S # {}, NEW b \in Nat, \A y \in S : y <= b
  PROVE  Max(S) \in S /\ \A y \in S : y <= Max(S)
<1> DEFINE U == {k \in Nat : \A y \in S : y <= k}
<1>1. PICK m \in U : \A k \in U : m <= k
  BY LeastNat
<1>2. m \in S
  <2>1. SUFFICES ASSUME m \notin S PROVE FALSE
    OBVIOUS
  <2>2. PICK y \in S : TRUE
    OBVIOUS
  <2>3. m - 1 \in U
    BY <1>1, <2>1, <2>2
  <2> QED BY <1>1, <2>3
<1> QED BY <1>1, <1>2 DEF Max

\* A set whose members are all one has at most one.
LEMMA AtMostOne ==
  ASSUME NEW S, \A x, y \in S : x = y
  PROVE  Cardinality(S) <= 1
<1>1. CASE S = {}
  BY <1>1, FS_EmptySet
<1>2. ASSUME NEW x \in S PROVE Cardinality(S) <= 1
  <2>1. S = {x}
    OBVIOUS
  <2>2. Cardinality({x}) = 1
    BY FS_Singleton
  <2> QED BY <2>1, <2>2
<1> QED BY <1>1, <1>2

\* What a declaration and its bounds are.
LEMMA SetupTypes ==
  ASSUME TypeOK
  PROVE  /\ Overlap \in {"skip", "latest", "all"} /\ Ticks \in SUBSET (1..MaxTime)
         /\ Window \in Nat /\ Retention \in Nat /\ setup.may.time \in Times
         /\ setup.may.runs \in 0..MaxRuns
         /\ \A b \in Spendings : setup.may[b] \in Nat /\ budget[b] \in Nat
<1>1. setup \in [job : Declaration, may : Bounds]
  BY SetupAssumption DEF TypeOK
<1>2. setup.job \in Declaration /\ setup.may \in Bounds
  BY <1>1
<1> QED BY <1>2 DEF Declaration, Bounds, Overlap, Ticks, Window, Retention, Spendings, TypeOK

\* The schedule: the next tick, and the last one that has passed.
LEMMA NextTick ==
  ASSUME TypeOK, NEW t \in Times
  PROVE  /\ Next_(t) \in Ticks \cup {MaxTime + 1} /\ Next_(t) > t
         /\ Next_(t) \in 0..(MaxTime + 1)
<1> DEFINE S == {k \in Ticks : k > t} \union {MaxTime + 1}
<1>1. S \in SUBSET Nat /\ S # {} /\ \A k \in S : k > t /\ k \in 0..(MaxTime + 1)
  BY SetupTypes, BoundAssumption DEF Times
<1>2. Min(S) \in S
  BY <1>1, MinNat
<1> QED BY <1>1, <1>2 DEF Next_

LEMMA LastTickMax ==
  ASSUME TypeOK, NEW t \in Times, NEW u \in Times
  PROVE  /\ LastTick(t, u) \in 0..u
         /\ \A k \in Ticks : t < k /\ k <= u => k <= LastTick(t, u)
<1> DEFINE S == {k \in Ticks : t < k /\ k <= u} \union {0}
<1>1. S \in SUBSET Nat /\ S # {} /\ \A k \in S : k <= u
  BY SetupTypes, BoundAssumption DEF Times
<1>2. u \in Nat
  BY BoundAssumption DEF Times
<1>3. Max(S) \in S /\ \A k \in S : k <= Max(S)
  BY <1>1, <1>2, MaxNat
<1> QED BY <1>1, <1>2, <1>3 DEF LastTick

\* LastScheduledFor is on the clock and not before any stored tick.
LEMMA LastScheduledMax ==
  ASSUME TypeOK
  PROVE  LastScheduledFor \in Times /\ \A i \in Stored : row[i].tick <= LastScheduledFor
<1> DEFINE S == {row[i].tick : i \in Stored} \union {0}
<1>1. S \in SUBSET Nat /\ S # {} /\ (\A k \in S : k <= MaxTime) /\ MaxTime \in Nat
  BY BoundAssumption DEF TypeOK, Row, Stored, Times
<1>2. Max(S) \in S /\ \A k \in S : k <= Max(S)
  BY <1>1, MaxNat
<1> QED BY <1>1, <1>2 DEF LastScheduledFor, Times

\* A new run takes an identifier that has no record.
LEMMA FreshId ==
  ASSUME TypeOK, Fresh # {}
  PROVE  Min(Fresh) \in Ids /\ row[Min(Fresh)].st = "none"
<1>1. Fresh \in SUBSET Nat /\ \A i \in Fresh : i \in Ids
  BY SetupTypes, BoundAssumption DEF Fresh, Ids
<1>2. Min(Fresh) \in Fresh
  BY <1>1, MinNat
<1> QED BY <1>1, <1>2 DEF Fresh

\* Canceling contexts keeps the first cause of each.
LEMMA CanceledType ==
  ASSUME NEW c \in [Ids -> Causes], NEW S, NEW why \in Causes \ {"none"}
  PROVE  /\ Canceled(c, S, why) \in [Ids -> Causes]
         /\ \A i \in Ids : /\ c[i] # "none" => Canceled(c, S, why)[i] = c[i]
                           /\ i \in S => Canceled(c, S, why)[i] # "none"
BY DEF Canceled

\* UpdateJobRun writes the status of one record, or fails and is charged for it.
LEMMA Written ==
  ASSUME TypeInv, NEW i \in Ids, NEW st \in Runnable \cup Terminal, NEW e \in Times,
         UpdateJobRun(i, st, e)
  PROVE  /\ row' \in [Ids -> Row]
         /\ \A j \in Ids : row'[j].tick = row[j].tick /\ (j # i => row'[j] = row[j])
         /\ \/ row'[i].st = st /\ row'[i].ended = e /\ budget' = budget
            \/ row' = row /\ budget.faults > 0 /\ budget' = [budget EXCEPT !.faults = @ - 1]
<1>1. row \in [Ids -> Row]
  BY DEF TypeInv, TypeOK
<1>2. CASE row' = [row EXCEPT ![i].st = st, ![i].ended = e] /\ budget' = budget
  <2>1. row'[i] = [[row[i] EXCEPT !.st = st] EXCEPT !.ended = e]
        /\ \A j \in Ids : j # i => row'[j] = row[j]
    BY <1>1, <1>2
  <2>2. /\ row'[i].st = st /\ row'[i].ended = e /\ row'[i].tick = row[i].tick
        /\ row'[i] \in Row
    BY <1>1, <2>1 DEF Row
  <2> QED BY <1>1, <1>2, <2>1, <2>2
<1>3. CASE budget.faults > 0 /\ budget' = [budget EXCEPT !.faults = @ - 1] /\ row' = row
  BY <1>1, <1>3
<1> QED BY <1>2, <1>3 DEF UpdateJobRun

\* spawn admits a run under a fresh identifier, fails, or refuses it.
Admitted(i, tick, req) ==
  /\ i \in Ids /\ row[i].st = "none" /\ mgr # "stopping" /\ ~ Refused
  /\ row' = [row EXCEPT ![i] = [st |-> "pending", tick |-> tick, ended |-> 0]]
  /\ pc' = [pc EXCEPT ![i] = "admitted"]
  /\ cause' = Registered(Canceled(cause, Superseded, "latest"), i, req)
  /\ request' = [request EXCEPT ![i] = req]
  /\ UNCHANGED <<out, budget>>

LEMMA Spawned ==
  ASSUME TypeOK, NEW tick, NEW req, spawn(tick, req)
  PROVE  (\E i \in Ids : Admitted(i, tick, req)) \/ AdmitFails \/ AdmitRefused
<1>1. CASE Admit(tick, req)
  <2>1. PICK i \in Ids : i = Min(Fresh) /\ row[i].st = "none"
    BY <1>1, FreshId DEF Admit
  <2> QED BY <1>1, <2>1 DEF Admit, Admitted
<1> QED BY <1>1 DEF spawn

\* What spawn leaves of the types.
LEMMA SpawnTypes ==
  ASSUME TypeInv, NEW tick \in Times, NEW req \in Kinds \cup {"no"}, spawn(tick, req)
  PROVE  /\ row' \in [Ids -> Row]
         /\ pc' \in [Ids -> {"idle", "admitted", "engine", "ended", "recorded", "leaving"}]
         /\ cause' \in [Ids -> Causes] /\ out' = out
         /\ request' \in [Ids -> Kinds \union {"no"}]
         /\ budget' = budget \/ (budget.faults > 0 /\ budget' = [budget EXCEPT !.faults = @ - 1])
<1>0. /\ row \in [Ids -> Row] /\ cause \in [Ids -> Causes] /\ request \in [Ids -> Kinds \union {"no"}]
      /\ pc \in [Ids -> {"idle", "admitted", "engine", "ended", "recorded", "leaving"}]
  BY DEF TypeInv, TypeOK
<1>1. ASSUME NEW i \in Ids, Admitted(i, tick, req)
      PROVE  /\ row' \in [Ids -> Row]
             /\ cause' \in [Ids -> Causes]
  <2>1. [st |-> "pending", tick |-> tick, ended |-> 0] \in Row
    BY BoundAssumption DEF Row, Runnable, Times
  <2>2. Canceled(cause, Superseded, "latest") \in [Ids -> Causes]
    BY <1>0, CanceledType DEF Causes
  <2> HIDE DEF Superseded
  <2> QED BY <1>0, <1>1, <2>1, <2>2 DEF Admitted, Registered, Causes
<1>2. ASSUME AdmitFails PROVE cause' \in [Ids -> Causes]
  <2>1. Canceled(cause, Superseded, "latest") \in [Ids -> Causes]
    BY <1>0, CanceledType DEF Causes
  <2> QED BY <1>2, <2>1 DEF AdmitFails
<1>3. CASE AdmitRefused
  BY <1>0, <1>3 DEF AdmitRefused, runVars
<1>4. (\E i \in Ids : Admitted(i, tick, req)) \/ AdmitFails \/ AdmitRefused
  BY Spawned DEF TypeInv
<1>5. ASSUME NEW i \in Ids, Admitted(i, tick, req)
      PROVE  /\ pc' \in [Ids -> {"idle", "admitted", "engine", "ended", "recorded", "leaving"}]
             /\ request' \in [Ids -> Kinds \union {"no"}] /\ out' = out /\ budget' = budget
  BY <1>0, <1>5 DEF Admitted
<1>6. CASE AdmitFails
  BY <1>0, <1>2, <1>6 DEF AdmitFails
<1> QED BY <1>1, <1>3, <1>4, <1>5, <1>6

\* Spending keeps the budget within its bounds.
LEMMA Spends ==
  ASSUME TypeInv, setup' = setup,
         \/ budget' = budget
         \/ \E b \in Spendings : budget[b] > 0 /\ budget' = [budget EXCEPT ![b] = @ - 1]
  PROVE  /\ budget' \in [Spendings -> Nat] /\ BudgetBound'
         /\ \A b \in Spendings : budget'[b] <= budget[b]
<1>1. budget \in [Spendings -> Nat] /\ \A b \in Spendings : setup.may[b] \in Nat
  BY SetupTypes DEF TypeInv, TypeOK, Spendings
<1>2. CASE budget' = budget
  BY <1>1, <1>2 DEF TypeInv, BudgetBound
<1>3. ASSUME NEW b \in Spendings, budget[b] > 0, budget' = [budget EXCEPT ![b] = @ - 1]
      PROVE  /\ budget' \in [Spendings -> Nat] /\ BudgetBound'
             /\ \A d \in Spendings : budget'[d] <= budget[d]
  <2>1. \A d \in Spendings : budget'[d] = IF d = b THEN budget[d] - 1 ELSE budget[d]
    BY <1>1, <1>3
  <2>2. \A d \in Spendings : budget'[d] \in Nat /\ budget'[d] <= budget[d] /\ budget'[d] <= setup.may[d]
    BY <1>1, <1>3, <2>1 DEF TypeInv, BudgetBound
  <2>3. budget' \in [Spendings -> Nat]
    BY <1>1, <1>3, <2>2
  <2> QED BY <2>2, <2>3 DEF BudgetBound
<1> QED BY <1>2, <1>3
-----------------------------------------------------------------------------
\* The clock starts at zero, and the first tick beyond it is one after its end.
LEMMA ClockBounds == 0 \in Times /\ 0 \in 0..(MaxTime + 1) /\ Times \subseteq 0..(MaxTime + 1)
BY BoundAssumption DEF Times

\* Every variable keeps its type.
LEMMA TypeInit == Init => TypeInv
<1> SUFFICES ASSUME Init PROVE TypeInv
  OBVIOUS
<1>1. setup \in [job : Declaration, may : Bounds]
  BY SetupAssumption DEF Init
<1>2. setup.may \in Bounds
  BY <1>1
<1>3. \A b \in Spendings : setup.may[b] \in Nat
  BY <1>2 DEF Bounds, Spendings
<1>4. budget \in [Spendings -> Nat] /\ \A b \in Spendings : budget[b] = setup.may[b]
  BY <1>3 DEF Init, Spendings
<1>5. BudgetBound
  BY <1>3, <1>4 DEF BudgetBound
<1>6. row \in [Ids -> Row] /\ now \in Times
  BY BoundAssumption DEF Init, Row, Times
<1>7. /\ cause \in [Ids -> Causes] /\ out \in [Ids -> Terminal \union {"none"}]
      /\ request \in [Ids -> Kinds \union {"no"}]
      /\ pc \in [Ids -> {"idle", "admitted", "engine", "ended", "recorded", "leaving"}]
  BY DEF Init, Causes
<1>8. next = 0 /\ next \in 0..(MaxTime + 1) /\ deadline \in Nat
  BY ClockBounds DEF Init
<1> QED BY <1>4, <1>5, <1>6, <1>7, <1>8 DEF Init, TypeInv, TypeOK, FiringInTime, LoopRuns, Spendings

LEMMA BootTypes == TypeInv /\ Boot => TypeInv'
<1> SUFFICES ASSUME TypeInv, Boot PROVE TypeInv'
  OBVIOUS
<1>0. setup' = setup /\ Times \subseteq 0..(MaxTime + 1) /\ now \in Times
  BY BoundAssumption DEF Boot, New, Start, spawnResume, ResumeRejected, Recovered, maybeCatchup, CatchupFires,
     Times, TypeInv, TypeOK
<1>1. CASE New \/ Start \/ Recovered
  BY <1>1 DEF New, Start, Recovered, TypeInv, TypeOK, BudgetBound, FiringInTime, LoopRuns, runVars, RunnableJobRuns
<1>2. ASSUME NEW i \in Ids, spawnResume(i) PROVE TypeInv'
  BY <1>2 DEF spawnResume, TypeInv, TypeOK, BudgetBound, FiringInTime, LoopRuns, Registered, Causes
<1>3. ASSUME NEW i \in Ids, ResumeRejected(i) PROVE TypeInv'
  <2>1. UpdateJobRun(i, "failed", now) /\ "failed" \in Runnable \cup Terminal
    BY <1>3 DEF ResumeRejected, Terminal
  <2>2. row' \in [Ids -> Row]
    BY <1>0, <2>1, Written
  <2>3. budget' \in [Spendings -> Nat] /\ BudgetBound'
    BY <1>0, <2>1, Spends DEF UpdateJobRun, Spendings
  <2> QED BY <1>3, <2>2, <2>3 DEF ResumeRejected, TypeInv, TypeOK, FiringInTime, LoopRuns, Spendings, runVars
<1>4. CASE maybeCatchup
  <2>1. CatchupTick \in Times
    <3>1. LastTick(LastScheduledFor, now) \in 0..now
      BY <1>0, LastScheduledMax, LastTickMax DEF TypeInv
    <3> QED BY <1>0, <3>1, BoundAssumption DEF CatchupTick, Times
  <2> HIDE DEF CatchupTick
  <2> QED BY <1>0, <1>4, <2>1, BoundAssumption
        DEF maybeCatchup, TypeInv, TypeOK, BudgetBound, FiringInTime, LoopRuns, runVars
<1>5. CASE CatchupFires
  <2>1. spawn(next, "no") /\ next \in Times
    BY <1>5 DEF CatchupFires, TypeInv, FiringInTime, LoopRuns
  <2>2. /\ row' \in [Ids -> Row]
        /\ pc' \in [Ids -> {"idle", "admitted", "engine", "ended", "recorded", "leaving"}]
        /\ cause' \in [Ids -> Causes] /\ out' = out
        /\ request' \in [Ids -> Kinds \union {"no"}]
        /\ budget' = budget \/ (budget.faults > 0 /\ budget' = [budget EXCEPT !.faults = @ - 1])
    BY <2>1, SpawnTypes
  <2>3. budget' \in [Spendings -> Nat] /\ BudgetBound'
    BY <1>0, <2>2, Spends DEF Spendings
  <2> QED BY <1>5, <2>2, <2>3, BoundAssumption DEF CatchupFires, TypeInv, TypeOK, FiringInTime, LoopRuns, Spendings
<1> QED BY <1>1, <1>2, <1>3, <1>4, <1>5 DEF Boot

LEMMA ScheduleTypes ==
  TypeInv /\ (Arm \/ fireTick \/ TickSpawns \/ LoopExits \/ \E kind \in setup.may.triggers : Trigger(kind))
    => TypeInv'
<1> SUFFICES ASSUME TypeInv, Arm \/ fireTick \/ TickSpawns \/ LoopExits
                             \/ \E kind \in setup.may.triggers : Trigger(kind)
             PROVE  TypeInv'
  OBVIOUS
<1>0. setup' = setup /\ now \in Times
  BY DEF Arm, fireTick, TickSpawns, LoopExits, Trigger, procVars, TypeInv, TypeOK
<1>1. CASE Arm
  <2>1. Next_(now) \in 0..(MaxTime + 1) /\ Next_(now) > now
    BY <1>0, NextTick DEF TypeInv
  <2>2. budget.back <= setup.may.back /\ budget.back \in Nat /\ setup.may.back \in Nat
    BY SetupTypes DEF TypeInv, BudgetBound, Spendings
  <2>3. Monotonic + (Next_(now) - now) \in Nat
    BY <1>0, <2>1, <2>2, BoundAssumption DEF Monotonic, Times
  <2>4. /\ loop = "arm" /\ loop' = "timer" /\ next' \in 0..(MaxTime + 1) /\ deadline' \in Nat
        /\ UNCHANGED <<setup, row, mgr, ctxDone, resume, pc, cause, out, request, zombie, now, budget>>
    BY <1>1, <2>1, <2>3, Zenon DEF Arm, runVars
  <2>5. mgr' # "catchfire"
    BY <2>4 DEF TypeInv, LoopRuns
  <2> QED BY <2>4, <2>5 DEF TypeInv, TypeOK, BudgetBound, FiringInTime, LoopRuns
<1>2. CASE fireTick
  <2>1. next <= setup.may.time => next \in Times
    BY SetupTypes, BoundAssumption DEF TypeInv, TypeOK, Times
  <2> QED BY <1>2, <2>1, ClockBounds DEF fireTick, Due, TypeInv, TypeOK, BudgetBound, FiringInTime, LoopRuns, runVars
<1>3. CASE LoopExits
  BY <1>3, ClockBounds DEF LoopExits, TypeInv, TypeOK, BudgetBound, FiringInTime, LoopRuns, runVars
<1>4. ASSUME NEW tick \in Times, NEW req \in Kinds \cup {"no"}, spawn(tick, req)
      PROVE  /\ row' \in [Ids -> Row]
             /\ pc' \in [Ids -> {"idle", "admitted", "engine", "ended", "recorded", "leaving"}]
             /\ cause' \in [Ids -> Causes] /\ out' = out
             /\ request' \in [Ids -> Kinds \union {"no"}]
             /\ budget' \in [Spendings -> Nat] /\ BudgetBound'
  BY <1>0, <1>4, SpawnTypes, Spends DEF Spendings
<1>5. CASE TickSpawns
  <2>1. spawn(next, "no") /\ next \in Times
    BY <1>5 DEF TickSpawns, TypeInv, FiringInTime, LoopRuns
  <2> QED BY <1>4, <1>5, <2>1, ClockBounds DEF TickSpawns, TypeInv, TypeOK, FiringInTime, LoopRuns, Spendings
<1>6. ASSUME NEW kind \in setup.may.triggers, Trigger(kind) PROVE TypeInv'
  <2>1. kind \in Kinds
    <3>1. setup \in [job : Declaration, may : Bounds]
      BY SetupAssumption DEF TypeInv, TypeOK
    <3> QED BY <3>1 DEF Bounds
  <2>2. spawn(0, kind) /\ 0 \in Times
    BY <1>6, BoundAssumption DEF Trigger, Times
  <2> QED BY <1>4, <1>6, <2>1, <2>2 DEF Trigger, TypeInv, TypeOK, FiringInTime, LoopRuns, Spendings, procVars
<1> QED BY <1>1, <1>2, <1>3, <1>5, <1>6

LEMMA RunTypes ==
  ASSUME TypeInv, NEW i \in Ids, AsyncReply(i) \/ WaitReply(i) \/ RunStep(i) \/ ZombieEnds(i),
         pc[i] = "ended" => out[i] \in Terminal
  PROVE  TypeInv'
<1>0. setup' = setup /\ now \in Times /\ 0 \in Times
  BY BoundAssumption DEF AsyncReply, WaitReply, RunStep, ZombieEnds, Begin, EngineEnds, Record, applyRetention, Leave,
     procVars, TypeInv, TypeOK, Times
<1>1. CASE AsyncReply(i) \/ WaitReply(i)
  <2>1. Canceled(cause, {i} \intersect Current, "reply") \in [Ids -> Causes]
    BY CanceledType DEF TypeInv, TypeOK, Causes
  <2> QED BY <1>1, <2>1 DEF AsyncReply, WaitReply, TypeInv, TypeOK, BudgetBound, FiringInTime, LoopRuns, procVars
<1>2. ASSUME NEW st \in Runnable \cup Terminal, NEW e \in Times, UpdateJobRun(i, st, e)
      PROVE  row' \in [Ids -> Row] /\ budget' \in [Spendings -> Nat] /\ BudgetBound'
  BY <1>0, <1>2, Written, Spends DEF UpdateJobRun, Spendings
<1>3. CASE Begin(i)
  <2>1. row' \in [Ids -> Row] /\ budget' \in [Spendings -> Nat] /\ BudgetBound'
    BY <1>0, <1>2, <1>3 DEF Begin, Runnable
  <2> QED BY <1>3, <2>1 DEF Begin, TypeInv, TypeOK, FiringInTime, LoopRuns, procVars, Spendings
<1>4. CASE Record(i)
  <2>1. row' \in [Ids -> Row] /\ budget' \in [Spendings -> Nat] /\ BudgetBound'
    BY <1>0, <1>2, <1>4 DEF Record
  <2> QED BY <1>4, <2>1 DEF Record, TypeInv, TypeOK, FiringInTime, LoopRuns, procVars, Spendings
<1>5. CASE EngineEnds(i)
  BY <1>5 DEF EngineEnds, Outcomes, Terminal, TypeInv, TypeOK, BudgetBound, FiringInTime, LoopRuns
<1>6. CASE applyRetention(i)
  <2>1. row' \in [Ids -> Row]
    <3>1. \A j \in Ids : row[j] \in Row /\ [row[j] EXCEPT !.st = "pruned"] \in Row
      BY DEF TypeInv, TypeOK, Row
    <3> QED BY <1>6, <3>1 DEF applyRetention
  <2> QED BY <1>6, <2>1 DEF applyRetention, TypeInv, TypeOK, BudgetBound, FiringInTime, LoopRuns, procVars
<1>7. CASE Leave(i) \/ ZombieEnds(i)
  BY <1>7 DEF Leave, ZombieEnds, TypeInv, TypeOK, BudgetBound, FiringInTime, LoopRuns, procVars, runVars, Causes
<1> QED BY <1>1, <1>3, <1>4, <1>5, <1>6, <1>7 DEF RunStep

LEMMA EndTypes ==
  TypeInv /\ (CtxDone \/ Stop \/ StopReturns \/ Crash \/ Passes \/ SetBack) => TypeInv'
<1> SUFFICES ASSUME TypeInv, CtxDone \/ Stop \/ StopReturns \/ Crash \/ Passes \/ SetBack
             PROVE  TypeInv'
  OBVIOUS
<1>0. setup' = setup
  BY DEF CtxDone, Stop, StopReturns, Crash, Passes, SetBack, procVars
<1>1. budget' \in [Spendings -> Nat] /\ BudgetBound'
  BY <1>0, Spends DEF CtxDone, Stop, StopReturns, Crash, Passes, SetBack, Spendings
<1>2. \A S : Canceled(cause, S, "stop") \in [Ids -> Causes]
  BY CanceledType DEF TypeInv, TypeOK, Causes
<1>3. CASE CtxDone \/ Stop \/ StopReturns
  <2>1. /\ cause' \in [Ids -> Causes] /\ ctxDone' \in BOOLEAN
        /\ mgr' \in {mgr, "stopping", "stopped"} /\ (mgr' = "stopped" => mgr = mgr' \/ loop = "off")
        /\ (mgr' = "stopping" => mgr \in {"up", "stopping"})
        /\ UNCHANGED <<setup, row, resume, loop, next, deadline, zombie, pc, out, request, now>>
    <3>1. CASE CtxDone
      BY <1>2, <3>1 DEF CtxDone, TypeInv, TypeOK
    <3>2. CASE Stop
      BY <1>2, <3>2 DEF Stop, TypeInv, TypeOK
    <3>3. CASE StopReturns
      BY <3>3 DEF StopReturns, Drained, TypeInv, TypeOK, runVars
    <3> QED BY <1>3, <3>1, <3>2, <3>3
  <2> QED BY <1>1, <2>1 DEF TypeInv, TypeOK, FiringInTime, LoopRuns, Spendings
<1>4. CASE Crash
  BY <1>1, <1>4, ClockBounds DEF Crash, TypeInv, TypeOK, FiringInTime, LoopRuns, Spendings, Causes
<1>5. CASE Passes \/ SetBack
  <2>1. now' \in Times
    BY <1>5, SetupTypes, BoundAssumption DEF Passes, SetBack, TypeInv, TypeOK, Times
  <2> QED BY <1>1, <1>5, <2>1 DEF Passes, SetBack, TypeInv, TypeOK, FiringInTime, LoopRuns, Spendings, procVars,
            runVars
<1> QED BY <1>3, <1>4, <1>5

\* What has gone wrong stays so, and a spent fault, crash or clock change counts.
LEMMA Charged ==
  ASSUME TypeInv, setup' = setup,
         \/ budget' = budget
         \/ \E b \in Spendings : budget[b] > 0 /\ budget' = [budget EXCEPT ![b] = @ - 1]
  PROVE  /\ (Faulted => Faulted') /\ (Crashed => Crashed') /\ (BackInTime => BackInTime')
         /\ budget' = [budget EXCEPT !.faults = @ - 1] => Faulted'
         /\ budget' = [budget EXCEPT !.crashes = @ - 1] => Crashed'
         /\ budget' = [budget EXCEPT !.back = @ - 1] => BackInTime'
<1>1. \A b \in Spendings : /\ budget'[b] <= budget[b] /\ budget'[b] \in Nat /\ budget[b] \in Nat
                           /\ setup.may[b] \in Nat /\ budget[b] <= setup.may[b]
  BY Spends, SetupTypes DEF TypeInv, BudgetBound
<1>2. \A b \in Spendings : budget' = [budget EXCEPT ![b] = @ - 1] => budget'[b] < setup.may[b]
  <2> SUFFICES ASSUME NEW b \in Spendings, budget' = [budget EXCEPT ![b] = @ - 1]
               PROVE  budget'[b] < setup.may[b]
    OBVIOUS
  <2>1. budget \in [Spendings -> Nat]
    BY DEF TypeInv, TypeOK, Spendings
  <2>2. budget'[b] = budget[b] - 1
    BY <2>1
  <2> QED BY <1>1, <2>2
<1>3. /\ "faults" \in Spendings /\ "crashes" \in Spendings /\ "back" \in Spendings
  BY DEF Spendings
<1>4. (Faulted => Faulted') /\ (Crashed => Crashed') /\ (BackInTime => BackInTime')
  <2>1. /\ budget'["faults"] <= budget["faults"] /\ budget'["crashes"] <= budget["crashes"]
        /\ budget'["back"] <= budget["back"]
        /\ \A b \in {"faults", "crashes", "back"} :
             budget[b] \in Nat /\ budget'[b] \in Nat /\ setup.may[b] \in Nat
    BY <1>1, <1>3
  <2> QED BY <2>1 DEF Faulted, Crashed, BackInTime
<1> QED BY <1>2, <1>3, <1>4 DEF Faulted, Crashed, BackInTime
-----------------------------------------------------------------------------
LEMMA HistoryInit == Init => HistoryInv
<1> SUFFICES ASSUME Init PROVE HistoryInv
  OBVIOUS
<1>1. /\ \A i \in Ids : pc[i] = "idle" /\ row[i].st = "none"
      /\ resume = {} /\ mgr = "off"
  BY DEF Init
<1> QED BY <1>1 DEF HistoryInv, Phases, Drives, RecoveryOwnsItsRuns, Recorded, Driven, Alone,
     NothingToRecover, OneWanted, Runnable

\* A step that moves the manager and cancels contexts, and leaves records and
\* goroutines alone.
LEMMA HistoryQuiet ==
  ASSUME TypeInv, HistoryInv, UNCHANGED <<setup, row, pc, out, resume>>,
         mgr' \in {"off", "new", "stopped"} => \A i \in Ids : pc[i] = "idle",
         mgr' # "recover" => resume = {},
         mgr \in {"off", "new"} => mgr' \in {"off", "new"},
         \A i \in Ids : pc[i] # "idle" /\ cause'[i] = "none" => cause[i] = "none",
         Faulted => Faulted', Crashed => Crashed'
  PROVE  HistoryInv'
<1>1. Phases' /\ Drives' /\ RecoveryOwnsItsRuns'
  BY DEF HistoryInv, Phases, Drives, RecoveryOwnsItsRuns
<1>2. ASSUME ~ Faulted PROVE Recorded' /\ Driven' /\ (Overlap' = "skip" => Alone')
  BY <1>2 DEF HistoryInv, Recorded, Driven, Alone, Overlap
<1>3. ASSUME ~ Faulted, ~ Crashed PROVE NothingToRecover'
  <2>1. NothingToRecover /\ Driven
    BY <1>3 DEF HistoryInv
  <2>2. CASE mgr \in {"off", "new", "stopped"}
    BY <2>1, <2>2 DEF NothingToRecover
  <2>3. CASE mgr \notin {"off", "new", "stopped"}
    BY <2>1, <2>3 DEF NothingToRecover, Driven
  <2> QED BY <2>2, <2>3
<1>4. ASSUME ~ Faulted, ~ Crashed, Overlap' = "latest" PROVE OneWanted'
  BY <1>4 DEF HistoryInv, OneWanted, Overlap
<1> QED BY <1>1, <1>2, <1>3, <1>4 DEF HistoryInv

\* The steps that only move control.
LEMMA HistoryControl ==
  ASSUME TypeInv, HistoryInv,
         \/ New \/ Recovered \/ maybeCatchup \/ Arm \/ fireTick \/ LoopExits
         \/ CtxDone \/ Stop \/ StopReturns \/ Passes \/ SetBack
         \/ \E i \in Ids : AsyncReply(i) \/ WaitReply(i) \/ ZombieEnds(i)
  PROVE  HistoryInv'
<1>1. UNCHANGED <<setup, row, pc, out, resume>>
  BY DEF New, Recovered, maybeCatchup, Arm, fireTick, LoopExits, CtxDone, Stop, StopReturns, Passes,
     SetBack, AsyncReply, WaitReply, ZombieEnds, runVars, procVars
<1>2. (Faulted => Faulted') /\ (Crashed => Crashed')
  <2>1. \/ budget' = budget
        \/ \E b \in Spendings : budget[b] > 0 /\ budget' = [budget EXCEPT ![b] = @ - 1]
    BY DEF New, Recovered, maybeCatchup, Arm, fireTick, LoopExits, CtxDone, Stop, StopReturns, Passes,
       SetBack, AsyncReply, WaitReply, ZombieEnds, Spendings
  <2> QED BY <1>1, <2>1, Charged
<1>3. /\ mgr' \in {"off", "new", "stopped"} => \A i \in Ids : pc[i] = "idle"
      /\ mgr' # "recover" => resume = {}
      /\ mgr \in {"off", "new"} => mgr' \in {"off", "new"}
  <2>1. CASE mgr' = mgr
    BY <2>1 DEF HistoryInv, Phases
  <2>2. CASE New
    BY <2>2 DEF New, HistoryInv, Phases
  <2>3. CASE Recovered
    BY <2>3 DEF Recovered
  <2>4. CASE maybeCatchup \/ Stop
    BY <2>4 DEF maybeCatchup, Stop, HistoryInv, Phases
  <2>5. CASE StopReturns
    BY <2>5 DEF StopReturns, Drained, Current, HistoryInv, Phases
  <2>6. \/ mgr' = mgr \/ New \/ Recovered \/ maybeCatchup \/ Stop \/ StopReturns
    BY DEF Arm, fireTick, LoopExits, CtxDone, Passes, SetBack, AsyncReply, WaitReply, ZombieEnds, procVars
  <2> QED BY <2>1, <2>2, <2>3, <2>4, <2>5, <2>6
<1>4. \A i \in Ids : cause'[i] = "none" => cause[i] = "none"
  <2>1. cause \in [Ids -> Causes] /\ "stop" \in Causes \ {"none"} /\ "reply" \in Causes \ {"none"}
    BY DEF TypeInv, TypeOK, Causes
  <2>2. cause' = cause \/ (\E S : cause' = Canceled(cause, S, "stop"))
                       \/ (\E S : cause' = Canceled(cause, S, "reply"))
    BY DEF New, Recovered, maybeCatchup, Arm, fireTick, LoopExits, CtxDone, Stop, StopReturns, Passes,
       SetBack, AsyncReply, WaitReply, ZombieEnds, runVars
  <2> QED BY <2>1, <2>2, CanceledType
<1> QED BY <1>1, <1>2, <1>3, <1>4, HistoryQuiet

\* Recovery.
LEMMA HistoryRecovery ==
  ASSUME TypeInv, TypeInv', HistoryInv,
         Start \/ \E i \in Ids : spawnResume(i) \/ ResumeRejected(i)
  PROVE  HistoryInv'
<1>1. CASE Start
  <2>1. /\ mgr = "new" /\ mgr' = "recover" /\ resume' = RunnableJobRuns
        /\ UNCHANGED <<setup, row, pc, cause, out, budget>>
    BY <1>1 DEF Start, runVars
  <2>2. Phases' /\ Drives' /\ RecoveryOwnsItsRuns'
    BY <2>1 DEF HistoryInv, Phases, Drives, RecoveryOwnsItsRuns, RunnableJobRuns
  <2>3. Driven'
    BY <2>1 DEF Driven, RunnableJobRuns
  <2>4. ASSUME ~ Faulted, ~ Crashed PROVE NothingToRecover'
    BY <2>1, <2>4 DEF HistoryInv, NothingToRecover, RunnableJobRuns
  <2>5. Recorded' = Recorded /\ Alone' = Alone /\ OneWanted' = OneWanted /\ Overlap' = Overlap
        /\ Faulted' = Faulted /\ Crashed' = Crashed
    BY <2>1 DEF Recorded, Alone, OneWanted, Overlap, Faulted, Crashed
  <2> QED BY <2>2, <2>3, <2>4, <2>5 DEF HistoryInv
<1>2. ASSUME NEW i \in Ids, spawnResume(i) PROVE HistoryInv'
  <2>1. /\ mgr = "recover" /\ i \in resume /\ resume' = resume \ {i}
        /\ UNCHANGED <<setup, row, mgr, out, budget>>
        /\ pc'[i] = "admitted" /\ \A j \in Ids \ {i} : pc'[j] = pc[j]
    BY <1>2 DEF spawnResume, TypeInv, TypeOK
  <2>2. row[i].st \in Runnable /\ row[i].st # "none"
    BY <2>1 DEF HistoryInv, RecoveryOwnsItsRuns, Runnable
  <2>3. Phases' /\ Drives' /\ RecoveryOwnsItsRuns'
    <3>1. Phases'
      BY <2>1 DEF Phases
    <3>2. \A j \in Ids \ {i} : row'[j] = row[j] /\ pc'[j] = pc[j] /\ out'[j] = out[j]
      BY <2>1
    <3>3. Drives'
      BY <2>1, <2>2, <3>2 DEF HistoryInv, Drives
    <3>4. resume' \subseteq Ids \ {i} /\ resume' \subseteq resume
      BY <2>1 DEF TypeInv, TypeOK
    <3>5. RecoveryOwnsItsRuns'
      BY <3>2, <3>4 DEF HistoryInv, RecoveryOwnsItsRuns
    <3> QED BY <3>1, <3>3, <3>5
  <2>4. Faulted' = Faulted /\ Crashed' = Crashed /\ Overlap' = Overlap
    BY <2>1 DEF Faulted, Crashed, Overlap
  <2>5. ASSUME ~ Faulted PROVE Recorded' /\ Driven' /\ (Overlap' = "skip" => Alone')
    BY <2>1, <2>2, <2>4, <2>5 DEF HistoryInv, Recorded, Driven, Alone
  <2>6. Faulted \/ Crashed
    BY <2>1 DEF HistoryInv, NothingToRecover
  <2> QED BY <2>3, <2>4, <2>5, <2>6 DEF HistoryInv
<1>3. ASSUME NEW i \in Ids, ResumeRejected(i) PROVE HistoryInv'
  <2>1. /\ mgr = "recover" /\ i \in resume /\ resume' = resume \ {i}
        /\ UpdateJobRun(i, "failed", now)
        /\ UNCHANGED <<setup, mgr, pc, cause, out>>
    BY <1>3 DEF ResumeRejected, runVars
  <2>2. pc[i] = "idle"
    BY <2>1 DEF HistoryInv, RecoveryOwnsItsRuns
  <2>3. /\ \A j \in Ids : j # i => row'[j] = row[j]
        /\ \/ row'[i].st = "failed" /\ budget' = budget
           \/ row' = row /\ budget.faults > 0 /\ budget' = [budget EXCEPT !.faults = @ - 1]
    BY <2>1, Written DEF Terminal, TypeInv, TypeOK
  <2>4. Phases' /\ Drives' /\ RecoveryOwnsItsRuns'
    <3>1. Phases'
      BY <2>1 DEF Phases
    <3>2. \A j \in Ids \ {i} : row'[j] = row[j] /\ pc'[j] = pc[j] /\ out'[j] = out[j]
      BY <2>1, <2>3
    <3>3. pc'[i] = "idle"
      BY <2>1, <2>2
    <3>4. Drives'
      BY <3>2, <3>3 DEF HistoryInv, Drives
    <3>5. resume' \subseteq Ids \ {i} /\ resume' \subseteq resume
      BY <2>1 DEF TypeInv, TypeOK
    <3>6. RecoveryOwnsItsRuns'
      BY <3>2, <3>5 DEF HistoryInv, RecoveryOwnsItsRuns
    <3> QED BY <3>1, <3>4, <3>6
  <2>5. CASE row'[i].st = "failed" /\ budget' = budget
    <3>1. Faulted' = Faulted /\ Crashed' = Crashed /\ Overlap' = Overlap
      BY <2>1, <2>5 DEF Faulted, Crashed, Overlap
    <3>2. row'[i].st \notin Runnable
      BY <2>5 DEF Runnable
    <3>3. ASSUME ~ Faulted PROVE Recorded' /\ Driven' /\ (Overlap' = "skip" => Alone')
      BY <2>1, <2>2, <2>3, <3>1, <3>2, <3>3 DEF HistoryInv, Recorded, Driven, Alone
    <3>4. Faulted \/ Crashed
      BY <2>1 DEF HistoryInv, NothingToRecover
    <3> QED BY <2>4, <3>1, <3>3, <3>4 DEF HistoryInv
  <2>6. CASE budget.faults > 0 /\ budget' = [budget EXCEPT !.faults = @ - 1]
    <3>1. Faulted'
      BY <2>1, <2>6, Charged DEF Spendings
    <3> QED BY <2>4, <3>1 DEF HistoryInv
  <2> QED BY <2>3, <2>5, <2>6
<1> QED BY <1>1, <1>2, <1>3

\* spawn, admitted: the new run is driven, and the overlap policy holds.
LEMMA HistoryAdmitted ==
  ASSUME TypeInv, HistoryInv, NEW i \in Ids, NEW tick, NEW req, Admitted(i, tick, req),
         setup' = setup, resume' = resume,
         mgr \notin {"off", "new", "stopped", "recover"},
         mgr' \notin {"off", "new", "stopped"}
  PROVE  HistoryInv'
<1>0. row \in [Ids -> Row] /\ pc \in [Ids -> {"idle", "admitted", "engine", "ended", "recorded", "leaving"}]
      /\ cause \in [Ids -> Causes]
  BY DEF TypeInv, TypeOK
<1>1. /\ row'[i].st = "pending" /\ pc'[i] = "admitted" /\ out' = out /\ budget' = budget
      /\ \A j \in Ids \ {i} : row'[j] = row[j] /\ pc'[j] = pc[j]
  BY <1>0 DEF Admitted
<1>2. resume = {} /\ resume' = {}
  BY DEF HistoryInv, Phases
<1>3. row'[i].st \in Runnable
  BY <1>1 DEF Runnable
<1>4. Phases' /\ RecoveryOwnsItsRuns'
  BY <1>2 DEF Phases, RecoveryOwnsItsRuns
<1>5. Drives'
  BY <1>1, <1>3 DEF HistoryInv, Drives
<1>6. Faulted' = Faulted /\ Crashed' = Crashed /\ Overlap' = Overlap
  BY <1>1 DEF Faulted, Crashed, Overlap
<1>7. ASSUME ~ Faulted PROVE Recorded' /\ Driven'
  <2>1. Recorded /\ Driven
    BY <1>7 DEF HistoryInv
  <2>2. Recorded'
    BY <1>1, <2>1 DEF Recorded
  <2>3. Driven'
    BY <1>1, <1>2, <2>1 DEF Driven
  <2> QED BY <2>2, <2>3
<1>8. ASSUME ~ Faulted, Overlap' = "skip" PROVE Alone'
  <2>1. \A j \in Ids : pc[j] = "idle"
    BY <1>6, <1>8 DEF Admitted, Refused, Current
  <2>2. \A j \in Ids : row[j].st \notin Runnable
    BY <1>2, <1>8, <2>1 DEF HistoryInv, Driven
  <2> QED BY <1>1, <2>1, <2>2 DEF Alone
<1>9. NothingToRecover'
  BY <1>2 DEF NothingToRecover
<1>10. ASSUME Overlap' = "latest" PROVE OneWanted'
  <2>1. Superseded = Current
    BY <1>6, <1>10 DEF Superseded
  <2>2. PICK c \in [Ids -> Causes] : c = Canceled(cause, Current, "latest")
    BY <1>0, CanceledType DEF Causes
  <2>3. \A j \in Ids : pc[j] # "idle" => c[j] # "none"
    BY <1>0, <2>2, CanceledType DEF Causes, Current
  <2>4. \A j \in Ids \ {i} : cause'[j] = c[j]
    BY <2>1, <2>2 DEF Admitted, Registered
  <2> QED BY <1>1, <2>3, <2>4 DEF OneWanted
<1> QED BY <1>4, <1>5, <1>6, <1>7, <1>8, <1>9, <1>10 DEF HistoryInv

\* spawn as a whole: catch-up, a tick or a trigger.
LEMMA HistorySpawn ==
  ASSUME TypeInv, HistoryInv, NEW tick, NEW req, spawn(tick, req),
         setup' = setup, resume' = resume,
         mgr \notin {"off", "new", "stopped", "recover"},
         mgr' \notin {"off", "new", "stopped", "recover"}
  PROVE  HistoryInv'
<1>1. ASSUME NEW i \in Ids, Admitted(i, tick, req) PROVE HistoryInv'
  BY <1>1, HistoryAdmitted
<1>2. CASE AdmitFails
  <2>1. /\ UNCHANGED <<row, pc, out>> /\ budget.faults > 0
        /\ budget' = [budget EXCEPT !.faults = @ - 1]
    BY <1>2 DEF AdmitFails
  <2>2. Faulted'
    BY <2>1, Charged DEF Spendings
  <2>3. resume' = {}
    BY DEF HistoryInv, Phases
  <2>4. Phases' /\ RecoveryOwnsItsRuns' /\ Drives'
    BY <2>1, <2>3 DEF HistoryInv, Phases, RecoveryOwnsItsRuns, Drives
  <2> QED BY <2>2, <2>4 DEF HistoryInv
<1>3. CASE AdmitRefused
  <2>1. UNCHANGED <<row, pc, out, cause, budget>>
    BY <1>3 DEF AdmitRefused, runVars
  <2>2. resume = {}
    BY DEF HistoryInv, Phases
  <2>3. (Faulted => Faulted') /\ (Crashed => Crashed')
    BY <2>1 DEF Faulted, Crashed
  <2> QED BY <2>1, <2>2, <2>3, HistoryQuiet
<1> QED BY <1>1, <1>2, <1>3, Spawned DEF TypeInv

LEMMA HistoryFires ==
  ASSUME TypeInv, HistoryInv,
         CatchupFires \/ TickSpawns \/ \E kind \in setup.may.triggers : Trigger(kind)
  PROVE  HistoryInv'
<1>1. CASE CatchupFires
  BY <1>1, HistorySpawn DEF CatchupFires
<1>2. CASE TickSpawns
  <2>1. mgr \in {"up", "stopping"}
    BY <1>2 DEF TickSpawns, TypeInv, LoopRuns
  <2> QED BY <1>2, <2>1, HistorySpawn DEF TickSpawns
<1>3. ASSUME NEW kind \in setup.may.triggers, Trigger(kind) PROVE HistoryInv'
  BY <1>3, HistorySpawn DEF Trigger, Installed, procVars
<1> QED BY <1>1, <1>2, <1>3

\* The goroutine of a run, up to the record of its outcome.
LEMMA HistoryRun ==
  ASSUME TypeInv, HistoryInv, NEW i \in Ids, RunStep(i)
  PROVE  HistoryInv'
<1>0. /\ row \in [Ids -> Row] /\ cause \in [Ids -> Causes] /\ out \in [Ids -> Terminal \union {"none"}]
      /\ pc \in [Ids -> {"idle", "admitted", "engine", "ended", "recorded", "leaving"}]
      /\ resume \subseteq Ids /\ now \in Times /\ 0 \in Times
  BY ClockBounds DEF TypeInv, TypeOK
<1>1. /\ UNCHANGED <<setup, mgr, resume, request>>
      /\ pc[i] # "idle" /\ i \notin resume
      /\ \A j \in Ids \ {i} : pc'[j] = pc[j] /\ out'[j] = out[j] /\ cause'[j] = cause[j]
  <2>1. UNCHANGED <<setup, mgr, resume, request>> /\ pc[i] # "idle"
    BY DEF RunStep, Begin, EngineEnds, Record, applyRetention, Leave, procVars
  <2>2. \A j \in Ids \ {i} : pc'[j] = pc[j] /\ out'[j] = out[j] /\ cause'[j] = cause[j]
    BY <1>0 DEF RunStep, Begin, EngineEnds, Record, applyRetention, Leave
  <2> QED BY <2>1, <2>2 DEF HistoryInv, RecoveryOwnsItsRuns
<1>2. mgr \notin {"off", "new", "stopped"}
  BY <1>1 DEF HistoryInv, Phases
<1>3. Phases' /\ Overlap' = Overlap
  BY <1>1, <1>2 DEF HistoryInv, Phases, Overlap
<1>4. CASE Begin(i)
  <2>1. /\ pc[i] = "admitted" /\ pc'[i] = "engine" /\ cause' = cause /\ UpdateJobRun(i, "running", 0)
    BY <1>0, <1>4 DEF Begin
  <2>2. /\ \A j \in Ids : j # i => row'[j] = row[j]
        /\ \/ row'[i].st = "running" /\ budget' = budget
           \/ row' = row /\ budget.faults > 0 /\ budget' = [budget EXCEPT !.faults = @ - 1]
    BY <1>0, <2>1, Written DEF Runnable
  <2>3. row[i].st \in Runnable /\ row'[i].st \in Runnable /\ row'[i].st # "none"
    BY <2>1, <2>2 DEF HistoryInv, Drives, Runnable
  <2>4. Drives'
    BY <1>1, <2>1, <2>2, <2>3 DEF HistoryInv, Drives
  <2>5. RecoveryOwnsItsRuns'
    BY <1>0, <1>1, <2>2 DEF HistoryInv, RecoveryOwnsItsRuns
  <2>6. (Faulted => Faulted') /\ (Crashed => Crashed')
    BY <1>1, <2>2, Charged DEF Spendings
  <2>7. ASSUME ~ Faulted PROVE Recorded' /\ Driven' /\ (Overlap' = "skip" => Alone')
    <3>1. Recorded' /\ Driven'
      BY <1>1, <2>1, <2>2, <2>7 DEF HistoryInv, Recorded, Driven
    <3>2. ASSUME Overlap = "skip" PROVE Alone'
      BY <1>1, <2>1, <2>2, <2>3, <2>7, <3>2 DEF HistoryInv, Alone
    <3> QED BY <1>3, <3>1, <3>2
  <2>8. ASSUME ~ Faulted, ~ Crashed
        PROVE  NothingToRecover' /\ (Overlap' = "latest" => OneWanted')
    <3>1. NothingToRecover'
      BY <1>1, <1>2, <2>8 DEF HistoryInv, NothingToRecover
    <3>2. ASSUME Overlap = "latest" PROVE OneWanted'
      BY <1>1, <2>1, <2>8, <3>2 DEF HistoryInv, OneWanted
    <3> QED BY <1>3, <3>1, <3>2
  <2> QED BY <1>3, <2>4, <2>5, <2>6, <2>7, <2>8 DEF HistoryInv
<1>5. CASE EngineEnds(i)
  <2>1. /\ pc[i] = "engine" /\ pc'[i] = "ended" /\ cause' = cause /\ row' = row /\ budget' = budget
        /\ out'[i] \in Terminal
    BY <1>0, <1>5 DEF EngineEnds, Outcomes, Terminal
  <2>2. Drives'
    BY <1>1, <2>1 DEF HistoryInv, Drives
  <2>3. RecoveryOwnsItsRuns'
    BY <1>0, <1>1, <2>1 DEF HistoryInv, RecoveryOwnsItsRuns
  <2>4. Faulted' = Faulted /\ Crashed' = Crashed
    BY <1>1, <2>1 DEF Faulted, Crashed
  <2>5. ASSUME ~ Faulted PROVE Recorded' /\ Driven' /\ (Overlap' = "skip" => Alone')
    <3>1. Recorded' /\ Driven'
      BY <1>1, <2>1, <2>5 DEF HistoryInv, Recorded, Driven
    <3>2. ASSUME Overlap = "skip" PROVE Alone'
      BY <1>1, <2>1, <2>5, <3>2 DEF HistoryInv, Alone
    <3> QED BY <1>3, <3>1, <3>2
  <2>6. ASSUME ~ Faulted, ~ Crashed
        PROVE  NothingToRecover' /\ (Overlap' = "latest" => OneWanted')
    <3>1. NothingToRecover'
      BY <1>1, <1>2, <2>6 DEF HistoryInv, NothingToRecover
    <3>2. ASSUME Overlap = "latest" PROVE OneWanted'
      BY <1>1, <2>1, <2>6, <3>2 DEF HistoryInv, OneWanted
    <3> QED BY <1>3, <3>1, <3>2
  <2> QED BY <1>3, <2>2, <2>3, <2>4, <2>5, <2>6 DEF HistoryInv
<1>6. CASE Record(i)
  <2>1. /\ pc[i] = "ended" /\ pc'[i] = "recorded" /\ cause' = cause /\ out' = out
        /\ UpdateJobRun(i, out[i], now) /\ out[i] \in Terminal
    BY <1>0, <1>6 DEF Record, HistoryInv, Drives
  <2>2. /\ \A j \in Ids : j # i => row'[j] = row[j]
        /\ \/ row'[i].st = out[i] /\ budget' = budget
           \/ row' = row /\ budget.faults > 0 /\ budget' = [budget EXCEPT !.faults = @ - 1]
    BY <1>0, <2>1, Written
  <2>3. row[i].st \in Runnable /\ row'[i].st # "none"
    BY <2>1, <2>2 DEF HistoryInv, Drives, Terminal
  <2>4. Drives'
    BY <1>1, <2>1, <2>2, <2>3 DEF HistoryInv, Drives
  <2>5. RecoveryOwnsItsRuns'
    BY <1>0, <1>1, <2>2 DEF HistoryInv, RecoveryOwnsItsRuns
  <2>6. CASE row'[i].st = out[i] /\ budget' = budget
    <3>1. Faulted' = Faulted /\ Crashed' = Crashed
      BY <1>1, <2>6 DEF Faulted, Crashed
    <3>2. row'[i].st \notin Runnable
      BY <2>1, <2>6 DEF Runnable, Terminal
    <3>3. ASSUME ~ Faulted PROVE Recorded' /\ Driven' /\ (Overlap' = "skip" => Alone')
      <4>1. Recorded' /\ Driven'
        BY <1>1, <2>1, <2>2, <3>2, <3>3 DEF HistoryInv, Recorded, Driven
      <4>2. ASSUME Overlap = "skip" PROVE Alone'
        BY <1>1, <2>1, <2>2, <3>3, <4>2 DEF HistoryInv, Alone
      <4> QED BY <1>3, <4>1, <4>2
    <3>4. ASSUME ~ Faulted, ~ Crashed
          PROVE  NothingToRecover' /\ (Overlap' = "latest" => OneWanted')
      <4>1. NothingToRecover'
        BY <1>1, <1>2, <3>4 DEF HistoryInv, NothingToRecover
      <4>2. ASSUME Overlap = "latest" PROVE OneWanted'
        BY <1>1, <2>1, <3>4, <4>2 DEF HistoryInv, OneWanted
      <4> QED BY <1>3, <4>1, <4>2
    <3> QED BY <1>3, <2>4, <2>5, <3>1, <3>3, <3>4 DEF HistoryInv
  <2>7. CASE budget.faults > 0 /\ budget' = [budget EXCEPT !.faults = @ - 1]
    <3>1. Faulted'
      BY <1>1, <2>7, Charged DEF Spendings
    <3> QED BY <1>3, <2>4, <2>5, <3>1 DEF HistoryInv
  <2> QED BY <2>2, <2>6, <2>7
<1>7. CASE applyRetention(i)
  <2>1. /\ pc[i] = "recorded" /\ pc'[i] = "leaving" /\ cause' = cause /\ out' = out /\ budget' = budget
    BY <1>0, <1>7 DEF applyRetention
  <2>2. \A j \in Ids : \/ row'[j] = row[j]
                       \/ row[j].st \in Terminal /\ row'[j].st = "pruned"
    BY <1>0, <1>7 DEF applyRetention, Expired, Row
  <2>3. \A j \in Ids : /\ row'[j].st \in Runnable <=> row[j].st \in Runnable
                       /\ row'[j].st = "none" <=> row[j].st = "none"
    BY <2>2 DEF Runnable, Terminal
  <2>4. Drives'
    BY <1>1, <2>1, <2>3 DEF HistoryInv, Drives
  <2>5. RecoveryOwnsItsRuns'
    BY <1>0, <1>1, <2>3 DEF HistoryInv, RecoveryOwnsItsRuns
  <2>6. Faulted' = Faulted /\ Crashed' = Crashed
    BY <1>1, <2>1 DEF Faulted, Crashed
  <2>7. ASSUME ~ Faulted PROVE Recorded' /\ Driven' /\ (Overlap' = "skip" => Alone')
    <3>1. Recorded' /\ Driven'
      BY <1>1, <2>1, <2>3, <2>7 DEF HistoryInv, Recorded, Driven
    <3>2. ASSUME Overlap = "skip" PROVE Alone'
      BY <1>1, <2>1, <2>3, <2>7, <3>2 DEF HistoryInv, Alone
    <3> QED BY <1>3, <3>1, <3>2
  <2>8. ASSUME ~ Faulted, ~ Crashed
        PROVE  NothingToRecover' /\ (Overlap' = "latest" => OneWanted')
    <3>1. NothingToRecover'
      BY <1>1, <1>2, <2>8 DEF HistoryInv, NothingToRecover
    <3>2. ASSUME Overlap = "latest" PROVE OneWanted'
      BY <1>1, <2>1, <2>8, <3>2 DEF HistoryInv, OneWanted
    <3> QED BY <1>3, <3>1, <3>2
  <2> QED BY <1>3, <2>4, <2>5, <2>6, <2>7, <2>8 DEF HistoryInv
<1>8. CASE Leave(i)
  <2>1. /\ pc[i] = "leaving" /\ pc'[i] = "idle" /\ row' = row /\ budget' = budget
    BY <1>0, <1>8 DEF Leave
  <2>2. Drives'
    BY <1>1, <2>1 DEF HistoryInv, Drives
  <2>3. RecoveryOwnsItsRuns'
    BY <1>0, <1>1, <2>1 DEF HistoryInv, RecoveryOwnsItsRuns
  <2>4. Faulted' = Faulted /\ Crashed' = Crashed
    BY <1>1, <2>1 DEF Faulted, Crashed
  <2>5. ASSUME ~ Faulted PROVE Recorded' /\ Driven' /\ (Overlap' = "skip" => Alone')
    <3>1. Recorded' /\ Driven'
      BY <1>1, <2>1, <2>5 DEF HistoryInv, Recorded, Driven
    <3>2. ASSUME Overlap = "skip" PROVE Alone'
      BY <1>1, <2>1, <2>5, <3>2 DEF HistoryInv, Alone
    <3> QED BY <1>3, <3>1, <3>2
  <2>6. ASSUME ~ Faulted, ~ Crashed
        PROVE  NothingToRecover' /\ (Overlap' = "latest" => OneWanted')
    <3>1. NothingToRecover'
      BY <1>1, <1>2, <2>6 DEF HistoryInv, NothingToRecover
    <3>2. ASSUME Overlap = "latest" PROVE OneWanted'
      BY <1>1, <2>1, <2>6, <3>2 DEF HistoryInv, OneWanted
    <3> QED BY <1>3, <3>1, <3>2
  <2> QED BY <1>3, <2>2, <2>3, <2>4, <2>5, <2>6 DEF HistoryInv
<1> QED BY <1>4, <1>5, <1>6, <1>7, <1>8 DEF RunStep

\* A crash loses the goroutines and keeps the records.
LEMMA HistoryCrash ==
  ASSUME TypeInv, HistoryInv, Crash
  PROVE  HistoryInv'
<1>1. /\ mgr' = "off" /\ resume' = {} /\ UNCHANGED <<setup, row>>
      /\ budget.crashes > 0 /\ budget' = [budget EXCEPT !.crashes = @ - 1]
      /\ \A i \in Ids : pc'[i] = "idle"
  BY DEF Crash
<1>2. Crashed' /\ (Faulted => Faulted')
  BY <1>1, Charged DEF Spendings
<1>3. Phases' /\ Drives' /\ RecoveryOwnsItsRuns'
  BY <1>1 DEF Phases, Drives, RecoveryOwnsItsRuns
<1>4. ASSUME ~ Faulted PROVE Recorded' /\ Driven' /\ (Overlap' = "skip" => Alone')
  <2>1. Recorded' /\ Driven'
    BY <1>1 DEF Recorded, Driven
  <2>2. ASSUME Overlap' = "skip" PROVE Alone'
    BY <1>1, <1>4, <2>2 DEF HistoryInv, Alone, Overlap
  <2> QED BY <2>1, <2>2
<1> QED BY <1>2, <1>3, <1>4 DEF HistoryInv

\* The manager, its goroutines and the history, step by step.
LEMMA JobStep == TypeInv /\ HistoryInv /\ [Next]_vars => TypeInv' /\ HistoryInv'
<1> SUFFICES ASSUME TypeInv, HistoryInv, [Next]_vars PROVE TypeInv' /\ HistoryInv'
  OBVIOUS
<1>1. ASSUME Boot PROVE TypeInv' /\ HistoryInv'
  <2>1. TypeInv'
    BY <1>1, BootTypes
  <2>2. CASE New \/ Recovered \/ maybeCatchup
    BY <2>1, <2>2, HistoryControl
  <2>3. CASE Start \/ \E i \in Ids : spawnResume(i) \/ ResumeRejected(i)
    BY <2>1, <2>3, HistoryRecovery
  <2>4. CASE CatchupFires
    BY <2>1, <2>4, HistoryFires
  <2> QED BY <1>1, <2>2, <2>3, <2>4, Zenon DEF Boot
<1>2. ASSUME Arm \/ fireTick \/ LoopExits PROVE TypeInv' /\ HistoryInv'
  BY <1>2, ScheduleTypes, HistoryControl
<1>3. ASSUME TickSpawns \/ \E kind \in setup.may.triggers : Trigger(kind)
      PROVE  TypeInv' /\ HistoryInv'
  BY <1>3, ScheduleTypes, HistoryFires
<1>4. ASSUME NEW i \in Ids, AsyncReply(i) \/ WaitReply(i) \/ RunStep(i) \/ ZombieEnds(i)
      PROVE  TypeInv' /\ HistoryInv'
  <2>1. TypeInv'
    BY <1>4, RunTypes DEF HistoryInv, Drives
  <2>2. CASE RunStep(i)
    BY <2>1, <2>2, HistoryRun
  <2>3. CASE AsyncReply(i) \/ WaitReply(i) \/ ZombieEnds(i)
    BY <2>1, <2>3, HistoryControl
  <2> QED BY <1>4, <2>2, <2>3
<1>5. ASSUME CtxDone \/ Stop \/ StopReturns \/ Passes \/ SetBack PROVE TypeInv' /\ HistoryInv'
  BY <1>5, EndTypes, HistoryControl
<1>6. ASSUME Crash PROVE TypeInv' /\ HistoryInv'
  BY <1>6, EndTypes, HistoryCrash
<1>7. ASSUME UNCHANGED vars PROVE TypeInv' /\ HistoryInv'
  <2>1. UNCHANGED <<setup, row, mgr, ctxDone, resume, loop, next, deadline, zombie, pc, cause,
                    out, request, now, budget>>
    BY <1>7 DEF vars
  <2>2. TypeInv'
    BY <2>1 DEF TypeInv, TypeOK, BudgetBound, FiringInTime, LoopRuns
  <2>3. /\ mgr' \in {"off", "new", "stopped"} => \A i \in Ids : pc[i] = "idle"
        /\ mgr' # "recover" => resume = {}
        /\ (Faulted => Faulted') /\ (Crashed => Crashed')
    BY <2>1 DEF HistoryInv, Phases, Faulted, Crashed
  <2> QED BY <2>1, <2>2, <2>3, HistoryQuiet
<1> QED BY <1>1, <1>2, <1>3, <1>4, <1>5, <1>6, <1>7, Zenon DEF Next
-----------------------------------------------------------------------------
(* The schedule.                                                           *)

LEMMA TickInit == Init => TickInv
<1> SUFFICES ASSUME Init PROVE TickInv
  OBVIOUS
<1>1. /\ \A i \in Ids : row[i].tick = 0 /\ row[i].ended = 0 /\ row[i].st = "none"
      /\ now = 1 /\ loop = "off" /\ mgr = "off"
  BY DEF Init
<1> QED BY <1>1 DEF TickInv, TicksPast, TimerOnTick, FiresNext, TicksDistinct

\* The parts of the clock's arithmetic.
LEMMA TickTypes ==
  ASSUME TypeInv
  PROVE  /\ \A i \in Ids : row[i].tick \in Nat /\ row[i].ended \in Nat
         /\ now \in Nat /\ now <= MaxTime /\ MaxTime \in Nat /\ next \in Nat
         /\ Retention \in Nat /\ Window \in Nat
         /\ ~ BackInTime => Monotonic = now
<1>1. /\ \A i \in Ids : row[i].tick \in Times /\ row[i].ended \in Times
      /\ now \in Times /\ next \in 0..(MaxTime + 1)
  BY DEF TypeInv, TypeOK, Row
<1>2. /\ \A b \in Spendings : setup.may[b] \in Nat /\ budget[b] \in Nat
      /\ Retention \in Nat /\ Window \in Nat
  BY SetupTypes DEF TypeInv
<1>3. budget["back"] <= setup.may["back"] /\ setup.may["back"] \in Nat /\ budget["back"] \in Nat
  BY <1>2 DEF TypeInv, BudgetBound, Spendings
<1>4. ~ BackInTime => Monotonic = now
  BY <1>1, <1>3, BoundAssumption DEF BackInTime, Monotonic, Times
<1> QED BY <1>1, <1>2, <1>4, BoundAssumption DEF Times

\* A step that leaves the records alone: time may pass, and a tick that is about to
\* fire stays the same one.
LEMMA TickQuiet ==
  ASSUME TypeInv, TypeInv', TickInv, ~ BackInTime, UNCHANGED <<setup, row>>, now' >= now,
         \/ /\ UNCHANGED <<loop, next, deadline>>
            /\ mgr' = "catchfire" => mgr = "catchfire"
         \/ mgr' # "catchfire" /\ loop' \in {"off", "arm"}
  PROVE  TickInv'
<1>1. /\ \A i \in Ids : row[i].tick \in Nat
      /\ now \in Nat /\ now' \in Nat /\ Retention \in Nat /\ next \in Nat
  BY TickTypes DEF TypeInv, TypeOK, Times
<1>2. Retention' = Retention /\ Window' = Window
  BY DEF Retention, Window
<1>3. TicksPast'
  BY <1>1, <1>2 DEF TickInv, TicksPast
<1>4. TimerOnTick'
  BY <1>1 DEF TickInv, TimerOnTick
<1>5. ASSUME Retention = 0 \/ Retention >= Window PROVE FiresNext' /\ TicksDistinct'
  BY <1>5 DEF TickInv, FiresNext, TicksDistinct
<1> QED BY <1>2, <1>3, <1>4, <1>5 DEF TickInv

\* A write to a record keeps its tick.
LEMMA TickWritten ==
  ASSUME TypeInv, TypeInv', TickInv, ~ BackInTime, UNCHANGED <<setup, loop, next, deadline, now, mgr>>,
         NEW i \in Ids, NEW st \in Runnable \cup Terminal, NEW e \in {0, now}, UpdateJobRun(i, st, e)
  PROVE  TickInv'
<1>1. /\ \A j \in Ids : row[j].tick \in Nat
      /\ now \in Nat /\ Retention \in Nat /\ next \in Nat /\ e \in Times
  BY TickTypes, ClockBounds DEF TypeInv, TypeOK
<1>2. Retention' = Retention /\ Window' = Window
  BY DEF Retention, Window
<1>3. /\ \A j \in Ids : row'[j].tick = row[j].tick /\ (j # i => row'[j] = row[j])
      /\ (row'[i].st = st /\ row'[i].ended = e) \/ row' = row
  BY <1>1, Written
<1>4. st \notin {"none", "pruned"}
  BY DEF Runnable, Terminal
<1>5. TicksPast'
  <2> SUFFICES ASSUME NEW j \in Ids
               PROVE  /\ row'[j].tick <= now /\ (row'[j].st = "none" => row'[j].tick = 0)
                      /\ row'[j].ended # 0 => row'[j].tick <= row'[j].ended
                      /\ row'[j].st = "pruned" => Retention > 0 /\ row'[j].tick < now - Retention
    BY <1>2 DEF TicksPast
  <2>1. CASE row'[j] = row[j]
    BY <2>1 DEF TickInv, TicksPast
  <2>2. CASE j = i /\ row'[i].st = st /\ row'[i].ended = e
    BY <1>1, <1>3, <1>4, <2>2 DEF TickInv, TicksPast
  <2> QED BY <1>3, <2>1, <2>2
<1>6. TimerOnTick'
  BY DEF TickInv, TimerOnTick
<1>7. ASSUME Retention = 0 \/ Retention >= Window PROVE FiresNext' /\ TicksDistinct'
  BY <1>3, <1>7 DEF TickInv, FiresNext, TicksDistinct
<1> QED BY <1>2, <1>5, <1>6, <1>7 DEF TickInv

\* A run is recorded under the tick that was due, or under none.
LEMMA TickAdmitted ==
  ASSUME TypeInv, TypeInv', TickInv, ~ BackInTime, UNCHANGED <<setup, now>>,
         NEW i \in Ids, NEW tick \in Times, NEW req, Admitted(i, tick, req),
         tick <= now,
         \/ tick = 0 /\ UNCHANGED <<loop, next, deadline, mgr>>
         \/ /\ Retention = 0 \/ Retention >= Window => \A j \in Ids : row[j].tick < tick
            /\ mgr' # "catchfire" /\ loop' = "arm"
  PROVE  TickInv'
<1>1. /\ \A j \in Ids : row[j].tick \in Nat
      /\ now \in Nat /\ Retention \in Nat /\ next \in Nat /\ tick \in Nat
  BY TickTypes DEF Times
<1>2. Retention' = Retention /\ Window' = Window
  BY DEF Retention, Window
<1>3. /\ row'[i].st = "pending" /\ row'[i].tick = tick /\ row'[i].ended = 0
      /\ \A j \in Ids \ {i} : row'[j] = row[j]
  BY DEF Admitted, TypeInv, TypeOK
<1>4. TicksPast'
  BY <1>1, <1>2, <1>3 DEF TickInv, TicksPast
<1>5. TimerOnTick'
  BY DEF TickInv, TimerOnTick
<1>6. ASSUME Retention = 0 \/ Retention >= Window PROVE FiresNext'
  <2>1. CASE tick = 0 /\ UNCHANGED <<loop, next, deadline, mgr>>
    <3> SUFFICES ASSUME mgr = "catchfire" \/ loop \in {"timer", "fire"}
                 PROVE  \A j \in Ids : row'[j].tick < next
      BY <2>1 DEF FiresNext
    <3>1. \A j \in Ids : row[j].tick < next
      BY <1>6 DEF TickInv, FiresNext
    <3> QED BY <1>1, <1>3, <2>1, <3>1
  <2>2. CASE mgr' # "catchfire" /\ loop' = "arm"
    BY <2>2 DEF FiresNext
  <2> QED BY <2>1, <2>2
<1>7. ASSUME Retention = 0 \/ Retention >= Window PROVE TicksDistinct'
  <2>1. TicksDistinct /\ (tick = 0 \/ \A j \in Ids : row[j].tick < tick)
    BY <1>7 DEF TickInv
  <2> QED BY <1>1, <1>3, <2>1 DEF TicksDistinct
<1> QED BY <1>2, <1>4, <1>5, <1>6, <1>7 DEF TickInv

LEMMA TickSpawned ==
  ASSUME TypeInv, TypeInv', TickInv, ~ BackInTime, UNCHANGED <<setup, now>>,
         NEW tick \in Times, NEW req, spawn(tick, req), tick <= now,
         \/ tick = 0 /\ UNCHANGED <<loop, next, deadline, mgr>>
         \/ /\ Retention = 0 \/ Retention >= Window => \A j \in Ids : row[j].tick < tick
            /\ mgr' # "catchfire" /\ loop' = "arm"
  PROVE  TickInv'
<1>1. ASSUME NEW i \in Ids, Admitted(i, tick, req) PROVE TickInv'
  BY <1>1, TickAdmitted
<1>2. CASE AdmitFails \/ AdmitRefused
  <2>1. row' = row /\ now' >= now
    BY <1>2, TickTypes DEF AdmitFails, AdmitRefused
  <2> QED BY <2>1, TickQuiet
<1> QED BY <1>1, <1>2, Spawned DEF TypeInv

\* Catch-up takes a tick that is due and later than the whole history, the part
\* that retention has removed included.
LEMMA TickCatchup ==
  ASSUME TypeInv, TypeInv', TickInv, ~ BackInTime, maybeCatchup
  PROVE  TickInv'
<1>1. UNCHANGED <<setup, row, now, deadline>> /\ mgr = "catchup" /\ now' >= now
  BY TickTypes DEF maybeCatchup
<1>2. CASE mgr' = "up" /\ loop' = "arm"
  BY <1>1, <1>2, TickQuiet
<1>3. CASE CatchupTick # 0 /\ mgr' = "catchfire" /\ next' = CatchupTick /\ loop' = loop
  <2>1. PICK last \in Times : last = LastScheduledFor /\ \A i \in Stored : row[i].tick <= last
    BY LastScheduledMax DEF TypeInv
  <2>2. PICK t \in 0..now : t = LastTick(last, now) /\ \A k \in Ticks : last < k /\ k <= now => k <= t
    BY LastTickMax DEF TypeInv, TypeOK
  <2>3. Window > 0 /\ Next_(last) <= now /\ now - t <= Window /\ next' = t
    BY <1>3, <2>1, <2>2 DEF CatchupTick
  <2>4. /\ \A i \in Ids : row[i].tick \in Nat
        /\ now \in Nat /\ now <= MaxTime /\ MaxTime \in Nat /\ Retention \in Nat /\ Window \in Nat
        /\ t \in Nat /\ last \in Nat
    BY TickTypes DEF Times
  <2>5. Next_(last) \in Ticks \cup {MaxTime + 1} /\ Next_(last) > last /\ Next_(last) \in 0..(MaxTime + 1)
    BY NextTick DEF TypeInv
  <2>6. last < t
    BY <2>2, <2>3, <2>4, <2>5
  <2>7. Retention' = Retention /\ Window' = Window /\ loop = "off"
    BY <1>1 DEF Retention, Window, TypeInv, LoopRuns, TypeOK
  <2>8. TicksPast'
    BY <1>1, <2>7 DEF TickInv, TicksPast
  <2>9. TimerOnTick'
    BY <1>1, <1>3, <2>3, <2>4, <2>7 DEF TimerOnTick
  <2>10. ASSUME Retention = 0 \/ Retention >= Window, NEW i \in Ids PROVE row[i].tick < t
    <3>1. CASE i \in Stored
      BY <2>1, <2>4, <2>6, <3>1
    <3>2. CASE row[i].st = "none"
      BY <2>4, <2>6, <3>2 DEF TickInv, TicksPast
    <3>3. CASE row[i].st = "pruned"
      <4>1. Retention > 0 /\ row[i].tick < now - Retention
        BY <3>3 DEF TickInv, TicksPast
      <4> QED BY <2>3, <2>4, <2>10, <4>1
    <3> QED BY <3>1, <3>2, <3>3 DEF Stored
  <2>11. ASSUME Retention = 0 \/ Retention >= Window PROVE FiresNext' /\ TicksDistinct'
    BY <1>1, <2>3, <2>10, <2>11 DEF FiresNext, TicksDistinct, TickInv
  <2> QED BY <2>7, <2>8, <2>9, <2>11 DEF TickInv
<1> QED BY <1>2, <1>3 DEF maybeCatchup

\* The schedule loop arms its timer for a tick after the clock, which is after
\* every tick recorded, and fires it when the clock has reached it.
LEMMA TickLoop ==
  ASSUME TypeInv, TypeInv', TickInv, ~ BackInTime, Arm \/ fireTick
  PROVE  TickInv'
<1>0. UNCHANGED <<setup, row, now, mgr>> /\ now' >= now /\ mgr # "catchfire" /\ loop \in {"arm", "timer"}
  BY TickTypes DEF Arm, fireTick, TypeInv, LoopRuns
<1>1. /\ \A i \in Ids : row[i].tick \in Nat
      /\ now \in Nat /\ next \in Nat /\ Monotonic = now
  BY TickTypes
<1>2. Retention' = Retention /\ Window' = Window
  BY <1>0 DEF Retention, Window
<1>3. TicksPast'
  BY <1>0, <1>2 DEF TickInv, TicksPast
<1>4. CASE Arm
  <2>1. PICK t \in 0..(MaxTime + 1) : t = Next_(now) /\ t > now
    BY NextTick DEF TypeInv, TypeOK
  <2>2. loop' = "timer" /\ next' = t /\ deadline' = Monotonic + (t - now)
    BY <1>4, <2>1 DEF Arm
  <2>3. deadline' = t /\ t \in Nat
    BY <1>1, <2>2, BoundAssumption
  <2>4. TimerOnTick'
    BY <1>0, <2>2, <2>3 DEF TimerOnTick
  <2>5. \A i \in Ids : row'[i].tick < next'
    BY <1>0, <1>1, <2>1, <2>2, <2>3 DEF TickInv, TicksPast
  <2>6. ASSUME Retention = 0 \/ Retention >= Window PROVE FiresNext' /\ TicksDistinct'
    BY <1>0, <2>5, <2>6 DEF FiresNext, TicksDistinct, TickInv
  <2> QED BY <1>2, <1>3, <2>4, <2>6 DEF TickInv
<1>5. CASE fireTick /\ loop' = "arm"
  BY <1>0, <1>5, TickQuiet
<1>6. CASE fireTick /\ loop' = "fire" /\ next' = next
  <2>1. loop = "timer" /\ deadline <= now
    BY <1>1, <1>6 DEF fireTick, Due, TypeInv, TypeOK
  <2>2. next <= now
    BY <2>1 DEF TickInv, TimerOnTick
  <2>3. TimerOnTick'
    BY <1>0, <1>6, <2>2 DEF TimerOnTick
  <2>4. ASSUME Retention = 0 \/ Retention >= Window PROVE FiresNext' /\ TicksDistinct'
    BY <1>0, <1>6, <2>1, <2>4 DEF FiresNext, TicksDistinct, TickInv
  <2> QED BY <1>2, <1>3, <2>3, <2>4 DEF TickInv
<1> QED BY <1>4, <1>5, <1>6 DEF fireTick

\* Retention removes a record only when its tick is beyond it.
LEMMA TickRetention ==
  ASSUME TypeInv, TypeInv', TickInv, ~ BackInTime, NEW i \in Ids, applyRetention(i)
  PROVE  TickInv'
<1>0. UNCHANGED <<setup, loop, next, deadline, now, mgr>>
  BY DEF applyRetention, procVars
<1>1. /\ \A j \in Ids : row[j].tick \in Nat /\ row[j].ended \in Nat
      /\ now \in Nat /\ Retention \in Nat /\ next \in Nat
  BY TickTypes
<1>2. Retention' = Retention /\ Window' = Window
  BY <1>0 DEF Retention, Window
<1>3. \A j \in Ids : \/ row'[j] = row[j]
                     \/ /\ Retention > 0 /\ Expired(j) /\ row'[j].st = "pruned"
                        /\ row'[j].tick = row[j].tick /\ row'[j].ended = row[j].ended
  BY DEF applyRetention, TypeInv, TypeOK, Row
<1>4. \A j \in Ids : Expired(j) => row[j].ended # 0 /\ row[j].ended < now - Retention
  BY DEF Expired
<1>5. TicksPast'
  <2> SUFFICES ASSUME NEW j \in Ids
               PROVE  /\ row'[j].tick <= now /\ (row'[j].st = "none" => row'[j].tick = 0)
                      /\ row'[j].ended # 0 => row'[j].tick <= row'[j].ended
                      /\ row'[j].st = "pruned" => Retention > 0 /\ row'[j].tick < now - Retention
    BY <1>0, <1>2 DEF TicksPast
  <2>1. CASE row'[j] = row[j]
    BY <2>1 DEF TickInv, TicksPast
  <2>2. CASE /\ Retention > 0 /\ Expired(j) /\ row'[j].st = "pruned"
             /\ row'[j].tick = row[j].tick /\ row'[j].ended = row[j].ended
    <3>1. row[j].tick <= now /\ row[j].tick <= row[j].ended /\ row[j].ended < now - Retention
      BY <1>4, <2>2 DEF TickInv, TicksPast
    <3> QED BY <1>1, <2>2, <3>1
  <2> QED BY <1>3, <2>1, <2>2
<1>6. TimerOnTick'
  BY <1>0 DEF TickInv, TimerOnTick
<1>7. \A j \in Ids : row'[j].tick = row[j].tick
  BY <1>3
<1>8. ASSUME Retention = 0 \/ Retention >= Window PROVE FiresNext' /\ TicksDistinct'
  BY <1>0, <1>7, <1>8 DEF TickInv, FiresNext, TicksDistinct
<1> QED BY <1>2, <1>5, <1>6, <1>8 DEF TickInv

LEMMA TickStep ==
  TypeInv /\ TypeInv' /\ HistoryInv /\ TickInv /\ [Next]_vars => TickInv'
<1> SUFFICES ASSUME TypeInv, TypeInv', HistoryInv, TickInv, [Next]_vars, ~ BackInTime' PROVE TickInv'
  BY DEF TickInv
<1>0. ~ BackInTime
  <2>1. setup' = setup
    BY DEF Next, Boot, New, Start, spawnResume, ResumeRejected, Recovered, maybeCatchup, CatchupFires,
       Arm, fireTick, TickSpawns, LoopExits, Trigger, AsyncReply, WaitReply, RunStep, Begin, EngineEnds,
       Record, applyRetention, Leave, ZombieEnds, CtxDone, Stop, StopReturns, Crash, Passes, SetBack,
       procVars, vars
  <2>2. budget'["back"] <= budget["back"]
    <3>1. \/ budget' = budget
          \/ \E b \in Spendings : budget' = [budget EXCEPT ![b] = @ - 1]
      BY DEF Next, Boot, New, Start, spawnResume, ResumeRejected, Recovered, maybeCatchup, CatchupFires,
         Arm, fireTick, TickSpawns, LoopExits, Trigger, AsyncReply, WaitReply, RunStep, Begin, EngineEnds,
         Record, applyRetention, Leave, ZombieEnds, CtxDone, Stop, StopReturns, Crash, Passes, SetBack,
         spawn, Admit, AdmitFails, AdmitRefused, UpdateJobRun, Spendings, vars
    <3>2. budget \in [Spendings -> Nat] /\ budget' \in [Spendings -> Nat]
      BY DEF TypeInv, TypeOK, Spendings
    <3> QED BY <3>1, <3>2 DEF Spendings
  <2>3. setup.may["back"] \in Nat /\ budget["back"] \in Nat /\ budget'["back"] \in Nat
    BY SetupTypes DEF TypeInv, TypeOK, Spendings
  <2> QED BY <2>1, <2>2, <2>3 DEF BackInTime
<1>00. now \in Nat /\ now >= now
  BY TickTypes
<1>1. ASSUME New \/ Start \/ Recovered PROVE TickInv'
  BY <1>0, <1>00, <1>1, TickQuiet DEF New, Start, Recovered
<1>2. ASSUME NEW i \in Ids, spawnResume(i) PROVE TickInv'
  BY <1>0, <1>00, <1>2, TickQuiet DEF spawnResume
<1>3. ASSUME NEW i \in Ids, ResumeRejected(i) PROVE TickInv'
  BY <1>0, <1>3, TickWritten DEF ResumeRejected, Terminal
<1>4. ASSUME CatchupFires PROVE TickInv'
  <2>1. next \in Times /\ next <= now /\ (Retention = 0 \/ Retention >= Window => \A j \in Ids : row[j].tick < next)
    BY <1>0, <1>4 DEF CatchupFires, TypeInv, FiringInTime, TickInv, TimerOnTick, FiresNext
  <2> QED BY <1>0, <1>4, <2>1, TickSpawned DEF CatchupFires
<1>5. ASSUME TickSpawns PROVE TickInv'
  <2>1. next \in Times /\ next <= now /\ (Retention = 0 \/ Retention >= Window => \A j \in Ids : row[j].tick < next)
    BY <1>0, <1>5 DEF TickSpawns, TypeInv, FiringInTime, TickInv, TimerOnTick, FiresNext
  <2>2. mgr' # "catchfire"
    BY <1>5 DEF TickSpawns, TypeInv, LoopRuns
  <2> QED BY <1>0, <1>5, <2>1, <2>2, TickSpawned DEF TickSpawns
<1>6. ASSUME NEW kind \in setup.may.triggers, Trigger(kind) PROVE TickInv'
  <2>1. 0 \in Times /\ 0 <= now
    BY <1>00, ClockBounds
  <2> QED BY <1>0, <1>6, <2>1, TickSpawned DEF Trigger, procVars
<1>7. ASSUME LoopExits \/ Crash PROVE TickInv'
  <2>1. mgr' # "catchfire"
    BY <1>7 DEF LoopExits, Crash, TypeInv, LoopRuns
  <2> QED BY <1>0, <1>00, <1>7, <2>1, TickQuiet DEF LoopExits, Crash
<1>8. ASSUME NEW i \in Ids, AsyncReply(i) \/ WaitReply(i) \/ ZombieEnds(i) \/ EngineEnds(i) \/ Leave(i)
      PROVE  TickInv'
  BY <1>0, <1>00, <1>8, TickQuiet DEF AsyncReply, WaitReply, ZombieEnds, EngineEnds, Leave, procVars
<1>9. ASSUME NEW i \in Ids, Begin(i) \/ Record(i) PROVE TickInv'
  <2>1. CASE Begin(i)
    BY <1>0, <2>1, TickWritten DEF Begin, Runnable, procVars
  <2>2. CASE Record(i)
    <3>1. out[i] \in Terminal
      BY <2>2 DEF Record, HistoryInv, Drives
    <3> QED BY <1>0, <2>2, <3>1, TickWritten DEF Record, procVars
  <2> QED BY <1>9, <2>1, <2>2
<1>10. ASSUME CtxDone \/ Stop \/ StopReturns PROVE TickInv'
  BY <1>0, <1>00, <1>10, TickQuiet DEF CtxDone, Stop, StopReturns
<1>11. ASSUME Passes PROVE TickInv'
  <2>1. now' >= now
    BY <1>00, <1>11 DEF Passes
  <2> QED BY <1>0, <1>11, <2>1, TickQuiet DEF Passes, procVars
<1>12. ~ SetBack
  <2> SUFFICES ASSUME SetBack PROVE FALSE
    OBVIOUS
  <2>1. setup' = setup /\ budget["back"] > 0 /\ budget' = [budget EXCEPT !["back"] = @ - 1]
    BY DEF SetBack, procVars
  <2>2. BackInTime'
    BY <2>1, Charged DEF Spendings
  <2> QED BY <2>2
<1>13. ASSUME UNCHANGED vars PROVE TickInv'
  BY <1>0, <1>00, <1>13, TickQuiet DEF vars
<1>14. ASSUME Boot PROVE TickInv'
  BY <1>0, <1>1, <1>2, <1>3, <1>4, <1>14, TickCatchup, Zenon DEF Boot
<1>15. ASSUME NEW i \in Ids, RunStep(i) PROVE TickInv'
  BY <1>0, <1>8, <1>9, <1>15, TickRetention, Zenon DEF RunStep
<1> QED BY <1>0, <1>5, <1>6, <1>7, <1>8, <1>10, <1>11, <1>12, <1>13, <1>14, <1>15, TickLoop, Zenon DEF Next
-----------------------------------------------------------------------------
LEMMA JobInvariant == Spec => [](TypeInv /\ HistoryInv /\ TickInv)
<1>1. Init => TypeInv /\ HistoryInv /\ TickInv
  BY TypeInit, HistoryInit, TickInit
<1>2. TypeInv /\ HistoryInv /\ TickInv /\ [Next]_vars => (TypeInv /\ HistoryInv /\ TickInv)'
  BY JobStep, TickStep
<1> QED BY <1>1, <1>2, PTL DEF Spec

\* Every variable of the job manager and every record of its history keeps its type:
\* the statuses written are the ones the store's queries know.
THEOREM JobTypes == Spec => []TypeOK
<1>1. TypeInv => TypeOK
  BY DEF TypeInv
<1> QED BY <1>1, JobInvariant, PTL

\* Recovery never starts a run that a goroutine drives already: the runs Start read
\* as runnable are runnable and undriven until they are resumed, although the read
\* and the resumption are separate steps.
THEOREM RecoverySound == Spec => []RecoveryOwnsItsRuns
<1>1. HistoryInv => RecoveryOwnsItsRuns
  BY DEF HistoryInv
<1> QED BY <1>1, JobInvariant, PTL

\* While no write of the history has failed, overlap: skip has one run under way, and
\* overlap: latest one that is not being canceled (unless the process has crashed),
\* for any order of triggers, ticks, catch-up, recovery and stops.
THEOREM OverlapSound == Spec => []OverlapHolds
<1>1. HistoryInv => OverlapHolds
  <2> SUFFICES ASSUME HistoryInv, ~ Faulted PROVE OverlapHolds
    BY DEF OverlapHolds
  <2>1. ASSUME Overlap = "skip" PROVE Cardinality(Current) <= 1
    <3>1. \A i, j \in Current : i = j
      BY <2>1 DEF HistoryInv, Alone, Current
    <3> QED BY <3>1, AtMostOne
  <2>2. ASSUME Overlap = "latest", ~ Crashed
        PROVE  Cardinality({i \in Current : cause[i] = "none"}) <= 1
    <3>1. \A i, j \in {k \in Current : cause[k] = "none"} : i = j
      BY <2>2 DEF HistoryInv, OneWanted, Current
    <3> QED BY <3>1, AtMostOne
  <2> QED BY <2>1, <2>2 DEF OverlapHolds
<1> QED BY <1>1, JobInvariant, PTL

\* No run is forgotten: once Start has returned, a record that is pending or running
\* has a goroutine, whatever crashes and stops came before.
THEOREM NoRunOrphaned == Spec => []NoOrphan
<1>1. HistoryInv => NoOrphan
  BY DEF HistoryInv, NoOrphan, Installed, Driven, Phases, Current
<1> QED BY <1>1, JobInvariant, PTL

\* When Stop has returned, the outcome of every run is in the history.
THEOREM StopSound == Spec => []StopPersists
<1>1. HistoryInv => StopPersists
  BY DEF HistoryInv, StopPersists, Driven, Phases
<1> QED BY <1>1, JobInvariant, PTL

\* With a clock that is not set back, and a history as long as the window of
\* catch-up, a tick of the schedule starts at most one run for ever: over the timer,
\* catch-up, crashes, restarts and the pruning of the history.
THEOREM TicksFireOnce == Spec => []TickOnce
<1>1. TickInv => TickOnce
  BY DEF TickInv, TickOnce, TicksDistinct
<1> QED BY <1>1, JobInvariant, PTL

\* A terminal status is final: recovery, a late goroutine or a second run never
\* overwrite it, also after failed writes; only retention removes the record.
THEOREM OutcomesFinal == Spec => TerminalIsFinal
<1>1. TypeInv /\ HistoryInv /\ [Next]_vars =>
        [\A i \in Ids : row[i].st \in Terminal => row'[i].st \in {row[i].st, "pruned"}]_vars
  <2> SUFFICES ASSUME TypeInv, HistoryInv, Next, NEW i \in Ids, row[i].st \in Terminal
               PROVE  row'[i].st \in {row[i].st, "pruned"}
    OBVIOUS
  <2>0. row \in [Ids -> Row] /\ row[i].st \notin Runnable \cup {"none"} /\ now \in Times /\ 0 \in Times
    BY ClockBounds DEF TypeInv, TypeOK, Runnable, Terminal
  <2>1. ASSUME row' = row PROVE row'[i].st \in {row[i].st, "pruned"}
    BY <2>1
  <2>2. ASSUME NEW j \in Ids, NEW st \in Runnable \cup Terminal, NEW e \in Times,
               UpdateJobRun(j, st, e), row[j].st \in Runnable
        PROVE  row'[i].st \in {row[i].st, "pruned"}
    <3>1. i # j => row'[i] = row[i]
      BY <2>2, Written
    <3> QED BY <2>0, <2>2, <3>1
  <2>3. ASSUME NEW tick, NEW req, spawn(tick, req) PROVE row'[i].st \in {row[i].st, "pruned"}
    <3>1. ASSUME NEW j \in Ids, Admitted(j, tick, req) PROVE row'[i] = row[i]
      BY <2>0, <3>1 DEF Admitted
    <3>2. CASE AdmitFails \/ AdmitRefused
      BY <3>2 DEF AdmitFails, AdmitRefused
    <3> QED BY <2>3, <3>1, <3>2, Spawned DEF TypeInv
  <2>4. ASSUME NEW j \in Ids, ResumeRejected(j) PROVE row'[i].st \in {row[i].st, "pruned"}
    BY <2>0, <2>2, <2>4 DEF ResumeRejected, HistoryInv, RecoveryOwnsItsRuns, Terminal
  <2>5. ASSUME NEW j \in Ids, Begin(j) PROVE row'[i].st \in {row[i].st, "pruned"}
    <3>1. row[j].st \in Runnable /\ UpdateJobRun(j, "running", 0) /\ "running" \in Runnable
      BY <2>5 DEF Begin, HistoryInv, Drives, Runnable
    <3> QED BY <2>0, <2>2, <3>1
  <2>6. ASSUME NEW j \in Ids, Record(j) PROVE row'[i].st \in {row[i].st, "pruned"}
    <3>1. row[j].st \in Runnable /\ UpdateJobRun(j, out[j], now) /\ out[j] \in Terminal
      BY <2>6 DEF Record, HistoryInv, Drives
    <3> QED BY <2>0, <2>2, <3>1
  <2>7. ASSUME NEW j \in Ids, applyRetention(j) PROVE row'[i].st \in {row[i].st, "pruned"}
    BY <2>0, <2>7 DEF applyRetention, Row
  <2>8. CASE Boot
    BY <2>1, <2>3, <2>4, <2>8 DEF Boot, New, Start, spawnResume, Recovered, maybeCatchup, CatchupFires
  <2>9. CASE \E j \in Ids : AsyncReply(j) \/ WaitReply(j) \/ RunStep(j) \/ ZombieEnds(j)
    BY <2>1, <2>5, <2>6, <2>7, <2>9 DEF AsyncReply, WaitReply, RunStep, ZombieEnds, EngineEnds, Leave
  <2>10. CASE TickSpawns \/ \E kind \in setup.may.triggers : Trigger(kind)
    BY <2>3, <2>10 DEF TickSpawns, Trigger
  <2>11. CASE \/ Arm \/ fireTick \/ LoopExits \/ CtxDone \/ Stop \/ StopReturns \/ Crash \/ Passes \/ SetBack
    BY <2>1, <2>11 DEF Arm, fireTick, LoopExits, CtxDone, Stop, StopReturns, Crash, Passes, SetBack
  <2> QED BY <2>8, <2>9, <2>10, <2>11, Zenon DEF Next
<1> QED BY <1>1, JobInvariant, PTL DEF Spec, TerminalIsFinal
=============================================================================
