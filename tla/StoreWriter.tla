----------------------------- MODULE StoreWriter -----------------------------
(***************************************************************************)
(* The single write path of the SQLite store (internal/store/writer.go):   *)
(* callers queue requests and block; one writer goroutine drains the queue *)
(* into a group, coalesces it, runs it in transactions and answers every   *)
(* caller.  The store is closed, or its process dies, at any point, and is *)
(* opened again over the same tables.                                      *)
(*                                                                         *)
(* A store file belongs to one pipeline.  A request is an append of a      *)
(* spool row, a checkpoint, the state of a source, or one of the           *)
(* statements the writer runs one by one (rest: a dead letter, a delete, a *)
(* job-run record), which are here a record of their own.  Requests are    *)
(* numbered in the order they enter the queue, and each is made by a      *)
(* goroutine of its own, which blocks until it is answered.                *)
(***************************************************************************)
EXTENDS Integers, Sequences, FiniteSetsExt, Functions

CONSTANTS Sources,
          MaxRows,    \* spool rows of one transaction
          MaxReqs,    \* bound: requests ever made
          MaxVal,     \* bound: progress of one engine run (checkpoint, frontier)
          MaxOpens,   \* bound: times the store is opened
          RunsPerOpen \* bound: engine runs over one open store

ASSUME StoreWriterAssumption ==
  /\ Sources # {} /\ MaxRows \in Nat \ {0} /\ MaxReqs \in Nat /\ MaxVal \in Nat \ {0}
  /\ MaxOpens \in Nat \ {0} /\ RunsPerOpen \in Nat \ {0}

VARIABLES
  \* the tables
  rows,          \* spool rows in sequence order: the append each came from
  cp,            \* checkpoint
  state,         \* state[s]: position the stored state of source s stands for
  records,       \* the rest statements that took effect
  \* the writer of the open store
  queue, closed, wake,
  wpc,           \* control point of the writer goroutine
  batch,         \* the drained group, before it is planned
  appends, stmts,\* what is left of the planned group
  failed,        \* outcome of the transaction being answered
  cpMark, srcMark, \* high-water marks: cpSeqs, srcSeqs
  \* the callers
  opens, runs,   \* openings so far, engine runs over the current one
  cpBase, base,  \* checkpoint and source position the current run resumed from
  reqs,          \* every request made
  unsent,        \* requests whose caller has not sent its wake-up yet
  answer, resolves \* answer and number of resolve calls of each request

tables  == <<rows, cp, state, records>>
group   == <<batch, appends, stmts, failed>>
marks   == <<cpMark, srcMark>>
answers == <<answer, resolves>>
client  == <<reqs, unsent>>
runVars == <<opens, runs, cpBase, base>>
vars == <<tables, queue, closed, wake, wpc, group, marks, runVars, client, answers>>

Ids == 1..MaxReqs
Kinds == {"append", "checkpoint", "state", "rest"}
\* val: the checkpoint or the frontier srcSeq; pos: the position a state stands for.
Request == [kind : Kinds, val : Nat, src : Sources, pos : Nat]

Of(ids, kind) == {i \in ids : reqs[i].kind = kind}
OfSource(ids, s) == {i \in Of(ids, "state") : reqs[i].src = s}
Elems(q) == {q[i] : i \in 1..Len(q)}

Init ==
  /\ rows = <<>> /\ cp = 0 /\ state = [s \in Sources |-> 0] /\ records = {}
  /\ queue = <<>> /\ closed = FALSE /\ wake = FALSE /\ wpc = "take"
  /\ batch = <<>> /\ appends = <<>> /\ stmts = {} /\ failed = FALSE
  /\ cpMark = 0 /\ srcMark = [s \in Sources |-> 0]
  /\ opens = 1 /\ runs = 1 /\ cpBase = 0 /\ base = [s \in Sources |-> 0]
  /\ reqs = <<>> /\ unsent = {}
  /\ answer = [i \in Ids |-> "none"] /\ resolves = [i \in Ids |-> 0]

\* resolve every request of ids with outcome; a second resolve of one panics.
Resolve(ids, outcome) ==
  /\ answer' = [i \in Ids |-> IF i \in ids THEN outcome ELSE answer[i]]
  /\ resolves' = [i \in Ids |-> IF i \in ids THEN resolves[i] + 1 ELSE resolves[i]]

-----------------------------------------------------------------------------
(***************************************************************************)
(* The callers.  The frontier of a source counts the emissions of one run, *)
(* so the state it stands for is base + frontier; a checkpoint is beyond   *)
(* the one the run recovered.                                              *)
(***************************************************************************)
Wanted ==
  UNION {
    {[kind |-> k, val |-> 0, src |-> s, pos |-> 0] : k \in {"append", "rest"},
                                                    s \in {CHOOSE x \in Sources : TRUE}},
    {[kind |-> "checkpoint", val |-> cpBase + v, src |-> s, pos |-> 0] :
        v \in 1..MaxVal, s \in {CHOOSE x \in Sources : TRUE}},
    {[kind |-> "state", val |-> v, src |-> s, pos |-> base[s] + v] :
        v \in 1..MaxVal, s \in Sources}}

\* enqueue: refused once closed, else queued under the lock.
Enqueue ==
  /\ Len(reqs) < MaxReqs
  /\ \E r \in Wanted : reqs' = Append(reqs, r)
  /\ LET i == Len(reqs) + 1 IN
       IF closed
       THEN Resolve({i}, "refused") /\ UNCHANGED <<queue, unsent>>
       ELSE /\ queue' = Append(queue, i) /\ unsent' = unsent \cup {i}
            /\ UNCHANGED answers
  /\ UNCHANGED <<tables, closed, wake, wpc, group, marks, runVars>>

\* The wake-up is sent after the unlock; a pending one is enough.
Wake ==
  /\ \E i \in unsent : unsent' = unsent \ {i}
  /\ wake' = TRUE
  /\ UNCHANGED <<tables, queue, closed, wpc, group, marks, runVars, reqs, answers>>

Waiting == {i \in 1..Len(reqs) : answer[i] = "none"}

\* The next engine run over the same open store (a job manager's next run).
NextRun ==
  /\ Waiting = {} /\ unsent = {}
  /\ ~ closed /\ runs < RunsPerOpen
  /\ runs' = runs + 1 /\ cpBase' = cp /\ base' = state
  /\ UNCHANGED <<tables, queue, closed, wake, wpc, group, marks, opens, client, answers>>

-----------------------------------------------------------------------------
(***************************************************************************)
(* The writer goroutine.  takeAll takes the whole queue, leaves once the   *)
(* store is closed and the queue empty, or sleeps until the next wake-up.  *)
(***************************************************************************)
takeAll ==
  /\ wpc = "take"
  /\ batch' = queue /\ queue' = <<>>
  /\ wpc' = IF queue # <<>> THEN "collect" ELSE IF closed THEN "exited" ELSE "sleep"
  /\ UNCHANGED <<tables, closed, wake, appends, stmts, failed, marks, runVars, client, answers>>

Sleep ==
  /\ wpc = "sleep" /\ wake
  /\ wake' = FALSE /\ wpc' = "take"
  /\ UNCHANGED <<tables, queue, closed, group, marks, runVars, client, answers>>

\* Variant: companions join in front of the drained group.
JoinedInFront == queue \o batch
Joined == batch \o queue

\* collect: companions queued meanwhile may join a group below MaxRows.
Collect ==
  /\ wpc = "collect" /\ Len(batch) < MaxRows /\ ~ closed /\ queue # <<>>
  /\ batch' = Joined /\ queue' = <<>>
  /\ UNCHANGED <<tables, closed, wake, wpc, appends, stmts, failed, marks, runVars, client,
                 answers>>

\* planWriteBatch: appends keep queue order (kept[n] is the place of the n-th one),
\* the other requests ride the first transaction.
planWriteBatch ==
  /\ wpc = "collect"
  /\ LET places == {k \in 1..Len(batch) : reqs[batch[k]].kind = "append"} IN
       \E kept \in Bijection(1..Cardinality(places), places) :
         /\ \A m, n \in DOMAIN kept : m < n => kept[m] < kept[n]
         /\ appends' = [n \in DOMAIN kept |-> batch[kept[n]]]
  /\ stmts' = Elems(batch) \ Elems(appends')
  /\ batch' = <<>> /\ wpc' = "satisfy"
  /\ UNCHANGED <<tables, queue, closed, wake, failed, marks, runVars, client, answers>>

\* Variant: the first request of a source keeps its place in the group.
NewestFirst(ids) == CHOOSE i \in ids : \A j \in ids : i <= j

\* The newest pair of one source: the largest frontier, the later request on a tie.
Newest(ids) ==
  CHOOSE i \in ids : \A j \in ids \ {i} :
    reqs[i].val > reqs[j].val \/ (reqs[i].val = reqs[j].val /\ i > j)

CoalescedCp == Max({0} \cup {reqs[i].val : i \in Of(stmts, "checkpoint")})

(***************************************************************************)
(* resolveSatisfied: a coalesced checkpoint or state at or below its mark  *)
(* is durable already; its waiters leave the group before the transaction. *)
(***************************************************************************)
Satisfied ==
  {i \in Of(stmts, "checkpoint") : CoalescedCp <= cpMark}
    \cup {i \in Of(stmts, "state") :
            reqs[Newest(OfSource(stmts, reqs[i].src))].val <= srcMark[reqs[i].src]}

\* Variant: the satisfied waiters stay linked to the group.
UnlinkedNot == stmts
Unlinked == stmts \ Satisfied

resolveSatisfied ==
  /\ wpc = "satisfy"
  /\ Resolve(Satisfied, "ok")
  /\ stmts' = Unlinked
  /\ wpc' = "begin"
  /\ UNCHANGED <<tables, queue, closed, wake, batch, appends, failed, marks, runVars, client>>

\* The appends of the next transaction, and everyone who waits on it.
Chunk == SubSeq(appends, 1, IF Len(appends) < MaxRows THEN Len(appends) ELSE MaxRows)

\* Variant: the outcome of one chunk is given to the whole group.
InTxGroup == Elems(appends) \cup stmts
InTx == Elems(Chunk) \cup stmts

(***************************************************************************)
(* withTx: the statements fail, or the store is found closing and the      *)
(* transaction is rolled back; otherwise it goes on to commit.             *)
(***************************************************************************)
TxRefused ==
  /\ wpc = "begin"
  /\ failed' = TRUE /\ wpc' = "answer"
  /\ UNCHANGED <<tables, queue, closed, wake, batch, appends, stmts, marks, runVars, client,
                 answers>>

TxReady ==
  /\ wpc = "begin" /\ ~ closed
  /\ wpc' = "commit"
  /\ UNCHANGED <<tables, queue, closed, wake, group, marks, runVars, client, answers>>

\* Variant: a committed group leaves the marks behind.
MarkedNot(mark, v) == mark
\* applyMarks
Marked(mark, v) == IF v > mark THEN v ELSE mark

Coalesced(s) == reqs[Newest(OfSource(stmts, s))]

\* insertSpoolRows and execStatements are committed, then the marks move.
TxCommit ==
  /\ wpc = "commit"
  /\ rows' = rows \o Chunk
  /\ cp' = IF CoalescedCp > cpMark THEN CoalescedCp ELSE cp
  /\ cpMark' = Marked(cpMark, CoalescedCp)
  /\ state' = [s \in Sources |->
        IF OfSource(stmts, s) # {} /\ Coalesced(s).val > srcMark[s] THEN Coalesced(s).pos
        ELSE state[s]]
  /\ srcMark' = [s \in Sources |->
        IF OfSource(stmts, s) = {} THEN srcMark[s] ELSE Marked(srcMark[s], Coalesced(s).val)]
  /\ records' = records \cup Of(stmts, "rest")
  /\ failed' = FALSE /\ wpc' = "answer"
  /\ UNCHANGED <<queue, closed, wake, batch, appends, stmts, runVars, client, answers>>

\* tx.Commit fails: nothing landed.
CommitFails ==
  /\ wpc = "commit"
  /\ failed' = TRUE /\ wpc' = "answer"
  /\ UNCHANGED <<tables, queue, closed, wake, batch, appends, stmts, marks, runVars, client,
                 answers>>

\* Every waiter of the transaction is answered; further chunks follow alone.
Answer ==
  /\ wpc = "answer"
  /\ Resolve(InTx, IF failed THEN "refused" ELSE "ok")
  /\ appends' = SubSeq(appends, Len(Chunk) + 1, Len(appends))
  /\ stmts' = {}
  /\ wpc' = IF appends' = <<>> THEN "take" ELSE "begin"
  /\ UNCHANGED <<tables, queue, closed, wake, batch, failed, marks, runVars, client>>

-----------------------------------------------------------------------------
\* Variant: shutdown forgets the requests still queued.
PendingForgotten == {}
Pending == Elems(queue)

\* shutdown: refuse what is queued, wake the writer, which then leaves.
Close ==
  /\ ~ closed
  /\ closed' = TRUE /\ wake' = TRUE
  /\ queue' = <<>> /\ Resolve(Pending, "refused")
  /\ UNCHANGED <<tables, wpc, group, marks, runVars, client>>

\* The tables survive; the next opening starts a new writer and a new run.
Reopened ==
  /\ opens < MaxOpens
  /\ opens' = opens + 1 /\ runs' = 1 /\ cpBase' = cp /\ base' = state
  /\ queue' = <<>> /\ closed' = FALSE /\ wake' = FALSE /\ wpc' = "take"
  /\ batch' = <<>> /\ appends' = <<>> /\ stmts' = {} /\ failed' = FALSE
  /\ cpMark' = 0 /\ srcMark' = [s \in Sources |-> 0]
  /\ UNCHANGED tables

Open ==
  /\ wpc = "exited" /\ unsent = {}
  /\ Reopened
  /\ UNCHANGED <<client, answers>>

\* The process dies; requests without an answer never get one.
Crash ==
  /\ Reopened
  /\ unsent' = {}
  /\ answer' = [i \in Ids |-> IF i \in Waiting THEN "lost" ELSE answer[i]]
  /\ UNCHANGED <<reqs, resolves>>

Writer ==
  \/ takeAll \/ Sleep \/ planWriteBatch \/ resolveSatisfied
  \/ TxRefused \/ TxReady \/ TxCommit \/ CommitFails \/ Answer

Next ==
  \/ Enqueue \/ Wake \/ NextRun \/ Writer \/ Collect \/ Close \/ Open \/ Crash

Spec == Init /\ [][Next]_vars

(***************************************************************************)
(* Fairness: the writer goroutine and a caller that has queued a request   *)
(* keep running.  Nothing makes a caller ask, or the store close.          *)
(***************************************************************************)
FairSpec == Spec /\ WF_vars(Writer) /\ WF_vars(Wake)

-----------------------------------------------------------------------------
TypeOK ==
  /\ rows \in Seq(Ids) /\ cp \in Nat /\ state \in [Sources -> Nat] /\ records \subseteq Ids
  /\ queue \in Seq(Ids) /\ closed \in BOOLEAN /\ wake \in BOOLEAN
  /\ wpc \in {"take", "sleep", "collect", "satisfy", "begin", "commit", "answer", "exited"}
  /\ batch \in Seq(Ids) /\ appends \in Seq(Ids) /\ stmts \subseteq Ids /\ failed \in BOOLEAN
  /\ cpMark \in Nat /\ srcMark \in [Sources -> Nat]
  /\ opens \in 1..MaxOpens /\ runs \in 1..RunsPerOpen
  /\ cpBase \in Nat /\ base \in [Sources -> Nat]
  /\ reqs \in Seq(Request) /\ Len(reqs) <= MaxReqs
  /\ unsent \subseteq Ids
  /\ answer \in [Ids -> {"none", "ok", "refused", "lost"}]
  /\ resolves \in [Ids -> 0..1]

(***************************************************************************)
(* A caller told "ok" can rely on it: its row is in the spool, its record  *)
(* in its table, and its checkpoint or source state, or a later one, is    *)
(* durable, whatever it was grouped with or superseded by.                 *)
(***************************************************************************)
OkMeansDurable ==
  \A i \in 1..Len(reqs) : answer[i] = "ok" =>
    LET r == reqs[i] IN
      CASE r.kind = "append"     -> i \in Elems(rows)
        [] r.kind = "rest"       -> i \in records
        [] r.kind = "checkpoint" -> cp >= r.val
        [] r.kind = "state"      -> state[r.src] >= r.pos

(***************************************************************************)
(* The refusal contract: a caller told of an error may repeat its request, *)
(* since nothing of it landed.                                             *)
(***************************************************************************)
RefusedMeansAbsent ==
  \A i \in 1..Len(reqs) : answer[i] = "refused" => i \notin Elems(rows) /\ i \notin records

(***************************************************************************)
(* Spool sequences follow admission order across groups and chunks, and no *)
(* row is written twice.                                                   *)
(***************************************************************************)
SpoolInQueueOrder == \A i, j \in 1..Len(rows) : i < j => rows[i] < rows[j]

\* Every caller is answered truthfully: an accepted write is durable and in order, a
\* refused one has left nothing.
AnswersAreTrue == OkMeansDurable /\ RefusedMeansAbsent /\ SpoolInQueueOrder

\* Coalescing and the marks keep the durable checkpoint and source states
\* from moving back, whatever order the callers ask in.
NeverRegresses == [][cp' >= cp /\ \A s \in Sources : state'[s] >= state[s]]_vars

(***************************************************************************)
(* Close: a write not committed when it begins is refused, so nothing      *)
(* lands after it.                                                         *)
(***************************************************************************)
NothingAfterClose == [][closed /\ closed' => UNCHANGED tables]_vars

(***************************************************************************)
(* Every caller gets a definite answer, faults and Close notwithstanding   *)
(* (a crash ends the caller too): no wake-up is lost.                      *)
(***************************************************************************)
EveryCallReturns == \A i \in Ids : (i \in Waiting) ~> (i \notin Waiting)
=============================================================================
