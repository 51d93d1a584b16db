---------------------------- MODULE StreamSource ----------------------------
(***************************************************************************)
(* The sources without files (registry/builtin/sql_source.go, kafka.go,    *)
(* http.go, cron_source.go): an upstream of items 1, 2, ... that is pulled *)
(* in order (sql, kafka) or pushed by concurrent callers (http, cron), and *)
(* the Commit that turns the engine's frontier into a position to resume   *)
(* from.  The source goroutine, its callers and the committer interleave   *)
(* around the source's mutex.                                              *)
(***************************************************************************)
EXTENDS Integers, FiniteSets, FiniteSetsExt

CONSTANTS
  StreamSetups,  \* source kinds, each with bounds on its environment
  MaxItems       \* bound: items of the upstream

\* A page as one message is an option of the sql source alone.
ASSUME StreamAssumption ==
  /\ MaxItems \in Nat
  /\ StreamSetups \subseteq
       [kind : {"sql", "kafka", "http", "cron"}, size : Nat \ {0}, whole : BOOLEAN,
        top : 0..MaxItems, may : [refusals : Nat, faults : Nat, restarts : Nat]]
  /\ \A p \in StreamSetups : p.whole => p.kind = "sql"

VARIABLES
  plan,      \* the kind, its page size and the bounds, fixed
  top,       \* items the upstream holds
  run,       \* where Run or Pull is
  pulled,    \* the last item pulled (pageKeys)
  page,      \* the page in hand: the items after from, to to
  calls,     \* emissions between their sequence number and the engine's answer
  nextSeq,
  pending,   \* emissions recorded for Commit: seq and item
  last,      \* lastCommitted
  mark,      \* the watermark in memory
  saved,     \* the position a restart resumes from: state document or group offset
  spooled,   \* history: items the engine has accepted
  answered,  \* history: items whose caller was told they were accepted
  admitted,  \* emissions of this run that the engine accepted
  through,   \* the engine's frontier: emissions of this run that are committed
  can        \* what is left of the bounds

streamVars == <<plan, top, run, pulled, page, calls, nextSeq, pending, last, mark,
                saved, spooled, answered, admitted, through, can>>
posVars == <<pulled, page>>
commitVars == <<pending, last, mark, saved>>
histVars == <<spooled, answered>>
engineVars == <<admitted, through>>

Pulls == plan.kind \in {"sql", "kafka"}

NoPage(at) == [from |-> at, to |-> at]

StreamInit ==
  /\ plan \in StreamSetups
  /\ top = plan.top /\ can = plan.may
  /\ run = "down" /\ pulled = 0 /\ page = NoPage(0) /\ calls = {} /\ nextSeq = 0
  /\ pending = {} /\ last = 0 /\ mark = 0 /\ saved = 0
  /\ spooled = {} /\ answered = {} /\ admitted = {} /\ through = 0

Spend(what) == can' = [can EXCEPT ![what] = @ - 1]

\* Init and the beginning of Run or Pull: the position is restored, the numbering of
\* emissions starts again.
Begin ==
  /\ run = "down"
  /\ run' = "page" /\ pulled' = saved /\ page' = NoPage(saved) /\ mark' = saved
  /\ nextSeq' = 0 /\ pending' = {} /\ last' = 0 /\ admitted' = {} /\ through' = 0
  /\ UNCHANGED <<plan, top, calls, saved, histVars, can>>

\* Pull: one query returns the next rows in key order; none ends the pull.
\* FetchMessage of kafka returns the next message.
Fetch ==
  /\ Pulls /\ run = "page" /\ calls = {}
  /\ \/ /\ pulled < top
        /\ page' = [from |-> pulled, to |-> Min({top, pulled + plan.size})]
        /\ run' = "rows"
     \/ /\ pulled = top /\ plan.kind = "sql"
        /\ run' = "exhausted" /\ UNCHANGED page
  /\ UNCHANGED <<plan, top, pulled, calls, nextSeq, commitVars, histVars, engineVars, can>>

\* Mutant of Number: kafka records the emission after emit, as sql does.
NumberLate(item) ==
  /\ nextSeq' = nextSeq + 1
  /\ calls' = calls \union {[seq |-> nextSeq + 1, item |-> item, ok |-> FALSE]}
  /\ UNCHANGED pending

\* emitRow, the page emission and the loop of kafka: a sequence number is taken under
\* the mutex.  kafka records the emission for Commit here, sql when emit has returned.
Number(item) ==
  /\ nextSeq' = nextSeq + 1
  /\ calls' = calls \union {[seq |-> nextSeq + 1, item |-> item, ok |-> FALSE]}
  /\ pending' = IF plan.kind = "kafka"
                THEN pending \union {[seq |-> nextSeq + 1, item |-> item]} ELSE pending

\* Pull, Run: the next row, or the whole page (emit: page), is offered to the engine.
Offer ==
  LET item == IF plan.whole THEN page.to ELSE pulled + 1 IN
  /\ run = "rows" /\ calls = {} /\ pulled < page.to
  /\ Number(item) /\ pulled' = item
  /\ UNCHANGED <<plan, top, run, page, last, mark, saved, histVars, engineVars, can>>

\* The handler of a POST, the callback of a tick: its item is new, and several may be
\* under way.  A tick is dropped when Run has ended.
Push ==
  /\ ~Pulls /\ run = "page" /\ top < MaxItems
  /\ top' = top + 1 /\ Number(top + 1)
  /\ UNCHANGED <<plan, run, posVars, last, mark, saved, histVars, engineVars, can>>

\* emit returns nil: the item, or the page that ends in it, is durable in the spool.
Accept(c) ==
  /\ c \in calls /\ ~c.ok
  /\ calls' = (calls \ {c}) \union {[c EXCEPT !.ok = TRUE]}
  /\ spooled' = spooled \union (IF plan.whole THEN (page.from + 1)..c.item ELSE {c.item})
  /\ admitted' = admitted \union {c.seq}
  /\ UNCHANGED <<plan, top, run, posVars, nextSeq, commitVars, answered, through, can>>

\* Pull: a page shorter than its size is the last one.
AfterRow ==
  IF run # "rows" \/ pulled < page.to THEN run
  ELSE IF plan.kind = "sql" /\ page.to - page.from < plan.size THEN "exhausted"
  ELSE "page"

\* Mutant of Return: the http handler answers before emit has returned.
ReturnEarly(c) ==
  /\ c \in calls
  /\ calls' = calls \ {c} /\ run' = AfterRow
  /\ pending' = IF plan.kind = "sql" THEN pending \union {[seq |-> c.seq, item |-> c.item]}
                ELSE pending
  /\ answered' = IF plan.kind = "http" THEN answered \union {c.item} ELSE answered
  /\ UNCHANGED <<plan, top, posVars, nextSeq, last, mark, saved, spooled, engineVars, can>>

\* After emit: sql records the emission under the mutex, http answers 202.
Return(c) ==
  /\ c \in calls /\ c.ok
  /\ calls' = calls \ {c} /\ run' = AfterRow
  /\ pending' = IF plan.kind = "sql" THEN pending \union {[seq |-> c.seq, item |-> c.item]}
                ELSE pending
  /\ answered' = IF plan.kind = "http" THEN answered \union {c.item} ELSE answered
  /\ UNCHANGED <<plan, top, posVars, nextSeq, last, mark, saved, spooled, engineVars, can>>

\* emit refuses.  sql, kafka and cron report a failed source and end; http answers 503
\* and goes on.
Refuse(c) ==
  /\ c \in calls /\ ~c.ok /\ can.refusals > 0 /\ Spend("refusals")
  /\ calls' = calls \ {c}
  /\ run' = IF plan.kind = "http" THEN run ELSE "failed"
  /\ UNCHANGED <<plan, top, posVars, nextSeq, commitVars, histVars, engineVars>>

\* The engine commits accepted emissions in order, also before emit has returned.
Commits ==
  /\ through + 1 \in admitted
  /\ through' = through + 1
  /\ UNCHANGED <<plan, top, run, posVars, calls, nextSeq, commitVars, histVars, admitted,
                 can>>

Scanned == {q \in pending : last < q.seq /\ q.seq <= through}

\* Mutant of Frontier: the last emission, committed or not.
FrontierPulled == IF pending = {} THEN mark ELSE Max({q.item : q \in pending})

\* Commit: the position of the last emission within the committed prefix.
Frontier == IF Scanned = {} THEN mark ELSE Max({q.item : q \in Scanned})

\* Commit of sql, and the write of its document.
CommitState ==
  /\ plan.kind = "sql" /\ run # "down" /\ last < through
  /\ pending' = pending \ Scanned /\ last' = through
  /\ mark' = Frontier /\ saved' = Frontier
  /\ UNCHANGED <<plan, top, run, posVars, calls, nextSeq, histVars, engineVars, can>>

\* Commit of kafka: the entries are dropped, then the offsets go to the broker, which
\* may fail.
CommitOffsets ==
  /\ plan.kind = "kafka" /\ run # "down" /\ last < through
  /\ pending' = pending \ Scanned /\ last' = through
  /\ \/ /\ mark' = Frontier /\ saved' = Frontier /\ UNCHANGED can
     \/ /\ can.faults > 0 /\ Spend("faults") /\ UNCHANGED <<mark, saved>>
  /\ UNCHANGED <<plan, top, run, posVars, calls, nextSeq, histVars, engineVars>>

\* The upstream grows at its end.
Grow ==
  /\ Pulls /\ top < MaxItems
  /\ top' = top + 1
  /\ UNCHANGED <<plan, run, posVars, calls, nextSeq, commitVars, histVars, engineVars, can>>

\* The query fails: a failed source.  kafka tries again.
QueryFails ==
  /\ plan.kind = "sql" /\ run = "page" /\ can.faults > 0 /\ Spend("faults")
  /\ run' = "failed"
  /\ UNCHANGED <<plan, top, posVars, calls, nextSeq, commitVars, histVars, engineVars>>

\* The run ends, by a stop or a crash: what was not saved is gone.
End ==
  /\ run # "down" /\ can.restarts > 0 /\ Spend("restarts")
  /\ run' = "down" /\ calls' = {} /\ pending' = {} /\ last' = 0 /\ mark' = 0
  /\ pulled' = 0 /\ page' = NoPage(0) /\ nextSeq' = 0 /\ admitted' = {} /\ through' = 0
  /\ UNCHANGED <<plan, top, saved, histVars>>

StreamNext ==
  \/ Begin \/ Fetch \/ Offer \/ Push \/ Commits \/ CommitState \/ CommitOffsets \/ Grow
  \/ QueryFails \/ End
  \/ \E c \in calls : Accept(c) \/ Return(c) \/ Refuse(c)

StreamSpec == StreamInit /\ [][StreamNext]_streamVars

-----------------------------------------------------------------------------
(* Properties.                                                             *)

\* The saved position never exceeds what was accepted: a restart pulls again every item
\* that is not in the spool, in whatever order emit, its return, the commit and the
\* Commit call happen.
SavedIsSpooled == \A k \in 1..saved : k \in spooled

\* A client that was told 202 has its event in the spool.
AnsweredIsSpooled == answered \subseteq spooled

\* When everything pulled is committed and folded, the saved position is the last item
\* pulled: the next run pulls nothing twice.  sql is excepted (a commit can overtake the
\* recording of its row), and so is kafka after a failed offset commit.
PositionCatchesUp ==
  /\ plan.kind = "kafka" /\ can.faults = plan.may.faults
  /\ run = "page" /\ calls = {} /\ through = nextSeq /\ last = through
  => saved = pulled

\* What the other sources save, answer and commit is in the spool, and when the engine
\* has caught up so has the saved position.
StreamPositions == SavedIsSpooled /\ AnsweredIsSpooled /\ PositionCatchesUp

\* The same of sql.
WatermarkCatchesUp ==
  /\ plan.kind = "sql" /\ run = "exhausted"
  /\ calls = {} /\ through = nextSeq /\ last = through
  => saved = pulled

=============================================================================
