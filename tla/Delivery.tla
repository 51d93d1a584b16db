------------------------------ MODULE Delivery ------------------------------
(***************************************************************************)
(* Nodes at work (engine/nodes.go, the fan-out of engine/engine.go, the    *)
(* built-in sinks): messages enter at a source or are injected at a node,  *)
(* travel through bounded channels to transform and sink goroutines, are   *)
(* batched, written with retries, dropped or dead-lettered, while the      *)
(* engine may be cancelled at any moment.  The commit tracker is the count *)
(* of open branches per message.                                           *)
(***************************************************************************)
EXTENDS Integers, Sequences, FiniteSets, FiniteSetsExt

CONSTANT Pipelines  \* graphs and bounds on their environment

\* Edges lead to transforms and sinks; a sink is a node with a batch size.  A node that
\* receives is neither the source nor the operator that injects.  Some edge has the
\* largest retry count, if there is one.
ASSUME PipelineAssumption ==
  \A g \in Pipelines :
    /\ g.msgs \in Nat /\ g.outputs \subseteq Nat
    /\ g.edges \in Seq([from : STRING, to : DOMAIN g.kind, when : BOOLEAN,
                        required : BOOLEAN, retries : Nat])
    /\ \E r \in {0} \union {g.edges[e].retries : e \in DOMAIN g.edges} :
         \A e \in DOMAIN g.edges : g.edges[e].retries <= r
    /\ g.inject \in DOMAIN g.kind /\ DOMAIN g.size \subseteq DOMAIN g.kind
    /\ {"src", "inject"} \intersect DOMAIN g.kind = {}

VARIABLES
  graph,   \* the pipeline, fixed
  ctx,     \* "live" or "cancelled"
  next,    \* messages admitted so far: their spool sequence numbers
  open,    \* commit tracker: open branches per message
  chan,    \* the channel of every transform and sink
  proc,    \* the goroutines
  broken,  \* file sinks whose buffered writer holds an error
  owed,    \* history: message and edge of every branch
  out,     \* history: what became of it
  aborted, \* history: branches whose last write failed under a cancelled context
  spare    \* what is left of the bounds

deliveryVars ==
  <<graph, ctx, next, open, chan, proc, broken, owed, out, aborted, spare>>

Seqs == 1..graph.msgs
Branch(s, e) == [seq |-> s, via |-> e]

\* Edges are numbered.  Edge 0 is the entry of a message; a negative one is the
\* synthetic edge that dispatchInternal makes for an injection at its target.
Edge(e) ==
  IF e > 0 THEN graph.edges[e]
  ELSE [from |-> "", to |-> IF e = 0 THEN "" ELSE graph.inject, when |-> FALSE,
        required |-> TRUE, retries |-> 0]
Outgoing(n) == {e \in DOMAIN graph.edges : graph.edges[e].from = n}

\* The numbers of a set in ascending order: the one list of all of them that grows.
Ascending(S) ==
  {t \in [1..Cardinality(S) -> S] :
     /\ \A e \in S : \E k \in DOMAIN t : t[k] = e
     /\ \A j, k \in DOMAIN t : j < k => t[j] < t[k]}

\* The entries of a list at the positions ix.
Picked(q, ix) == [k \in DOMAIN ix |-> q[ix[k]]]

\* The instances in a list, and how many of them are of message s.
Members(q) == {q[i] : i \in DOMAIN q}
Count(q, s) == Cardinality({i \in DOMAIN q : q[i].seq = s})

\* A goroutine: inst is the message of a transform, fan its outputs still to be fanned
\* out, todo the deliveries left; pend, batch and q are the batch of a sink before the
\* flush, while it is written, and the instances to dead-letter or drop.
Idle == [pc |-> "idle", inst |-> Branch(0, 0), tries |-> 0, fan |-> 0, todo |-> <<>>,
         pend |-> <<>>, batch |-> <<>>, q |-> <<>>, leaving |-> FALSE]

\* New and startWorkers: a channel per transform and sink, the goroutines of the nodes
\* (a transform has several), the source and whoever injects.
DeliveryInit ==
  /\ graph \in Pipelines
  /\ ctx = "live" /\ next = 0 /\ open = [s \in Seqs |-> 0]
  /\ chan = [n \in DOMAIN graph.kind |-> <<>>]
  /\ proc = [p \in DOMAIN graph.node |->
               IF graph.node[p] \in DOMAIN graph.kind /\ graph.kind[graph.node[p]] = "clone"
               THEN [Idle EXCEPT !.pc = "start"] ELSE Idle]
  /\ broken = {} /\ owed = {} /\ out = {} /\ aborted = {}
  /\ spare = graph.may

Node(p) == graph.node[p]
IsSink(p) == Node(p) \in DOMAIN graph.size
IsTransform(p) == Node(p) \in DOMAIN graph.kind /\ ~IsSink(p)

\* A goroutine is through with what it had: a sink that was told to stop has ended.
Rest(v) == IF v.leaving THEN [Idle EXCEPT !.pc = "gone"] ELSE [Idle EXCEPT !.pend = v.pend]

\* What a goroutine goes on to when its outputs are delivered, when what could not be
\* encoded is settled, and when what could not be delivered is.
Onwards(v) ==
  CASE v.pc = "fan" /\ v.fan = 0 /\ v.todo = <<>> -> Idle
    [] v.pc = "encode" /\ v.q = <<>> /\ v.batch # <<>> -> [v EXCEPT !.pc = "write"]
    [] v.q = <<>> /\ (v.pc = "dispose" \/ (v.pc = "encode" /\ v.batch = <<>>)) -> Rest(v)
    [] OTHER -> v
Set(p, v) == proc' = [proc EXCEPT ![p] = Onwards(v)]
Spending(what) == spare[what] > 0 /\ spare' = [spare EXCEPT ![what] = @ - 1]

\* commit.done for one branch, which ends with the outcome how.
Done(b, how) ==
  /\ open' = [open EXCEPT ![b.seq] = @ - 1]
  /\ out' = out \union {[seq |-> b.seq, via |-> b.via, how |-> how]}

-----------------------------------------------------------------------------
(* Entry and fan-out.                                                      *)

InFlight == {s \in Seqs : open[s] > 0}

\* accept, dispatchFrom: below the high watermark the source's message is admitted and
\* decoded; one that cannot be decoded is dead-lettered.
Accept(p) ==
  /\ Node(p) = "src" /\ proc[p].pc = "idle" /\ ctx = "live"
  /\ next < graph.msgs /\ Cardinality(InFlight) < graph.high
  /\ next' = next + 1 /\ open' = [open EXCEPT ![next + 1] = 1]
  /\ owed' = owed \union {Branch(next + 1, 0)}
  /\ \/ /\ Set(p, [Idle EXCEPT !.pc = "fan", !.inst = Branch(next + 1, 0), !.fan = 1])
        /\ UNCHANGED spare
     \/ /\ Spending("codec")
        /\ Set(p, [Idle EXCEPT !.pc = "dispose", !.q = <<Branch(next + 1, 0)>>])
  /\ UNCHANGED <<graph, ctx, chan, broken, out, aborted>>

\* injectAt, dispatchInternal: the message is delivered into the node.
InjectAt(p) ==
  /\ Node(p) = "inject" /\ proc[p].pc = "idle" /\ ctx = "live"
  /\ next < graph.msgs /\ Spending("injects")
  /\ next' = next + 1 /\ open' = [open EXCEPT ![next + 1] = 1]
  /\ owed' = owed \union {Branch(next + 1, -1)}
  /\ Set(p, [Idle EXCEPT !.pc = "fan", !.inst = Branch(next + 1, -1), !.todo = <<-1>>])
  /\ UNCHANGED <<graph, ctx, chan, broken, out, aborted>>

\* Mutant of fanOut: the extra branches are not added to the commit tracker.
fanOutUncounted(p) ==
  LET v == proc[p] IN
  /\ v.pc = "fan" /\ v.fan > 0 /\ v.todo = <<>>
  /\ \E todo \in Ascending(Outgoing(Node(p))) : Set(p, [v EXCEPT !.fan = @ - 1, !.todo = todo])
  /\ owed' = owed \union {Branch(v.inst.seq, e) : e \in Outgoing(Node(p))}
  /\ UNCHANGED <<graph, ctx, next, open, out, chan, broken, aborted, spare>>

\* fanOut: every edge without a condition, and those whose condition holds; none of
\* them commits the message as filtered.
fanOut(p) ==
  LET v == proc[p]
      maybe == {e \in Outgoing(Node(p)) : graph.edges[e].when}
  IN
  /\ v.pc = "fan" /\ v.fan > 0 /\ v.todo = <<>>
  /\ \E some \in SUBSET maybe :
       LET matched == (Outgoing(Node(p)) \ maybe) \union some IN
       /\ \E todo \in Ascending(matched) : Set(p, [v EXCEPT !.fan = @ - 1, !.todo = todo])
       /\ owed' = owed \union {Branch(v.inst.seq, e) : e \in matched}
       /\ IF matched = {} THEN Done(v.inst, "filtered")
          ELSE /\ open' = [open EXCEPT ![v.inst.seq] = @ + Cardinality(matched) - 1]
               /\ out' = out \union {[seq |-> v.inst.seq, via |-> v.inst.via, how |-> "passed"]}
  /\ UNCHANGED <<graph, ctx, next, chan, broken, aborted, spare>>

\* Mutant of deliver: the context is not looked at.
deliverBlocks(p) ==
  LET v == proc[p]
      to == Edge(Head(v.todo)).to
  IN
  /\ v.pc = "fan" /\ v.todo # <<>> /\ Len(chan[to]) < graph.cap
  /\ Set(p, [v EXCEPT !.todo = Tail(@)])
  /\ chan' = [chan EXCEPT ![to] = Append(@, Branch(v.inst.seq, Head(v.todo)))]
  /\ UNCHANGED <<graph, ctx, next, open, broken, owed, out, aborted, spare>>

\* deliver: blocks while the channel is full; under a cancelled context the branch may
\* be left behind, uncommitted.
deliver(p) ==
  LET v == proc[p]
      to == Edge(Head(v.todo)).to
  IN
  /\ v.pc = "fan" /\ v.todo # <<>>
  /\ Set(p, [v EXCEPT !.todo = Tail(@)])
  /\ \/ /\ Len(chan[to]) < graph.cap
        /\ chan' = [chan EXCEPT ![to] = Append(@, Branch(v.inst.seq, Head(v.todo)))]
     \/ ctx = "cancelled" /\ UNCHANGED chan
  /\ UNCHANGED <<graph, ctx, next, open, broken, owed, out, aborted, spare>>

-----------------------------------------------------------------------------
(* Transforms.                                                             *)

\* runTransform: the worker gets a clone of its plugin, or fails the engine.
Clone(p) ==
  /\ proc[p].pc = "start"
  /\ \/ Set(p, Idle) /\ UNCHANGED <<ctx, spare>>
     \/ /\ Spending("clones") /\ ctx' = "cancelled"
        /\ Set(p, [Idle EXCEPT !.pc = "gone"])
  /\ UNCHANGED <<graph, next, open, chan, broken, owed, out, aborted>>

\* runTransform, processTransform: the next message.
Take(p) ==
  LET n == Node(p) IN
  /\ IsTransform(p) /\ proc[p].pc = "idle" /\ chan[n] # <<>>
  /\ Set(p, [Idle EXCEPT !.pc = "apply", !.inst = Head(chan[n])])
  /\ chan' = [chan EXCEPT ![n] = Tail(@)]
  /\ UNCHANGED <<graph, ctx, next, open, broken, owed, out, aborted, spare>>

\* processTransform: no output filters the message, several expand the accounting; a
\* failure is retried under the policy of the incoming edge, then dead-lettered.
processTransform(p) ==
  LET v == proc[p] IN
  /\ v.pc = "apply"
  /\ \/ \E k \in graph.outputs :
          /\ IF k = 0 THEN Done(v.inst, "filtered")
             ELSE open' = [open EXCEPT ![v.inst.seq] = @ + k - 1] /\ UNCHANGED out
          /\ Set(p, [v EXCEPT !.pc = "fan", !.fan = k])
          /\ UNCHANGED spare
     \/ /\ Spending("applies") /\ UNCHANGED <<open, out>>
        /\ Set(p, IF v.tries < Edge(v.inst.via).retries THEN [v EXCEPT !.pc = "reapply"]
                  ELSE [v EXCEPT !.pc = "dispose", !.q = <<v.inst>>])
  /\ UNCHANGED <<graph, ctx, next, chan, broken, owed, aborted>>

\* sleepBackoff of a transform: another attempt, or the message is left uncommitted.
Reapply(p) ==
  LET v == proc[p] IN
  /\ v.pc = "reapply"
  /\ \/ Set(p, [v EXCEPT !.pc = "apply", !.tries = @ + 1])
     \/ ctx = "cancelled" /\ Set(p, Idle)
  /\ UNCHANGED <<graph, ctx, next, open, chan, broken, owed, out, aborted, spare>>

-----------------------------------------------------------------------------
(* Sinks.                                                                  *)

Required(b) == Edge(b.via).required

\* writeBatch begins: instances that cannot be encoded are to be dead-lettered first.
Flushed(p, batch, v) ==
  \E bad \in SUBSET DOMAIN batch :
    /\ bad = {} \/ spare.codec >= Cardinality(bad)
    /\ spare' = [spare EXCEPT !.codec = @ - Cardinality(bad)]
    /\ \E i \in Ascending(bad), j \in Ascending(DOMAIN batch \ bad) :
         Set(p, [v EXCEPT !.pc = "encode", !.pend = <<>>,
                   !.q = Picked(batch, i), !.batch = Picked(batch, j)])

\* runSink: the next message joins the pending batch, which is flushed when it is full.
Receive(p) ==
  LET n == Node(p)
      pend == Append(proc[p].pend, Head(chan[n]))
  IN
  /\ IsSink(p) /\ proc[p].pc = "idle" /\ chan[n] # <<>>
  /\ chan' = [chan EXCEPT ![n] = Tail(@)]
  /\ IF Len(pend) >= graph.size[n] THEN Flushed(p, pend, proc[p])
     ELSE Set(p, [proc[p] EXCEPT !.pend = pend]) /\ UNCHANGED spare
  /\ UNCHANGED <<graph, ctx, next, open, broken, owed, out, aborted>>

\* Mutant of Tick: a batch that is not full waits for more.
TickFull(p) ==
  /\ IsSink(p) /\ proc[p].pc = "idle" /\ Len(proc[p].pend) >= graph.size[Node(p)]
  /\ Flushed(p, proc[p].pend, proc[p])
  /\ UNCHANGED <<graph, ctx, next, open, chan, broken, owed, out, aborted>>

\* runSink: the ticker flushes what is pending.
Tick(p) ==
  /\ IsSink(p) /\ proc[p].pc = "idle" /\ proc[p].pend # <<>>
  /\ Flushed(p, proc[p].pend, proc[p])
  /\ UNCHANGED <<graph, ctx, next, open, chan, broken, owed, out, aborted>>

\* Mutant of Retries: the batch takes the smallest count of its edges.
RetriesLeast(batch) == Min({Edge(b.via).retries : b \in Members(batch)})

\* writeBatch: the largest retry count of the edges of the batch.
Retries(batch) == Max({0} \union {Edge(b.via).retries : b \in Members(batch)})

\* A Write that fails: a fault of the other side, the cancelled context (the file sink
\* does not look at it), the error its bufio.Writer keeps from an earlier fault.
WriteFails(p) ==
  LET n == Node(p) IN
  \/ /\ Spending("writes") /\ UNCHANGED aborted
     /\ broken' = IF graph.kind[n] = "file" THEN broken \union {n} ELSE broken
  \/ /\ ctx = "cancelled" /\ graph.kind[n] # "file"
     /\ aborted' = aborted \union Members(proc[p].batch)
     /\ UNCHANGED <<broken, spare>>
  \/ n \in broken /\ UNCHANGED <<broken, aborted, spare>>

\* writeBatch: sink.Write returns nil and every instance is committed.
Written(p) ==
  LET v == proc[p] IN
  /\ v.pc = "write" /\ Node(p) \notin broken
  /\ open' = [s \in Seqs |-> open[s] - Count(v.batch, s)]
  /\ out' = out \union {[seq |-> b.seq, via |-> b.via, how |-> "written"] : b \in Members(v.batch)}
  /\ Set(p, Rest(v))
  /\ UNCHANGED <<graph, ctx, next, chan, broken, owed, aborted, spare>>

\* writeBatch: sink.Write fails; the whole batch is tried again, or given up.
WriteFailed(p) ==
  LET v == proc[p] IN
  /\ v.pc = "write" /\ WriteFails(p)
  /\ Set(p, IF v.tries < Retries(v.batch) THEN [v EXCEPT !.pc = "backoff"]
            ELSE [v EXCEPT !.pc = "dispose", !.q = v.batch])
  /\ UNCHANGED <<graph, ctx, next, open, chan, owed, out>>

\* sleepBackoff of a sink.
Backoff(p) ==
  LET v == proc[p] IN
  /\ v.pc = "backoff"
  /\ \/ Set(p, [v EXCEPT !.pc = "write", !.tries = @ + 1])
     \/ ctx = "cancelled" /\ Set(p, Rest(v))
  /\ UNCHANGED <<graph, ctx, next, open, chan, broken, owed, out, aborted, spare>>

-----------------------------------------------------------------------------
(* Dead letters, drops, and the end.                                       *)

\* Mutant of Disposal: whatever cannot be delivered is dropped.
DisposalDrops(p, b) == "dropped"

\* writeBatch: the message of an optional edge is dropped once its batch was given up.
Disposal(p, b) ==
  IF proc[p].pc = "dispose" /\ IsSink(p) /\ ~Required(b) THEN "dropped" ELSE "dead"

\* writeBatch, deadLetterMsg, writeDeadLetter: the next instance is dropped, or recorded
\* and committed; a failed record is tried again until the context is cancelled.
Dispose(p) ==
  LET v == proc[p]
      b == Head(v.q)
      gone == [v EXCEPT !.q = Tail(@)]
  IN
  /\ v.pc \in {"encode", "dispose"} /\ v.q # <<>>
  /\ \/ Done(b, Disposal(p, b)) /\ Set(p, gone) /\ UNCHANGED spare
     \/ /\ Disposal(p, b) = "dead" /\ Spending("records") /\ UNCHANGED <<open, out>>
        /\ Set(p, IF ctx = "cancelled" THEN gone ELSE v)
  /\ UNCHANGED <<graph, ctx, next, chan, broken, owed, aborted>>

\* A stop, or a source that failed: shutdown cancels at once.
Cancel ==
  /\ ctx = "live" /\ Spending("stops") /\ ctx' = "cancelled"
  /\ UNCHANGED <<graph, next, open, chan, proc, broken, owed, out, aborted>>

\* Every goroutine notices ctx.Done when it waits; a sink flushes what it has first.
Leave(p) ==
  LET v == proc[p] IN
  /\ ctx = "cancelled" /\ v.pc = "idle"
  /\ IF IsSink(p) /\ v.pend # <<>> THEN Flushed(p, v.pend, [v EXCEPT !.leaving = TRUE])
     ELSE Set(p, [Idle EXCEPT !.pc = "gone"]) /\ UNCHANGED spare
  /\ UNCHANGED <<graph, ctx, next, open, chan, broken, owed, out, aborted>>

Step(p) ==
  \/ Accept(p) \/ fanOut(p) \/ deliver(p)
  \/ Clone(p) \/ Take(p) \/ processTransform(p) \/ Reapply(p)
  \/ Receive(p) \/ Tick(p) \/ Written(p) \/ WriteFailed(p) \/ Backoff(p)
  \/ Dispose(p) \/ Leave(p)

DeliveryNext ==
  \/ \E p \in DOMAIN proc : Step(p) \/ InjectAt(p)
  \/ Cancel

\* As long as some goroutine can go on, one does; tickers and timers fire.  An
\* injection and a stop are not owed.
DeliveryFairness == WF_deliveryVars(\E p \in DOMAIN proc : Step(p))

DeliverySpec == DeliveryInit /\ [][DeliveryNext]_deliveryVars /\ DeliveryFairness

-----------------------------------------------------------------------------
(* Properties.                                                             *)

\* The branches of message s that a goroutine has.
Held(v, s) ==
  Count(v.pend, s) + Count(v.q, s) + (IF v.pc = "dispose" THEN 0 ELSE Count(v.batch, s))
    + (IF v.inst.seq # s THEN 0
       ELSE IF v.pc = "fan" THEN v.fan + Len(v.todo)
       ELSE IF v.pc \in {"apply", "reapply"} THEN 1 ELSE 0)

\* The sum of a function with natural values, as the size of a set of units.
Units(f) == UNION {{x} \X (1..f[x]) : x \in DOMAIN f}
Total(f) == Cardinality(Units(f))

\* The branches of a message that are somewhere: in a channel or with a goroutine.
Waiting(s) == [n \in DOMAIN chan |-> Count(chan[n], s)]
Working(s) == [p \in DOMAIN proc |-> Held(proc[p], s)]
Present(s) == Total(Waiting(s)) + Total(Working(s))

\* While the engine runs, the commit tracker counts exactly the branches that exist: a
\* message is neither committed early nor kept open, through fan-out, splits, batches,
\* retries and dead letters.  After a cancel it never counts fewer than exist.
OpenIsPresent ==
  \A s \in Seqs : /\ ctx = "live" => open[s] = Present(s)
                  /\ open[s] >= Present(s)

\* A message that is committed has an outcome on every branch it took, and one that took
\* a required edge was written or dead-lettered there, never dropped.
CommittedIsAccounted ==
  \A b \in owed : open[b.seq] = 0 =>
    \E o \in out : /\ o.seq = b.seq /\ o.via = b.via
                   /\ o.how = "dropped" => ~Required(b)

\* A message is given up only after as many attempts as its own edge allows, whatever
\* batch it shares.
PatienceOfEdge ==
  \A p \in DOMAIN proc :
    proc[p].pc = "dispose" /\ IsSink(p) =>
      \A b \in Members(proc[p].q) : proc[p].tries >= Edge(b.via).retries

\* The tracker and the pipeline agree: an open message is somewhere, a committed one was
\* delivered, dropped by an optional edge or dead-lettered on every branch it owed, and
\* none was given up before its own edge allowed.
BranchesAccounted == OpenIsPresent /\ CommittedIsAccounted /\ PatienceOfEdge

\* Every admitted message is committed in the end, or the engine is stopped: bounded
\* channels over the graph never leave everyone waiting, a batch that stays short is
\* flushed by the ticker, and retries and dead letters come to an end.
EveryMessageSettles ==
  \A s \in 1..2 : (s <= next) ~> (s <= next /\ (open[s] = 0 \/ ctx = "cancelled"))

\* A cancelled engine comes to rest: no goroutine stays in a delivery to a channel
\* nobody reads, in a backoff or in the retry of a dead letter.
StopTerminates == (ctx = "cancelled") ~> \A p \in DOMAIN proc : proc[p].pc = "gone"

\* A stop drops nothing: a message whose write failed because of the cancellation stays
\* uncommitted, so that the next run replays it.
StopDropsNothing ==
  \A b \in aborted : \A o \in out : ~(o.seq = b.seq /\ o.via = b.via /\ o.how = "dropped")

=============================================================================
