------------------------------- MODULE Build -------------------------------
(***************************************************************************)
(* The build of the static IR (internal/ir, behind internal/verify): the   *)
(* nodes and the edges of a loaded configuration are resolved, the graph   *)
(* is checked, every plugin and codec is instantiated once to validate its *)
(* configuration, and the nodes are put in execution order.  The build     *)
(* goes on after a diagnostic; at the end one error is enough to return no *)
(* pipeline.  An explain build keeps the transform instances that are safe *)
(* to dry-run, until Close.                                                *)
(*                                                                         *)
(* A configuration is one the loader accepted: a sequence of node names in *)
(* declaration order (a name used in two sections is there twice) and a    *)
(* record per node.  What a compiler, a schema or a factory says of a text *)
(* is part of the record: "ok" or what is wrong with it.                   *)
(***************************************************************************)
EXTENDS Integers, Sequences, FiniteSets, SequencesExt

CONSTANTS Configs      \* the configurations a build may be given

VARIABLES cfg,         \* the configuration
          at,          \* the next thing the build does
          errs,        \* the codes of the errors reported
          warns,       \* the warnings, <<code, node>>; <<code, "">> for the pipeline
          out,         \* node |-> the edges that leave it, [to, line]
          color,       \* node |-> white, grey or black, while cycles are looked for
          stack,       \* the calls of the depth-first search under way
          index,       \* the next node a loop over the order looks at
          order,       \* the execution order
          open,        \* the transform instances not closed yet, <<node, which>>
          result       \* "none", "pipeline" or "failed"

buildVars == <<cfg, at, errs, warns, out, color, stack, index, order, open, result>>

Nodes == DOMAIN cfg.nodes
Section(n) == cfg.nodes[n].section
Has(n) == n \in Nodes
Report(cond, code) == IF cond THEN {code} ELSE {}
Warn(cond, code) == IF cond THEN {<<code, "">>} ELSE {}

\* p.Order before the sort; a name declared twice has its edges twice
In(n) == FlattenSeq([i \in 1..Len(SelectSeq(cfg.order, LAMBDA m : m = n)) |-> cfg.nodes[n].in])
Edges == UNION {{[from |-> In(n)[i].from, to |-> n, route |-> In(n)[i].route, when |-> In(n)[i].when] :
                   i \in DOMAIN In(n)} : n \in Nodes}
Succ(n) == {out[n][i] : i \in DOMAIN out[n]}

BuildStart ==
  /\ at = "codecs"
  /\ errs = {} /\ warns = {}
  /\ out = [n \in DOMAIN cfg.nodes |-> <<>>]
  /\ color = [n \in DOMAIN cfg.nodes |-> "white"]
  /\ stack = <<>> /\ index = 1 /\ order = <<>>
  /\ open = {}
  /\ result = "none"
BuildInit == cfg \in Configs /\ BuildStart

Proceed(here, next) == at = here /\ at' = next
Errors(d) == errs' = errs \cup d
Search == <<color, stack, index, order>>

-----------------------------------------------------------------------------
(* Codec declarations, conditions and routes *)

\* a declaration must not have the name of a registered codec
CheckCodecs ==
  /\ Proceed("codecs", "edges")
  /\ Errors(Report("shadow" \in cfg.codecs, "cfg_codec_shadow") \cup Report("bad" \in cfg.codecs, "plugin_schema"))
  /\ UNCHANGED <<cfg, warns, out, Search, open, result>>

\* route sugar is compiled like any predicate and cannot fail
CompileEdges ==
  /\ Proceed("edges", "routes")
  /\ Errors(Report(\E e \in Edges : e.when = "badcel", "expr_cel_compile")
            \cup Report(\E e \in Edges : e.when = "badcesql", "expr_cesql_compile"))
  /\ UNCHANGED <<cfg, warns, out, Search, open, result>>

\* the upstream of a routed edge is looked up before anything says it exists
assignsMetaRoute(n) == Section(n) = "transforms" /\ cfg.nodes[n].script = "route"
Routed == {e \in Edges : e.route}
Unresolved == \E e \in Routed : ~Has(e.from)
RouteCheck ==
  /\ at = "routes"
  /\ at' = IF Unresolved THEN "panicked" ELSE "names"
  /\ Errors(Report(~Unresolved /\ \E e \in Routed : ~assignsMetaRoute(e.from), "expr_route_dangling"))
  /\ UNCHANGED <<cfg, warns, out, Search, open, result>>

\* names are unique across the sections; then the edges that resolve enter
\* the Out list of their upstream
Repeated == Len(cfg.order) # Cardinality(Nodes)
Resolves(e) == Has(e.from) /\ Section(e.from) # "sinks"
OutOf(n) ==
  FlattenSeq([i \in DOMAIN cfg.order |->
    LET m == cfg.order[i]
        mine == SelectSeq(In(m), LAMBDA e : e.from = n)
    IN [j \in DOMAIN mine |-> m]])
ResolveEdges ==
  /\ Proceed("names", "cycles")
  /\ Errors(Report(Repeated, "topo_dup_name")
            \cup Report(\E e \in Edges : ~Has(e.from), "topo_missing_ref")
            \cup Report(\E e \in Edges : Has(e.from) /\ Section(e.from) = "sinks", "topo_sink_as_upstream"))
  /\ out' = [n \in Nodes |-> IF Section(n) = "sinks" THEN <<>> ELSE OutOf(n)]
  /\ UNCHANGED <<cfg, warns, Search, open, result>>

-----------------------------------------------------------------------------
(* checkTopology: cycles by depth-first colouring, then reachability and    *)
(* orphans                                                                  *)

Call(n) == [node |-> n, next |-> 1]
Top == Last(stack)
Advance(s) == [s EXCEPT ![Len(s)].next = @ + 1]
NextEdge == out[Top.node][Top.next]

StartVisit ==
  /\ at = "cycles" /\ stack = <<>> /\ index <= Len(cfg.order)
  /\ IF color[cfg.order[index]] = "white"
     THEN stack' = <<Call(cfg.order[index])>> /\ color' = [color EXCEPT ![cfg.order[index]] = "grey"]
     ELSE UNCHANGED <<stack, color>>
  /\ index' = index + 1
  /\ UNCHANGED <<cfg, at, errs, warns, out, order, open, result>>

\* Variant with a defect: what was seen before is a cycle.
BackEdgeSeen(n) == color[n] # "white"

BackEdge(n) == color[n] = "grey"

\* the first edge back into the stack ends the whole search
Visit ==
  /\ at = "cycles" /\ stack # <<>>
  /\ IF Top.next > Len(out[Top.node])
     THEN /\ color' = [color EXCEPT ![Top.node] = "black"]
          /\ stack' = Front(stack)
          /\ UNCHANGED <<errs, at>>
     ELSE CASE BackEdge(NextEdge) ->
                 /\ Errors({"topo_cycle"}) /\ at' = "reach" /\ stack' = <<>> /\ UNCHANGED color
            [] color[NextEdge] = "white" ->
                 /\ stack' = Append(Advance(stack), Call(NextEdge))
                 /\ color' = [color EXCEPT ![NextEdge] = "grey"]
                 /\ UNCHANGED <<errs, at>>
            [] OTHER -> stack' = Advance(stack) /\ UNCHANGED <<color, errs, at>>
  /\ UNCHANGED <<cfg, warns, out, index, order, open, result>>

NoCycle ==
  /\ at = "cycles" /\ stack = <<>> /\ index > Len(cfg.order)
  /\ at' = "reach"
  /\ UNCHANGED <<cfg, errs, warns, out, Search, open, result>>

RECURSIVE mark(_)
mark(reached) == LET more == reached \cup UNION {Succ(n) : n \in reached}
                 IN IF more = reached THEN reached ELSE mark(more)
Sources == {n \in Nodes : Section(n) = "sources"}
Sinks == {n \in Nodes : Section(n) = "sinks"}
\* Variant with a defect: only the sources are looked at.
OrphanSource(n) == Section(n) = "sources" /\ out[n] = <<>>

Orphan(n) == IF Section(n) = "sources" THEN out[n] = <<>> ELSE In(n) = <<>>

Reachability ==
  /\ Proceed("reach", "nodes")
  /\ Errors(Report(mark(Sources) \cap Sinks = {}, "topo_no_path") \cup Report(\E n \in Nodes : Orphan(n), "topo_orphan"))
  /\ index' = 1
  /\ UNCHANGED <<cfg, warns, out, color, stack, order, open, result>>

-----------------------------------------------------------------------------
(* Plugins: the registry validates the block against the schema and calls   *)
(* the factory; the transform instances live until they are closed          *)

checkDeclaredVersion(c) == Report(c.version = "other", "plugin_version_mismatch")
\* registry NewSource, NewSink, NewTransform and NewCodec
NewPlugin(c) == IF c.plugin = "badconfig" THEN "error" ELSE "instance"

validateExternal(c) ==
  CASE c.grpc = "builtin" -> {"grpc_builtin_conflict"}
    [] c.grpc = "nomanifest" -> {}
    [] c.grpc = "othername" -> {"grpc_manifest_name"}
    [] OTHER -> checkDeclaredVersion(c) \cup Report(c.grpc = "badconfig", "plugin_schema")

resolveCodec(c) ==
  CASE c.codec = "unknown" -> {"codec_unknown"}
    [] c.codec = "needsconfig" -> {"codec_config"}
    [] OTHER -> {}

EndpointErrors(c) ==
  (IF c.grpc # "none" THEN validateExternal(c)
   ELSE IF c.plugin = "unknown" THEN {"plugin_unknown"}
   ELSE checkDeclaredVersion(c) \cup Report(NewPlugin(c) = "error", "plugin_schema"))
  \cup resolveCodec(c)
  \cup Report(c.section = "sinks" /\ c.key = "bad", "expr_cel_compile")

\* an instance that failed Init, or is not safe for explain, is closed here
InitFails(c) == c.safe /\ c.init = "fails"
TransformErrors(c) ==
  IF c.plugin = "unknown" THEN {"plugin_unknown"}
  ELSE checkDeclaredVersion(c) \cup Report(NewPlugin(c) = "error", "plugin_schema")
       \cup Report(NewPlugin(c) = "instance" /\ InitFails(c), "expr_starlark_compile")
Kept(c) == c.plugin = "ok" /\ c.safe /\ ~InitFails(c) /\ cfg.retain

CheckNode ==
  /\ at = "nodes" /\ index <= Len(cfg.order)
  /\ LET n == cfg.order[index]
         c == cfg.nodes[n]
     IN /\ Errors(IF c.section = "transforms" THEN TransformErrors(c) ELSE EndpointErrors(c))
        /\ warns' = warns \cup Report(c.section = "transforms" /\ c.script = "wasm", <<"wasm_no_kill_switch", n>>)
        /\ open' = IF c.section = "transforms" /\ Kept(c) THEN open \cup {<<n, index>>} ELSE open
  /\ index' = index + 1
  /\ UNCHANGED <<cfg, at, out, color, stack, order, result>>

NodesChecked ==
  /\ at = "nodes" /\ index > Len(cfg.order)
  /\ at' = "sort" /\ index' = 1 /\ color' = [n \in Nodes |-> "white"]
  /\ UNCHANGED <<cfg, errs, warns, out, stack, order, open, result>>

-----------------------------------------------------------------------------
(* topoSort: depth-first over the in-edges, a node after its upstreams.     *)
(* color is "seen" here, and nothing is left white that was visited.        *)

StartSort ==
  /\ at = "sort" /\ stack = <<>> /\ index <= Len(cfg.order)
  /\ IF color[cfg.order[index]] = "white"
     THEN stack' = <<Call(cfg.order[index])>> /\ color' = [color EXCEPT ![cfg.order[index]] = "grey"]
     ELSE UNCHANGED <<stack, color>>
  /\ index' = index + 1
  /\ UNCHANGED <<cfg, at, errs, warns, out, order, open, result>>

\* Variant with a defect: seen is set when a visit ends.
UnseenUntilDone(n) == n \notin ToSet(order)

Unseen(n) == color[n] = "white"

\* Variant with a defect: the walk follows the out-edges.
UpstreamsOut(n) == out[n]

Upstreams(n) == [i \in DOMAIN In(n) |-> In(n)[i].from]

VisitUpstream ==
  /\ at = "sort" /\ stack # <<>>
  /\ IF Top.next > Len(Upstreams(Top.node))
     THEN /\ order' = Append(order, Top.node)
          /\ stack' = Front(stack)
          /\ UNCHANGED color
     ELSE LET up == Upstreams(Top.node)[Top.next]
          IN /\ IF Has(up) /\ Unseen(up)
                THEN stack' = Append(Advance(stack), Call(up)) /\ color' = [color EXCEPT ![up] = "grey"]
                ELSE stack' = Advance(stack) /\ UNCHANGED color
             /\ UNCHANGED order
  /\ UNCHANGED <<cfg, at, errs, warns, out, index, open, result>>

Sorted ==
  /\ at = "sort" /\ stack = <<>> /\ index > Len(cfg.order)
  /\ at' = "jobs"
  /\ UNCHANGED <<cfg, errs, warns, out, Search, open, result>>

-----------------------------------------------------------------------------
(* checkJobSemantics and checkTelemetry *)

\* the sources whose capabilities are known: an external plugin's are in its
\* manifest
Known == {n \in Sources : IF cfg.nodes[n].grpc = "none" THEN cfg.nodes[n].plugin # "unknown"
                                                         ELSE cfg.nodes[n].grpc # "nomanifest"}
Able(n, cap) == cap \in cfg.nodes[n].caps
Pulls == {n \in Known : Able(n, "pull")}
Finite == {n \in Known : Able(n, "finite") /\ (cfg.nodes[n].grpc = "none" \/ Able(n, "pull"))}
JobErrors ==
  Report(cfg.mode = "job" /\ cfg.schedule = "bad", "job_bad_schedule")
  \cup Report(cfg.mode = "job" /\ Known # Pulls, "job_source_not_pull")
  \cup Report(cfg.mode # "job" /\ cfg.params # "none", "job_parameters_in_continuous")
  \cup Report(cfg.mode = "job" /\ cfg.params = "undeclared", "job_parameter_unknown")
  \cup Report(cfg.mode = "job" /\ cfg.hooks = "unknown", "plugin_unknown")
  \cup Report(cfg.mode = "job" /\ cfg.hooks = "badconfig", "plugin_schema")
JobWarnings ==
  Warn(cfg.mode = "job" /\ Cardinality(Pulls) > 1, "job_multiple_pull_sources")
  \cup Warn(cfg.mode = "job" /\ \E n \in Known : cfg.nodes[n].file /\ ~cfg.nodes[n].stops, "job_file_source_no_eof")
  \cup Warn(cfg.mode = "continuous" /\ \E n \in Pulls : ~cfg.nodes[n].file, "lint_sql_continuous")
  \cup Warn(cfg.mode = "batch" /\ Finite = {} /\ Sources # {}, "batch_no_finite_source")
  \cup Warn(cfg.mode = "job" /\ ~cfg.retention, "run_retention_unset")

checkJobSemantics ==
  /\ Proceed("jobs", "lint")
  /\ Errors(JobErrors \cup Report(cfg.redact = "bad", "telemetry_redact_pattern"))
  /\ warns' = warns \cup JobWarnings
  /\ UNCHANGED <<cfg, out, Search, open, result>>

-----------------------------------------------------------------------------
(* lint: the collection guardrails follow the paths of the graph            *)

RECURSIVE Upstream(_), Downstream(_, _)
Upstream(S) == LET more == S \cup {e.from : e \in {f \in Edges : f.to \in S /\ Has(f.from)}}
               IN IF more = S THEN S ELSE Upstream(more)
upstreamNodes(n) == Upstream({n})
Downstream(S, stops) == LET more == S \cup UNION {Succ(n) : n \in S \ stops}
                        IN IF more = S THEN S ELSE Downstream(more, stops)
downstreamReaches(n, barriers, targets) == Downstream({n}, barriers \cup targets) \cap targets # {}

FileSources == {n \in Sources : cfg.nodes[n].file /\ cfg.nodes[n].grpc = "none"}
vlJSONLineSinks == {n \in Sinks : cfg.nodes[n].vl /\ cfg.nodes[n].grpc = "none"}
fieldsWrapperNodes == {n \in Nodes : Section(n) = "transforms" /\ cfg.nodes[n].script = "wrap"}
vlUpstream == UNION {upstreamNodes(n) : n \in vlJSONLineSinks}
RawSources == {n \in Sources : cfg.nodes[n].codec = "raw" /\ cfg.nodes[n].grpc = "none"}

\* Variant with a defect: a wrapper anywhere downstream is enough.
lintCollectorAnyWrapper ==
  {<<"lint_vl_nonobject_payload", n>> :
     n \in {m \in RawSources \cap vlUpstream : Downstream({m}, {}) \cap fieldsWrapperNodes = {}}}

lintCollector ==
  {<<"lint_line_bytes_over_vl", n>> : n \in {m \in FileSources \cap vlUpstream : cfg.nodes[m].long}}
  \cup {<<"lint_multiline_no_timeout", n>> : n \in {m \in FileSources : cfg.nodes[m].untimed}}
  \cup {<<"lint_collector_batch_one", n>> :
          n \in {m \in Sinks : cfg.nodes[m].batch = 1 /\ upstreamNodes(m) \cap FileSources # {}}}
  \cup {<<"lint_vl_nonobject_payload", n>> :
          n \in {m \in RawSources \cap vlUpstream : downstreamReaches(m, fieldsWrapperNodes, vlJSONLineSinks)}}

Lint ==
  /\ Proceed("lint", "finish")
  /\ warns' = warns \cup lintCollector \cup Warn(\E e \in Edges : e.when = "literal", "lint_when_literal")
                    \cup Warn(cfg.unused, "lint_constant_unused")
  /\ UNCHANGED <<cfg, errs, out, Search, open, result>>

\* a node holds the instance it was given last
Held(n) == Max({i \in DOMAIN cfg.order : cfg.order[i] = n})
Replaced == {x \in open : x[2] # Held(x[1])}

\* Variant with a defect: the failed build keeps them.
FinishKeeping ==
  /\ Proceed("finish", "done")
  /\ result' = IF errs = {} THEN "pipeline" ELSE "failed"
  /\ UNCHANGED <<cfg, errs, warns, out, Search, open>>

\* a failed build closes what the explain mode had kept
Finish ==
  /\ Proceed("finish", "done")
  /\ result' = IF errs = {} THEN "pipeline" ELSE "failed"
  /\ open' = IF errs # {} /\ cfg.retain THEN Replaced ELSE open
  /\ UNCHANGED <<cfg, errs, warns, out, Search>>

Close ==
  /\ at = "done" /\ result = "pipeline"
  /\ open' = Replaced /\ result' = "closed"
  /\ UNCHANGED <<cfg, at, errs, warns, out, Search>>

BuildNext == \/ CheckCodecs \/ CompileEdges \/ RouteCheck \/ ResolveEdges \/ StartVisit \/ Visit \/ NoCycle \/ Reachability
             \/ CheckNode \/ NodesChecked \/ StartSort \/ VisitUpstream \/ Sorted \/ checkJobSemantics \/ Lint \/ Finish \/ Close
BuildSpec == BuildInit /\ [][BuildNext]_buildVars

-----------------------------------------------------------------------------
(* What verify promises *)

Arcs == {<<e.from, e.to>> : e \in {f \in Edges : Resolves(f)}}
\* some nodes that each have a successor among them
Cyclic == LET arcs == Arcs
          IN \E S \in (SUBSET Nodes) \ {{}} : \A n \in S : \E m \in S : <<n, m>> \in arcs
\* the nodes of S that n reaches inside S: in every set with n that no arc leaves
ReachedIn(S, n) ==
  LET arcs == Arcs
      closed == {T \in SUBSET S : n \in T /\ \A a \in arcs : a[1] \in T /\ a[2] \in S => a[2] \in T}
  IN {m \in S : \A T \in closed : m \in T}
Built == result \in {"pipeline", "closed"}

\* A pipeline that verifies is a graph the engine can run: every edge has an
\* upstream that is no sink, no message can come back to a node it left,
\* every node hears from some source and every source is heard
\* (ResolveEdges, checkTopology; the engine assumes all of it).
VerifiedGraph ==
  Built => /\ \A e \in Edges : Resolves(e)
           /\ ~Cyclic
           /\ LET reached == [s \in Sources |-> ReachedIn(Nodes, s)]
              IN /\ UNION {reached[s] : s \in Sources} = Nodes
                 /\ \A s \in Sources : reached[s] # {s}
                 /\ \E s \in Sources : reached[s] \cap Sinks # {}

\* The depth-first search reports a cycle exactly when the resolved edges
\* have one, although it stops at the first it meets and skips what is black.
CycleExact == at = "reach" => ("topo_cycle" \in errs <=> Cyclic)

\* The execution order of a pipeline that verifies has every node once, after
\* all of its upstreams (topoSort).
OrderIsTopological ==
  Built => /\ Len(order) = Cardinality(Nodes) /\ ToSet(order) = Nodes
           /\ \A e \in Edges : \E i, j \in DOMAIN order : i < j /\ order[i] = e.from /\ order[j] = e.to

\* No transform instance outlives a build but the dry-run ones of an explain
\* build that succeeded, and those not its Close (buildPipeline, Close).  A
\* name used in two sections is left to NothingLeaks.
NothingOutlives ==
  at = "done" /\ ~Repeated =>
    {x[1] : x \in open} = IF result = "pipeline" /\ cfg.retain
                          THEN {n \in Nodes : Section(n) = "transforms" /\ cfg.nodes[n].safe} ELSE {}

\* "nothing outlives the build, failure paths included" (buildPipeline): also
\* when the second use of a name replaces the instance of the first.
NothingLeaks == result = "failed" => open = {}

\* A raw text that can reach the jsonline API without passing a wrapper is
\* reported, and nothing else is (lintCollector, downstreamReaches).
RawTextReported ==
  at = "finish" =>
    {n \in Nodes : <<"lint_vl_nonobject_payload", n>> \in warns}
      = {s \in RawSources : ReachedIn(Nodes \ fieldsWrapperNodes, s) \cap vlJSONLineSinks # {}}

\* Both searches recurse to the depth of the graph at most, although the one
\* that sorts is given graphs with cycles: no node is on the stack twice.
RecursionBounded ==
  \A i, j \in DOMAIN stack : i # j => stack[i].node # stack[j].node

\* The diagnostics say what is so: a cycle exactly when there is one, raw text that
\* reaches a collector, and nothing left to find in a graph without an error.
DiagnosticsExact == VerifiedGraph /\ CycleExact /\ RawTextReported

\* A build ends with an order the engine can start in and with every instance it
\* made handed over or closed.
BuildSound == OrderIsTopological /\ RecursionBounded /\ NothingOutlives

\* Every configuration the loader lets through is answered with diagnostics
\* or a pipeline: "producing diagnostics for every verify finding" (Build).
BuildAnswers == at # "panicked"

=============================================================================
