------------------------------ MODULE MCBuild -------------------------------
(***************************************************************************)
(* Configurations for the build: every small graph over two sources, two   *)
(* transforms and a sink, and a fixed graph with something wrong in one    *)
(* node and in the rest of the document.                                   *)
(***************************************************************************)
EXTENDS Build

Dep(n) == [from |-> n, route |-> FALSE, when |-> "none"]
Deps(S) == [i \in 1..Cardinality(S) |-> Dep(SetToSeq(S)[i])]
Node(section, deps) ==
  [section |-> section, in |-> deps, plugin |-> "ok", version |-> "ok", grpc |-> "none", codec |-> "ok",
   key |-> "none", script |-> "none", safe |-> TRUE, init |-> "ok", caps |-> {"pull"}, file |-> FALSE,
   stops |-> FALSE, long |-> FALSE, untimed |-> FALSE, vl |-> FALSE, batch |-> 1]

\* two branches into one sink of the jsonline API
PlainGraph ==
  [order |-> <<"s1", "s2", "t1", "t2", "k">>,
   nodes |-> [n \in {"s1", "s2", "t1", "t2", "k"} |->
                CASE n = "s1" -> [Node("sources", <<>>) EXCEPT !.codec = "raw"]
                  [] n = "s2" -> [Node("sources", <<>>) EXCEPT !.file = TRUE, !.long = TRUE]
                  [] n = "t1" -> [Node("transforms", <<Dep("s1")>>) EXCEPT !.script = "wrap"]
                  [] n = "t2" -> Node("transforms", <<Dep("s2")>>)
                  [] n = "k" -> [Node("sinks", <<Dep("t1"), Dep("t2")>>) EXCEPT !.vl = TRUE]],
   codecs |-> {}, retain |-> TRUE, mode |-> "continuous", schedule |-> "ok", params |-> "none",
   hooks |-> "ok", redact |-> "ok", retention |-> TRUE, unused |-> FALSE]

UpTo2(S) == {T \in SUBSET S : Cardinality(T) <= 2}
Graph(a, b, c) == [PlainGraph EXCEPT !.nodes["t1"].in = Deps(a), !.nodes["t2"].in = Deps(b), !.nodes["k"].in = Deps(c)]
Graphs == {Graph(a, b, c) : a \in UpTo2({"s1", "t1", "t2", "k", "ghost"}), b \in UpTo2({"s1", "s2", "t1", "t2"}),
                            c \in UpTo2({"s1", "t1", "t2", "k"})}

\* one thing of one node
NodeValues(section) ==
  [f \in {"plugin", "version", "grpc", "codec", "key", "script", "safe", "init", "caps", "file", "stops", "untimed", "batch"} |->
     CASE f = "plugin" -> {"unknown", "badconfig"}
       [] f = "version" -> {"other"}
       [] f = "grpc" /\ section # "transforms" -> {"ok", "builtin", "othername", "badconfig"}
       [] f = "codec" /\ section # "transforms" -> {"unknown", "needsconfig", "raw"}
       [] f = "key" /\ section = "sinks" -> {"ok", "bad"}
       [] f = "script" /\ section = "transforms" -> {"none", "route", "wasm", "wrap"}
       [] f = "safe" /\ section = "transforms" -> {FALSE}
       [] f = "init" /\ section = "transforms" -> {"fails"}
       [] f = "caps" /\ section = "sources" -> {{}, {"pull", "finite"}}
       [] f \in {"file", "stops", "untimed"} /\ section = "sources" -> {TRUE}
       [] f = "batch" /\ section = "sinks" -> {2}
       [] OTHER -> {}]
NodeChanges ==
  UNION {UNION {{[PlainGraph EXCEPT !.nodes[n] = [@ EXCEPT ![f] = v]] : v \in NodeValues(PlainGraph.nodes[n].section)[f]} :
                  f \in DOMAIN NodeValues("sources")} : n \in DOMAIN PlainGraph.nodes}
\* one thing of one edge
EdgeChanges ==
  {[PlainGraph EXCEPT !.nodes["k"].in[1].when = w] : w \in {"ok", "badcel", "badcesql", "literal"}}
  \cup {[PlainGraph EXCEPT !.nodes["k"].in = <<[Dep(up) EXCEPT !.route = TRUE, !.when = "ok"], Dep("t1")>>,
                      !.nodes["t2"].script = s] : up \in {"s1", "t2"}, s \in {"none", "route"}}
\* the rest of the document
Around(c) ==
  {c, [c EXCEPT !.retain = FALSE], [c EXCEPT !.mode = "batch", !.redact = "bad"],
   [c EXCEPT !.mode = "job", !.retention = FALSE, !.unused = TRUE],
   [c EXCEPT !.mode = "job", !.schedule = "bad"], [c EXCEPT !.params = "declared"]}
  \cup {[c EXCEPT !.mode = "job", !.params = p] : p \in {"declared", "undeclared"}}
  \cup {[c EXCEPT !.mode = "job", !.hooks = h] : h \in {"unknown", "badconfig"}}
  \cup {[c EXCEPT !.codecs = {d}] : d \in {"shadow", "bad"}}
\* t1 is in two sections
Twice == [PlainGraph EXCEPT !.order = <<"s1", "s2", "t1", "t2", "t1", "k">>]

MCConfigs == Graphs \cup UNION {Around(c) : c \in NodeChanges \cup EdgeChanges \cup {PlainGraph, Twice}}
\* and a routed edge to a node nobody declared
MCRouted == {[PlainGraph EXCEPT !.nodes["k"].in = <<[Dep("ghost") EXCEPT !.route = TRUE], Dep("t1")>>]}
=============================================================================
