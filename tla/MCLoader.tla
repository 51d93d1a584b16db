----------------------------- MODULE MCLoader -----------------------------
(***************************************************************************)
(* Documents for the loader: a pipeline that loads, and the documents that *)
(* differ from it in one place or in two, a place being a section, a field *)
(* of a node or an attribute of an edge.                                   *)
(***************************************************************************)
EXTENDS Loader

With(m, k, x) ==
  CASE ~IsMap(m) -> Map(<< <<k, x>> >>)
    [] HasKey(m, k) -> Map([i \in DOMAIN m.p |-> IF m.p[i][1] = k THEN <<k, x>> ELSE m.p[i]])
    [] OTHER -> Map(Append(m.p, <<k, x>>))
Without(m, k) == Map(SelectSeq(m.p, LAMBDA pair : pair[1] # k))
\* m with the value at a path of keys replaced, or taken out
RECURSIVE Put(_, _, _)
Put(m, path, x) ==
  IF Len(path) = 1 THEN (IF x.t = "dropped" THEN Without(m, path[1]) ELSE With(m, path[1], x))
  ELSE With(m, path[1], Put(Get(m, path[1], Map(<<>>)), Tail(path), x))

Env(n) == Str(<<Ref("env", n)>>)
Constant(n) == Str(<<Lit("x"), Ref("constants", n)>>)
Parameter(n) == Str(<<Lit("x"), Ref("parameters", n)>>)
Edge(attrs) == Map(<< <<"t", Map(attrs)>> >>)
Plain == Map(<<
  <<"apiVersion", Word("eventboat/v1")>>, <<"kind", Word("Pipeline")>>,
  <<"metadata", Map(<< <<"name", Word("p")>> >>)>>,
  <<"constants", Map(<< <<"c", Word("cv")>> >>)>>,
  <<"sinks", Map(<< <<"k", Map(<< <<"http", Map(<< <<"url", Word("u")>> >>)>>, <<"depends_on", Word("t")>> >>)>> >>)>>,
  <<"sources", Map(<< <<"a", Map(<< <<"sql", Map(<< <<"q", Word("q")>> >>)>> >>)>>,
                      <<"b", Map(<< <<"sql", Map(<< <<"q", Word("q")>> >>)>> >>)>> >>)>>,
  <<"transforms", Map(<< <<"t", Map(<< <<"script", Word("s")>>,
                                       <<"depends_on", List(<<Word("a"), Word("b")>>)>> >>)>> >>)>> >>)

\* one place of a document and what may stand there
Place(path, values) == [path |-> path, values |-> values]
Values(kind) ==
  CASE kind = "count" -> {Num(0), Num(-1), Num(2), Env("four"), Env("one"), Word("w")}
    [] kind = "text" -> {Num(1), Str(<<>>), Env("word"), Env("unset"), Str(<<OptRef("env", "unset")>>), Constant("c"),
                         Constant("ghost"), Parameter("p"), Str(<<Lit("x"), OptRef("constants", "c")>>), Env("nested")}
    [] kind = "map" -> {Null, Word("w"), Map(<<>>), Map(<< <<"ghost", Num(1)>> >>), Dropped}
    [] kind = "time" -> {Num(1), Word("w"), Word("d0"), Word("d2")}
    [] kind = "flag" -> {Num(1), Bool(FALSE), Env("yes")}

Sink == <<"sinks", "k">>
EdgeOf(attr) == Sink \o <<"depends_on", "t">> \o attr
Places ==
  {Place(<<section>>, Values("map")) : section \in {"metadata", "edge_defaults", "constants", "limits", "telemetry",
      "run", "parameters", "hooks", "codecs", "dlq", "sources", "transforms", "sinks", "ghost"}}
  \cup {Place(<<"metadata", "name">>, Values("text")), Place(<<"apiVersion">>, {Word("v3"), Num(1)}),
        Place(<<"kind">>, {Word("Runtime")}),
        Place(<<"limits", "max_in_flight">>, Values("count")), Place(<<"limits", "drain_timeout">>, Values("time")),
        Place(<<"run", "mode">>, {Word("batch"), Word("w"), Constant("c")}), Place(<<"run", "overlap">>, {Word("w"), Word("all")}),
        Place(<<"run", "schedule">>, Values("text")), Place(<<"run", "catchup_window">>, Values("time")),
        Place(<<"run", "skip_if_successful">>, Values("flag")), Place(<<"run", "retention">>, Values("map")),
        Place(<<"run", "retention", "history">>, Values("time")), Place(<<"dlq", "retention">>, Values("time")),
        Place(<<"telemetry", "redact">>, {Word("w"), List(<<Word("w")>>), List(<<Num(1)>>)}),
        Place(<<"telemetry", "span_sample_rate">>, {Num(0), [t |-> "float", none |-> 0]}),
        Place(<<"codecs", "avro1">>, {Word("w"), Map(<<>>), Map(<< <<"type", Word("avro")>>, <<"schema", Parameter("p")>> >>)}),
        Place(<<"hooks", "failure">>, {Word("w"), Map(<< <<"http", Word("w")>> >>)}),
        Place(<<"hooks", "success">>, {Map(<< <<"http", Map(<< <<"url", Parameter("p")>> >>)>> >>)})}
  \cup {Place(<<"edge_defaults", "when">>, {Word("w")}), Place(<<"edge_defaults", "delivery">>, Values("map")),
        Place(<<"edge_defaults", "delivery", "retries">>, Values("count")),
        Place(<<"edge_defaults", "delivery", "timeout_ms">>, Values("count")),
        Place(EdgeOf(<<"delivery">>), Values("map")), Place(EdgeOf(<<"delivery", "retries">>), Values("count")),
        Place(EdgeOf(<<"delivery", "timeout_ms">>), Values("count")),
        Place(EdgeOf(<<"delivery", "backoff">>), {Word("w"), Word("constant"), Num(1)}),
        Place(EdgeOf(<<"buffer">>), Values("map")), Place(EdgeOf(<<"buffer", "max_events">>), Values("count")),
        Place(EdgeOf(<<"buffer", "type">>), {Word("w"), Word("memory"), Num(1)}),
        Place(EdgeOf(<<"required">>), Values("flag")), Place(EdgeOf(<<"when">>), Values("text") \cup Values("map")),
        Place(EdgeOf(<<"when">>), {Map(<< <<"lang", Word(l)>>, <<"expr", Word("e")>> >>) : l \in {"cesql", "sql"}}),
        Place(EdgeOf(<<"route">>), Values("text")), Place(EdgeOf(<<"ghost">>), {Num(1)})}
  \cup {Place(Sink \o <<"depends_on">>, {Num(1), List(<<>>), List(<<Num(1)>>), Edge(<<>>), Map(<< <<"t", Num(1)>> >>), Dropped}),
        Place(Sink \o <<"workers">>, {Num(2)}), Place(Sink \o <<"from">>, {Word("t")}), Place(Sink \o <<"kafka">>, {Map(<<>>)}),
        Place(Sink \o <<"http">>, {Word("w"), Dropped}), Place(Sink \o <<"order_key">>, Values("text")),
        Place(Sink \o <<"encoder">>, Values("text")), Place(Sink \o <<"batch">>, Values("map")),
        Place(Sink \o <<"batch", "size">>, Values("count")), Place(Sink \o <<"batch", "timeout_ms">>, Values("count")),
        Place(Sink \o <<"http", "url">>, Values("text")),
        Place(<<"sources", "a", "sql", "q">>, Values("text")), Place(<<"sources", "b", "sql", "q">>, {Parameter("p")}),
        Place(<<"sources", "a", "decoder">>, Values("text")), Place(<<"sources", "a", "version">>, Values("count")),
        Place(<<"sources", "a", "depends_on">>, {Word("t")}), Place(<<"sources", "b">>, {Num(1)}),
        Place(<<"transforms", "t", "workers">>, Values("count")), Place(<<"transforms", "t", "script">>, Values("text"))}
  \cup {Place(Sink \o <<"grpc">>, Values("map")),
        Place(Sink \o <<"grpc">>,
              {Map(<< <<"command", c>>, <<"schema", s>>, <<"restart", Word("restart")>>, <<"env", Map(<< <<"e", e>> >>)>> >>) :
                 c \in {List(<<Word("bin")>>), List(<<Parameter("p")>>), List(<<Num(1)>>)},
                 s \in {Word("sink"), Word("source"), Word("ghost"), Word("old"), Word("torn"), Word("bare"), Parameter("p")},
                 e \in {Word("w"), Num(1)}})}

\* a job with a parameter p
Job(spec) == Put(Put(Plain, <<"run">>, Map(<< <<"mode", Word("job")>> >>)), <<"parameters", "p">>, Map(spec))
Spec(typ, rest) == << <<"type", Word(typ)>> >> \o rest
Specs ==
  {Spec(typ, rest) : typ \in {"string", "integer", "boolean", "date"},
     rest \in {<<>>} \cup {<< <<"required", r>> >> : r \in {Bool(TRUE), Num(1)}}
              \cup {<< <<"default", d>> >> \o more :
                      d \in {Word("cursor"), Word("w"), Num(1), Bool(TRUE)},
                      more \in {<<>>, << <<"required", Bool(TRUE)>> >>, << <<"enum", List(<<Word("w"), Word("v")>>)>> >>,
                                << <<"enum", List(<<Num(1), Num(2)>>)>> >>, << <<"pattern", Word("w")>> >>,
                                << <<"min", Num(2)>> >>, << <<"max", Num(0)>> >>, << <<"min", Num(2)>>, <<"max", Num(1)>> >>,
                                << <<"enum", List(<<>>)>> >>, << <<"ghost", Num(1)>> >>}}}

Variants(d) == UNION {{Put(d, p.path, x) : x \in p.values} : p \in Places}
SampleJobs == {Job(Spec("string", << <<"default", Word("cursor")>> >>)),
               Job(Spec("integer", << <<"enum", List(<<Num(1), Num(2)>>)>> >>))}
BothSources(d) == Put(Put(d, <<"sources", "a", "sql", "q">>, Parameter("p")), <<"sources", "b", "sql", "q">>, Parameter("p"))
Pairs2 == {Put(Put(Plain, p.path, x), q.path, y) : p \in {r \in Places : r.path[1] = "edge_defaults"}, x \in {Num(0), Num(-1), Word("w")},
             q \in {r \in Places : Len(r.path) = 5}, y \in {Num(0), Num(-1), Num(2)}}
MCDocuments ==
  {Plain} \cup Variants(Plain) \cup UNION {Variants(j) : j \in SampleJobs} \cup {BothSources(Job(s)) : s \in Specs} \cup Pairs2
  \cup {Put(BothSources(j), p.path, x) : j \in SampleJobs, p \in {r \in Places : r.path[1] \in {"hooks", "codecs"}},
          x \in {Map(<< <<"http", Map(<< <<"url", Parameter("p")>> >>)>> >>)}}

MCEnvironments ==
  {[four |-> <<Lit("4")>>, one |-> <<Lit("1")>>, yes |-> <<Lit("true")>>, word |-> <<Lit("w")>>,
    nested |-> <<Ref("constants", "c")>>]}
MCTriggers == {<<>>} \cup {[p |-> x] : x \in {Word("w"), Word("v"), Num(1), Num(3), Bool(TRUE)}} \cup {[ghost |-> Num(1)]}
MCManifests ==
  LET m(json, kind, version, schema) == [json |-> json, kind |-> kind, version |-> version, schema |-> schema]
  IN [sink |-> m(TRUE, "sink", 1, TRUE), source |-> m(TRUE, "source", 1, TRUE), old |-> m(TRUE, "sink", 0, TRUE),
      torn |-> m(FALSE, "sink", 1, TRUE), bare |-> m(TRUE, "sink", 1, FALSE)]
MCWatermarks == [a |-> <<Lit("wa")>>, b |-> <<Lit("wb")>>]
=============================================================================
