------------------------------- MODULE Loader -------------------------------
(***************************************************************************)
(* The configuration loader (internal/config) and what a job run does with *)
(* its result (internal/jobs): a YAML document goes through environment    *)
(* substitution, decoding, constant substitution and one parser per        *)
(* section; every parser goes on after a diagnostic, with a default in the *)
(* place of the value it refused.  A job that loads without an error is    *)
(* then triggered with values for its parameters, its file is loaded again *)
(* and the values take the place of the ${parameters.x} references.        *)
(*                                                                         *)
(* A document is a tree of values.  A string is a sequence of tokens, each *)
(* a literal or a reference: what is between the references is never       *)
(* looked at here.  A mapping is the sequence of its pairs, in document    *)
(* order.                                                                  *)
(***************************************************************************)
EXTENDS Integers, Sequences, FiniteSets, SequencesExt

CONSTANTS Documents,     \* the documents a behaviour may start from
          Environments,  \* the process environments: names to texts
          Triggers,      \* the parameter values a trigger may carry
          Manifests,     \* the plugin manifests on disk, by path
          Watermarks,    \* the persisted cursors of the sources
          DefaultRetries, DefaultBuffer   \* schema.DeliveryRetriesDefault, BufferMaxDefault

VARIABLES doc,      \* the document as written
          env,      \* the environment of the process
          root,     \* the document as substituted so far
          step,     \* the next thing the loader does
          diags,    \* the codes of the error diagnostics
          conf,     \* the typed pipeline
          run       \* the job run made of it

loaderVars == <<doc, env, root, step, diags, conf, run>>

-----------------------------------------------------------------------------
(* Values and tokens *)

Lit(n) == [ref |-> "literal", name |-> n, opt |-> FALSE]
Ref(scope, n) == [ref |-> scope, name |-> n, opt |-> FALSE]
OptRef(scope, n) == [ref |-> scope, name |-> n, opt |-> TRUE]

Str(text) == [t |-> "str", s |-> text]
Word(w) == Str(<<Lit(w)>>)
Num(n) == [t |-> "int", n |-> n]
Bool(b) == [t |-> "bool", b |-> b]
List(s) == [t |-> "list", e |-> s]
Map(pairs) == [t |-> "map", p |-> pairs]
Null == [t |-> "null", none |-> 0]

Keys(m) == [i \in DOMAIN m.p |-> m.p[i][1]]
KeySet(m) == ToSet(Keys(m))
HasKey(m, k) == m.t = "map" /\ k \in KeySet(m)
At(m, k) == m.p[CHOOSE i \in DOMAIN m.p : m.p[i][1] = k][2]
Get(m, k, absent) == IF HasKey(m, k) THEN At(m, k) ELSE absent

IsMap(x) == x.t = "map"
IsStr(x) == x.t = "str"
IsText(x) == IsStr(x) /\ x.s # <<>>
IsWord(x, words) == IsStr(x) /\ x.s \in {<<Lit(w)>> : w \in words}
WordOf(x) == x.s[1].name

\* sections.go asInt
asInt(x, def) == IF x.t = "int" THEN x.n ELSE def
\* config.go ParseDuration, on the few durations of the documents
Durations == [d0 |-> 0, d1 |-> 1, d2 |-> 2]
ParsesDuration(x) == IsWord(x, DOMAIN Durations)
ParseDuration(x) == Durations[WordOf(x)]

When(cond, code) == IF cond THEN {code} ELSE {}

-----------------------------------------------------------------------------
(* Pass 1, environment variables; pass 3, constants; and, when a job runs,  *)
(* parameters.  The three share one way of working: the references are      *)
(* found once, in the text as it was, and each is then replaced wherever it *)
(* occurs in the text as it is by then.                                     *)

ReplaceToken(text, token, by) ==
  FlattenSeq([i \in DOMAIN text |-> IF text[i] = token THEN by ELSE <<text[i]>>])

Expand(text, Known(_), Value(_)) ==
  FoldLeft(LAMBDA out, m : IF Known(m) THEN ReplaceToken(out, m, Value(m)) ELSE out,
           text, text)

Unset(m) == m.ref = "env" /\ m.name \notin DOMAIN env
substituteEnvString(text) ==
  Expand(text, LAMBDA m : m.ref = "env" /\ (~Unset(m) \/ m.opt),
               LAMBDA m : IF Unset(m) THEN <<>> ELSE env[m.name])

\* The literals of the documents that a YAML scalar would not read as text.
\* ParseBool comes first, so "1" is tagged a boolean.
retagScalar(text) ==
  CASE text = <<Lit("true")>> -> Bool(TRUE)
    [] text = <<Lit("1")>> -> [t |-> "badbool", s |-> text]
    [] text = <<Lit("4")>> -> Num(4)
    [] OTHER -> Str(text)

\* a pair or an element that becomes Dropped leaves its mapping or list
Dropped == [t |-> "dropped", none |-> 0]
substituteScalar(x) ==
  LET text == substituteEnvString(x.s)
  IN IF Len(x.s) = 1 /\ x.s[1].opt /\ Unset(x.s[1]) THEN Dropped
     ELSE IF text = x.s THEN x ELSE retagScalar(text)

\* fmt.Sprintf("%v", value)
Printed(x) == CASE x.t = "str" -> x.s
                [] x.t = "int" -> <<Lit("number")>>
                [] OTHER -> <<Lit("other")>>

\* references of one scope, replaced by the values that are known
Scope(scope, values) == [scope |-> scope, values |-> values]
substituteString(x, s) ==
  IF s.scope = "env" THEN substituteScalar(x)
  ELSE Str(Expand(x.s, LAMBDA m : /\ m.ref = s.scope /\ m.name \in DOMAIN s.values
                                  /\ s.scope = "constants" => ~m.opt,
                       LAMBDA m : Printed(s.values[m.name])))

RECURSIVE walk(_, _), TextsOf(_), Undecodable(_)
walk(x, s) ==
  CASE x.t = "str" -> substituteString(x, s)
    [] x.t = "list" -> List(SelectSeq([i \in DOMAIN x.e |-> walk(x.e[i], s)], LAMBDA e : e.t # "dropped"))
    [] x.t = "map" -> Map(SelectSeq([i \in DOMAIN x.p |-> <<x.p[i][1], walk(x.p[i][2], s)>>],
                                    LAMBDA pair : pair[2].t # "dropped"))
    [] OTHER -> x
TextsOf(x) ==
  CASE x.t = "str" -> {x.s}
    [] x.t = "list" -> UNION {TextsOf(x.e[i]) : i \in DOMAIN x.e}
    [] x.t = "map" -> UNION {TextsOf(x.p[i][2]) : i \in DOMAIN x.p}
    [] OTHER -> {}
TokensOf(x) == UNION {ToSet(text) : text \in TextsOf(x)}
\* yaml.v3 refuses a scalar tagged !!bool that is no YAML boolean
Undecodable(x) ==
  \/ x.t = "badbool"
  \/ x.t = "list" /\ \E i \in DOMAIN x.e : Undecodable(x.e[i])
  \/ x.t = "map" /\ \E i \in DOMAIN x.p : Undecodable(x.p[i][2])

Pairs(m) == [k \in (IF IsMap(m) THEN KeySet(m) ELSE {}) |-> At(m, k)]
\* constantsSubstituter.substitute, on one top-level value
substitute(x, constants) == walk(x, Scope("constants", constants))
\* Variant with a defect: parameters pass in any mode.
ScopeDiagsAnyMode(x, constants, jobMode) ==
  When(\E m \in TokensOf(x) : m.ref = "constants" /\ m.name \notin DOMAIN constants, "cfg_constant_unknown")
ScopeDiags(x, constants, jobMode) ==
  LET refs == {m \in TokensOf(x) : m.ref \notin {"literal", "env"}}
      plain == {m \in refs : m.ref = "constants" /\ ~m.opt}
  IN When(\E m \in plain : m.name \notin DOMAIN constants, "cfg_constant_unknown")
     \cup When(\E m \in refs \ plain : ~(m.ref = "parameters" /\ ~m.opt /\ jobMode), "cfg_scope_unknown")

-----------------------------------------------------------------------------
(* Pass 4: the parsers.  For each, the codes it reports and the value it    *)
(* keeps.                                                                   *)

Unknown(m, allowed) == When(~(KeySet(m) \subseteq allowed), "cfg_unknown_field")

TopLevelKeys == {"apiVersion", "kind", "metadata", "edge_defaults", "constants", "limits", "telemetry",
                 "run", "parameters", "hooks", "codecs", "dlq", "sources", "transforms", "sinks"}

HeaderDiags(raw) ==
  LET meta == Get(raw, "metadata", Null)
      name == Get(meta, "name", Null)
  IN When(~(KeySet(raw) \subseteq TopLevelKeys), "cfg_unknown_top_section")
     \cup When(~IsWord(Get(raw, "apiVersion", Null), {"eventboat/v1"}), "cfg_api_version")
     \cup When(~IsWord(Get(raw, "kind", Null), {"Pipeline"}), "cfg_kind")
     \cup IF HasKey(raw, "metadata") /\ ~IsMap(meta) THEN {"cfg_metadata_type"}
          ELSE (IF IsMap(meta) THEN Unknown(meta, {"name"}) ELSE {})
               \cup When(~IsText(name), "cfg_metadata_name")
               \cup When(IsText(name) /\ ~IsWord(name, {"p"}), "cfg_name_invalid")

\* parseEdgeAttrs: one edge's attributes, or the defaults of all
\* Variant with a defect: only the retries are checked.
DeliveryDiagsRetries(dm) ==
  When(HasKey(dm, "retries") /\ asInt(At(dm, "retries"), -1) < 0, "cfg_delivery_range")
DeliveryDiags(dm) ==
  IF ~IsMap(dm) THEN {"cfg_delivery_type"}
  ELSE Unknown(dm, {"retries", "backoff", "timeout_ms"})
       \cup When(HasKey(dm, "retries") /\ asInt(At(dm, "retries"), -1) < 0, "cfg_delivery_range")
       \cup When(HasKey(dm, "timeout_ms") /\ asInt(At(dm, "timeout_ms"), 0) < 1, "cfg_delivery_range")
       \cup When(IsText(Get(dm, "backoff", Null)) /\ ~IsWord(At(dm, "backoff"), {"exponential", "constant"}),
                 "cfg_delivery_backoff")
BufferDiags(bm) ==
  IF ~IsMap(bm) THEN {"cfg_buffer_type"}
  ELSE Unknown(bm, {"type", "max_events"})
       \cup When(IsText(Get(bm, "type", Null)) /\ ~IsWord(At(bm, "type"), {"memory"}), "cfg_buffer_type")
       \cup When(HasKey(bm, "max_events") /\ asInt(At(bm, "max_events"), 0) < 1, "cfg_buffer_range")
WhenDiags(w) ==
  CASE IsStr(w) -> When(~IsText(w), "cfg_when_type")
    [] IsMap(w) -> Unknown(w, {"lang", "expr"})
                   \cup LET lang == Get(w, "lang", Null)
                        IN IF IsText(lang) /\ ~IsWord(lang, {"cel", "cesql"}) THEN {"cfg_when_lang"}
                           ELSE When(~IsText(Get(w, "expr", Null)), "cfg_when_type")
    [] OTHER -> {"cfg_when_type"}
WhenKept(a) == HasKey(a, "when") /\ WhenDiags(At(a, "when")) \ {"cfg_unknown_field"} = {}
RouteKept(a) == HasKey(a, "route") /\ IsText(At(a, "route"))

EdgeDiags(a, defaults) ==
  LET allowed == {"delivery", "required", "buffer"} \cup (IF defaults THEN {} ELSE {"when", "route"})
      mine(k) == HasKey(a, k) /\ k \in allowed
  IN When(KeySet(a) \cap ({"when", "route"} \ allowed) # {}, "cfg_edge_defaults_field")
     \cup Unknown(a, allowed \cup {"when", "route"})
     \cup (IF mine("when") THEN WhenDiags(At(a, "when")) ELSE {})
     \cup When(mine("route") /\ ~RouteKept(a), "cfg_route_type")
     \cup When(mine("when") /\ WhenKept(a) /\ RouteKept(a), "cfg_when_route_exclusive")
     \cup When(mine("required") /\ At(a, "required").t # "bool", "cfg_required_type")
     \cup (IF mine("buffer") THEN BufferDiags(At(a, "buffer")) ELSE {})
     \cup (IF mine("delivery") THEN DeliveryDiags(At(a, "delivery")) ELSE {})

\* a refused count is replaced by the default; a refused timeout is not
EdgeRetries(a, inherited) ==
  LET dm == Get(a, "delivery", Null)
      n == asInt(Get(dm, "retries", Num(DefaultRetries)), -1)
  IN IF ~IsMap(dm) THEN inherited ELSE IF n < 0 THEN DefaultRetries ELSE n
EdgeTimeout(a, inherited) ==
  LET dm == Get(a, "delivery", Null)
  IN IF IsMap(dm) THEN asInt(Get(dm, "timeout_ms", Num(0)), 0) ELSE inherited
EdgeBuffer(a, inherited) ==
  LET bm == Get(a, "buffer", Null)
      n == asInt(Get(bm, "max_events", Num(DefaultBuffer)), 0)
  IN IF ~IsMap(bm) THEN inherited ELSE IF n < 1 THEN DefaultBuffer ELSE n
EdgeRequired(a, inherited) ==
  IF HasKey(a, "required") /\ At(a, "required").t = "bool" THEN At(a, "required").b ELSE inherited
\* MaterializeEdgeDefaults, and the layering the build applies to an edge
parseEdgeAttrs(a, from, inherited) ==
  [from |-> from, retries |-> EdgeRetries(a, inherited.retries), timeout |-> EdgeTimeout(a, inherited.timeout),
   buffer |-> EdgeBuffer(a, inherited.buffer), required |-> EdgeRequired(a, inherited.required),
   text |-> IF RouteKept(a) THEN At(a, "route").s
            ELSE IF ~WhenKept(a) THEN <<>>
            ELSE IF IsMap(At(a, "when")) THEN At(At(a, "when"), "expr").s ELSE At(a, "when").s]
FrameworkDefaults == [from |-> "", retries |-> DefaultRetries, timeout |-> 0, buffer |-> DefaultBuffer,
                      required |-> TRUE, text |-> <<>>]

parseEdgeDefaults(raw) ==
  LET ed == Get(raw, "edge_defaults", Null)
  IN [d |-> IF IsMap(ed) THEN EdgeDiags(ed, TRUE) ELSE When(ed.t # "null", "cfg_edge_defaults_field"),
      v |-> [parseEdgeAttrs(ed, "", FrameworkDefaults) EXCEPT !.text = <<>>]]

parseCodecs(raw) ==
  LET cm == Get(raw, "codecs", Map(<<>>))
      typed(c) == IsMap(At(cm, c)) /\ IsText(Get(At(cm, c), "type", Null))
  IN IF ~IsMap(cm) THEN [d |-> {"cfg_codecs_type"}, v |-> Map(<<>>)]
     ELSE [d |-> UNION {IF ~IsMap(At(cm, c)) THEN {"cfg_codecs_type"} ELSE When(~typed(c), "cfg_codec_type") :
                          c \in KeySet(cm)},
           v |-> Map(SelectSeq(cm.p, LAMBDA pair : typed(pair[1])))]

\* the inline part of LoadBytesIn
parseLimits(raw) ==
  LET lm == Get(raw, "limits", Map(<<>>))
      max == asInt(Get(lm, "max_in_flight", Num(0)), 0)
      drain == Get(lm, "drain_timeout", Word("d1"))
  IN IF ~IsMap(lm) THEN [d |-> {"cfg_limits_type"}, v |-> [max |-> 0]]
     ELSE [d |-> Unknown(lm, {"max_in_flight", "drain_timeout"})
                 \cup When(HasKey(lm, "max_in_flight") /\ max < 1, "cfg_limits_range")
                 \cup IF ~IsStr(drain) THEN {"cfg_limits_type"}
                      ELSE When(~ParsesDuration(drain) \/ ParseDuration(drain) <= 0, "cfg_limits_range"),
           v |-> [max |-> IF max < 1 THEN 0 ELSE max]]

parseRun(raw) ==
  LET rm == Get(raw, "run", Map(<<>>))
      modes == {"continuous", "job", "batch"}
      word(k, words) == HasKey(rm, k) /\ ~IsWord(At(rm, k), words)
      mode == IF IsWord(Get(rm, "mode", Null), modes) THEN WordOf(At(rm, "mode")) ELSE "continuous"
      kept == Get(Get(rm, "retention", Null), "history", Null)
  IN IF ~IsMap(rm) THEN [d |-> {"cfg_run_type"}, v |-> [mode |-> "none", scheduled |-> FALSE]]
     ELSE [d |-> Unknown(rm, {"mode", "schedule", "overlap", "catchup_window", "skip_if_successful", "retention"})
                 \cup When(word("mode", modes), "cfg_run_mode")
                 \cup When(HasKey(rm, "schedule") /\ (~IsText(At(rm, "schedule")) \/ mode # "job"), "cfg_run_schedule")
                 \cup When(word("overlap", {"skip", "all", "latest"}), "cfg_run_overlap")
                 \cup When(HasKey(rm, "catchup_window") /\ ~ParsesDuration(At(rm, "catchup_window")), "cfg_run_catchup")
                 \cup When(Get(rm, "skip_if_successful", Bool(TRUE)).t # "bool", "cfg_run_skip")
                 \cup (IF HasKey(rm, "retention") /\ IsMap(At(rm, "retention"))
                       THEN Unknown(At(rm, "retention"), {"history"})
                            \cup When(kept.t # "null" /\ (~ParsesDuration(kept) \/ ParseDuration(kept) <= 0), "cfg_run_retention")
                       ELSE When(HasKey(rm, "retention"), "cfg_run_retention")),
           v |-> [mode |-> IF HasKey(raw, "run") THEN mode ELSE "none",
                  scheduled |-> IsText(Get(rm, "schedule", Null))]]

\* checkParamType, toInt64, toFloat: the integers of the documents are whole
TypeOfParam == [string |-> "str", integer |-> "int", number |-> "int", boolean |-> "bool"]
checkParamType(typ, x) == x.t = TypeOfParam[typ]

valueIn(x, list) == \E i \in DOMAIN list : x = list[i]

ParamSpec(dm) ==
  LET typ == IF IsWord(Get(dm, "type", Null), DOMAIN TypeOfParam) THEN WordOf(At(dm, "type")) ELSE "string"
      bound(k) == LET b == Get(dm, k, Null) IN IF b.t = "int" THEN b ELSE Null
  IN [type |-> typ,
      default |-> IF HasKey(dm, "default") /\ checkParamType(typ, At(dm, "default")) THEN At(dm, "default") ELSE Null,
      required |-> LET r == Get(dm, "required", Null) IN r.t = "bool" /\ r.b,
      enum |-> LET e == Get(dm, "enum", Null) IN IF e.t = "list" THEN e.e ELSE <<>>,
      pattern |-> Get(dm, "pattern", Null), min |-> bound("min"), max |-> bound("max")]

\* the patterns of the documents are literals: a text matches one that it contains
Matches(x, pattern) == ~IsText(pattern) \/ ~IsStr(x) \/ ToSet(pattern.s) \subseteq ToSet(x.s)
InRange(x, spec) ==
  x.t = "int" => (spec.min.t = "int" => x.n >= spec.min.n) /\ (spec.max.t = "int" => x.n <= spec.max.n)

\* Variant with a defect: a default is not held against the rest.
ParamDiagsAlone(dm) ==
  When(HasKey(dm, "default") /\ ~checkParamType(ParamSpec(dm).type, At(dm, "default")), "cfg_parameters_decl")
ParamDiags(dm) ==
  LET spec == ParamSpec(dm)
      set(k) == HasKey(dm, k)
      bad == \/ set("type") /\ ~IsWord(At(dm, "type"), DOMAIN TypeOfParam)
             \/ set("default") /\ ~checkParamType(spec.type, At(dm, "default"))
             \/ set("required") /\ At(dm, "required").t # "bool"
             \/ set("enum") /\ (spec.enum = <<>> \/ \E i \in DOMAIN spec.enum : ~checkParamType(spec.type, spec.enum[i]))
             \/ set("pattern") /\ ~IsStr(At(dm, "pattern"))
             \/ \E k \in {"min", "max"} : set(k) /\ At(dm, k).t # "int"
             \/ spec.min.t = "int" /\ spec.max.t = "int" /\ spec.min.n > spec.max.n
             \/ /\ spec.default.t # "null"
                /\ \/ spec.enum # <<>> /\ ~valueIn(spec.default, spec.enum)
                   \/ ~Matches(spec.default, spec.pattern)
                   \/ ~InRange(spec.default, spec)
                   \/ spec.required
  IN Unknown(dm, {"type", "default", "required", "enum", "pattern", "min", "max"})
     \cup When(bad, "cfg_parameters_decl")

parseParameters(raw, mode) ==
  LET pm == Get(raw, "parameters", Map(<<>>))
      maps == {n \in KeySet(pm) : IsMap(At(pm, n))}
  IN IF ~IsMap(pm) THEN [d |-> {"cfg_parameters_type"}, v |-> <<>>]
     ELSE IF HasKey(raw, "parameters") /\ mode # "job" THEN [d |-> {"cfg_parameters_not_job"}, v |-> <<>>]
     ELSE [d |-> When(maps # KeySet(pm), "cfg_parameters_type") \cup UNION {ParamDiags(At(pm, n)) : n \in maps},
           v |-> [n \in maps |-> ParamSpec(At(pm, n))]]

parseHooks(raw) ==
  LET hm == Get(raw, "hooks", Map(<<>>))
      hooks == KeySet(hm) \cap {"failure", "success"}
      inline(h) == IsMap(At(hm, h)) /\ Len(At(hm, h).p) = 1
      block(h) == At(hm, h).p[1][2]
  IN IF ~IsMap(hm) THEN [d |-> {"cfg_hooks_type"}, v |-> <<>>]
     ELSE [d |-> Unknown(hm, {"failure", "success"})
                 \cup When(\E h \in hooks : ~inline(h) \/ ~IsMap(block(h)), "cfg_hooks_sink"),
           v |-> [h \in {x \in hooks : inline(x)} |-> block(h)]]

parseTelemetry(raw) ==
  LET tm == Get(raw, "telemetry", Map(<<>>))
      redact == Get(tm, "redact", List(<<>>))
  IN IF ~IsMap(tm) THEN {"cfg_telemetry_type"}
     ELSE Unknown(tm, {"redact", "span_sample_rate"})
          \cup When(redact.t # "list" \/ \E i \in DOMAIN redact.e : ~IsText(redact.e[i]), "cfg_telemetry_redact")
          \* the rate is a float64: a whole number written 0 or 1 is refused
          \cup When(HasKey(tm, "span_sample_rate") /\ At(tm, "span_sample_rate").t # "float", "cfg_telemetry_span_rate")

parseDLQ(raw) ==
  LET dm == Get(raw, "dlq", Map(<<>>))
      kept == Get(dm, "retention", Word("d1"))
  IN IF ~IsMap(dm) THEN {"cfg_dlq_type"}
     ELSE Unknown(dm, {"retention"})
          \cup When(~ParsesDuration(kept) \/ ParseDuration(kept) <= 0, "cfg_dlq_retention")

-----------------------------------------------------------------------------
(* The node sections *)

SectionFields == [sources |-> {"decoder", "grpc", "version"},
                  transforms |-> {"depends_on", "workers", "version"},
                  sinks |-> {"depends_on", "encoder", "order_key", "batch", "grpc", "version"}]

\* the keys of a node that are neither a framework field of its section nor
\* one that has a diagnostic of its own
Misplaced(section) == {"from"} \cup (IF section = "sources" THEN {"depends_on"} ELSE {})
                      \cup (IF section = "sinks" THEN {"workers"} ELSE {})
pluginKeys(section, m) == KeySet(m) \ (SectionFields[section] \cup Misplaced(section))
MisplacedDiags(section, m) ==
  When(HasKey(m, "from"), "cfg_from_renamed")
  \cup When(section = "sources" /\ HasKey(m, "depends_on"), "cfg_source_with_depends_on")
  \cup When(section = "sinks" /\ HasKey(m, "workers"), "cfg_sink_workers")
PluginDiags(section, m) ==
  LET keys == pluginKeys(section, m)
  IN CASE keys = {} -> {"cfg_missing_plugin"}
       [] Cardinality(keys) > 1 -> {"cfg_multiple_plugins"}
       [] OTHER -> When(section # "transforms" /\ ~IsMap(At(m, CHOOSE k \in keys : TRUE)), "cfg_plugin_block_type")

\* grpc: an external plugin; env of another shape than a mapping is ignored
GrpcDiags(g) ==
  IF ~IsMap(g) THEN {"cfg_grpc_type"}
  ELSE LET cmd == Get(g, "command", Null)
           extra == Get(g, "env", Null)
       IN Unknown(g, {"command", "env", "schema", "restart"})
          \cup When(cmd.t # "list" \/ cmd.e = <<>> \/ \E i \in DOMAIN cmd.e : ~IsText(cmd.e[i]), "cfg_grpc_command")
          \cup When(IsMap(extra) /\ \E i \in DOMAIN extra.p : ~IsStr(extra.p[i][2]), "cfg_grpc_env")
          \cup When(~IsText(Get(g, "schema", Null)), "cfg_grpc_schema")
          \cup When(HasKey(g, "restart") /\ ~IsWord(At(g, "restart"), {"fast-fail", "restart"}), "cfg_grpc_restart")
HasGrpc(section, m) == section # "transforms" /\ HasKey(m, "grpc") /\ IsMap(At(m, "grpc"))

BatchDiags(b) ==
  IF ~IsMap(b) THEN {"cfg_batch_type"}
  ELSE Unknown(b, {"size", "timeout_ms"})
       \cup When(\E k \in {"size", "timeout_ms"} : HasKey(b, k) /\ asInt(At(b, k), 0) < 1, "cfg_batch_range")

\* a framework field is read only in the sections that have it, but workers
\* in any
FieldDiags(section, m) ==
  LET mine(k) == HasKey(m, k) /\ k \in SectionFields[section]
  IN (IF mine("grpc") THEN GrpcDiags(At(m, "grpc")) ELSE {})
     \cup When(mine("version") /\ asInt(At(m, "version"), 0) < 1, "cfg_version_range")
     \cup When(mine("decoder") /\ ~IsText(At(m, "decoder")), "cfg_decoder_type")
     \cup When(mine("encoder") /\ ~IsText(At(m, "encoder")), "cfg_encoder_type")
     \cup When(HasKey(m, "workers") /\ asInt(At(m, "workers"), 0) < 1, "cfg_workers_range")
     \cup When(mine("order_key") /\ ~IsText(At(m, "order_key")), "cfg_order_key_type")
     \cup (IF mine("batch") THEN BatchDiags(At(m, "batch")) ELSE {})
     \cup When(section # "sources" /\ ~HasKey(m, "depends_on"), "cfg_missing_depends_on")

\* parseDependsOn: a name, a list of elements, or one element
Elements(x) == IF x.t = "list" THEN x.e ELSE IF x.t \in {"str", "map"} THEN <<x>> ELSE <<>>
GoodElement(e) == IsText(e) \/ (IsMap(e) /\ Len(e.p) = 1 /\ IsMap(e.p[1][2]))
DependsDiags(x) ==
  When(x.t \notin {"str", "list", "map"} \/ \E i \in DOMAIN Elements(x) : ~GoodElement(Elements(x)[i]), "cfg_bad_depends_on")
  \cup UNION {EdgeDiags(Elements(x)[i].p[1][2], FALSE) :
                i \in {j \in DOMAIN Elements(x) : IsMap(Elements(x)[j]) /\ GoodElement(Elements(x)[j])}}
parseDependsOn(x, defaults) ==
  LET good == SelectSeq(Elements(x), GoodElement)
  IN [i \in DOMAIN good |->
        IF IsStr(good[i]) THEN [defaults EXCEPT !.from = WordOf(good[i])]
        ELSE parseEdgeAttrs(good[i].p[1][2], good[i].p[1][1], defaults)]

AtLeastOne(x) == IF asInt(x, 0) < 1 THEN 1 ELSE x.n
TextOr(m, k, default) == IF IsText(Get(m, k, Null)) THEN At(m, k).s ELSE default
parseNode(section, name, m, defaults) ==
  [name |-> name, section |-> section, plugin |-> CHOOSE k \in pluginKeys(section, m) : TRUE,
   config |-> At(m, CHOOSE k \in pluginKeys(section, m) : TRUE),
   workers |-> AtLeastOne(Get(m, "workers", Num(1))),
   batch |-> AtLeastOne(Get(Get(m, "batch", Null), "size", Num(1))),
   codec |-> TextOr(m, IF section = "sources" THEN "decoder" ELSE "encoder", <<Lit("json")>>),
   order_key |-> IF section = "sinks" THEN TextOr(m, "order_key", <<>>) ELSE <<>>,
   grpc |-> IF HasGrpc(section, m) THEN At(m, "grpc") ELSE Null,
   in |-> IF section = "sources" THEN <<>> ELSE parseDependsOn(Get(m, "depends_on", Null), defaults)]

NodeOK(section, m) == IsMap(m) /\ PluginDiags(section, m) = {}
NodeDiags(section, m) ==
  IF ~IsMap(m) THEN {"cfg_node_type"}
  ELSE MisplacedDiags(section, m) \cup
       IF ~NodeOK(section, m) THEN PluginDiags(section, m)
       ELSE FieldDiags(section, m)
            \cup IF section # "sources" /\ HasKey(m, "depends_on") THEN DependsDiags(At(m, "depends_on")) ELSE {}

parseSection(raw, section, defaults) ==
  LET sm == Get(raw, section, Null)
      good == SelectSeq(sm.p, LAMBDA pair : NodeOK(section, pair[2]))
  IN IF ~HasKey(raw, section)
     THEN [d |-> When(section # "transforms", "cfg_missing_section"), v |-> <<>>]
     ELSE IF ~IsMap(sm) THEN [d |-> {"cfg_section_type"}, v |-> <<>>]
     ELSE IF sm.p = <<>> THEN [d |-> {"cfg_empty_section"}, v |-> <<>>]
     ELSE [d |-> UNION {NodeDiags(section, sm.p[i][2]) : i \in DOMAIN sm.p},
           v |-> [i \in DOMAIN good |-> parseNode(section, good[i][1], good[i][2], defaults)]]

\* the sections in document order, then the required ones that are missing
SectionOrder(raw) ==
  LET sections == <<"sources", "transforms", "sinks">>
  IN SelectSeq(Keys(raw), LAMBDA k : k \in ToSet(sections))
     \o SelectSeq(sections, LAMBDA k : ~HasKey(raw, k))

ManifestDiags(n) ==
  LET path == Get(n.grpc, "schema", Null)
      m == Manifests[WordOf(path)]
  IN IF n.grpc.t = "null" THEN {}
     ELSE IF ~IsText(path) \/ \E i \in DOMAIN path.s : path.s[i].ref = "parameters" THEN {"grpc_manifest_read"}
     ELSE IF WordOf(path) \notin DOMAIN Manifests THEN {"grpc_manifest_read"}
     ELSE IF ~m.json THEN {"grpc_manifest_parse"}
     ELSE IF m.kind # (IF n.section = "sinks" THEN "sink" ELSE "source") THEN {"grpc_manifest_kind"}
     ELSE IF m.version < 1 THEN {"grpc_manifest_version"}
     ELSE When(~m.schema, "grpc_manifest_schema")

-----------------------------------------------------------------------------
(* LoadBytesIn, one parser at a time *)

NoConf == [name |-> <<>>, mode |-> "none", constants |-> <<>>, defaults |-> FrameworkDefaults,
           codecs |-> Map(<<>>), parameters |-> <<>>, hooks |-> <<>>, nodes |-> <<>>]
NoRun == [at |-> "none", trigger |-> <<>>, resolved |-> <<>>, conf |-> NoConf, failed |-> FALSE,
          hook |-> Null]

LoaderStart ==
  /\ env \in Environments
  /\ root = doc
  /\ step = "env"
  /\ diags = {}
  /\ conf = NoConf
  /\ run = NoRun
LoaderInit == doc \in Documents /\ LoaderStart

Goto(here, next) == step = here /\ step' = next
Reports(d) == diags' = diags \cup d
Same == UNCHANGED <<doc, env, run>>

\* Pass 1
SubstituteEnv ==
  /\ Goto("env", "decode")
  /\ root' = walk(root, Scope("env", <<>>))
  /\ Reports(When(\E m \in TokensOf(root) : Unset(m) /\ ~m.opt, "cfg_env_unset"))
  /\ UNCHANGED conf /\ Same

\* Pass 2
Decode ==
  /\ Goto("decode", IF Undecodable(root) THEN "done" ELSE "constants")
  /\ Reports(When(Undecodable(root), "yaml_parse"))
  /\ UNCHANGED <<root, conf>> /\ Same

\* Pass 3: jobMode is read before the substitution
SubstituteConstants ==
  LET constants == Pairs(Get(root, "constants", Null))
      jobMode == IsWord(Get(Get(root, "run", Null), "mode", Null), {"job"})
      others == {i \in DOMAIN root.p : root.p[i][1] # "constants"}
  IN /\ Goto("constants", "header")
     /\ root' = Map([i \in DOMAIN root.p |->
                       <<root.p[i][1], IF i \in others THEN substitute(root.p[i][2], constants) ELSE root.p[i][2]>>])
     /\ Reports(UNION {ScopeDiags(root.p[i][2], constants, jobMode) : i \in others})
     /\ conf' = [conf EXCEPT !.constants = constants]
     /\ Same

Header ==
  /\ Goto("header", "edges")
  /\ Reports(HeaderDiags(root))
  /\ conf' = [conf EXCEPT !.name = TextOr(Get(root, "metadata", Null), "name", <<>>)]
  /\ UNCHANGED root /\ Same

EdgeDefaults ==
  LET r == parseEdgeDefaults(root)
  IN /\ Goto("edges", "codecs") /\ Reports(r.d) /\ conf' = [conf EXCEPT !.defaults = r.v]
     /\ UNCHANGED root /\ Same

Codecs ==
  LET r == parseCodecs(root)
  IN /\ Goto("codecs", "run") /\ Reports(r.d \cup parseLimits(root).d) /\ conf' = [conf EXCEPT !.codecs = r.v]
     /\ UNCHANGED root /\ Same

Run ==
  LET r == parseRun(root)
  IN /\ Goto("run", "parameters") /\ Reports(r.d) /\ conf' = [conf EXCEPT !.mode = r.v.mode]
     /\ UNCHANGED root /\ Same

Parameters ==
  LET r == parseParameters(root, conf.mode)
  IN /\ Goto("parameters", "hooks") /\ Reports(r.d) /\ conf' = [conf EXCEPT !.parameters = r.v]
     /\ UNCHANGED root /\ Same

Hooks ==
  LET r == parseHooks(root)
  IN /\ Goto("hooks", "sections") /\ Reports(r.d \cup parseTelemetry(root) \cup parseDLQ(root))
     /\ conf' = [conf EXCEPT !.hooks = r.v]
     /\ UNCHANGED root /\ Same

Sections ==
  LET order == SectionOrder(root)
      parsed == [i \in DOMAIN order |-> parseSection(root, order[i], conf.defaults)]
  IN /\ Goto("sections", "manifests")
     /\ Reports(UNION {parsed[i].d : i \in DOMAIN order})
     /\ conf' = [conf EXCEPT !.nodes = FlattenSeq([i \in DOMAIN order |-> parsed[i].v])]
     /\ UNCHANGED root /\ Same

loadManifests ==
  /\ Goto("manifests", "done")
  /\ Reports(UNION {ManifestDiags(conf.nodes[i]) : i \in DOMAIN conf.nodes})
  /\ UNCHANGED <<root, conf>> /\ Same

Load == \/ SubstituteEnv \/ Decode \/ SubstituteConstants \/ Header \/ EdgeDefaults \/ Codecs \/ Run
        \/ Parameters \/ Hooks \/ Sections \/ loadManifests
Loaded == step = "done" /\ diags = {}

-----------------------------------------------------------------------------
(* A job pipeline is verified, triggered and run.  The manager keeps the    *)
(* pipeline it was made with; a run loads the file again and substitutes    *)
(* its values there.                                                        *)

ParametersIn(x) == {m.name : m \in {n \in TokensOf(x) : n.ref = "parameters"}}
EdgeTexts(n) == {n.in[i].text : i \in DOMAIN n.in}
\* what ir's scanRefs looks at, and what SubstituteParameters rewrites
ScannedIn(n) == ParametersIn(n.config) \cup ParametersIn(Str(n.order_key))
                \cup UNION {ParametersIn(Str(text)) : text \in EdgeTexts(n)}
RewrittenIn(n) == ScannedIn(n) \cup ParametersIn(Str(n.codec))
                  \cup (IF IsMap(n.grpc) THEN ParametersIn(n.grpc) ELSE {})

\* the parameter part of checkJobSemantics
scanRefs ==
  /\ Loaded /\ conf.mode = "job" /\ run.at = "none"
  /\ LET unknown == UNION {ScannedIn(conf.nodes[i]) : i \in DOMAIN conf.nodes} \ DOMAIN conf.parameters
     IN /\ diags' = When(unknown # {}, "job_parameter_unknown")
        /\ run' = [run EXCEPT !.at = "verified"]
  /\ UNCHANGED <<doc, env, root, step, conf>>

\* jobs.go: containsValue is asked for strings only
checkParamValue(spec, x) ==
  /\ checkParamType(spec.type, x)
  /\ spec.type = "string" => (spec.enum = <<>> \/ valueIn(x, spec.enum)) /\ Matches(x, spec.pattern)
  /\ InRange(x, spec)

Acceptable(trigger, specs) ==
  /\ DOMAIN trigger \subseteq DOMAIN specs
  /\ \A p \in DOMAIN specs : IF p \in DOMAIN trigger THEN checkParamValue(specs[p], trigger[p]) ELSE ~specs[p].required
resolveParameters(trigger, specs) ==
  [p \in {q \in DOMAIN specs : q \in DOMAIN trigger \/ specs[q].default.t # "null"} |->
     IF p \in DOMAIN trigger THEN trigger[p] ELSE specs[p].default]

Trigger ==
  /\ run.at = "verified" /\ diags = {}
  /\ \E trigger \in Triggers :
       run' = IF Acceptable(trigger, conf.parameters)
              THEN [run EXCEPT !.at = "triggered", !.trigger = trigger,
                               !.resolved = resolveParameters(trigger, conf.parameters)]
              ELSE [run EXCEPT !.at = "refused", !.trigger = trigger]
  /\ UNCHANGED <<doc, env, root, step, diags, conf>>

IsCursor(x) == IsWord(x, {"cursor"})
Bound(resolved, watermark) == [p \in DOMAIN resolved |-> IF IsCursor(resolved[p]) THEN Str(watermark) ELSE resolved[p]]
WatermarkOf(source) == IF source \in DOMAIN Watermarks THEN Watermarks[source] ELSE <<>>
\* the first source, in declaration order, that has a watermark
firstWatermark(nodes) ==
  LET held == SelectSeq(nodes, LAMBDA n : n.section = "sources" /\ WatermarkOf(n.name) # <<>>)
  IN IF held = <<>> THEN <<>> ELSE WatermarkOf(held[1].name)
globalValues == Bound(run.resolved, firstWatermark(conf.nodes))
\* Variant with a defect: one watermark for all sources.
valuesForAll(n) == globalValues
valuesFor(n) == IF n.section = "sources" THEN Bound(run.resolved, WatermarkOf(n.name)) ELSE globalValues

\* Variant with a defect: the plugin block alone is rewritten.
SubstitutedNodeBlock(n, values) == [n EXCEPT !.config = walk(n.config, Scope("parameters", values))]
SubstitutedNode(n, values) ==
  LET sub(text) == walk(Str(text), Scope("parameters", values)).s
  IN [n EXCEPT !.config = walk(n.config, Scope("parameters", values)),
               !.order_key = sub(n.order_key), !.codec = sub(n.codec),
               !.grpc = walk(n.grpc, Scope("parameters", values)),
               !.in = [i \in DOMAIN n.in |-> [n.in[i] EXCEPT !.text = sub(n.in[i].text)]]]
Substituted ==
  LET all(x) == walk(x, Scope("parameters", globalValues))
  IN [conf EXCEPT !.nodes = [i \in DOMAIN conf.nodes |-> SubstitutedNode(conf.nodes[i], valuesFor(conf.nodes[i]))],
                  !.constants = [c \in DOMAIN conf.constants |-> all(conf.constants[c])],
                  !.codecs = all(conf.codecs),
                  !.hooks = [h \in DOMAIN conf.hooks |-> all(conf.hooks[h])]]
RewrittenNames ==
  UNION {RewrittenIn(conf.nodes[i]) : i \in DOMAIN conf.nodes} \cup ParametersIn(conf.codecs)
  \cup UNION {ParametersIn(conf.constants[c]) : c \in DOMAIN conf.constants}
  \cup UNION {ParametersIn(conf.hooks[h]) : h \in DOMAIN conf.hooks}

SubstituteParameters ==
  /\ run.at = "triggered"
  /\ run' = [run EXCEPT !.at = "ended", !.conf = Substituted,
                        !.failed = ~(RewrittenNames \subseteq DOMAIN run.resolved)]
  /\ UNCHANGED <<doc, env, root, step, diags, conf>>

\* the hook of a run is built from the manager's own pipeline
fireHook ==
  /\ run.at = "ended"
  /\ run' = [run EXCEPT !.at = "reported",
                        !.hook = LET h == IF run.failed THEN "failure" ELSE "success"
                                 IN IF h \in DOMAIN conf.hooks THEN conf.hooks[h] ELSE Null]
  /\ UNCHANGED <<doc, env, root, step, diags, conf>>

LoaderNext == Load \/ scanRefs \/ Trigger \/ SubstituteParameters \/ fireHook
LoaderSpec == LoaderInit /\ [][LoaderNext]_loaderVars

-----------------------------------------------------------------------------
(* What the loader promises *)

FlatSettings ==
  /\ \A v \in DOMAIN env : \A i \in DOMAIN env[v] : env[v][i].ref # "env"
  /\ \A c \in DOMAIN conf.constants : \A m \in TokensOf(conf.constants[c]) : m.ref = "literal"
Body == Map(SelectSeq(root.p, LAMBDA pair : pair[1] # "constants"))

\* "Unknown means error": in a document that loads, no reference is left but
\* a job's references to its parameters, as long as no variable and no
\* constant has a reference for a value (LoadBytesIn, passes 1 and 3).
ReferencesResolved ==
  Loaded /\ FlatSettings =>
    \A m \in TokensOf(Body) : m.ref = "literal" \/ (m.ref = "parameters" /\ conf.mode = "job")

\* Every edge, worker count and batch size of a document that loads is one
\* the engine can run with, whichever layer it came from (parseEdgeAttrs,
\* MaterializeEdgeDefaults, parseNode).
AcceptedInRange ==
  Loaded => \A i \in DOMAIN conf.nodes :
    /\ conf.nodes[i].workers >= 1 /\ conf.nodes[i].batch >= 1
    /\ \A j \in DOMAIN conf.nodes[i].in :
         LET e == conf.nodes[i].in[j] IN e.retries >= 0 /\ e.buffer >= 1 /\ e.timeout >= 0

\* A default that loads would also be accepted from a trigger: the self-check
\* of a declaration (parseParameters) is no weaker than the check a run makes
\* (checkParamValue).
DefaultsAcceptable ==
  Loaded => \A p \in DOMAIN conf.parameters :
    LET spec == conf.parameters[p]
    IN spec.default.t # "null" => checkParamValue(spec, spec.default) /\ ~spec.required

\* What verification accepts the engine can use: no reference is left over, numbers are in
\* range, and the defaults of parameters pass the checks of a trigger.
AcceptedSound == ReferencesResolved /\ AcceptedInRange /\ DefaultsAcceptable

\* A run that was not failed by the substitution has no parameter reference
\* left anywhere a plugin, a predicate or a codec would read it, whatever
\* path of the pipeline it was written on (SubstituteParameters).
RunIsBound ==
  run.at \in {"ended", "reported"} /\ ~run.failed =>
    /\ \A i \in DOMAIN run.conf.nodes : RewrittenIn(run.conf.nodes[i]) = {}
    /\ ParametersIn(run.conf.codecs) = {}
    /\ \A h \in DOMAIN run.conf.hooks : ParametersIn(run.conf.hooks[h]) = {}

\* The cursor a source reads from is its own watermark: no source is given
\* the position of another one (valuesFor in runOnce).
CursorIsOwn ==
  run.at \in {"ended", "reported"} =>
    \A i \in DOMAIN run.conf.nodes : \A s \in DOMAIN Watermarks :
      LET n == run.conf.nodes[i]
      IN n.section = "sources" /\ n.name # s => ToSet(Watermarks[s]) \cap TokensOf(n.config) = {}

\* A run is bound completely and to its own values.
BindingSound == RunIsBound /\ CursorIsOwn

\* Every value a run works with is one its declaration allows, the enum of a
\* number included (checkParamValue: "types, enum, pattern, min/max").
ResolvedAllowed ==
  run.at = "triggered" => \A p \in DOMAIN run.resolved :
    conf.parameters[p].enum = <<>> \/ valueIn(run.resolved[p], conf.parameters[p].enum)

\* The hook of a run is delivered with that run's values in its block
\* (SubstituteParameters replaces the tokens of "hooks").
HookIsBound ==
  run.at = "reported" /\ ~run.failed => ParametersIn(run.hook) = {}
=============================================================================
