----------------------------- MODULE MCSources ------------------------------
(***************************************************************************)
(* The instances TLC checks of the built-in sources and of the host of     *)
(* external plugins.  A behaviour is one source, or one external sink,     *)
(* over its whole life; part says which.                                   *)
(***************************************************************************)
EXTENDS FileSource, StreamSource, PluginHost

VARIABLE part

Line(n, k) == [n |-> n, k |-> k]

\* logrotate over a glob of both names, with a crash and a refused emission.
Tailing ==
  [glob |-> {"log", "log.1"}, start |-> "beginning", eof |-> "tail", close |-> FALSE,
   clean |-> TRUE, ignore |-> FALSE, multi |-> FALSE, maxLines |-> 2, refuse |-> TRUE,
   reuse |-> FALSE, kinds |-> {"msg"}, content |-> <<>>, half |-> FALSE, legacy |-> 0,
   may |-> [writes |-> 2, rotations |-> 1, truncations |-> 0, faults |-> 0,
            restarts |-> 1]]

\* close_inactive, clean_removed and transient faults while log is rotated away.
Closing ==
  [Tailing EXCEPT !.glob = {"log"}, !.close = TRUE, !.refuse = FALSE,
                  !.may.faults = 1, !.may.restarts = 0]

\* multiline groups of at most two lines.
Grouping ==
  [Tailing EXCEPT !.multi = TRUE, !.kinds = {"msg", "cont"}, !.may.rotations = 0,
                  !.may.writes = 3]

\* on_eof: stop over a file with a blank line and an unterminated one, resumed from a
\* version 1 document, with faults.
Batch ==
  [Tailing EXCEPT !.eof = "stop", !.glob = {"log"}, !.close = TRUE, !.kinds = {},
                  !.content = <<Line(1, "msg"), Line(2, "drop"), Line(3, "msg")>>,
                  !.half = TRUE, !.legacy = 1, !.may.rotations = 0, !.may.faults = 2]

\* copytruncate under ignore_older.
Rewriting ==
  [Tailing EXCEPT !.ignore = TRUE, !.close = TRUE, !.refuse = FALSE,
                  !.may.truncations = 1, !.may.rotations = 0, !.may.restarts = 0]

\* start_at: end.
AtEnd ==
  [Tailing EXCEPT !.glob = {"log"}, !.start = "end", !.content = <<Line(1, "msg")>>,
                  !.may.rotations = 0]

MCFileSetups == {Tailing, Closing, Grouping, Batch, Rewriting, AtEnd}

\* Rows in pages of two, a page as one message, messages of a topic, posts and ticks.
Rows ==
  [kind |-> "sql", size |-> 2, whole |-> FALSE, top |-> 2,
   may |-> [refusals |-> 1, faults |-> 1, restarts |-> 1]]
Pages == [Rows EXCEPT !.whole = TRUE, !.top = 3]
Topic == [Rows EXCEPT !.kind = "kafka", !.size = 1]
Posts == [Topic EXCEPT !.kind = "http", !.top = 0]
Ticks == [Posts EXCEPT !.kind = "cron"]

MCStreamSetups == {Rows, Pages, Topic, Posts, Ticks}

MCPolicies == [kind : {"source", "sink"}, restart : BOOLEAN]
FastFail == [kind |-> "sink", restart |-> FALSE]

Init ==
  \/ /\ part = "file" /\ FileInit
     /\ StreamInit /\ plan = Rows
     /\ PluginInit /\ policy = FastFail
  \/ /\ part = "stream" /\ StreamInit
     /\ FileInit /\ conf = AtEnd
     /\ PluginInit /\ policy = FastFail
  \/ /\ part = "plugin" /\ PluginInit
     /\ FileInit /\ conf = AtEnd
     /\ StreamInit /\ plan = Rows

Next ==
  \/ part = "file" /\ FileNext /\ UNCHANGED <<part, streamVars, pluginVars>>
  \/ part = "stream" /\ StreamNext /\ UNCHANGED <<part, fileVars, pluginVars>>
  \/ part = "plugin" /\ PluginNext /\ UNCHANGED <<part, fileVars, streamVars>>

Spec == Init /\ [][Next]_<<part, fileVars, streamVars, pluginVars>> /\ PluginFairness

=============================================================================
