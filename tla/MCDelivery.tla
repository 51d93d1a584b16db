----------------------------- MODULE MCDelivery -----------------------------
(***************************************************************************)
(* The pipelines TLC checks.  Channels hold one message, so that a fan-out *)
(* meets a full one.                                                       *)
(***************************************************************************)
EXTENDS Delivery

E(f, t, w, req, r) == [from |-> f, to |-> t, when |-> w, required |-> req, retries |-> r]

\* A diamond: a source into a transform with two workers and into the sink b, which the
\* transform feeds as well; its other sink is optional.
Diamond ==
  [node |-> [feed |-> "src", w1 |-> "t", w2 |-> "t", a |-> "a", b |-> "b"],
   kind |-> [t |-> "script", a |-> "http", b |-> "file"],
   size |-> [a |-> 1, b |-> 2],
   edges |-> <<E("src", "t", FALSE, TRUE, 1), E("src", "b", TRUE, TRUE, 1),
               E("t", "a", TRUE, FALSE, 0), E("t", "b", FALSE, TRUE, 0)>>,
   outputs |-> {1}, cap |-> 1, high |-> 2, msgs |-> 2, inject |-> "b",
   may |-> [codec |-> 0, injects |-> 0, clones |-> 0, applies |-> 0, writes |-> 1,
            records |-> 0, stops |-> 0]]

\* A chain whose transform filters and splits, with everything that can fail.
Chain ==
  [Diamond EXCEPT
     !.node = [feed |-> "src", inject |-> "inject", w |-> "t", b |-> "b"],
     !.kind = [t |-> "clone", b |-> "http"], !.size = [b |-> 2],
     !.edges = <<E("src", "t", FALSE, TRUE, 1), E("t", "b", TRUE, FALSE, 1)>>,
     !.outputs = {0, 1, 2},
     !.may = [codec |-> 1, injects |-> 1, clones |-> 1, applies |-> 2, writes |-> 2,
              records |-> 1, stops |-> 0]]

\* The chain while it is stopped.
Stopping ==
  [Chain EXCEPT !.kind.t = "split", !.outputs = {1, 2}, !.edges[2].retries = 0,
     !.may = [codec |-> 0, injects |-> 1, clones |-> 0, applies |-> 1, writes |-> 1,
              records |-> 1, stops |-> 1]]

MCPipelines == {Diamond, Chain, Stopping}
=============================================================================
