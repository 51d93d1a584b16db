------------------------------- MODULE MCJobs -------------------------------
(***************************************************************************)
(* Instances of Jobs: job declarations with bounds that put the hard cases *)
(* inside a small state space.                                             *)
(***************************************************************************)
EXTENDS Jobs

\* A job with one tick, catch-up, a waiting client, a crash and a stop.
Plain ==
  [job |-> [overlap |-> "skip", skip |-> TRUE, ticks |-> {2}, window |-> 1,
            retention |-> 0],
   may |-> [triggers |-> {"wait"}, outlive |-> FALSE, time |-> 2, runs |-> 3,
            back |-> 0, crashes |-> 1, stops |-> 1, faults |-> 0]]

\* overlap: latest, by triggers alone, with a stop.
Latest ==
  [Plain EXCEPT !.job.overlap = "latest", !.job.ticks = {}, !.may.time = 1,
                !.may.crashes = 0]

\* Everything that goes wrong: a failing write, a clock set back, a reply that ends
\* the context of its run, an engine that outlives it, and a crash.
Faulty ==
  [Plain EXCEPT !.may.faults = 1, !.may.back = 1, !.may.stops = 0, !.may.runs = 2,
                !.may.outlive = TRUE, !.may.triggers = {"async"}]

\* Three ticks whose runs overlap, a crash, and a history that is pruned, no faster
\* than the catch-up window.
Scheduled ==
  [Plain EXCEPT !.job.overlap = "all", !.job.ticks = {2, 3, 4}, !.job.retention = 1,
                !.may.triggers = {}, !.may.time = 5, !.may.stops = 0]

\* A run started by a request that is answered at once.
Asynchronous ==
  [Plain EXCEPT !.job.ticks = {}, !.may.triggers = {"async"}, !.may.runs = 1,
                !.may.crashes = 0]

\* Overlapping runs, a crash and a stop, for liveness.
Overlapping == [Plain EXCEPT !.job.overlap = "all", !.may.runs = 2]

SafetySetups == {Plain, Latest, Faulty, Scheduled}
LiveSetups == {Overlapping}
AsyncSetups == {Asynchronous}

=============================================================================
