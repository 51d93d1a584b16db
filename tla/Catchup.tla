------------------------------- MODULE Catchup -------------------------------
(***************************************************************************)
(* maybeCatchup and lastTickBefore (internal/jobs/jobs.go): after an       *)
(* outage the newest missed tick is found by bisecting the schedule, and   *)
(* fired if it is inside the catch-up window.  Time is counted in units    *)
(* finer than a second; the ticks of a cron expression are whole seconds.  *)
(***************************************************************************)
EXTENDS Integers, FiniteSetsExt

CONSTANTS
  Second,   \* how many units of time a second has
  Horizon,  \* bound: the last moment
  Window,   \* run.catchup_window, in units
  Every     \* 0: a five-field cron expression; else the delay of an @every schedule

ASSUME CatchupAssumption ==
  /\ Second \in Nat \ {0} /\ Horizon \in Nat /\ Window \in Nat \ {0} /\ Every \in Nat
  /\ Every % Second = 0

Seconds == {t \in 1..Horizon : t % Second = 0}

VARIABLES
  ticks,   \* the ticks of the cron expression
  last,    \* LastScheduledFor: the newest tick in the run history
  now,     \* the clock when the process starts again
  lo, hi,  \* the bracket of the bisection
  probes,  \* how often the bisection called Next
  pc       \* "begin", "bisect", then the verdict: "idle" or "fire"

catchupVars == <<ticks, last, now, lo, hi, probes, pc>>

\* sched.Next, the first tick after t: a cron expression has fixed ticks, an @every
\* schedule counts its delay from t, rounded down to the second.
Next_(t) ==
  IF Every = 0 THEN Min({k \in ticks : k > t} \union {Horizon + 1})
  ELSE (t - (t % Second)) + Every

\* The ticks the pipeline missed: those the schedule has after the last one it ran.
Missed ==
  IF Every = 0 THEN {k \in ticks : last < k /\ k <= now}
  ELSE {k \in (last + 1)..now : (k - last) % Every = 0}

CatchupInit ==
  /\ ticks \in IF Every = 0 THEN SUBSET Seconds ELSE {{}}
  /\ last \in IF Every = 0 THEN ticks ELSE Seconds
  /\ now \in last..Horizon
  /\ lo = last /\ hi = now /\ probes = 0 /\ pc = "begin"

\* maybeCatchup: nothing to do when the next tick is still to come.
maybeCatchup ==
  /\ pc = "begin"
  /\ pc' = IF Next_(last) > now THEN "idle" ELSE "bisect"
  /\ UNCHANGED <<ticks, last, now, lo, hi, probes>>

\* Mutant of Wide: the bisection stops while two ticks fit into the bracket.
WideTwo == hi - lo > 2 * Second

\* The bracket is wider than the spacing of the ticks.
Wide == hi - lo > Second

\* Mutant of Probe: the schedule is walked a second at a time.
ProbeWalks ==
  LET mid == lo + Second IN
  /\ pc = "bisect" /\ Wide
  /\ IF Next_(mid) > now THEN hi' = mid /\ UNCHANGED lo ELSE lo' = mid /\ UNCHANGED hi
  /\ probes' = probes + 1
  /\ UNCHANGED <<ticks, last, now, pc>>

\* lastTickBefore: one probe in the middle of the bracket.
Probe ==
  LET mid == lo + (hi - lo) \div 2 IN
  /\ pc = "bisect" /\ Wide
  /\ IF Next_(mid) > now THEN hi' = mid /\ UNCHANGED lo ELSE lo' = mid /\ UNCHANGED hi
  /\ probes' = probes + 1
  /\ UNCHANGED <<ticks, last, now, pc>>

\* The tick the bisection has found.
Latest == Next_(lo)

\* maybeCatchup: the tick is fired unless it is outside the window.
Decide ==
  /\ pc = "bisect" /\ ~Wide
  /\ pc' = IF Latest <= last \/ Latest > now \/ now - Latest > Window THEN "idle"
           ELSE "fire"
  /\ UNCHANGED <<ticks, last, now, lo, hi, probes>>

CatchupNext == maybeCatchup \/ Probe \/ Decide

CatchupSpec == CatchupInit /\ [][CatchupNext]_catchupVars

-----------------------------------------------------------------------------
\* The tick that is fired is the newest missed one, and it is fired exactly when one
\* was missed and the newest is inside the window: the bisection of the staircase of
\* Next stands for the list of missed ticks that lastTickBefore never builds.
FiresNewestMissed ==
  /\ pc = "fire" => Missed # {} /\ Latest = Max(Missed) /\ now - Max(Missed) <= Window
  /\ pc = "idle" => Missed = {} \/ now - Max(Missed) > Window

\* lastTickBefore needs a number of probes logarithmic in the length of the outage:
\* every probe halves the bracket, up to the unit that rounding adds.
Halves == (hi - lo - 1) * 2 ^ probes <= now - last

\* A restart finds the one tick to fire, and finds it quickly.
CatchupSound == FiresNewestMissed /\ Halves

=============================================================================
