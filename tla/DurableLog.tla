----------------------------- MODULE DurableLog -----------------------------
(***************************************************************************)
(* What the commit path of a pipeline promises of its durable state, and   *)
(* nothing of how: rows are accepted in order and kept; a row is done once *)
(* its processing has ended; the checkpoint moves over done rows only, and *)
(* only rows behind it may be dropped.  A reader of the log at any moment, *)
(* a restart after a crash included, therefore finds every row that is not *)
(* done beyond the checkpoint.                                             *)
(***************************************************************************)
EXTENDS Naturals

VARIABLES accepted,    \* rows accepted so far: the last sequence given out
          kept,        \* sequences of the rows that can still be read
          done,        \* sequences of the rows whose processing has ended
          mark         \* the checkpoint

logVars == <<accepted, kept, done, mark>>

Init == accepted = 0 /\ kept = {} /\ done = {} /\ mark = 0

Accept ==
  /\ accepted' = accepted + 1
  /\ kept' = kept \cup {accepted + 1}
  /\ UNCHANGED <<done, mark>>

\* A duplicate delivery ends a row again, which changes nothing.
Finish ==
  /\ \E q \in 1..accepted : done' = done \cup {q}
  /\ UNCHANGED <<accepted, kept, mark>>

\* The checkpoint moves forward over done rows; rows behind it may go.
Advance ==
  /\ mark' >= mark /\ 1..mark' \subseteq done
  /\ kept' \subseteq kept /\ \A q \in kept \ kept' : q <= mark'
  /\ UNCHANGED <<accepted, done>>

Next == Accept \/ Finish \/ Advance

Spec == Init /\ [][Next]_logVars
=============================================================================
