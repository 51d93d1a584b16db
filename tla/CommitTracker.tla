---------------------------- MODULE CommitTracker ----------------------------
(***************************************************************************)
(* The commit tracker of internal/engine/commit.go as pure operators on a  *)
(* record: every operator is one critical section under commitTracker.mu   *)
(* and returns the tracker after it.  What the code hands to its callbacks *)
(* AFTER the unlock is computed by Calls, the argument list of invoke.     *)
(*                                                                         *)
(* The Go map outstanding is the pair (open, n): open is the key set, and  *)
(* n[q] is 0 for an absent key, as a Go map read is.  The FIFO srcRefs is  *)
(* kept as a set of entries: addSrcRef keeps the queue sorted by spool     *)
(* sequence and the sweep only ever pops its prefix at or below a bound,   *)
(* which is the same as removing the entries at or below that bound.       *)
(***************************************************************************)
EXTENDS Integers, FiniteSetsExt

CONSTANTS Sources,    \* source nodes with a commit frontier
          MaxSeq      \* bound: spool sequences are 1..MaxSeq

ASSUME MaxSeqAssumption == MaxSeq \in Nat

Seqs == 1..MaxSeq
Ptrs == 1..(MaxSeq + 1)  \* where the prefix cursor can stand
NoNode == "none"      \* the empty node name of an injected or replayed row

ASSUME NoNodeAssumption == NoNode \notin Sources

SrcRef == [seq : Seqs, node : Sources, srcSeq : Nat \ {0}]
SrcTracker == [arrivedAt : SUBSET (Nat \ {0}), committedAt : SUBSET (Nat \ {0}),
               front : Nat]
Tracker == [open : SUBSET Seqs, n : [Seqs -> Int], openBranches : Int,
            arrivedMax : 0..MaxSeq, committedPtr : Ptrs,
            removed : SUBSET Seqs, srcRefs : SUBSET SrcRef,
            srcs : [Sources -> SrcTracker]]

newCommitTracker ==
  [open |-> {}, n |-> [q \in Seqs |-> 0], openBranches |-> 0, arrivedMax |-> 0,
   committedPtr |-> 1, removed |-> {}, srcRefs |-> {},
   srcs |-> [s \in Sources |-> [arrivedAt |-> {}, committedAt |-> {}, front |-> 0]]]

posBranches(v) == IF v > 0 THEN v ELSE 0

(***************************************************************************)
(* arrived: one outstanding unit for a spooled row.  The assignment        *)
(* overwrites whatever the entry held.  A live emission also leaves its    *)
(* source reference; an injected or replayed row (NoNode) does not.        *)
(***************************************************************************)
arrived(t, q, node, srcSeq) ==
  LET known == node \in Sources IN
  [t EXCEPT !.openBranches = @ + 1 - posBranches(t.n[q]),
            !.open = @ \cup {q},
            !.n = [t.n EXCEPT ![q] = 1],
            !.arrivedMax = IF q > @ THEN q ELSE @,
            !.srcs = IF known
                     THEN [t.srcs EXCEPT ![node].arrivedAt = t.srcs[node].arrivedAt \cup {srcSeq}]
                     ELSE t.srcs,
            !.srcRefs = IF known
                        THEN @ \cup {[seq |-> q, node |-> node, srcSeq |-> srcSeq]}
                        ELSE @]

\* Variant: the frontier follows arrivals, committed or not.
NextFrontArrived(st) == Max({st.front} \cup st.arrivedAt)

(***************************************************************************)
(* srcTracker.committed: record the swept emissions, move the frontier     *)
(* over the contiguous run of emissions that both arrived and committed,   *)
(* and drop what it passed.                                                *)
(***************************************************************************)
NextFront(st) ==
  LET swept == st.arrivedAt \cap st.committedAt
  IN  Max({f \in {st.front} \cup swept : f >= st.front /\ (st.front + 1)..f \subseteq swept})

srcCommitted(st, seqs) ==
  LET st1 == [st EXCEPT !.committedAt = @ \cup seqs]
      f   == NextFront(st1)
      passed == (st.front + 1)..f
  IN  [arrivedAt |-> st1.arrivedAt \ passed, committedAt |-> st1.committedAt \ passed,
       front |-> f]

\* sweepSrcRefsLocked: pop the references at or below through.
sweepSrcRefsLocked(t, through) ==
  LET popped == {r \in t.srcRefs : r.seq <= through} IN
  [t EXCEPT !.srcRefs = @ \ popped,
            !.srcs = [s \in Sources |->
                        LET mine == {r \in popped : r.node = s} IN
                        IF mine = {} THEN t.srcs[s]
                        ELSE srcCommitted(t.srcs[s], {r.srcSeq : r \in mine})]]

\* Variant: any absent sequence counts as committed (no hole barrier).
PassableAbsent(t, q) == q \in t.open => t.n[q] <= 0
\* Variant: the marks of forceTerminal are not honoured.
PassableNoMarks(t, q) == q \in t.open /\ t.n[q] <= 0

(***************************************************************************)
(* advanceLocked.  The scan crosses a drained entry and a removed mark; it *)
(* stops at live branches and at the hole barrier, an absent and unmarked  *)
(* sequence: a row that is durable but has not run arrived yet.  StopsAt   *)
(* says where it stops; the operators below take that sequence p.          *)
(***************************************************************************)
Passable(t, q) == IF q \in t.open THEN t.n[q] <= 0 ELSE q \in t.removed

StopsAt(t, p) ==
  /\ t.committedPtr <= p /\ p <= t.arrivedMax + 1
  /\ \A q \in t.committedPtr..(p - 1) : Passable(t, q)
  /\ p <= t.arrivedMax => ~ Passable(t, p)

advanceLocked(t, p) ==
  LET crossed == t.committedPtr..(p - 1)
      t1 == [t EXCEPT !.open = @ \ crossed,
                      !.removed = @ \ crossed,
                      !.n = [q \in Seqs |-> IF q \in crossed THEN 0 ELSE t.n[q]],
                      !.committedPtr = p]
  IN  IF crossed = {} THEN t ELSE sweepSrcRefsLocked(t1, p - 1)

\* justCommit of one sweep: the drained entries it crosses (not the marks).
JustCommit(t, p) == t.open \cap (t.committedPtr..(p - 1))

\* Variant: the cursor starts one sequence too far.
resumeFromSkip(t, cp) ==
  LET p == IF cp + 2 > t.committedPtr THEN cp + 2 ELSE t.committedPtr IN
  [t EXCEPT !.committedPtr = p,
            !.arrivedMax = IF p - 1 > @ THEN p - 1 ELSE @]

\* resumeFrom: start the prefix behind the checkpoint a restart recovered.
resumeFrom(t, cp) ==
  LET p == IF cp + 1 > t.committedPtr THEN cp + 1 ELSE t.committedPtr IN
  [t EXCEPT !.committedPtr = p,
            !.arrivedMax = IF p - 1 > @ THEN p - 1 ELSE @]

Frontiers(t) == [s \in Sources |-> t.srcs[s].front]

(***************************************************************************)
(* The arguments of invoke: the commits still owed an onCommit, and        *)
(* whether an onAdvance(through, frontiers) follows them.                  *)
(***************************************************************************)
Call == [commits : SUBSET Seqs, advanced : BOOLEAN, through : 0..MaxSeq,
         frontiers : [Sources -> Nat]]
NoCall == [commits |-> {}, advanced |-> FALSE, through |-> 0,
           frontiers |-> [s \in Sources |-> 0]]

MkCall(commits, advanced, t) ==
  IF commits = {} /\ ~ advanced THEN NoCall
  ELSE [commits |-> commits, advanced |-> advanced,
        through |-> IF advanced THEN t.committedPtr - 1 ELSE 0,
        frontiers |-> IF advanced THEN Frontiers(t) ELSE NoCall.frontiers]

\* Variant: the running sum ignores the sign of the count.
CountedRawSum(t, q, delta) ==
  [t EXCEPT !.n[q] = @ + delta, !.openBranches = @ + (IF delta > 0 THEN delta ELSE 0)]

(***************************************************************************)
(* add (and done, which is add(-1)): a delta for an absent key is a no-op; *)
(* otherwise the count moves and the prefix is swept.  A drained entry     *)
(* below the cursor (a straggler) is invisible to the sweep: it is removed *)
(* and its commit delivered here, with whatever references are left below  *)
(* the cursor.                                                             *)
(***************************************************************************)
Counted(t, q, delta) ==
  [t EXCEPT !.n = [t.n EXCEPT ![q] = t.n[q] + delta],
            !.openBranches = @ + posBranches(t.n[q] + delta) - posBranches(t.n[q])]

Straggler(t, q) == t.n[q] <= 0 /\ q < t.committedPtr

addStopsAt(t, q, delta, p) ==
  IF q \in t.open THEN StopsAt(Counted(t, q, delta), p) ELSE p = t.committedPtr

add(t, q, delta, p) ==
  IF q \notin t.open THEN t
  ELSE LET t2 == advanceLocked(Counted(t, q, delta), p)
       IN  IF ~ Straggler(Counted(t, q, delta), q) THEN t2
           ELSE sweepSrcRefsLocked([t2 EXCEPT !.open = @ \ {q}, !.n = [@ EXCEPT ![q] = 0]], p - 1)

addCall(t, q, delta, p) ==
  IF q \notin t.open THEN NoCall
  ELSE LET t1 == Counted(t, q, delta)
           t2 == add(t, q, delta, p)
       IN  IF ~ Straggler(t1, q) THEN MkCall(JustCommit(t1, p), p > t.committedPtr, t2)
           ELSE MkCall(JustCommit(t1, p) \cup {q},
                       p > t.committedPtr \/ \E r \in t.srcRefs : r.seq < p, t2)

(***************************************************************************)
(* forceTerminal: drop an outstanding entry whose dead letter is durable   *)
(* and mark the sequence, so that the sweep may cross it.                  *)
(***************************************************************************)
Dropped(t, q) ==
  [t EXCEPT !.openBranches = @ - posBranches(t.n[q]),
            !.open = @ \ {q},
            !.n = [t.n EXCEPT ![q] = 0],
            !.removed = @ \cup {q}]

forceStopsAt(t, q, p) ==
  IF q \in t.open THEN StopsAt(Dropped(t, q), p) ELSE p = t.committedPtr

forceTerminal(t, q, p) == IF q \notin t.open THEN t ELSE advanceLocked(Dropped(t, q), p)

forceTerminalCall(t, q, p) ==
  IF q \notin t.open THEN NoCall
  ELSE MkCall(JustCommit(Dropped(t, q), p), p > t.committedPtr, forceTerminal(t, q, p))

isOutstanding(t, q) == q \in t.open /\ t.n[q] > 0
=============================================================================
