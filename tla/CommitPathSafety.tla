-------------------------- MODULE CommitPathSafety --------------------------
(***************************************************************************)
(* What the operators of the commit tracker preserve and bound; type       *)
(* correctness of CommitPath; CommitPath loses no accepted row and         *)
(* implements DurableLog.  Proved for every number of sources, injectors,  *)
(* workers, rows, runs and branches; the last two when no injection        *)
(* arrives before crash replay is done (EarlyInject = FALSE; with it both  *)
(* fail, see the run early_loss).                                          *)
(***************************************************************************)
EXTENDS CommitPath, WellFoundedInduction, TLAPS

-----------------------------------------------------------------------------
(* The operators of the commit tracker.                                    *)

\* Every nonempty set of naturals has a least element.
LEMMA LeastNat ==
  ASSUME NEW S \in SUBSET Nat, S # {}
  PROVE  \E m \in S : \A y \in S : m <= y
<1>1. \E m \in S : \A y \in S : ~ (<<y, m>> \in OpToRel(<, Nat))
  BY NatLessThanWellFounded, WFMin, Zenon
<1>2. PICK m \in S : \A y \in S : ~ (<<y, m>> \in OpToRel(<, Nat))
  BY <1>1, Zenon
<1>3. \A y \in S : ~ (y < m)
  BY <1>2, Zenon DEF OpToRel
<1> HIDE <1>2
<1> QED BY <1>3

\* Min of FiniteSetsExt on a nonempty set of naturals.
LEMMA MinNat ==
  ASSUME NEW S \in SUBSET Nat, S # {}
  PROVE  Min(S) \in S /\ \A y \in S : Min(S) <= y
<1>1. PICK m \in S : \A y \in S : m <= y
  BY LeastNat
<1> QED BY <1>1 DEF Min

\* Max of FiniteSetsExt on a nonempty bounded set of naturals.
LEMMA MaxNat ==
  ASSUME NEW S \in SUBSET Nat, S # {}, NEW b \in Nat, \A y \in S : y <= b
  PROVE  Max(S) \in S /\ \A y \in S : y <= Max(S)
<1> DEFINE U == {k \in Nat : \A y \in S : y <= k}
<1>1. PICK m \in U : \A k \in U : m <= k
  BY LeastNat
<1>2. m \in S
  <2>1. SUFFICES ASSUME m \notin S PROVE FALSE
    OBVIOUS
  <2>2. PICK y \in S : TRUE
    OBVIOUS
  <2>3. m - 1 \in U
    BY <1>1, <2>1, <2>2
  <2> QED BY <1>1, <2>3
<1> QED BY <1>1, <1>2 DEF Max

\* The frontier of a source with finitely many arrivals is a natural and
\* never falls behind where it was.
LEMMA NextFrontNat ==
  ASSUME NEW st \in SrcTracker, NEW b \in Nat, st.arrivedAt \subseteq 1..b
  PROVE  NextFront(st) \in Nat /\ NextFront(st) >= st.front
<1> DEFINE swept == st.arrivedAt \cap st.committedAt
           F == {f \in {st.front} \cup swept : f >= st.front /\ (st.front + 1)..f \subseteq swept}
<1>1. st.front \in Nat /\ swept \subseteq Nat
  BY DEF SrcTracker
<1>2. st.front \in F
  BY <1>1
<1>3. F \in SUBSET Nat
  BY <1>1
<1>4. \A y \in F : y <= st.front + b
  BY <1>1
<1>5. Max(F) \in F
  <2>1. st.front + b \in Nat /\ F # {}
    BY <1>1, <1>2
  <2> HIDE DEF F
  <2> QED BY <1>3, <1>4, <2>1, MaxNat, Zenon
<1>6. NextFront(st) = Max(F)
  BY DEF NextFront
<1> QED BY <1>1, <1>5, <1>6

\* The fields of a tracker.
LEMMA Fields ==
  ASSUME NEW t \in Tracker
  PROVE  /\ t.open \in SUBSET Seqs /\ t.n \in [Seqs -> Int] /\ t.openBranches \in Int
         /\ t.arrivedMax \in 0..MaxSeq /\ t.committedPtr \in Ptrs
         /\ t.removed \in SUBSET Seqs /\ t.srcRefs \in SUBSET SrcRef
         /\ t.srcs \in [Sources -> SrcTracker]
BY DEF Tracker

\* The source trackers of t have seen at most the emissions b counts.
Bounded(t, b) == \A s \in Sources : t.srcs[s].arrivedAt \subseteq 1..b[s]

\* srcTracker.committed keeps its type and forgets arrivals only.
LEMMA SrcCommittedType ==
  ASSUME NEW st \in SrcTracker, NEW b \in Nat, st.arrivedAt \subseteq 1..b,
         NEW seqs \in SUBSET (Nat \ {0})
  PROVE  srcCommitted(st, seqs) \in SrcTracker /\ srcCommitted(st, seqs).arrivedAt \subseteq 1..b
<1> DEFINE st1 == [st EXCEPT !.committedAt = @ \cup seqs]
<1>1. st1 \in SrcTracker /\ st1.arrivedAt = st.arrivedAt
  BY DEF SrcTracker
<1>2. NextFront(st1) \in Nat
  <2> HIDE DEF st1
  <2> QED BY <1>1, NextFrontNat
<1> QED BY <1>1, <1>2 DEF srcCommitted, SrcTracker

\* The sweep of source references touches the references and the sources only.
LEMMA SweepType ==
  ASSUME NEW t \in Tracker, NEW b \in [Sources -> Nat], Bounded(t, b), NEW through \in Int
  PROVE  LET u == sweepSrcRefsLocked(t, through) IN
         /\ u \in Tracker /\ Bounded(u, b)
         /\ u.open = t.open /\ u.n = t.n /\ u.removed = t.removed
         /\ u.committedPtr = t.committedPtr /\ u.arrivedMax = t.arrivedMax
<1> DEFINE popped == {r \in t.srcRefs : r.seq <= through}
           mine(s) == {r \in popped : r.node = s}
           seqs(s) == {r.srcSeq : r \in mine(s)}
           new == [s \in Sources |-> IF mine(s) = {} THEN t.srcs[s]
                                     ELSE srcCommitted(t.srcs[s], seqs(s))]
<1>1. \A s \in Sources : t.srcs[s] \in SrcTracker /\ t.srcs[s].arrivedAt \subseteq 1..b[s]
  BY DEF Tracker, Bounded
<1>2. \A s \in Sources : seqs(s) \in SUBSET (Nat \ {0})
  BY DEF Tracker, SrcRef
<1>3. \A s \in Sources : new[s] \in SrcTracker /\ new[s].arrivedAt \subseteq 1..b[s]
  <2> HIDE DEF seqs
  <2> TAKE s \in Sources
  <2>1. b[s] \in Nat
    OBVIOUS
  <2>2. srcCommitted(t.srcs[s], seqs(s)) \in SrcTracker
        /\ srcCommitted(t.srcs[s], seqs(s)).arrivedAt \subseteq 1..b[s]
    BY <1>1, <1>2, <2>1, SrcCommittedType
  <2> QED BY <1>1, <2>2
<1>4. new \in [Sources -> SrcTracker]
  BY <1>3
<1>5. sweepSrcRefsLocked(t, through) =
        [t EXCEPT !.srcRefs = @ \ popped, !.srcs = new]
  BY Zenon DEF sweepSrcRefsLocked
<1> HIDE DEF new, popped
<1> QED BY <1>3, <1>4, <1>5 DEF Tracker, Bounded

\* arrived opens the row with one branch and leaves the prefix alone.
LEMMA ArrivedType ==
  ASSUME NEW t \in Tracker, NEW b \in [Sources -> Nat], Bounded(t, b), NEW q \in Seqs,
         NEW node \in Sources \cup {NoNode}, NEW srcSeq \in Nat,
         node \in Sources => srcSeq \in 1..b[node]
  PROVE  LET u == arrived(t, q, node, srcSeq) IN
         /\ u \in Tracker /\ Bounded(u, b)
         /\ u.open = t.open \cup {q} /\ u.n = [t.n EXCEPT ![q] = 1]
         /\ u.removed = t.removed /\ u.committedPtr = t.committedPtr
<1> DEFINE known == node \in Sources
           newRefs == IF known THEN t.srcRefs \cup {[seq |-> q, node |-> node, srcSeq |-> srcSeq]}
                      ELSE t.srcRefs
           newSrcs == IF known
                      THEN [t.srcs EXCEPT ![node].arrivedAt = @ \cup {srcSeq}] ELSE t.srcs
           newMax == IF q > t.arrivedMax THEN q ELSE t.arrivedMax
           newSum == t.openBranches + 1 - posBranches(t.n[q])
           newOpen == t.open \cup {q}
           newN == [t.n EXCEPT ![q] = 1]
<1>1. newRefs \subseteq SrcRef
  BY DEF Tracker, SrcRef
<1>2. /\ newSrcs \in [Sources -> SrcTracker]
      /\ \A s \in Sources : newSrcs[s].arrivedAt \subseteq 1..b[s]
  BY DEF Tracker, SrcTracker, Bounded
<1>3. /\ newMax \in 0..MaxSeq /\ newSum \in Int
      /\ newOpen \in SUBSET Seqs /\ newN \in [Seqs -> Int]
  <2>1. posBranches(t.n[q]) \in Int
    BY Fields DEF posBranches
  <2> QED BY <2>1, Fields DEF Seqs
<1>4. arrived(t, q, node, srcSeq) =
        [t EXCEPT !.openBranches = newSum, !.open = newOpen, !.n = newN,
                  !.arrivedMax = newMax, !.srcs = newSrcs, !.srcRefs = newRefs]
  BY Zenon DEF arrived
<1> HIDE DEF newRefs, newSrcs, newMax, newSum, newOpen, newN
<1>5. arrived(t, q, node, srcSeq) \in Tracker
  BY <1>1, <1>2, <1>3, <1>4 DEF Tracker
<1>6. LET u == arrived(t, q, node, srcSeq) IN
      /\ u.open = newOpen /\ u.n = newN /\ u.srcs = newSrcs
      /\ u.removed = t.removed /\ u.committedPtr = t.committedPtr
  BY <1>4 DEF Tracker
<1> QED BY <1>2, <1>5, <1>6 DEF Bounded, newOpen, newN

\* advanceLocked crosses passable sequences only, and only those it crosses
\* leave the map and the marks.
LEMMA AdvanceType ==
  ASSUME NEW t \in Tracker, NEW b \in [Sources -> Nat], Bounded(t, b),
         NEW p \in Ptrs, StopsAt(t, p)
  PROVE  LET u == advanceLocked(t, p) IN
         /\ u \in Tracker /\ Bounded(u, b)
         /\ t.committedPtr <= p /\ u.committedPtr = p
         /\ u.open = t.open \ (t.committedPtr..(p - 1))
         /\ u.removed \subseteq t.removed
         /\ \A q \in u.open : u.n[q] = t.n[q]
         /\ \A q \in Seqs : t.committedPtr <= q /\ q < p => Passable(t, q)
<1> DEFINE crossed == t.committedPtr..(p - 1)
           newN == [q \in Seqs |-> IF q \in crossed THEN 0 ELSE t.n[q]]
           t1 == [t EXCEPT !.open = @ \ crossed, !.removed = @ \ crossed,
                           !.n = newN, !.committedPtr = p]
<1>1. t.committedPtr \in Ptrs /\ t.committedPtr <= p
  BY DEF Tracker, StopsAt
<1>2. \A q \in Seqs : t.committedPtr <= q /\ q < p => Passable(t, q)
  BY <1>1 DEF StopsAt, Seqs, Ptrs
<1>3. /\ t1 \in Tracker /\ Bounded(t1, b) /\ t1.committedPtr = p
      /\ t1.open = t.open \ crossed /\ t1.removed \subseteq t.removed
      /\ \A q \in t1.open : t1.n[q] = t.n[q]
  <2>1. newN \in [Seqs -> Int] /\ \A q \in Seqs \ crossed : newN[q] = t.n[q]
    BY Fields
  <2> HIDE DEF newN
  <2>2. t1 \in Tracker
    BY <2>1 DEF Tracker
  <2>3. /\ t1.committedPtr = p /\ t1.open = t.open \ crossed /\ t1.n = newN
        /\ t1.removed = t.removed \ crossed /\ t1.srcs = t.srcs
    BY DEF Tracker
  <2> QED BY <2>1, <2>2, <2>3, Fields DEF Bounded
<1>4. CASE crossed = {}
  <2>1. p = t.committedPtr
    BY <1>1, <1>4 DEF Ptrs
  <2>2. advanceLocked(t, p) = t
    BY <1>4 DEF advanceLocked
  <2> QED BY <1>1, <1>2, <1>4, <2>1, <2>2
<1>5. CASE crossed # {}
  <2>1. advanceLocked(t, p) = sweepSrcRefsLocked(t1, p - 1)
    BY <1>5, Zenon DEF advanceLocked
  <2>2. p - 1 \in Int
    BY DEF Ptrs
  <2> HIDE DEF t1
  <2>3. LET u == sweepSrcRefsLocked(t1, p - 1) IN
        /\ u \in Tracker /\ Bounded(u, b)
        /\ u.open = t1.open /\ u.n = t1.n /\ u.removed = t1.removed
        /\ u.committedPtr = t1.committedPtr
    BY <1>3, <2>2, SweepType
  <2> QED BY <1>1, <1>2, <1>3, <2>1, <2>3
<1> QED BY <1>4, <1>5

\* The counts of t after a delta for q.
CountAfter(t, q, delta, r) == IF r = q THEN t.n[r] + delta ELSE t.n[r]

\* add moves one count, and the prefix only over drained or marked rows.
LEMMA AddType ==
  ASSUME NEW t \in Tracker, NEW b \in [Sources -> Nat], Bounded(t, b),
         NEW q \in Seqs, NEW delta \in Int, NEW p \in Ptrs, addStopsAt(t, q, delta, p)
  PROVE  LET u == add(t, q, delta, p) IN
         /\ u \in Tracker /\ Bounded(u, b)
         /\ t.committedPtr <= u.committedPtr
         /\ u.open \subseteq t.open /\ u.removed \subseteq t.removed
         /\ \A r \in u.open : u.n[r] = CountAfter(t, q, delta, r)
         /\ \A r \in t.open \ u.open : CountAfter(t, q, delta, r) <= 0
         /\ \A r \in Seqs : t.committedPtr <= r /\ r < u.committedPtr =>
              \/ r \in t.removed
              \/ r \in t.open /\ CountAfter(t, q, delta, r) <= 0
<1> DEFINE t1 == Counted(t, q, delta)
           t2 == advanceLocked(t1, p)
<1>1. CASE q \notin t.open
  BY <1>1 DEF add, CountAfter, Tracker, Seqs, Ptrs
<1>2. CASE q \in t.open
  <2>1. /\ t1 \in Tracker /\ Bounded(t1, b) /\ t1.open = t.open
        /\ t1.removed = t.removed /\ t1.committedPtr = t.committedPtr
        /\ \A r \in Seqs : t1.n[r] = CountAfter(t, q, delta, r)
    <3> DEFINE newN == [t.n EXCEPT ![q] = @ + delta]
               newSum == t.openBranches + posBranches(t.n[q] + delta) - posBranches(t.n[q])
    <3>1. newN \in [Seqs -> Int] /\ \A r \in Seqs : newN[r] = CountAfter(t, q, delta, r)
      BY Fields DEF CountAfter
    <3>2. newSum \in Int
      <4>1. t.n[q] \in Int /\ t.openBranches \in Int
        BY Fields
      <4>2. posBranches(t.n[q] + delta) \in Int /\ posBranches(t.n[q]) \in Int
        BY <4>1 DEF posBranches
      <4> QED BY <4>1, <4>2
    <3>3. t1 = [t EXCEPT !.n = newN, !.openBranches = newSum]
      BY DEF Counted
    <3> HIDE DEF newN, newSum, t1
    <3>4. t1 \in Tracker
      BY <3>1, <3>2, <3>3 DEF Tracker
    <3>5. /\ t1.open = t.open /\ t1.removed = t.removed /\ t1.n = newN
          /\ t1.committedPtr = t.committedPtr /\ t1.srcs = t.srcs
      BY <3>3 DEF Tracker
    <3> QED BY <3>1, <3>4, <3>5 DEF Bounded
  <2>2. StopsAt(t1, p)
    BY <1>2 DEF addStopsAt
  <2> HIDE DEF t1
  <2>3. /\ t2 \in Tracker /\ Bounded(t2, b)
        /\ t1.committedPtr <= p /\ t2.committedPtr = p
        /\ t2.open = t1.open \ (t1.committedPtr..(p - 1))
        /\ t2.removed \subseteq t1.removed
        /\ \A r \in t2.open : t2.n[r] = t1.n[r]
        /\ \A r \in Seqs : t1.committedPtr <= r /\ r < p => Passable(t1, r)
    BY <2>1, <2>2, AdvanceType
  <2>4. /\ t2.open \subseteq t.open /\ t2.removed \subseteq t.removed
        /\ \A r \in t2.open : t2.n[r] = CountAfter(t, q, delta, r)
        /\ \A r \in t.open \ t2.open : CountAfter(t, q, delta, r) <= 0
        /\ \A r \in Seqs : t.committedPtr <= r /\ r < p =>
              \/ r \in t.removed
              \/ r \in t.open /\ CountAfter(t, q, delta, r) <= 0
    <3> HIDE DEF t2
    <3>1. t.open \subseteq Seqs /\ t2.open \subseteq Seqs /\ Seqs \subseteq Nat /\ p \in Nat
      BY <2>3, Fields DEF Seqs, Ptrs
    <3>2. \A r \in Seqs : t.committedPtr <= r /\ r < p =>
              \/ r \in t.removed
              \/ r \in t.open /\ CountAfter(t, q, delta, r) <= 0
      BY <2>1, <2>3 DEF Passable
    <3>3. \A r \in t.open \ t2.open : t.committedPtr <= r /\ r < p /\ Passable(t1, r)
      BY <2>1, <2>3, <3>1 DEF Passable
    <3>4. \A r \in t.open \ t2.open : CountAfter(t, q, delta, r) <= 0
      BY <2>1, <3>1, <3>3 DEF Passable
    <3> QED BY <2>1, <2>3, <3>1, <3>2, <3>4
  <2> HIDE DEF t2
  <2>5. CASE ~ Straggler(t1, q)
    <3>1. add(t, q, delta, p) = t2
      BY <1>2, <2>5 DEF add, t1, t2
    <3> QED BY <2>1, <2>3, <2>4, <3>1
  <2>6. CASE Straggler(t1, q)
    <3> DEFINE newN == [t2.n EXCEPT ![q] = 0]
               t3 == [t2 EXCEPT !.open = @ \ {q}, !.n = newN]
    <3>1. add(t, q, delta, p) = sweepSrcRefsLocked(t3, p - 1)
      BY <1>2, <2>6 DEF add, t1, t2
    <3>2. /\ t3 \in Tracker /\ Bounded(t3, b) /\ t3.open = t2.open \ {q}
          /\ t3.removed = t2.removed /\ t3.committedPtr = p
          /\ \A r \in t3.open : t3.n[r] = t2.n[r]
      <4>1. newN \in [Seqs -> Int] /\ \A r \in Seqs \ {q} : newN[r] = t2.n[r]
        BY <2>3, Fields
      <4> HIDE DEF newN
      <4>2. t3 \in Tracker
        BY <2>3, <4>1 DEF Tracker
      <4>3. /\ t3.open = t2.open \ {q} /\ t3.n = newN /\ t3.srcs = t2.srcs
            /\ t3.removed = t2.removed /\ t3.committedPtr = t2.committedPtr
        BY <2>3 DEF Tracker
      <4> QED BY <2>3, <4>1, <4>2, <4>3, Fields DEF Bounded
    <3>3. p - 1 \in Int
      BY DEF Ptrs
    <3> HIDE DEF t3
    <3>4. LET u == sweepSrcRefsLocked(t3, p - 1) IN
          /\ u \in Tracker /\ Bounded(u, b)
          /\ u.open = t3.open /\ u.n = t3.n /\ u.removed = t3.removed
          /\ u.committedPtr = t3.committedPtr
      BY <3>2, <3>3, SweepType
    <3>5. CountAfter(t, q, delta, q) <= 0
      BY <2>1, <2>6 DEF Straggler
    <3> QED BY <2>1, <2>3, <2>4, <3>1, <3>2, <3>4, <3>5
  <2> QED BY <2>5, <2>6
<1> QED BY <1>1, <1>2

\* forceTerminal drops one entry and marks it, and the prefix moves only over
\* drained or marked rows.
LEMMA ForceType ==
  ASSUME NEW t \in Tracker, NEW b \in [Sources -> Nat], Bounded(t, b),
         NEW q \in Seqs, NEW p \in Ptrs, forceStopsAt(t, q, p)
  PROVE  LET u == forceTerminal(t, q, p) IN
         /\ u \in Tracker /\ Bounded(u, b)
         /\ t.committedPtr <= u.committedPtr
         /\ u.open \subseteq t.open /\ u.removed \subseteq t.removed \cup {q}
         /\ \A r \in u.open : u.n[r] = t.n[r]
         /\ \A r \in Seqs : t.committedPtr <= r /\ r < u.committedPtr =>
              \/ r \in t.removed \cup {q}
              \/ r \in t.open /\ t.n[r] <= 0
<1> DEFINE t1 == Dropped(t, q)
           t2 == advanceLocked(t1, p)
<1>1. CASE q \notin t.open
  BY <1>1 DEF forceTerminal, Tracker, Seqs, Ptrs
<1>2. CASE q \in t.open
  <2>1. /\ t1 \in Tracker /\ Bounded(t1, b) /\ t1.open = t.open \ {q}
        /\ t1.removed = t.removed \cup {q} /\ t1.committedPtr = t.committedPtr
        /\ \A r \in t1.open : t1.n[r] = t.n[r]
    <3> DEFINE newN == [t.n EXCEPT ![q] = 0]
               newSum == t.openBranches - posBranches(t.n[q])
               newOpen == t.open \ {q}
               newRemoved == t.removed \cup {q}
    <3>1. newN \in [Seqs -> Int] /\ \A r \in Seqs \ {q} : newN[r] = t.n[r]
      BY Fields
    <3>2. newSum \in Int /\ newOpen \in SUBSET Seqs /\ newRemoved \in SUBSET Seqs
      <4>1. t.n[q] \in Int /\ t.openBranches \in Int
        BY Fields
      <4>2. posBranches(t.n[q]) \in Int
        BY <4>1 DEF posBranches
      <4> QED BY <4>1, <4>2, Fields
    <3>3. t1 = [t EXCEPT !.openBranches = newSum, !.open = newOpen, !.n = newN,
                         !.removed = newRemoved]
      BY DEF Dropped
    <3> HIDE DEF newN, newSum, newOpen, newRemoved, t1
    <3>4. t1 \in Tracker
      BY <3>1, <3>2, <3>3 DEF Tracker
    <3>5. /\ t1.open = newOpen /\ t1.removed = newRemoved /\ t1.n = newN
          /\ t1.committedPtr = t.committedPtr /\ t1.srcs = t.srcs
      BY <3>3 DEF Tracker
    <3> QED BY <3>1, <3>4, <3>5, Fields DEF Bounded, newOpen, newRemoved
  <2>2. StopsAt(t1, p)
    BY <1>2 DEF forceStopsAt
  <2> HIDE DEF t1
  <2>3. /\ t2 \in Tracker /\ Bounded(t2, b)
        /\ t1.committedPtr <= p /\ t2.committedPtr = p
        /\ t2.open = t1.open \ (t1.committedPtr..(p - 1))
        /\ t2.removed \subseteq t1.removed
        /\ \A r \in t2.open : t2.n[r] = t1.n[r]
        /\ \A r \in Seqs : t1.committedPtr <= r /\ r < p => Passable(t1, r)
    BY <2>1, <2>2, AdvanceType
  <2>4. forceTerminal(t, q, p) = t2
    BY <1>2 DEF forceTerminal, t1
  <2> HIDE DEF t2
  <2> QED BY <2>1, <2>3, <2>4 DEF Passable
<1> QED BY <1>1, <1>2

\* resumeFrom moves the cursor behind the checkpoint, forward only.
LEMMA ResumeType ==
  ASSUME NEW t \in Tracker, NEW b \in [Sources -> Nat], Bounded(t, b), NEW cp \in 0..MaxSeq
  PROVE  LET u == resumeFrom(t, cp) IN
         /\ u \in Tracker /\ Bounded(u, b)
         /\ u.committedPtr = IF cp + 1 > t.committedPtr THEN cp + 1 ELSE t.committedPtr
         /\ u.open = t.open /\ u.n = t.n /\ u.removed = t.removed
<1> DEFINE p == IF cp + 1 > t.committedPtr THEN cp + 1 ELSE t.committedPtr
           m == IF p - 1 > t.arrivedMax THEN p - 1 ELSE t.arrivedMax
<1>1. p \in Ptrs /\ m \in 0..MaxSeq
  BY Fields, MaxSeqAssumption DEF Ptrs
<1>2. resumeFrom(t, cp) = [t EXCEPT !.committedPtr = p, !.arrivedMax = m]
  BY DEF resumeFrom
<1> HIDE DEF m
<1>3. resumeFrom(t, cp) \in Tracker
  BY <1>1, <1>2 DEF Tracker
<1>4. LET u == resumeFrom(t, cp) IN
      /\ u.committedPtr = p /\ u.open = t.open /\ u.n = t.n /\ u.removed = t.removed
      /\ u.srcs = t.srcs
  BY <1>2 DEF Tracker
<1> QED BY <1>3, <1>4 DEF Bounded

\* The calls invoke is given: a sweep's advance ends right below the cursor.
LEMMA MkCallType ==
  ASSUME NEW t \in Tracker, NEW commits \in SUBSET Seqs, NEW advanced \in BOOLEAN
  PROVE  LET c == MkCall(commits, advanced, t) IN
         c \in Call /\ (c.advanced => c.through < t.committedPtr)
<1> DEFINE fr == Frontiers(t)
<1>1. fr \in [Sources -> Nat] /\ NoCall.frontiers \in [Sources -> Nat]
  BY DEF Frontiers, Tracker, SrcTracker, NoCall
<1>2. t.committedPtr - 1 \in 0..MaxSeq /\ 0 \in 0..MaxSeq
  BY MaxSeqAssumption DEF Tracker, Ptrs
<1>3. NoCall \in Call /\ ~ NoCall.advanced
  BY <1>2 DEF NoCall, Call
<1> HIDE DEF fr
<1>4. CASE commits = {} /\ ~ advanced
  BY <1>3, <1>4 DEF MkCall
<1>5. CASE commits # {} \/ advanced
  <2>1. MkCall(commits, advanced, t) =
          [commits |-> commits, advanced |-> advanced,
           through |-> IF advanced THEN t.committedPtr - 1 ELSE 0,
           frontiers |-> IF advanced THEN fr ELSE NoCall.frontiers]
    BY <1>5 DEF MkCall, fr
  <2> QED BY <1>1, <1>2, <2>1, Fields DEF Call, Ptrs
<1> QED BY <1>4, <1>5

\* NoCall is a call that owes nothing.
LEMMA NoCallType == NoCall \in Call /\ ~ NoCall.advanced /\ NoCall.commits = {}
BY MaxSeqAssumption DEF NoCall, Call

\* The callbacks owed after add.
LEMMA AddCallType ==
  ASSUME NEW t \in Tracker, NEW q \in Seqs, NEW delta \in Int, NEW p \in Ptrs,
         add(t, q, delta, p) \in Tracker
  PROVE  LET c == addCall(t, q, delta, p) IN
         c \in Call /\ (c.advanced => c.through < add(t, q, delta, p).committedPtr)
<1> DEFINE t1 == Counted(t, q, delta)
           u == add(t, q, delta, p)
           adv == p > t.committedPtr
           swept == p > t.committedPtr \/ \E r \in t.srcRefs : r.seq < p
<1>1. JustCommit(t1, p) \in SUBSET Seqs
  <2>1. t1.open = t.open
    BY DEF Counted, Tracker
  <2> QED BY <2>1, Fields DEF JustCommit
<1>2. JustCommit(t1, p) \cup {q} \in SUBSET Seqs
  BY <1>1
<1>3. adv \in BOOLEAN /\ swept \in BOOLEAN
  OBVIOUS
<1>4. addCall(t, q, delta, p) \in {NoCall, MkCall(JustCommit(t1, p), adv, u),
                                  MkCall(JustCommit(t1, p) \cup {q}, swept, u)}
  BY Zenon DEF addCall
<1>5. u \in Tracker
  OBVIOUS
<1> HIDE DEF u, t1, adv, swept
<1>6. LET c == MkCall(JustCommit(t1, p), adv, u) IN
      c \in Call /\ (c.advanced => c.through < u.committedPtr)
  BY <1>1, <1>3, <1>5, MkCallType
<1>7. LET c == MkCall(JustCommit(t1, p) \cup {q}, swept, u) IN
      c \in Call /\ (c.advanced => c.through < u.committedPtr)
  BY <1>2, <1>3, <1>5, MkCallType
<1> QED BY <1>4, <1>6, <1>7, NoCallType DEF u

\* The callbacks owed after forceTerminal.
LEMMA ForceCallType ==
  ASSUME NEW t \in Tracker, NEW q \in Seqs, NEW p \in Ptrs,
         forceTerminal(t, q, p) \in Tracker
  PROVE  LET c == forceTerminalCall(t, q, p) IN
         c \in Call /\ (c.advanced => c.through < forceTerminal(t, q, p).committedPtr)
<1> DEFINE t1 == Dropped(t, q)
           u == forceTerminal(t, q, p)
           adv == p > t.committedPtr
<1>1. JustCommit(t1, p) \in SUBSET Seqs
  <2>1. t1.open = t.open \ {q}
    BY DEF Dropped, Tracker
  <2> QED BY <2>1, Fields DEF JustCommit
<1>2. adv \in BOOLEAN /\ u \in Tracker
  OBVIOUS
<1>3. forceTerminalCall(t, q, p) \in {NoCall, MkCall(JustCommit(t1, p), adv, u)}
  BY Zenon DEF forceTerminalCall
<1> HIDE DEF u, t1, adv
<1>4. LET c == MkCall(JustCommit(t1, p), adv, u) IN
      c \in Call /\ (c.advanced => c.through < u.committedPtr)
  BY <1>1, <1>2, MkCallType
<1> QED BY <1>3, <1>4, NoCallType DEF u

-----------------------------------------------------------------------------
(* Types.                                                                  *)

Emitters == Sources \cup Injectors

\* What the types of a step rest on.
EmittedBeforeHeld ==
  \A s \in Sources : pc[s] \in {"gate", "append", "register"} => emitted[s] >= 1
RowsHeld ==
  \A c \in Callers : pc[c] \in {"register", "dispatch"} \/ (c = Runner /\ pc[c] = "gate")
                       => at[c] \in Seqs /\ at[c] <= lastSeq
AbandonHolds ==
  pc[Abandoner] \in {"write", "force", "release", "next"} => abandonPage # {}
RowsAccepted ==
  /\ \A q \in spool : q <= lastSeq
  /\ \A q \in page : q <= lastSeq
  /\ \A q \in abandonPage : q <= lastSeq

TypeInv ==
  /\ TypeOK
  /\ Bounded(trk, emitted)
  /\ EmittedBeforeHeld
  /\ RowsHeld
  /\ AbandonHolds
  /\ RowsAccepted

-----------------------------------------------------------------------------
\* The control points of a goroutine.
PcSet == {"idle", "gate", "append", "register", "dispatch", "return", "done", "page",
          "write", "force", "release", "next", "close"}

\* The engine a run starts with has the right types.
LEMMA NewTrackerType ==
  newCommitTracker \in Tracker /\ \A b : Bounded(newCommitTracker, b)
<1> DEFINE n0 == [q \in Seqs |-> 0]
           s0 == [s \in Sources |-> [arrivedAt |-> {}, committedAt |-> {}, front |-> 0]]
<1>1. n0 \in [Seqs -> Int] /\ 0 \in 0..MaxSeq /\ 1 \in Ptrs
  BY MaxSeqAssumption DEF Ptrs
<1>2. s0 \in [Sources -> SrcTracker] /\ \A s \in Sources : s0[s].arrivedAt = {}
  BY DEF SrcTracker
<1>3. newCommitTracker = [open |-> {}, n |-> n0, openBranches |-> 0, arrivedMax |-> 0,
                          committedPtr |-> 1, removed |-> {}, srcRefs |-> {}, srcs |-> s0]
  BY DEF newCommitTracker
<1> HIDE DEF n0, s0
<1> QED BY <1>1, <1>2, <1>3 DEF Tracker, Bounded

\* The first row of a page.
LEMMA MinOfRows ==
  ASSUME NEW S \in SUBSET Seqs, S # {}
  PROVE  Min(S) \in S /\ Min(S) \in Seqs /\ \A q \in S : Min(S) <= q
<1>1. S \in SUBSET Nat
  BY DEF Seqs
<1> QED BY <1>1, MinNat

\* A page of ReplayPage is a set of spooled rows beyond the last one read.
LEMMA RowsBeyond == \A after : Rows(after) \subseteq {q \in spool : q > after}
BY DEF Rows

\* A goroutine is exactly one of a caller, a worker and the abandoner.
LEMMA Roles ==
  /\ Callers \subseteq Goroutines /\ Emitters \subseteq Callers /\ Sources \subseteq Emitters
  /\ Workers \subseteq Goroutines /\ Runner \in Callers /\ Abandoner \in Goroutines
  /\ Runner \notin Emitters /\ Abandoner \notin Callers /\ Injectors \cap Sources = {}
BY CommitPathAssumption DEF Callers, Goroutines, Emitters
-----------------------------------------------------------------------------
\* The strengthened type invariant holds initially.
LEMMA TypeInit == Init => TypeInv
<1> SUFFICES ASSUME Init PROVE TypeInv
  OBVIOUS
<1>1. trk \in Tracker /\ Bounded(trk, emitted)
  BY NewTrackerType DEF Init
<1>2. call \in [Goroutines -> Call]
  BY NoCallType DEF Init
<1>3. TypeOK
  BY <1>1, <1>2, MaxSeqAssumption, CommitPathAssumption
  DEF Init, TypeOK, Injected
<1> QED BY <1>1, <1>3, Roles
  DEF Init, TypeInv, EmittedBeforeHeld, RowsHeld, AbandonHolds, RowsAccepted

\* The engine's values after EngineGone have their types.
LEMMA TypeGone ==
  ASSUME TypeInv, EngineGone, UNCHANGED <<spool, lastSeq, origin, checkpoint, runs, settled>>,
         srcState' \in [Sources -> Nat], phase' = "down"
  PROVE  TypeInv'
<1>1. trk' \in Tracker /\ Bounded(trk', emitted')
  BY NewTrackerType DEF EngineGone
<1>2. call' \in [Goroutines -> Call]
  BY NoCallType DEF EngineGone
<1>3. TypeOK'
  BY <1>1, <1>2, MaxSeqAssumption DEF EngineGone, TypeInv, TypeOK
<1>4. /\ \A c \in Goroutines : pc'[c] = "idle"
      /\ page' = {} /\ abandonPage' = {}
  BY DEF EngineGone
<1>5. EmittedBeforeHeld' /\ RowsHeld' /\ AbandonHolds' /\ RowsAccepted'
  BY <1>4, Roles DEF TypeInv, EmittedBeforeHeld, RowsHeld, AbandonHolds, RowsAccepted
<1> QED BY <1>1, <1>3, <1>5 DEF TypeInv

\* The steps that open, stop and end a run.
LEMMA TypeLifecycle ==
  ASSUME TypeInv, Start \/ Cancel \/ Shutdown \/ Crash
  PROVE  TypeInv'
<1>1. CASE Start
  BY <1>1, CommitPathAssumption DEF Start, TypeInv, TypeOK, EmittedBeforeHeld, RowsHeld, AbandonHolds, RowsAccepted,
     Bounded, storeVars, admitVars, persistVars, committerVars, sourceVars, scanVars, goVars, histVars
<1>2. CASE Cancel
  BY <1>2 DEF Cancel, TypeInv, TypeOK, EmittedBeforeHeld, RowsHeld, AbandonHolds, RowsAccepted,
     Bounded, storeVars, admitVars, persistVars, committerVars, sourceVars, scanVars, goVars, histVars
<1>3. CASE Shutdown
  <2>1. srcState' \in [Sources -> Nat]
    BY <1>3 DEF Shutdown, TypeInv, TypeOK
  <2> QED BY <1>3, <2>1, TypeGone DEF Shutdown
<1>4. CASE Crash
  <2>1. srcState' \in [Sources -> Nat]
    BY <1>4 DEF Crash, TypeInv, TypeOK, storeVars
  <2> QED BY <1>4, <2>1, TypeGone DEF Crash, storeVars
<1> QED BY <1>1, <1>2, <1>3, <1>4

\* The steps of crash replay.
LEMMA TypeReplay ==
  ASSUME TypeInv, resumeCheckpoint \/ ReplayPage \/ ReplayRow \/ ReplayOrphan \/ ReplayDone
  PROVE  TypeInv'
<1>1. CASE resumeCheckpoint
  <2>1. trk' \in Tracker /\ Bounded(trk', emitted)
    BY <1>1, ResumeType DEF resumeCheckpoint, TypeInv, TypeOK
  <2> QED
    BY <1>1, <2>1 DEF resumeCheckpoint, Seeded, TypeInv, TypeOK, EmittedBeforeHeld, RowsHeld,
       AbandonHolds, RowsAccepted, storeVars, admitVars, committerVars, sourceVars, goVars, histVars
<1>2. CASE ReplayPage
  <2>1. /\ page' \subseteq spool /\ more' \in BOOLEAN
    BY <1>2, RowsBeyond DEF ReplayPage, More
  <2> QED
    BY <1>2, <2>1 DEF ReplayPage, TypeInv, TypeOK, EmittedBeforeHeld, RowsHeld, AbandonHolds,
       RowsAccepted, Bounded, storeVars, runVars, admitVars, persistVars, committerVars,
       sourceVars, goVars, histVars
<1>3. CASE ReplayRow
  <2> DEFINE q == Min(page)
  <2>1. q \in page /\ q \in Seqs
    BY <1>3, MinOfRows DEF ReplayRow, TypeInv, TypeOK
  <2>2. page' = page \ {q} /\ scan' = q /\ at' = [at EXCEPT ![Runner] = q]
    BY <1>3 DEF ReplayRow
  <2> HIDE DEF q
  <2>3. TypeOK'
    <3>0. q \in 0..MaxSeq
      BY <2>1 DEF Seqs
    <3>1. page' \subseteq Seqs /\ scan' \in 0..MaxSeq /\ at' \in [Goroutines -> 0..MaxSeq]
      BY <2>2, <3>0 DEF TypeInv, TypeOK
    <3> QED BY <1>3, <3>1 DEF ReplayRow, TypeInv, TypeOK,
       storeVars, runVars, admitVars, persistVars, committerVars, sourceVars, histVars
  <2> QED
    BY <1>3, <2>1, <2>2, <2>3, Roles DEF ReplayRow, TypeInv, TypeOK, EmittedBeforeHeld, RowsHeld,
       AbandonHolds, RowsAccepted, storeVars, sourceVars
<1>4. CASE ReplayOrphan
  <2> DEFINE q == Min(page)
             t1 == arrived(trk, q, NoNode, 0)
  <2>1. q \in page /\ q \in Seqs
    BY <1>4, MinOfRows DEF ReplayOrphan, TypeInv, TypeOK
  <2>2. trk \in Tracker /\ Bounded(trk, emitted) /\ emitted \in [Sources -> Nat]
    BY DEF TypeInv, TypeOK
  <2>3. t1 \in Tracker /\ Bounded(t1, emitted)
    BY <2>1, <2>2, ArrivedType, NoNodeAssumption
  <2>4. PICK p \in Ptrs : /\ addStopsAt(t1, q, -1, p)
                          /\ trk' = add(t1, q, -1, p)
                          /\ call' = [call EXCEPT ![Runner] = addCall(t1, q, -1, p)]
    BY <1>4 DEF ReplayOrphan
  <2>5. page' = page \ {q} /\ scan' = q /\ settled' = settled \cup {q}
    BY <1>4 DEF ReplayOrphan
  <2> HIDE DEF t1, q
  <2>6. trk' \in Tracker /\ Bounded(trk', emitted)
    <3>1. -1 \in Int
      OBVIOUS
    <3>2. add(t1, q, -1, p) \in Tracker /\ Bounded(add(t1, q, -1, p), emitted)
      BY <2>1, <2>2, <2>3, <2>4, <3>1, AddType
    <3> QED BY <2>4, <3>2
  <2>7. call' \in [Goroutines -> Call]
    <3>1. addCall(t1, q, -1, p) \in Call
      BY <2>1, <2>3, <2>4, <2>6, AddCallType
    <3> QED BY <2>4, <3>1 DEF TypeInv, TypeOK
  <2>8. TypeOK'
    <3>1. page' \subseteq Seqs /\ scan' \in 0..MaxSeq /\ settled' \subseteq Seqs
      BY <2>1, <2>5 DEF TypeInv, TypeOK, Seqs
    <3> QED BY <1>4, <2>6, <2>7, <3>1 DEF ReplayOrphan, TypeInv, TypeOK,
       storeVars, runVars, admitVars, persistVars, committerVars, sourceVars
  <2> QED
    BY <1>4, <2>1, <2>6, <2>8, <2>5 DEF ReplayOrphan, TypeInv, EmittedBeforeHeld, RowsHeld,
       AbandonHolds, RowsAccepted, storeVars, sourceVars
<1>5. CASE ReplayDone
  BY <1>5 DEF ReplayDone, InitSource, TypeInv, TypeOK, EmittedBeforeHeld, RowsHeld, AbandonHolds,
     RowsAccepted, Bounded, storeVars, admitVars, persistVars, committerVars, scanVars, goVars,
     histVars
<1> QED BY <1>1, <1>2, <1>3, <1>4, <1>5
\* The steps of admit, up to the dispatch.
LEMMA TypeAdmit ==
  ASSUME TypeInv, NEW c \in Callers,
         \/ c \in Emitters /\ (Emit(c) \/ AppendSpool(c) \/ AppendRefused(c))
         \/ Gate(c) \/ GateRefused(c) \/ Register(c) \/ Return(c)
  PROVE  TypeInv'
<1>0. c \in Goroutines /\ c # Abandoner
  BY Roles
<1>1. CASE c \in Emitters /\ Emit(c)
  <2>1. emitted' \in [Sources -> Nat] /\ \A s \in Sources : emitted'[s] >= emitted[s]
    <3>1. emitted \in [Sources -> Nat]
      BY DEF TypeInv, TypeOK
    <3>2. \/ c \in Sources /\ emitted' = [emitted EXCEPT ![c] = @ + 1]
          \/ emitted' = emitted
      BY <1>1 DEF Emit
    <3> QED BY <3>1, <3>2
  <2>2. Bounded(trk', emitted')
    <3>1. \A s \in Sources : 1..emitted[s] \subseteq 1..emitted'[s]
      BY <2>1 DEF TypeInv, TypeOK
    <3> QED BY <1>1, <3>1 DEF Emit, TypeInv, Bounded
  <2>3. EmittedBeforeHeld'
    BY <1>1, Roles DEF Emit, TypeInv, TypeOK, EmittedBeforeHeld
  <2>4. TypeOK'
    BY <1>1, <2>1 DEF Emit, TypeInv, TypeOK, storeVars, runVars, admitVars, persistVars,
       committerVars, scanVars, histVars
  <2> QED
    BY <1>0, <1>1, <2>2, <2>3, <2>4, Roles DEF Emit, TypeInv, TypeOK, RowsHeld, AbandonHolds,
       RowsAccepted, storeVars, scanVars
<1>2. CASE c \in Emitters /\ AppendSpool(c)
  <2> DEFINE q == lastSeq + 1
  <2>1. q \in Seqs /\ lastSeq' \in 0..MaxSeq /\ spool' \subseteq Seqs /\ q \in 0..MaxSeq
    <3>1. lastSeq \in 0..MaxSeq /\ lastSeq < MaxSeq /\ lastSeq' = q /\ spool' = spool \cup {q}
      BY <1>2 DEF AppendSpool, TypeInv, TypeOK
    <3>2. q \in Seqs /\ q \in 0..MaxSeq
      BY <3>1, MaxSeqAssumption DEF Seqs
    <3> QED BY <3>1, <3>2 DEF TypeInv, TypeOK
  <2>2. origin' \in [Seqs -> (Sources \cup {NoNode}) \X Nat]
    <3>1. c \in Sources => base[c] + emitted[c] \in Nat
      BY DEF TypeInv, TypeOK
    <3>2. (IF c \in Sources THEN <<c, base[c] + emitted[c]>> ELSE Injected)
            \in (Sources \cup {NoNode}) \X Nat
      BY <3>1 DEF Injected
    <3> HIDE DEF q
    <3> QED BY <1>2, <2>1, <3>2 DEF AppendSpool, TypeInv, TypeOK
  <2>3. at' = [at EXCEPT ![c] = q] /\ pc' = [pc EXCEPT ![c] = "register"]
    BY <1>2 DEF AppendSpool
  <2>4. at' \in [Goroutines -> 0..MaxSeq]
    BY <2>1, <2>3 DEF TypeInv, TypeOK
  <2>5. TypeOK'
    BY <1>2, <2>1, <2>2, <2>3, <2>4 DEF AppendSpool, TypeInv, TypeOK, runVars, admitVars,
       persistVars, committerVars, sourceVars, scanVars, histVars
  <2>6. EmittedBeforeHeld' /\ AbandonHolds'
    BY <1>0, <1>2, <2>3, Roles DEF AppendSpool, TypeInv, TypeOK, EmittedBeforeHeld, AbandonHolds,
       sourceVars, scanVars
  <2>7. RowsHeld'
    BY <1>0, <1>2, <2>1, <2>3, Roles DEF AppendSpool, TypeInv, TypeOK, RowsHeld
  <2>8. RowsAccepted'
    BY <1>2, <2>1 DEF AppendSpool, TypeInv, TypeOK, RowsAccepted, scanVars, Seqs
  <2> QED BY <1>2, <2>5, <2>6, <2>7, <2>8 DEF AppendSpool, TypeInv, Bounded, sourceVars
<1>3. CASE c \in Emitters /\ AppendRefused(c)
  <2>0. /\ gate' \in Int /\ pc' \in [Goroutines -> PcSet]
        /\ phase' \in {"down", "boot", "replay", "live", "stopping"}
    BY <1>0, <1>3 DEF AppendRefused, TypeInv, TypeOK, PcSet
  <2>1. TypeOK'
    BY <1>3, <2>0 DEF AppendRefused, PcSet, TypeInv, TypeOK, storeVars, persistVars, committerVars,
       sourceVars, scanVars, histVars
  <2> QED
    BY <1>0, <1>3, <2>1, Roles DEF AppendRefused, TypeInv, TypeOK, Bounded, EmittedBeforeHeld,
       RowsHeld, AbandonHolds, RowsAccepted, storeVars, sourceVars, scanVars
<1>4. CASE Gate(c)
  <2>0. gate' \in Int /\ pc' \in [Goroutines -> PcSet]
    BY <1>0, <1>4 DEF Gate, TypeInv, TypeOK, PcSet
  <2>1. TypeOK'
    BY <1>4, <2>0 DEF Gate, PcSet, TypeInv, TypeOK, storeVars, runVars, persistVars, committerVars,
       sourceVars, scanVars, histVars
  <2> QED
    BY <1>0, <1>4, <2>1, Roles DEF Gate, TypeInv, TypeOK, Bounded, EmittedBeforeHeld,
       RowsHeld, AbandonHolds, RowsAccepted, storeVars, sourceVars, scanVars
<1>5. CASE GateRefused(c)
  <2>1. TypeOK'
    BY <1>5 DEF GateRefused, TypeInv, TypeOK, storeVars, runVars, admitVars, persistVars,
       committerVars, sourceVars, scanVars, histVars
  <2> QED
    BY <1>0, <1>5, <2>1, Roles DEF GateRefused, TypeInv, TypeOK, Bounded, EmittedBeforeHeld,
       RowsHeld, AbandonHolds, RowsAccepted, storeVars, sourceVars, scanVars
<1>6. CASE Register(c)
  <2> DEFINE q == at[c]
  <2>1. q \in Seqs
    BY <1>6 DEF Register, TypeInv, RowsHeld
  <2>2. trk \in Tracker /\ Bounded(trk, emitted) /\ emitted \in [Sources -> Nat]
    BY DEF TypeInv, TypeOK
  <2>3. trk' \in Tracker /\ Bounded(trk', emitted)
    <3> HIDE DEF q
    <3>1. CASE c \in Sources
      <4>1. emitted[c] \in Nat /\ emitted[c] \in 1..emitted[c]
        BY <1>6, <2>2, <3>1 DEF Register, TypeInv, EmittedBeforeHeld
      <4>2. trk' = arrived(trk, q, c, emitted[c])
        BY <1>6, <3>1 DEF Register, q
      <4> QED BY <2>1, <2>2, <3>1, <4>1, <4>2, ArrivedType
    <3>2. CASE c \notin Sources
      <4>1. trk' = arrived(trk, q, NoNode, 0)
        BY <1>6, <3>2 DEF Register, q
      <4> QED BY <2>1, <2>2, <4>1, ArrivedType, NoNodeAssumption
    <3> QED BY <3>1, <3>2
  <2>4. live' \in [Seqs -> [Copies -> Nat]] /\ born' \in [Seqs -> Nat]
        /\ acquired' \subseteq Seqs
    BY <1>6, <2>1 DEF Register, TypeInv, TypeOK, CopyOf, Copies
  <2>5. TypeOK'
    BY <1>6, <2>3, <2>4 DEF Register, TypeInv, TypeOK, storeVars, runVars, persistVars,
       committerVars, sourceVars, scanVars
  <2> QED
    BY <1>0, <1>6, <2>3, <2>5, Roles DEF Register, TypeInv, TypeOK, EmittedBeforeHeld,
       RowsHeld, AbandonHolds, RowsAccepted, storeVars, sourceVars, scanVars
<1>7. CASE Return(c)
  <2>1. TypeOK'
    BY <1>7 DEF Return, TypeInv, TypeOK, storeVars, runVars, admitVars, persistVars,
       committerVars, sourceVars, scanVars, histVars
  <2> QED
    BY <1>0, <1>7, <2>1, Roles DEF Return, TypeInv, TypeOK, Bounded, EmittedBeforeHeld,
       RowsHeld, AbandonHolds, RowsAccepted, storeVars, sourceVars, scanVars
<1> QED BY <1>1, <1>2, <1>3, <1>4, <1>5, <1>6, <1>7

\* What one step of a branch does to the types.
LEMMA TypeBranch ==
  ASSUME TypeInv, NEW g \in Goroutines, NEW q \in Seqs, NEW x \in Copies,
         NEW k \in 0..MaxFan, Branch(g, q, x, k)
  PROVE  /\ trk' \in Tracker /\ Bounded(trk', emitted) /\ call' \in [Goroutines -> Call]
         /\ live' \in [Seqs -> [Copies -> Nat]] /\ born' \in [Seqs -> Nat]
         /\ settled' \subseteq Seqs
<1>1. trk \in Tracker /\ Bounded(trk, emitted) /\ emitted \in [Sources -> Nat]
  BY DEF TypeInv, TypeOK
<1>2. k \in Nat /\ k - 1 \in Int
  BY CommitPathAssumption
<1>3. PICK p \in Ptrs : /\ addStopsAt(trk, q, k - 1, p)
                        /\ trk' = add(trk, q, k - 1, p)
                        /\ call' = [call EXCEPT ![g] = addCall(trk, q, k - 1, p)]
  BY DEF Branch
<1>4. trk' \in Tracker /\ Bounded(trk', emitted)
  BY <1>1, <1>2, <1>3, AddType
<1>5. addCall(trk, q, k - 1, p) \in Call
  BY <1>1, <1>2, <1>3, <1>4, AddCallType
<1>6. call' \in [Goroutines -> Call]
  BY <1>3, <1>5 DEF TypeInv, TypeOK
<1>7. live' \in [Seqs -> [Copies -> Nat]] /\ born' \in [Seqs -> Nat]
  <2>1. live[q][x] \in Nat /\ live[q][x] > 0 /\ born[q] \in Nat
    BY DEF Branch, TypeInv, TypeOK
  <2>2. live' = [live EXCEPT ![q][x] = live[q][x] + k - 1]
    BY DEF Branch
  <2>3. live[q][x] + k - 1 \in Nat
    BY <1>2, <2>1
  <2> QED BY <1>2, <2>1, <2>2, <2>3 DEF Branch, TypeInv, TypeOK
<1>8. settled' \subseteq Seqs
  BY DEF Branch, TypeInv, TypeOK
<1> QED BY <1>4, <1>6, <1>7, <1>8

\* The dispatch of an admitted row and the work on a delivered branch.
LEMMA TypeDeliver ==
  ASSUME TypeInv, (\E c \in Callers : Dispatch(c)) \/ (\E w \in Workers : Work(w))
  PROVE  TypeInv'
<1>1. CASE \E c \in Callers : Dispatch(c)
  <2>1. PICK c \in Callers : Dispatch(c)
    BY <1>1
  <2>2. c \in Goroutines /\ c # Abandoner /\ at[c] \in Seqs /\ CopyOf(c) \in Copies
    BY <2>1, Roles DEF Dispatch, TypeInv, RowsHeld, CopyOf, Copies
  <2>3. PICK k \in 0..MaxFan : Branch(c, at[c], CopyOf(c), k)
    BY <2>1 DEF Dispatch
  <2>4. /\ trk' \in Tracker /\ Bounded(trk', emitted) /\ call' \in [Goroutines -> Call]
        /\ live' \in [Seqs -> [Copies -> Nat]] /\ born' \in [Seqs -> Nat]
        /\ settled' \subseteq Seqs
    BY <2>2, <2>3, TypeBranch
  <2>5. TypeOK'
    BY <2>1, <2>4 DEF Dispatch, TypeInv, TypeOK, storeVars, runVars, admitVars, persistVars,
       committerVars, sourceVars, scanVars
  <2> QED
    BY <2>1, <2>2, <2>4, <2>5, Roles DEF Dispatch, TypeInv, TypeOK, EmittedBeforeHeld,
       RowsHeld, AbandonHolds, RowsAccepted, storeVars, sourceVars, scanVars
<1>2. CASE \E w \in Workers : Work(w)
  <2>1. PICK w \in Workers : Work(w)
    BY <1>2
  <2>2. PICK q \in Seqs, x \in Copies, k \in 0..MaxFan : Branch(w, q, x, k)
    BY <2>1 DEF Work
  <2>3. /\ trk' \in Tracker /\ Bounded(trk', emitted) /\ call' \in [Goroutines -> Call]
        /\ live' \in [Seqs -> [Copies -> Nat]] /\ born' \in [Seqs -> Nat]
        /\ settled' \subseteq Seqs
    BY <2>1, <2>2, TypeBranch, Roles
  <2>4. TypeOK'
    BY <2>1, <2>3 DEF Work, TypeInv, TypeOK, storeVars, runVars, admitVars, persistVars,
       committerVars, sourceVars, scanVars
  <2> QED
    BY <2>1, <2>3, <2>4 DEF Work, TypeInv, EmittedBeforeHeld,
       RowsHeld, AbandonHolds, RowsAccepted, storeVars, sourceVars, scanVars
<1> QED BY <1>1, <1>2
\* The next retention window is a natural number of rows.
LEMMA WindowType ==
  ASSUME NEW pt \in Nat
  PROVE  (pt \div SpoolRetention + 1) * SpoolRetention \in Nat
<1>1. SpoolRetention \in Nat /\ SpoolRetention > 0
  BY CommitPathAssumption
<1> QED BY <1>1

\* The callbacks of a sweep, and the source committers.
LEMMA TypeCallbacks ==
  ASSUME TypeInv,
         \/ \E g \in Goroutines : OnCommit(g) \/ persistCheckpoint(g) \/ persistCheckpointFails(g)
         \/ \E s \in Sources : SourceCommit(s)
  PROVE  TypeInv'
<1>0. call \in [Goroutines -> Call]
  BY DEF TypeInv, TypeOK
<1>1. ASSUME NEW g \in Goroutines, OnCommit(g) PROVE TypeInv'
  <2> DEFINE q == Min(call[g].commits)
             rest == [call[g] EXCEPT !.commits = @ \ {q}]
  <2>1. rest \in Call
    BY <1>0 DEF Call
  <2>2. gate' \in Int /\ acquired' \subseteq Seqs
    BY <1>1 DEF OnCommit, Release, TypeInv, TypeOK
  <2>3. call' \in [Goroutines -> Call]
    <3>1. call' = [call EXCEPT ![g] = IF rest.commits = {} /\ ~ rest.advanced
                                      THEN NoCall ELSE rest]
      BY <1>1 DEF OnCommit
    <3> HIDE DEF rest
    <3> QED BY <1>0, <2>1, <3>1, NoCallType
  <2>4. TypeOK'
    BY <1>1, <2>2, <2>3 DEF OnCommit, TypeInv, TypeOK, storeVars, runVars, persistVars,
       committerVars, sourceVars, scanVars, histVars
  <2> QED
    BY <1>1, <2>4 DEF OnCommit, TypeInv, Bounded, EmittedBeforeHeld, RowsHeld, AbandonHolds,
       RowsAccepted, storeVars, sourceVars, scanVars
<1>2. ASSUME NEW g \in Goroutines, persistCheckpoint(g) PROVE TypeInv'
  <2> DEFINE th == call[g].through
             pt == IF Ahead(th) THEN th ELSE persistedThrough
  <2>1. th \in 0..MaxSeq /\ pt \in 0..MaxSeq /\ call[g].frontiers \in [Sources -> Nat]
    BY <1>0 DEF Call, TypeInv, TypeOK
  <2>2. /\ persistedThrough' \in 0..MaxSeq /\ checkpoint' \in 0..MaxSeq
        /\ flushAttempted' \in 0..MaxSeq
    BY <1>2, <2>1 DEF persistCheckpoint, TypeInv, TypeOK
  <2>3. retentionDue' \in Nat /\ spool' \subseteq spool
    <3>1. Trim(pt) /\ pt \in Nat
      BY <1>2, <2>1 DEF persistCheckpoint
    <3> HIDE DEF pt
    <3>2. (pt \div SpoolRetention + 1) * SpoolRetention \in Nat
      BY <3>1, WindowType
    <3>3. retentionDue' \in {(pt \div SpoolRetention + 1) * SpoolRetention, retentionDue}
      BY <3>1, Zenon DEF Trim
    <3>4. spool' \subseteq spool
      BY <3>1 DEF Trim
    <3> QED BY <3>2, <3>3, <3>4, Zenon DEF TypeInv, TypeOK
  <2>4. pending' \in [Sources -> Nat] /\ wake' \in [Sources -> BOOLEAN]
    BY <1>2, <2>1 DEF persistCheckpoint, Post, TypeInv, TypeOK
  <2>5. call' \in [Goroutines -> Call]
    BY <1>0, <1>2, NoCallType DEF persistCheckpoint
  <2>6. TypeOK'
    BY <1>2, <2>2, <2>3, <2>4, <2>5 DEF persistCheckpoint, TypeInv, TypeOK, runVars, admitVars,
       sourceVars, scanVars, histVars
  <2> QED
    BY <1>2, <2>3, <2>6 DEF persistCheckpoint, TypeInv, Bounded, EmittedBeforeHeld, RowsHeld,
       AbandonHolds, RowsAccepted, sourceVars, scanVars
<1>3. ASSUME NEW g \in Goroutines, persistCheckpointFails(g) PROVE TypeInv'
  <2>1. flushAttempted' \in 0..MaxSeq /\ call' \in [Goroutines -> Call]
    BY <1>0, <1>3, NoCallType DEF persistCheckpointFails, Call
  <2>2. TypeOK'
    BY <1>3, <2>1 DEF persistCheckpointFails, TypeInv, TypeOK, storeVars, runVars, admitVars,
       committerVars, sourceVars, scanVars, histVars
  <2> QED
    BY <1>3, <2>2 DEF persistCheckpointFails, TypeInv, Bounded, EmittedBeforeHeld, RowsHeld,
       AbandonHolds, RowsAccepted, storeVars, sourceVars, scanVars
<1>4. ASSUME NEW s \in Sources, SourceCommit(s) PROVE TypeInv'
  <2>1. base[s] + pending[s] \in Nat
    BY DEF TypeInv, TypeOK
  <2>2. /\ wake' \in [Sources -> BOOLEAN]
        /\ srcState' \in [Sources -> Nat] /\ persisted' \in [Sources -> Nat]
    BY <1>4, <2>1 DEF SourceCommit, TypeInv, TypeOK
  <2>3. TypeOK'
    BY <1>4, <2>2 DEF SourceCommit, TypeInv, TypeOK, runVars, admitVars, persistVars,
       sourceVars, scanVars, goVars, histVars
  <2> QED
    BY <1>4, <2>3 DEF SourceCommit, TypeInv, Bounded, EmittedBeforeHeld, RowsHeld, AbandonHolds,
       RowsAccepted, sourceVars, scanVars, goVars
<1> QED BY <1>1, <1>2, <1>3, <1>4

\* The steps of Abandon.
LEMMA TypeAbandon ==
  ASSUME TypeInv,
         Abandon \/ AbandonRows \/ AbandonWrite \/ AbandonGivesUp \/ AbandonForce \/ AbandonNext
  PROVE  TypeInv'
<1>1. CASE Abandon
  <2>1. trk.committedPtr - 1 \in 0..MaxSeq
    <3>1. trk.committedPtr \in Ptrs
      BY Fields DEF TypeInv, TypeOK
    <3> QED BY <3>1, MaxSeqAssumption DEF Ptrs
  <2>2. at' \in [Goroutines -> 0..MaxSeq]
    BY <1>1, <2>1 DEF Abandon, TypeInv, TypeOK
  <2>3. TypeOK'
    BY <1>1, <2>2 DEF Abandon, TypeInv, TypeOK, storeVars, runVars, admitVars, persistVars,
       committerVars, sourceVars, scanVars, histVars
  <2> QED
    BY <1>1, <2>3, Roles DEF Abandon, TypeInv, TypeOK, Bounded, EmittedBeforeHeld, RowsHeld,
       AbandonHolds, RowsAccepted, storeVars, sourceVars, scanVars
<1>2. CASE AbandonRows
  <2> DEFINE rows == Rows(at[Abandoner])
             last == IF rows = {} THEN at[Abandoner] ELSE Max(rows)
  <2>1. rows \subseteq spool /\ spool \subseteq Seqs
    BY RowsBeyond DEF TypeInv, TypeOK
  <2>2. last \in 0..MaxSeq
    <3> HIDE DEF rows
    <3>1. rows # {} => Max(rows) \in rows
      <4>1. rows \in SUBSET Nat /\ \A q \in rows : q <= MaxSeq
        BY <2>1 DEF Seqs
      <4> QED BY <4>1, MaxNat, MaxSeqAssumption
    <3>2. at[Abandoner] \in 0..MaxSeq
      BY Roles DEF TypeInv, TypeOK
    <3>3. \A q \in rows : q \in 0..MaxSeq
      BY <2>1, MaxSeqAssumption DEF Seqs
    <3> QED BY <3>1, <3>2, <3>3
  <2>3. /\ at' = [at EXCEPT ![Abandoner] = last]
        /\ abandonPage' = {q \in rows : isOutstanding(trk, q)}
        /\ pc' = [pc EXCEPT ![Abandoner] = IF abandonPage' # {} THEN "write"
                                           ELSE IF More(rows) THEN "page" ELSE "close"]
    BY <1>2 DEF AbandonRows
  <2> HIDE DEF rows, last
  <2>4. /\ at' \in [Goroutines -> 0..MaxSeq] /\ pc' \in [Goroutines -> PcSet]
        /\ abandonPage' \subseteq spool
    BY <2>1, <2>2, <2>3 DEF TypeInv, TypeOK, PcSet
  <2>5. TypeOK'
    BY <1>2, <2>1, <2>4 DEF AbandonRows, PcSet, TypeInv, TypeOK, storeVars, runVars, admitVars,
       persistVars, committerVars, sourceVars, histVars
  <2>6. AbandonHolds' /\ RowsAccepted'
    BY <1>2, <2>3, <2>4, Roles DEF AbandonRows, TypeInv, TypeOK, AbandonHolds, RowsAccepted,
       storeVars
  <2> QED
    BY <1>2, <2>3, <2>5, <2>6, Roles DEF AbandonRows, TypeInv, TypeOK, Bounded,
       EmittedBeforeHeld, RowsHeld, storeVars, sourceVars
<1>3. CASE AbandonWrite
  <2>1. Min(abandonPage) \in Seqs
    BY <1>3, MinOfRows DEF AbandonWrite, TypeInv, TypeOK, AbandonHolds
  <2>2. settled' \subseteq Seqs
    BY <1>3, <2>1 DEF AbandonWrite, TypeInv, TypeOK
  <2>3. TypeOK'
    BY <1>3, <2>2 DEF AbandonWrite, TypeInv, TypeOK, storeVars, runVars, admitVars, persistVars,
       committerVars, sourceVars, scanVars
  <2> QED
    BY <1>3, <2>3, Roles DEF AbandonWrite, TypeInv, TypeOK, Bounded, EmittedBeforeHeld, RowsHeld,
       AbandonHolds, RowsAccepted, storeVars, sourceVars, scanVars
<1>4. CASE AbandonGivesUp
  <2>1. TypeOK'
    BY <1>4 DEF AbandonGivesUp, TypeInv, TypeOK, storeVars, runVars, admitVars, persistVars,
       committerVars, sourceVars, scanVars, histVars
  <2> QED
    BY <1>4, <2>1, Roles DEF AbandonGivesUp, TypeInv, TypeOK, Bounded, EmittedBeforeHeld, RowsHeld,
       AbandonHolds, RowsAccepted, storeVars, sourceVars, scanVars
<1>5. CASE AbandonForce
  <2> DEFINE q == Min(abandonPage)
  <2>1. q \in Seqs
    BY <1>5, MinOfRows DEF AbandonForce, TypeInv, TypeOK, AbandonHolds
  <2>2. trk \in Tracker /\ Bounded(trk, emitted) /\ emitted \in [Sources -> Nat]
    BY DEF TypeInv, TypeOK
  <2>3. PICK p \in Ptrs : /\ forceStopsAt(trk, q, p)
                          /\ trk' = forceTerminal(trk, q, p)
                          /\ call' = [call EXCEPT ![Abandoner] = forceTerminalCall(trk, q, p)]
    BY <1>5 DEF AbandonForce
  <2>4. pc' = [pc EXCEPT ![Abandoner] = IF q \in trk.open THEN "release" ELSE "next"]
    BY <1>5 DEF AbandonForce
  <2> HIDE DEF q
  <2>5. trk' \in Tracker /\ Bounded(trk', emitted)
    BY <2>1, <2>2, <2>3, ForceType
  <2>6. call' \in [Goroutines -> Call]
    <3>1. forceTerminalCall(trk, q, p) \in Call
      BY <2>1, <2>2, <2>3, <2>5, ForceCallType
    <3> QED BY <2>3, <3>1 DEF TypeInv, TypeOK
  <2>7. pc' \in [Goroutines -> PcSet]
    BY <2>4 DEF TypeInv, TypeOK, PcSet
  <2>8. TypeOK'
    BY <1>5, <2>5, <2>6, <2>7 DEF AbandonForce, PcSet, TypeInv, TypeOK, storeVars, runVars,
       admitVars, persistVars, committerVars, sourceVars, scanVars, histVars
  <2> QED
    BY <1>5, <2>4, <2>5, <2>8, Roles DEF AbandonForce, TypeInv, TypeOK, EmittedBeforeHeld, RowsHeld,
       AbandonHolds, RowsAccepted, storeVars, sourceVars, scanVars
<1>6. CASE AbandonNext
  <2> DEFINE q == Min(abandonPage)
  <2>1. gate' \in Int /\ acquired' \subseteq Seqs
    BY <1>6 DEF AbandonNext, Release, admitVars, TypeInv, TypeOK
  <2>2. /\ abandonPage' = abandonPage \ {q}
        /\ pc' = [pc EXCEPT ![Abandoner] = IF abandonPage' = {} THEN "page" ELSE "write"]
    BY <1>6 DEF AbandonNext
  <2> HIDE DEF q
  <2>3. abandonPage' \subseteq Seqs /\ pc' \in [Goroutines -> PcSet]
    BY <2>2 DEF TypeInv, TypeOK, PcSet
  <2>4. TypeOK'
    BY <1>6, <2>1, <2>3 DEF AbandonNext, PcSet, TypeInv, TypeOK, storeVars, runVars,
       persistVars, committerVars, sourceVars, histVars
  <2> QED
    BY <1>6, <2>2, <2>4, Roles DEF AbandonNext, TypeInv, TypeOK, Bounded, EmittedBeforeHeld,
       RowsHeld, AbandonHolds, RowsAccepted, storeVars, sourceVars
<1> QED BY <1>1, <1>2, <1>3, <1>4, <1>5, <1>6

\* Every step keeps the strengthened type invariant.
LEMMA TypeStep == TypeInv /\ [Next]_vars => TypeInv'
<1> SUFFICES ASSUME TypeInv, [Next]_vars PROVE TypeInv'
  OBVIOUS
<1>1. CASE Start \/ Cancel \/ Shutdown \/ Crash
  BY <1>1, TypeLifecycle
<1>2. CASE resumeCheckpoint \/ ReplayPage \/ ReplayRow \/ ReplayOrphan \/ ReplayDone
  BY <1>2, TypeReplay
<1>3. ASSUME NEW c \in Emitters, Emit(c) \/ AppendSpool(c) \/ AppendRefused(c)
      PROVE  TypeInv'
  BY <1>3, TypeAdmit, Roles
<1>4. ASSUME NEW c \in Callers, Gate(c) \/ GateRefused(c) \/ Register(c) \/ Return(c)
      PROVE  TypeInv'
  BY <1>4, TypeAdmit
<1>5. CASE (\E c \in Callers : Dispatch(c)) \/ (\E w \in Workers : Work(w))
  BY <1>5, TypeDeliver
<1>6. CASE \/ \E g \in Goroutines : OnCommit(g) \/ persistCheckpoint(g) \/ persistCheckpointFails(g)
           \/ \E s \in Sources : SourceCommit(s)
  BY <1>6, TypeCallbacks
<1>7. CASE Abandon \/ AbandonRows \/ AbandonWrite \/ AbandonGivesUp \/ AbandonForce \/ AbandonNext
  BY <1>7, TypeAbandon
<1>8. CASE UNCHANGED vars
  BY <1>8 DEF vars, TypeInv, TypeOK, Bounded, EmittedBeforeHeld, RowsHeld, AbandonHolds,
     RowsAccepted, storeVars, runVars, admitVars, persistVars, committerVars, sourceVars,
     scanVars, goVars, histVars
<1> QED BY <1>1, <1>2, <1>3, <1>4, <1>5, <1>6, <1>7, <1>8, Zenon DEF Next, Emitters

(***************************************************************************)
(* Type correctness of the commit path: the counters, the cursors, the     *)
(* ledger and the page buffers of the engine stay in range through every   *)
(* interleaving, crash and restart, whether or not injections arrive       *)
(* before replay is done.                                                  *)
(***************************************************************************)
THEOREM TypeCorrect == Spec => []TypeOK
<1>1. TypeInv => TypeOK
  BY DEF TypeInv
<1> QED BY <1>1, TypeInit, TypeStep, PTL DEF Spec

-----------------------------------------------------------------------------
(* No loss, and the refinement.                                            *)

Idle(q) == live[q]["emitted"] = 0 /\ live[q]["replayed"] = 0

\* Everything below the prefix cursor, and below the checkpoint, is settled.
PrefixSettled == \A q \in Seqs : q < trk.committedPtr => q \in settled
CheckpointSettled == \A q \in Seqs : q <= checkpoint => q \in settled
MarksSettled == \A q \in trk.removed : q \in settled
DeadLettered == pc[Abandoner] = "force" => Min(abandonPage) \in settled

\* The count of an open row is its branches, and a drained row is settled.
CountsTrue ==
  \A q \in trk.open :
    /\ trk.n[q] = live[q]["emitted"] + live[q]["replayed"]
    /\ trk.n[q] <= 0 => q \in settled

\* A row about to be registered has no branch, and has one holder.
HeldIdle ==
  \A c \in Callers : pc[c] = "register" \/ (c = Runner /\ pc[c] = "gate") => Idle(at[c])
HeldOnce ==
  \A c, d \in Emitters : pc[c] = "register" /\ pc[d] = "register" /\ at[c] = at[d] => c = d
UnacceptedIdle == \A q \in Seqs : q > lastSeq => Idle(q)

\* Emissions start when replay is done.
ReplayFirst ==
  /\ \A c \in Emitters : pc[c] # "idle" => phase \in {"live", "stopping"} /\ pc[Runner] = "idle"
  /\ phase = "live" => pc[Runner] = "idle"

\* Replay moves up the spool: what is beyond its scan has no branch yet.
ReplayAhead ==
  /\ phase \in {"down", "boot"} => scan = 0 /\ page = {}
  /\ phase \in {"down", "boot", "replay"} =>
       /\ \A q \in Seqs : q > scan => Idle(q)
       /\ \A q \in page : q > scan
       /\ pc[Runner] \in {"gate", "register"} => at[Runner] <= scan

\* An owed advance lies below the cursor; what was persisted is durable.
CallsBehind == \A g \in Goroutines : call[g].advanced => call[g].through < trk.committedPtr
PersistedDurable == persistedThrough <= checkpoint
UnsettledKept == \A q \in Seqs : q <= lastSeq /\ q \notin settled => q \in spool

\* Until the run has read the checkpoint, nothing has arrived.
SeededFirst ==
  persistedThrough # checkpoint =>
    /\ phase \in {"down", "boot", "stopping"}
    /\ trk.open = {}
    /\ \A q \in Seqs : Idle(q)
    /\ \A g \in Goroutines : ~ call[g].advanced
    /\ \A c \in Callers : pc[c] = "idle"

SafeInv ==
  /\ PrefixSettled /\ CheckpointSettled /\ MarksSettled /\ DeadLettered
  /\ CountsTrue
  /\ HeldIdle /\ HeldOnce /\ UnacceptedIdle
  /\ ReplayFirst /\ ReplayAhead
  /\ CallsBehind /\ PersistedDurable /\ UnsettledKept
  /\ SeededFirst
-----------------------------------------------------------------------------
\* The invariant holds initially.
LEMMA SafeInit == Init => SafeInv
<1> SUFFICES ASSUME Init PROVE SafeInv
  OBVIOUS
<1>1. trk.open = {} /\ trk.removed = {} /\ trk.committedPtr = 1
  BY DEF Init, newCommitTracker
<1>2. \A q \in Seqs : Idle(q)
  BY DEF Init, Idle, Copies
<1>3. (\A g \in Goroutines : ~ call[g].advanced) /\ \A g \in Goroutines : pc[g] = "idle"
  BY NoCallType DEF Init
<1>4. PrefixSettled /\ CheckpointSettled /\ MarksSettled /\ DeadLettered /\ UnsettledKept
  BY <1>1, <1>3, Roles DEF Init, PrefixSettled, CheckpointSettled, MarksSettled, DeadLettered,
     UnsettledKept, Seqs
<1>5. CountsTrue /\ HeldIdle /\ HeldOnce /\ UnacceptedIdle /\ ReplayFirst
  BY <1>1, <1>2, <1>3, Roles DEF Init, CountsTrue, HeldIdle, HeldOnce, UnacceptedIdle, ReplayFirst
<1>6. ReplayAhead /\ CallsBehind /\ PersistedDurable /\ SeededFirst
  BY <1>1, <1>2, <1>3, Roles DEF Init, ReplayAhead, CallsBehind, PersistedDurable, SeededFirst
<1> QED BY <1>4, <1>5, <1>6 DEF SafeInv

\* A run that ends keeps the store; the next engine starts from nothing.
LEMMA SafeGone ==
  ASSUME SafeInv, EngineGone, phase' = "down",
         UNCHANGED <<spool, lastSeq, checkpoint, settled>>, TypeInv'
  PROVE  SafeInv'
<1>1. trk'.open = {} /\ trk'.removed = {} /\ trk'.committedPtr = 1
  BY DEF EngineGone, newCommitTracker
<1>2. \A q \in Seqs : Idle(q)'
  BY DEF EngineGone, Idle, Copies
<1>3. (\A g \in Goroutines : ~ call'[g].advanced) /\ \A g \in Goroutines : pc'[g] = "idle"
  BY NoCallType DEF EngineGone
<1>4. (PrefixSettled /\ CheckpointSettled /\ MarksSettled /\ DeadLettered /\ UnsettledKept)'
  BY <1>1, <1>3, Roles DEF SafeInv, PrefixSettled, CheckpointSettled, MarksSettled, DeadLettered,
     UnsettledKept, Seqs
<1>5. (CountsTrue /\ HeldIdle /\ HeldOnce /\ UnacceptedIdle /\ ReplayFirst)'
  BY <1>1, <1>2, <1>3, Roles DEF CountsTrue, HeldIdle, HeldOnce, UnacceptedIdle, ReplayFirst
<1>6. (ReplayAhead /\ CallsBehind /\ PersistedDurable /\ SeededFirst)'
  BY <1>1, <1>2, <1>3, Roles DEF EngineGone, ReplayAhead, CallsBehind, PersistedDurable,
     SeededFirst, TypeInv, TypeOK
<1> QED BY <1>4, <1>5, <1>6 DEF SafeInv

\* The steps that open, stop and end a run.
LEMMA SafeLifecycle ==
  ASSUME SafeInv, TypeInv', Start \/ Cancel \/ Shutdown \/ Crash
  PROVE  SafeInv'
<1>1. CASE Start \/ Cancel
  <2>1. UNCHANGED <<storeVars, trk, persistedThrough, scan, page, abandonPage, goVars, histVars>>
    BY <1>1 DEF Start, Cancel, persistVars, scanVars
  <2>2. \/ phase = "down" /\ phase' = "boot"
        \/ phase \in {"boot", "replay", "live"} /\ phase' = "stopping"
    BY <1>1 DEF Start, Cancel
  <2> QED
    BY <2>1, <2>2 DEF SafeInv, PrefixSettled, CheckpointSettled, MarksSettled, DeadLettered,
       UnsettledKept, CountsTrue, HeldIdle, HeldOnce, UnacceptedIdle, ReplayFirst, ReplayAhead,
       CallsBehind, PersistedDurable, SeededFirst, Idle, storeVars, goVars, histVars
<1>2. CASE Shutdown \/ Crash
  BY <1>2, SafeGone DEF Shutdown, Crash, storeVars
<1> QED BY <1>1, <1>2

\* One step of a branch of q: the prefix, the marks and the counts stay true.
LEMMA SafeBranch ==
  ASSUME TypeInv, TypeInv', SafeInv, NEW g \in Goroutines, NEW q \in Seqs, NEW x \in Copies,
         NEW k \in 0..MaxFan, Branch(g, q, x, k)
  PROVE  /\ PrefixSettled' /\ MarksSettled' /\ CountsTrue' /\ CallsBehind'
         /\ settled \subseteq settled' /\ settled' \subseteq settled \cup {q}
         /\ q <= lastSeq /\ ~ Idle(q)
         /\ \A r \in Seqs : Idle(r) => Idle(r)'
<1>1. trk \in Tracker /\ Bounded(trk, emitted) /\ emitted \in [Sources -> Nat]
  BY DEF TypeInv, TypeOK
<1>2. k \in Nat /\ k - 1 \in Int
  BY CommitPathAssumption
<1>3. PICK p \in Ptrs : /\ addStopsAt(trk, q, k - 1, p)
                        /\ trk' = add(trk, q, k - 1, p)
                        /\ call' = [call EXCEPT ![g] = addCall(trk, q, k - 1, p)]
  BY DEF Branch
<1>4. trk' \in Tracker
  BY DEF TypeInv, TypeOK
<1>5. /\ trk.committedPtr <= trk'.committedPtr
      /\ trk'.open \subseteq trk.open /\ trk'.removed \subseteq trk.removed
      /\ \A r \in trk'.open : trk'.n[r] = CountAfter(trk, q, k - 1, r)
      /\ \A r \in Seqs : trk.committedPtr <= r /\ r < trk'.committedPtr =>
              \/ r \in trk.removed
              \/ r \in trk.open /\ CountAfter(trk, q, k - 1, r) <= 0
  BY <1>1, <1>2, <1>3, AddType
<1>6. LET c == addCall(trk, q, k - 1, p) IN c.advanced => c.through < trk'.committedPtr
  BY <1>1, <1>2, <1>3, <1>4, AddCallType
<1>7. /\ live \in [Seqs -> [Copies -> Nat]] /\ live[q][x] > 0
      /\ live' = [live EXCEPT ![q][x] = live[q][x] + k - 1]
      /\ settled' = IF live'[q][x] = 0 THEN settled \cup {q} ELSE settled
  BY DEF Branch, TypeInv, TypeOK
<1>8. settled \subseteq settled' /\ settled' \subseteq settled \cup {q}
  BY <1>7
<1>9. ~ Idle(q)
  BY <1>7 DEF Idle, Copies
<1>10. q <= lastSeq
  BY <1>9 DEF SafeInv, UnacceptedIdle, TypeInv, TypeOK, Seqs
<1>11. \A r \in Seqs : r # q => live'[r] = live[r]
  BY <1>7
<1>12. \A r \in Seqs : Idle(r) => Idle(r)'
  BY <1>9, <1>11 DEF Idle
<1>13. live'[q]["emitted"] + live'[q]["replayed"]
         = live[q]["emitted"] + live[q]["replayed"] + k - 1
  BY <1>2, <1>7 DEF Copies
<1>14. live'[q]["emitted"] + live'[q]["replayed"] <= 0 => q \in settled'
  <2>1. live'[q]["emitted"] \in Nat /\ live'[q]["replayed"] \in Nat
    BY DEF TypeInv, TypeOK, Copies
  <2> QED BY <1>7, <2>1 DEF Copies
<1>15. \A r \in trk.open :
         /\ r \in Seqs
         /\ CountAfter(trk, q, k - 1, r) = live'[r]["emitted"] + live'[r]["replayed"]
         /\ CountAfter(trk, q, k - 1, r) <= 0 => r \in settled'
  <2> TAKE r \in trk.open
  <2>1. r \in Seqs /\ trk.n[r] = live[r]["emitted"] + live[r]["replayed"]
        /\ (trk.n[r] <= 0 => r \in settled)
    BY <1>1, Fields DEF SafeInv, CountsTrue
  <2>2. CASE r = q
    <3>1. CountAfter(trk, q, k - 1, r) = live'[q]["emitted"] + live'[q]["replayed"]
      <4>1. live[q]["emitted"] \in Nat /\ live[q]["replayed"] \in Nat
        BY <1>7 DEF Copies
      <4> QED BY <1>2, <1>13, <2>1, <2>2, <4>1 DEF CountAfter
    <3> QED BY <1>14, <2>1, <2>2, <3>1
  <2>3. CASE r # q
    BY <1>8, <1>11, <2>1, <2>3 DEF CountAfter
  <2> QED BY <2>2, <2>3
<1>16. CountsTrue'
  BY <1>5, <1>15 DEF CountsTrue
<1>17. MarksSettled'
  BY <1>5, <1>8 DEF SafeInv, MarksSettled
<1>18. PrefixSettled'
  <2> SUFFICES ASSUME NEW r \in Seqs, r < trk'.committedPtr PROVE r \in settled'
    BY DEF PrefixSettled
  <2>1. CASE r < trk.committedPtr
    BY <1>8, <2>1 DEF SafeInv, PrefixSettled
  <2>2. CASE trk.committedPtr <= r
    BY <1>5, <1>8, <1>15, <2>2 DEF SafeInv, MarksSettled
  <2> QED BY <1>1, <2>1, <2>2, Fields DEF Ptrs, Seqs
<1>19. CallsBehind'
  <2> SUFFICES ASSUME NEW h \in Goroutines, call'[h].advanced
               PROVE  call'[h].through < trk'.committedPtr
    BY DEF CallsBehind
  <2>1. call \in [Goroutines -> Call]
    BY DEF TypeInv, TypeOK
  <2>2. CASE h = g
    BY <1>3, <1>6, <2>1, <2>2
  <2>3. CASE h # g
    <3>1. call'[h] = call[h]
      BY <1>3, <2>1, <2>3
    <3>2. call[h].through < trk.committedPtr /\ call[h].through \in 0..MaxSeq
      BY <2>1, <3>1 DEF SafeInv, CallsBehind, Call
    <3>3. trk.committedPtr \in Nat /\ trk'.committedPtr \in Nat
      BY <1>1, <1>4, Fields DEF Ptrs
    <3> QED BY <1>5, <3>1, <3>2, <3>3
  <2> QED BY <2>2, <2>3
<1> QED BY <1>8, <1>9, <1>10, <1>12, <1>16, <1>17, <1>18, <1>19
\* The part of the invariant that is about the tracker and the durable rows.
TrackerSafe ==
  PrefixSettled /\ CheckpointSettled /\ MarksSettled /\ CountsTrue /\ CallsBehind
  /\ PersistedDurable /\ UnsettledKept
\* The steps of crash replay.
LEMMA SafeReplay ==
  ASSUME TypeInv, TypeInv', SafeInv,
         resumeCheckpoint \/ ReplayPage \/ ReplayRow \/ ReplayOrphan \/ ReplayDone
  PROVE  SafeInv'
<1>0. trk \in Tracker /\ Bounded(trk, emitted) /\ emitted \in [Sources -> Nat]
      /\ trk' \in Tracker /\ checkpoint \in 0..MaxSeq /\ persistedThrough \in 0..MaxSeq
      /\ page \subseteq Seqs /\ scan \in 0..MaxSeq /\ call \in [Goroutines -> Call]
      /\ pc \in [Goroutines -> PcSet] /\ at \in [Goroutines -> 0..MaxSeq]
  BY DEF TypeInv, TypeOK, PcSet
<1>1. CASE resumeCheckpoint
  <2>1. /\ trk'.open = trk.open /\ trk'.n = trk.n /\ trk'.removed = trk.removed
        /\ trk.committedPtr <= trk'.committedPtr
        /\ trk'.committedPtr <= checkpoint + 1 \/ trk'.committedPtr = trk.committedPtr
    BY <1>0, <1>1, ResumeType, Fields DEF resumeCheckpoint, Ptrs
  <2>2. UNCHANGED <<storeVars, page, abandonPage, goVars, histVars>>
    BY <1>1 DEF resumeCheckpoint
  <2>3. persistedThrough' = checkpoint
    BY <1>0, <1>1 DEF resumeCheckpoint, Seeded, SafeInv, PersistedDurable
  <2>4. phase = "boot" /\ phase' = "replay" /\ scan' = checkpoint
    BY <1>1 DEF resumeCheckpoint
  <2>5. \A q \in Seqs : Idle(q)
    BY <2>4 DEF SafeInv, ReplayAhead, Seqs
  <2>6. PrefixSettled' /\ CheckpointSettled' /\ MarksSettled' /\ CountsTrue'
        /\ PersistedDurable' /\ UnsettledKept'
    BY <1>0, <2>1, <2>2, <2>3, Fields DEF SafeInv, PrefixSettled, CheckpointSettled, MarksSettled,
       CountsTrue, PersistedDurable, UnsettledKept, storeVars, histVars, Seqs, Ptrs
  <2>7. CallsBehind'
    BY <1>0, <2>1, <2>2, Fields DEF SafeInv, CallsBehind, goVars, Call, Ptrs
  <2>8. pc[Runner] \notin {"gate", "register"}
    BY <2>4, Roles DEF SafeInv, ReplayAhead, TypeInv, RowsHeld, Seqs
  <2>9. ReplayAhead'
    BY <2>2, <2>4, <2>5, <2>8 DEF SafeInv, ReplayAhead, Idle, goVars, histVars
  <2>10. (DeadLettered /\ HeldIdle /\ HeldOnce /\ UnacceptedIdle /\ ReplayFirst /\ SeededFirst)'
    BY <2>2, <2>3, <2>4 DEF SafeInv, DeadLettered, HeldIdle, HeldOnce, UnacceptedIdle,
       ReplayFirst, SeededFirst, Idle, storeVars, goVars, histVars
  <2> QED BY <2>6, <2>7, <2>9, <2>10 DEF SafeInv
<1>2. CASE ReplayPage
  <2>1. /\ \A q \in page' : q > scan
        /\ UNCHANGED <<storeVars, phase, trk, persistedThrough, scan, abandonPage, goVars, histVars>>
        /\ phase = "replay"
    BY <1>2, RowsBeyond DEF ReplayPage, RunnerFree, runVars, persistVars
  <2> QED
    BY <2>1 DEF SafeInv, PrefixSettled, CheckpointSettled, MarksSettled, DeadLettered,
       UnsettledKept, CountsTrue, HeldIdle, HeldOnce, UnacceptedIdle, ReplayFirst, ReplayAhead,
       CallsBehind, PersistedDurable, SeededFirst, Idle, storeVars, goVars, histVars
<1>3. CASE ReplayRow
  <2> DEFINE q == Min(page)
  <2>1. q \in page /\ q \in Seqs /\ \A r \in page : q <= r
    BY <1>0, <1>3, MinOfRows DEF ReplayRow
  <2>2. /\ page' = page \ {q} /\ scan' = q /\ at' = [at EXCEPT ![Runner] = q]
        /\ pc' = [pc EXCEPT ![Runner] = "gate"] /\ phase = "replay"
        /\ UNCHANGED <<storeVars, phase, trk, persistedThrough, abandonPage, call, histVars>>
    BY <1>3 DEF ReplayRow, RunnerFree, runVars, persistVars
  <2> HIDE DEF q
  <2>3. Idle(q) /\ q > scan
    BY <2>1, <2>2 DEF SafeInv, ReplayAhead
  <2>4. \A c \in Goroutines \ {Runner} : pc'[c] = pc[c] /\ at'[c] = at[c]
    BY <1>0, <2>2
  <2>5. pc'[Runner] = "gate" /\ at'[Runner] = q
    BY <1>0, <2>2, Roles
  <2>6. TrackerSafe'
    BY <2>2 DEF TrackerSafe, SafeInv, PrefixSettled, CheckpointSettled, MarksSettled, CountsTrue,
       CallsBehind, PersistedDurable, UnsettledKept, storeVars, histVars
  <2>7. ReplayAhead'
    BY <1>0, <2>1, <2>2, <2>3, <2>5 DEF SafeInv, ReplayAhead, Idle, histVars, Seqs
  <2>8. DeadLettered' /\ HeldIdle' /\ HeldOnce' /\ UnacceptedIdle'
    BY <2>2, <2>3, <2>4, <2>5, Roles DEF SafeInv, DeadLettered, HeldIdle, HeldOnce,
       UnacceptedIdle, Idle, storeVars, histVars
  <2>9. ReplayFirst' /\ SeededFirst'
    BY <2>2, <2>4, Roles DEF SafeInv, ReplayFirst, SeededFirst, storeVars
  <2> QED BY <2>6, <2>7, <2>8, <2>9 DEF SafeInv, TrackerSafe
<1>4. CASE ReplayOrphan
  <2> DEFINE q == Min(page)
             t1 == arrived(trk, q, NoNode, 0)
  <2>1. q \in page /\ q \in Seqs /\ \A r \in page : q <= r
    BY <1>0, <1>4, MinOfRows DEF ReplayOrphan
  <2>2. /\ t1 \in Tracker /\ Bounded(t1, emitted)
        /\ t1.open = trk.open \cup {q} /\ t1.n = [trk.n EXCEPT ![q] = 1]
        /\ t1.removed = trk.removed /\ t1.committedPtr = trk.committedPtr
    <3> HIDE DEF q
    <3>1. NoNode \in Sources \cup {NoNode} /\ 0 \in Nat /\ NoNode \notin Sources
      BY NoNodeAssumption
    <3>2. LET u == arrived(trk, q, NoNode, 0) IN
          /\ u \in Tracker /\ Bounded(u, emitted)
          /\ u.open = trk.open \cup {q} /\ u.n = [trk.n EXCEPT ![q] = 1]
          /\ u.removed = trk.removed /\ u.committedPtr = trk.committedPtr
      BY <1>0, <2>1, <3>1, ArrivedType
    <3> QED BY <3>2
  <2>3. PICK p \in Ptrs : /\ addStopsAt(t1, q, -1, p)
                          /\ trk' = add(t1, q, -1, p)
                          /\ call' = [call EXCEPT ![Runner] = addCall(t1, q, -1, p)]
    BY <1>4 DEF ReplayOrphan
  <2>4. /\ page' = page \ {q} /\ scan' = q /\ settled' = settled \cup {q} /\ phase = "replay"
        /\ UNCHANGED <<storeVars, phase, persistedThrough, abandonPage, pc, at, live>>
    BY <1>4 DEF ReplayOrphan, RunnerFree, runVars, persistVars
  <2> HIDE DEF t1, q
  <2>5. Idle(q) /\ q > scan
    BY <2>1, <2>4 DEF SafeInv, ReplayAhead
  <2>6. -1 \in Int
    OBVIOUS
  <2>7. /\ t1.committedPtr <= trk'.committedPtr
        /\ trk'.open \subseteq t1.open /\ trk'.removed \subseteq t1.removed
        /\ \A r \in trk'.open : trk'.n[r] = CountAfter(t1, q, -1, r)
        /\ \A r \in Seqs : t1.committedPtr <= r /\ r < trk'.committedPtr =>
              \/ r \in t1.removed
              \/ r \in t1.open /\ CountAfter(t1, q, -1, r) <= 0
    BY <1>0, <2>1, <2>2, <2>3, <2>6, AddType
  <2>8. LET c == addCall(t1, q, -1, p) IN c.advanced => c.through < trk'.committedPtr
    BY <1>0, <2>1, <2>2, <2>3, <2>6, AddCallType
  <2>9. \A r \in t1.open :
          /\ CountAfter(t1, q, -1, r) = live[r]["emitted"] + live[r]["replayed"]
          /\ CountAfter(t1, q, -1, r) <= 0 => r \in settled'
    <3> TAKE r \in t1.open
    <3>1. CASE r = q
      BY <1>0, <2>1, <2>2, <2>4, <2>5, <3>1, Fields DEF CountAfter, Idle
    <3>2. CASE r # q
      <4>1. r \in trk.open /\ r \in Seqs
        BY <1>0, <2>2, <3>2, Fields
      <4>2. CountAfter(t1, q, -1, r) = trk.n[r]
        BY <1>0, <2>2, <3>2, <4>1, Fields DEF CountAfter
      <4> QED BY <2>4, <4>1, <4>2 DEF SafeInv, CountsTrue
    <3> QED BY <3>1, <3>2
  <2>10. CountsTrue' /\ MarksSettled'
    BY <2>2, <2>4, <2>7, <2>9 DEF SafeInv, CountsTrue, MarksSettled
  <2>11. PrefixSettled'
    <3> SUFFICES ASSUME NEW r \in Seqs, r < trk'.committedPtr PROVE r \in settled'
      BY DEF PrefixSettled
    <3>1. CASE r < trk.committedPtr
      BY <2>4, <3>1 DEF SafeInv, PrefixSettled
    <3>2. CASE trk.committedPtr <= r
      BY <2>2, <2>4, <2>7, <2>9, <3>2 DEF SafeInv, MarksSettled
    <3> QED BY <1>0, <3>1, <3>2, Fields DEF Ptrs, Seqs
  <2>12. CallsBehind'
    <3> SUFFICES ASSUME NEW h \in Goroutines, call'[h].advanced
                 PROVE  call'[h].through < trk'.committedPtr
      BY DEF CallsBehind
    <3>1. CASE h = Runner
      BY <1>0, <2>3, <2>8, <3>1
    <3>2. CASE h # Runner
      <4>1. call'[h] = call[h]
        BY <1>0, <2>3, <3>2
      <4>2. call[h].through < trk.committedPtr /\ call[h].through \in 0..MaxSeq
        BY <1>0, <4>1 DEF SafeInv, CallsBehind, Call
      <4>3. trk.committedPtr \in Nat /\ trk'.committedPtr \in Nat
        BY <1>0, Fields DEF Ptrs
      <4> QED BY <2>2, <2>7, <4>1, <4>2, <4>3
    <3> QED BY <3>1, <3>2
  <2>13. CheckpointSettled' /\ PersistedDurable' /\ UnsettledKept'
    BY <2>4 DEF SafeInv, CheckpointSettled, PersistedDurable, UnsettledKept, storeVars
  <2>14. ReplayAhead'
    BY <1>0, <2>1, <2>4, <2>5, Roles DEF SafeInv, ReplayAhead, Idle, Seqs
  <2>15. DeadLettered' /\ HeldIdle' /\ HeldOnce' /\ UnacceptedIdle' /\ ReplayFirst' /\ SeededFirst'
    BY <2>4 DEF SafeInv, DeadLettered, HeldIdle, HeldOnce, UnacceptedIdle, ReplayFirst,
       SeededFirst, Idle, storeVars
  <2> QED BY <2>10, <2>11, <2>12, <2>13, <2>14, <2>15 DEF SafeInv
<1>5. CASE ReplayDone
  <2>1. /\ phase = "replay" /\ phase' = "live" /\ pc[Runner] = "idle"
        /\ UNCHANGED <<storeVars, trk, persistedThrough, scan, page, abandonPage, goVars, histVars>>
    BY <1>5 DEF ReplayDone, RunnerFree, persistVars, scanVars
  <2> QED
    BY <2>1 DEF SafeInv, PrefixSettled, CheckpointSettled, MarksSettled, DeadLettered,
       UnsettledKept, CountsTrue, HeldIdle, HeldOnce, UnacceptedIdle, ReplayFirst, ReplayAhead,
       CallsBehind, PersistedDurable, SeededFirst, Idle, storeVars, goVars, histVars
<1> QED BY <1>1, <1>2, <1>3, <1>4, <1>5
\* The steps of admit, up to the dispatch.
LEMMA SafeAdmit ==
  ASSUME TypeInv, TypeInv', SafeInv, EarlyInject = FALSE, NEW c \in Callers,
         \/ c \in Emitters /\ (Emit(c) \/ AppendSpool(c) \/ AppendRefused(c))
         \/ Gate(c) \/ GateRefused(c) \/ Register(c) \/ Return(c)
  PROVE  SafeInv'
<1>0. /\ pc \in [Goroutines -> PcSet] /\ at \in [Goroutines -> 0..MaxSeq]
      /\ c \in Goroutines /\ c # Abandoner
      /\ trk \in Tracker /\ lastSeq \in 0..MaxSeq
  BY Roles DEF TypeInv, TypeOK, PcSet
<1>1. CASE \/ c \in Emitters /\ (Emit(c) \/ AppendRefused(c))
           \/ Gate(c) \/ GateRefused(c) \/ Return(c)
  <2>1. UNCHANGED <<storeVars, trk, persistedThrough, scan, page, abandonPage, at, call, histVars>>
    BY <1>1 DEF Emit, AppendRefused, Gate, GateRefused, Return, persistVars, scanVars
  <2>2. /\ \A d \in Goroutines \ {c} : pc'[d] = pc[d]
        /\ pc'[c] = "register" => c = Runner /\ pc[c] = "gate"
        /\ pc'[c] = "gate" => c \in Emitters
    BY <1>0, <1>1 DEF Emit, AppendRefused, Gate, GateRefused, Return
  <2>3. \/ phase' = phase
        \/ phase' = "stopping" /\ c \in Emitters /\ pc[c] # "idle"
    BY <1>1 DEF Emit, AppendRefused, Gate, GateRefused, Return, runVars
  <2>4. pc[c] = "idle" => c \in Emitters /\ phase = "live"
    BY <1>1 DEF Emit, AppendRefused, Gate, GateRefused, Return
  <2>5. c = Runner /\ pc'[c] \in {"gate", "register"} => pc[c] = "gate"
    BY <2>2, Roles, <1>0, <1>1 DEF Gate, GateRefused, Return
  <2>6. TrackerSafe'
    BY <2>1 DEF TrackerSafe, SafeInv, PrefixSettled, CheckpointSettled, MarksSettled, CountsTrue,
       CallsBehind, PersistedDurable, UnsettledKept, storeVars, histVars
  <2>7. DeadLettered' /\ UnacceptedIdle'
    BY <1>0, <2>1, <2>2, Roles DEF SafeInv, DeadLettered, UnacceptedIdle, Idle, storeVars, histVars
  <2>8. HeldIdle' /\ HeldOnce'
    BY <2>1, <2>2, <2>5, Roles DEF SafeInv, HeldIdle, HeldOnce, Idle, histVars
  <2>9. ReplayFirst'
    BY <2>2, <2>3, <2>4, Roles DEF SafeInv, ReplayFirst
  <2>10. ReplayAhead'
    <3>1. phase' \in {"down", "boot", "replay"} => phase' = phase
      BY <2>3
    <3>2. pc'[Runner] \in {"gate", "register"} => pc[Runner] \in {"gate", "register"}
      BY <2>2, <2>5, Roles
    <3> QED BY <2>1, <3>1, <3>2 DEF SafeInv, ReplayAhead, Idle, histVars
  <2>11. SeededFirst'
    <3>1. persistedThrough = checkpoint
      BY <2>4 DEF SafeInv, SeededFirst
    <3> QED BY <2>1, <3>1 DEF SeededFirst, storeVars
  <2> QED BY <2>6, <2>7, <2>8, <2>9, <2>10, <2>11 DEF SafeInv, TrackerSafe
<1>2. CASE c \in Emitters /\ AppendSpool(c)
  <2> DEFINE q == lastSeq + 1
  <2>1. /\ pc[c] = "append" /\ lastSeq' = q /\ spool' = spool \cup {q} /\ q \in Seqs
        /\ at' = [at EXCEPT ![c] = q] /\ pc' = [pc EXCEPT ![c] = "register"]
        /\ UNCHANGED <<checkpoint, phase, trk, persistedThrough, scan, page, abandonPage, call,
                       histVars>>
    <3>1. lastSeq < MaxSeq
      BY <1>2 DEF AppendSpool
    <3>2. q \in Seqs
      BY <1>0, <3>1, MaxSeqAssumption DEF Seqs
    <3> QED BY <1>2, <3>2 DEF AppendSpool, runVars, persistVars, scanVars
  <2>2. /\ \A d \in Goroutines \ {c} : pc'[d] = pc[d] /\ at'[d] = at[d]
        /\ pc'[c] = "register" /\ at'[c] = q
    BY <1>0, <2>1
  <2>3. Idle(q)
    BY <1>0, <2>1 DEF SafeInv, UnacceptedIdle
  <2>4. PrefixSettled' /\ CheckpointSettled' /\ MarksSettled' /\ CountsTrue' /\ CallsBehind'
        /\ PersistedDurable'
    BY <2>1 DEF SafeInv, PrefixSettled, CheckpointSettled, MarksSettled, CountsTrue,
       CallsBehind, PersistedDurable, histVars
  <2>5. UnsettledKept' /\ UnacceptedIdle'
    BY <1>0, <2>1 DEF SafeInv, UnsettledKept, UnacceptedIdle, Idle, histVars, Seqs
  <2>6. HeldIdle' /\ DeadLettered'
    BY <1>0, <2>1, <2>2, <2>3, Roles DEF SafeInv, HeldIdle, DeadLettered, Idle, histVars
  <2>7. HeldOnce'
    <3>1. \A d \in Emitters : d # c /\ pc[d] = "register" => at[d] # q
      BY <1>0, Roles DEF TypeInv, RowsHeld, Seqs
    <3> QED BY <2>2, <3>1, Roles DEF SafeInv, HeldOnce
  <2>8. ReplayFirst' /\ SeededFirst'
    BY <1>2, <2>1, <2>2, Roles DEF SafeInv, ReplayFirst, SeededFirst
  <2>9. ReplayAhead'
    BY <1>2, <2>1, <2>2, Roles DEF SafeInv, ReplayAhead, ReplayFirst
  <2> QED BY <2>4, <2>5, <2>6, <2>7, <2>8, <2>9 DEF SafeInv
<1>3. CASE Register(c)
  <2> DEFINE q == at[c]
  <2>1. /\ pc[c] = "register" /\ pc' = [pc EXCEPT ![c] = "dispatch"]
        /\ live' = [live EXCEPT ![q][CopyOf(c)] = @ + 1]
        /\ UNCHANGED <<storeVars, phase, persistedThrough, scan, page, abandonPage, at, call,
                       settled>>
    BY <1>3 DEF Register, runVars, persistVars, scanVars
  <2>2. q \in Seqs /\ q <= lastSeq /\ Idle(q)
    BY <2>1 DEF TypeInv, RowsHeld, SafeInv, HeldIdle
  <2>3. /\ trk'.open = trk.open \cup {q} /\ trk'.n = [trk.n EXCEPT ![q] = 1]
        /\ trk'.removed = trk.removed /\ trk'.committedPtr = trk.committedPtr
    <3> HIDE DEF q
    <3>1. Bounded(trk, emitted) /\ emitted \in [Sources -> Nat]
      BY DEF TypeInv, TypeOK
    <3>2. CASE c \in Sources
      <4>1. emitted[c] \in Nat /\ emitted[c] \in 1..emitted[c]
        BY <2>1, <3>1, <3>2 DEF TypeInv, EmittedBeforeHeld
      <4>2. trk' = arrived(trk, q, c, emitted[c])
        BY <1>3, <3>2 DEF Register, q
      <4>3. c \in Sources \cup {NoNode} /\ c \in Sources => emitted[c] \in 1..emitted[c]
        BY <4>1
      <4>4. LET u == arrived(trk, q, c, emitted[c]) IN
            /\ u.open = trk.open \cup {q} /\ u.n = [trk.n EXCEPT ![q] = 1]
            /\ u.removed = trk.removed /\ u.committedPtr = trk.committedPtr
        BY <1>0, <2>2, <3>1, <3>2, <4>1, <4>3, ArrivedType
      <4> QED BY <4>2, <4>4
    <3>3. CASE c \notin Sources
      <4>1. trk' = arrived(trk, q, NoNode, 0)
        BY <1>3, <3>3 DEF Register, q
      <4>2. NoNode \in Sources \cup {NoNode} /\ 0 \in Nat /\ NoNode \notin Sources
        BY NoNodeAssumption
      <4>3. LET u == arrived(trk, q, NoNode, 0) IN
            /\ u.open = trk.open \cup {q} /\ u.n = [trk.n EXCEPT ![q] = 1]
            /\ u.removed = trk.removed /\ u.committedPtr = trk.committedPtr
        BY <1>0, <2>2, <3>1, <4>2, ArrivedType
      <4> QED BY <4>1, <4>3
    <3> QED BY <3>2, <3>3
  <2>4. /\ \A d \in Goroutines \ {c} : pc'[d] = pc[d]
        /\ pc'[c] = "dispatch"
    BY <1>0, <2>1
  <2> HIDE DEF q
  <2>5. \A r \in Seqs \ {q} : live'[r] = live[r]
    BY <2>1 DEF TypeInv, TypeOK
  <2>6. live'[q]["emitted"] + live'[q]["replayed"] = 1
    BY <2>1, <2>2 DEF TypeInv, TypeOK, Idle, CopyOf, Copies
  <2>7. CountsTrue'
    <3> SUFFICES ASSUME NEW r \in trk'.open
                 PROVE  /\ trk'.n[r] = live'[r]["emitted"] + live'[r]["replayed"]
                        /\ trk'.n[r] <= 0 => r \in settled'
      BY DEF CountsTrue
    <3>1. CASE r = q
      BY <1>0, <2>2, <2>3, <2>6, <3>1, Fields
    <3>2. CASE r # q
      <4>1. r \in trk.open /\ r \in Seqs /\ trk'.n[r] = trk.n[r]
        BY <1>0, <2>3, <3>2, Fields
      <4> QED BY <2>1, <2>5, <3>2, <4>1 DEF SafeInv, CountsTrue
    <3> QED BY <3>1, <3>2
  <2>8. PrefixSettled' /\ CheckpointSettled' /\ MarksSettled' /\ CallsBehind'
        /\ PersistedDurable' /\ UnsettledKept'
    BY <2>1, <2>3 DEF SafeInv, PrefixSettled, CheckpointSettled, MarksSettled,
       CallsBehind, PersistedDurable, UnsettledKept, storeVars
  <2>9. DeadLettered' /\ HeldOnce' /\ ReplayFirst'
    BY <1>0, <2>1, <2>4, Roles DEF SafeInv, DeadLettered, HeldOnce, ReplayFirst
  <2>10. HeldIdle'
    <3> SUFFICES ASSUME NEW d \in Callers,
                        pc'[d] = "register" \/ (d = Runner /\ pc'[d] = "gate")
                 PROVE  Idle(at[d])'
      BY <2>1 DEF HeldIdle
    <3>1. d # c /\ pc'[d] = pc[d]
      BY <2>4, Roles
    <3>2. at[d] \in Seqs /\ Idle(at[d])
      BY <3>1 DEF TypeInv, RowsHeld, SafeInv, HeldIdle
    <3>3. at[d] # q
      <4>1. CASE c \in Emitters /\ d \in Emitters
        BY <2>1, <3>1, <4>1, Roles DEF SafeInv, HeldOnce, q
      <4>2. CASE c \in Emitters /\ d = Runner
        BY <2>1, <3>1, <4>2 DEF SafeInv, ReplayFirst
      <4>3. CASE c = Runner /\ d \in Emitters
        BY <2>1, <3>1, <4>3 DEF SafeInv, ReplayFirst
      <4> QED BY <3>1, <4>1, <4>2, <4>3 DEF Callers, Emitters
    <3> QED BY <2>1, <2>5, <3>2, <3>3 DEF Idle
  <2>11. UnacceptedIdle'
    BY <1>0, <2>1, <2>2, <2>5 DEF SafeInv, UnacceptedIdle, Idle, storeVars, Seqs
  <2>12. ReplayAhead'
    <3>1. phase \in {"down", "boot", "replay"} => c = Runner /\ q <= scan
      BY <2>1 DEF SafeInv, ReplayFirst, ReplayAhead, Callers, Emitters, q
    <3>2. scan \in 0..MaxSeq
      BY DEF TypeInv, TypeOK
    <3> QED BY <2>1, <2>2, <2>4, <2>5, <3>1, <3>2, Roles DEF SafeInv, ReplayAhead, Idle, Seqs
  <2>13. SeededFirst'
    BY <2>1 DEF SafeInv, SeededFirst, storeVars
  <2> QED BY <2>7, <2>8, <2>9, <2>10, <2>11, <2>12, <2>13 DEF SafeInv
<1> QED BY <1>1, <1>2, <1>3
\* The dispatch of an admitted row and the work on a delivered branch.
LEMMA SafeDeliver ==
  ASSUME TypeInv, TypeInv', SafeInv,
         (\E c \in Callers : Dispatch(c)) \/ (\E w \in Workers : Work(w))
  PROVE  SafeInv'
<1>1. PICK g \in Goroutines, q \in Seqs, x \in Copies, k \in 0..MaxFan : Branch(g, q, x, k)
  <2>1. CASE \E c \in Callers : Dispatch(c)
    <3>1. PICK c \in Callers : Dispatch(c)
      BY <2>1
    <3>2. c \in Goroutines /\ at[c] \in Seqs /\ CopyOf(c) \in Copies
      BY <3>1, Roles DEF Dispatch, TypeInv, RowsHeld, CopyOf, Copies
    <3> QED BY <3>1, <3>2 DEF Dispatch
  <2>2. CASE \E w \in Workers : Work(w)
    BY <2>2, Roles DEF Work
  <2> QED BY <2>1, <2>2
<1>2. UNCHANGED <<storeVars, phase, persistedThrough, scan, page, abandonPage, at>>
  BY DEF Dispatch, Work, runVars, persistVars, scanVars
<1>3. /\ pc' \in [Goroutines -> PcSet] /\ pc'[Abandoner] = pc[Abandoner]
      /\ \A c \in Callers : pc'[c] = pc[c] \/ (pc[c] = "dispatch" /\ pc'[c] = "return")
  <2>1. pc \in [Goroutines -> PcSet] /\ pc' \in [Goroutines -> PcSet]
    BY DEF TypeInv, TypeOK, PcSet
  <2> QED BY <2>1, Roles DEF Dispatch, Work
<1>4. /\ PrefixSettled' /\ MarksSettled' /\ CountsTrue' /\ CallsBehind'
      /\ settled \subseteq settled' /\ settled' \subseteq settled \cup {q}
      /\ q <= lastSeq /\ ~ Idle(q)
      /\ \A r \in Seqs : Idle(r) => Idle(r)'
  BY <1>1, SafeBranch
<1>5. CheckpointSettled' /\ PersistedDurable' /\ UnsettledKept' /\ DeadLettered' /\ UnacceptedIdle'
  BY <1>2, <1>3, <1>4 DEF SafeInv, CheckpointSettled, PersistedDurable, UnsettledKept,
     DeadLettered, UnacceptedIdle, storeVars
<1>6. HeldIdle'
  <2> SUFFICES ASSUME NEW d \in Callers,
                      pc'[d] = "register" \/ (d = Runner /\ pc'[d] = "gate")
               PROVE  Idle(at[d])'
    BY <1>2 DEF HeldIdle
  <2>1. at[d] \in Seqs /\ Idle(at[d])
    BY <1>3 DEF TypeInv, RowsHeld, SafeInv, HeldIdle
  <2> QED BY <1>2, <1>4, <2>1 DEF Idle
<1>7. HeldOnce' /\ ReplayFirst'
  BY <1>2, <1>3, Roles DEF SafeInv, HeldOnce, ReplayFirst
<1>8. ReplayAhead'
  BY <1>2, <1>3, <1>4, Roles DEF SafeInv, ReplayAhead
<1>9. SeededFirst'
  BY <1>2, <1>4 DEF SafeInv, SeededFirst, storeVars
<1> QED BY <1>4, <1>5, <1>6, <1>7, <1>8, <1>9 DEF SafeInv

\* What a flush of an owed advance does: the checkpoint moves forward, over
\* settled rows, and retention drops rows behind it.
LEMMA FlushBehind ==
  ASSUME TypeInv, TypeInv', SafeInv, NEW g \in Goroutines, persistCheckpoint(g)
  PROVE  /\ persistedThrough' = checkpoint' /\ checkpoint' >= checkpoint
         /\ CheckpointSettled'
         /\ spool' \subseteq spool /\ \A q \in spool \ spool' : q <= checkpoint'
<1> DEFINE th == call[g].through
           pt == IF Ahead(th) THEN th ELSE persistedThrough
<1>1. /\ call[g].advanced /\ call[g] \in Call /\ call[g].through \in 0..MaxSeq
      /\ persistedThrough \in 0..MaxSeq /\ spool \subseteq Seqs
      /\ trk.committedPtr \in Ptrs
  BY Fields DEF persistCheckpoint, TypeInv, TypeOK, Call
<1>2. persistedThrough = checkpoint
  BY <1>1 DEF SafeInv, SeededFirst
<1>3. th < trk.committedPtr
  BY <1>1 DEF SafeInv, CallsBehind
<1>4. /\ persistedThrough' = pt /\ checkpoint' = IF Ahead(th) THEN th ELSE checkpoint
      /\ Trim(pt) /\ settled' = settled
  BY DEF persistCheckpoint, histVars
<1>5. pt = checkpoint' /\ pt >= checkpoint /\ pt \in 0..MaxSeq
  BY <1>1, <1>2, <1>4 DEF Ahead
<1>6. CheckpointSettled'
  BY <1>1, <1>3, <1>4 DEF SafeInv, PrefixSettled, CheckpointSettled, Seqs, Ptrs
<1>7. SpoolRetention \in Nat
  BY CommitPathAssumption
<1> HIDE DEF pt
<1>8. spool' \subseteq spool /\ \A q \in spool \ spool' : q <= pt
  BY <1>1, <1>4, <1>5, <1>7 DEF Trim, Seqs
<1> QED BY <1>4, <1>5, <1>6, <1>8

\* The callbacks of a sweep, and the source committers.
LEMMA SafeCallbacks ==
  ASSUME TypeInv, TypeInv', SafeInv,
         \/ \E g \in Goroutines : OnCommit(g) \/ persistCheckpoint(g) \/ persistCheckpointFails(g)
         \/ \E s \in Sources : SourceCommit(s)
  PROVE  SafeInv'
<1>0. call \in [Goroutines -> Call] /\ checkpoint \in 0..MaxSeq
  BY DEF TypeInv, TypeOK
<1>1. ASSUME NEW g \in Goroutines, OnCommit(g) \/ persistCheckpointFails(g) PROVE SafeInv'
  <2>1. \A h \in Goroutines : call'[h].advanced =>
           call[h].advanced /\ call'[h].through = call[h].through
    <3> DEFINE q == Min(call[g].commits)
               rest == [call[g] EXCEPT !.commits = @ \ {q}]
    <3>1. rest.advanced = call[g].advanced /\ rest.through = call[g].through
      BY <1>0 DEF Call
    <3>2. \/ call' = [call EXCEPT ![g] = IF rest.commits = {} /\ ~ rest.advanced
                                         THEN NoCall ELSE rest]
          \/ call' = [call EXCEPT ![g] = NoCall]
      BY <1>1 DEF OnCommit, persistCheckpointFails
    <3> HIDE DEF rest
    <3> QED BY <1>0, <3>1, <3>2, NoCallType
  <2>2. UNCHANGED <<storeVars, phase, trk, persistedThrough, scan, page, abandonPage, pc, at,
                    histVars>>
    BY <1>1 DEF OnCommit, persistCheckpointFails, runVars, persistVars, scanVars
  <2> QED
    BY <2>1, <2>2 DEF SafeInv, PrefixSettled, CheckpointSettled, MarksSettled, DeadLettered,
       UnsettledKept, CountsTrue, HeldIdle, HeldOnce, UnacceptedIdle, ReplayFirst, ReplayAhead,
       CallsBehind, PersistedDurable, SeededFirst, Idle, storeVars, histVars
<1>2. ASSUME NEW g \in Goroutines, persistCheckpoint(g) PROVE SafeInv'
  <2>1. \A h \in Goroutines : call'[h].advanced =>
           call[h].advanced /\ call'[h].through = call[h].through
    BY <1>0, <1>2, NoCallType DEF persistCheckpoint
  <2>2. /\ persistedThrough' = checkpoint' /\ checkpoint' >= checkpoint
        /\ CheckpointSettled'
        /\ spool' \subseteq spool /\ \A q \in spool \ spool' : q <= checkpoint'
    BY <1>2, FlushBehind
  <2>3. UNCHANGED <<lastSeq, phase, trk, scan, page, abandonPage, pc, at, histVars>>
    BY <1>2 DEF persistCheckpoint, runVars, scanVars
  <2>4. UnsettledKept'
    BY <2>2, <2>3 DEF SafeInv, UnsettledKept, CheckpointSettled, histVars
  <2>5. PersistedDurable' /\ SeededFirst'
    BY <2>2 DEF PersistedDurable, SeededFirst, TypeInv, TypeOK
  <2>6. PrefixSettled' /\ MarksSettled' /\ CountsTrue' /\ CallsBehind'
    BY <2>1, <2>3 DEF SafeInv, PrefixSettled, MarksSettled, CountsTrue, CallsBehind, histVars
  <2>7. (DeadLettered /\ HeldIdle /\ HeldOnce /\ UnacceptedIdle /\ ReplayFirst /\ ReplayAhead)'
    BY <2>3 DEF SafeInv, DeadLettered, HeldIdle, HeldOnce, UnacceptedIdle, ReplayFirst,
       ReplayAhead, Idle, histVars
  <2> QED BY <2>2, <2>4, <2>5, <2>6, <2>7 DEF SafeInv
<1>3. ASSUME NEW s \in Sources, SourceCommit(s) PROVE SafeInv'
  <2>1. UNCHANGED <<spool, lastSeq, checkpoint, phase, trk, persistedThrough, scan, page,
                    abandonPage, goVars, histVars>>
    BY <1>3 DEF SourceCommit, runVars, persistVars, scanVars
  <2> QED
    BY <2>1 DEF SafeInv, PrefixSettled, CheckpointSettled, MarksSettled, DeadLettered,
       UnsettledKept, CountsTrue, HeldIdle, HeldOnce, UnacceptedIdle, ReplayFirst, ReplayAhead,
       CallsBehind, PersistedDurable, SeededFirst, Idle, goVars, histVars
<1> QED BY <1>1, <1>2, <1>3

\* The steps of Abandon.
LEMMA SafeAbandon ==
  ASSUME TypeInv, TypeInv', SafeInv,
         Abandon \/ AbandonRows \/ AbandonWrite \/ AbandonGivesUp \/ AbandonForce \/ AbandonNext
  PROVE  SafeInv'
<1>0. /\ pc \in [Goroutines -> PcSet] /\ at \in [Goroutines -> 0..MaxSeq]
      /\ trk \in Tracker /\ Bounded(trk, emitted) /\ emitted \in [Sources -> Nat]
      /\ trk' \in Tracker /\ call \in [Goroutines -> Call] /\ abandonPage \subseteq Seqs
  BY DEF TypeInv, TypeOK, PcSet
<1>1. /\ UNCHANGED <<storeVars, phase, persistedThrough, scan, page, live>>
      /\ \A c \in Callers : pc'[c] = pc[c] /\ at'[c] = at[c]
  BY <1>0, Roles DEF Abandon, AbandonRows, AbandonWrite, AbandonGivesUp, AbandonForce, AbandonNext,
     runVars, persistVars, scanVars, histVars
<1>2. settled \subseteq settled' /\ DeadLettered'
  <2>1. CASE AbandonWrite
    BY <1>0, <2>1 DEF AbandonWrite, DeadLettered, scanVars
  <2>2. CASE ~ AbandonWrite
    <3>1. settled' = settled /\ pc'[Abandoner] # "force"
      BY <1>0, <2>2, Roles DEF Abandon, AbandonRows, AbandonGivesUp, AbandonForce, AbandonNext,
         histVars
    <3> QED BY <3>1 DEF DeadLettered
  <2> QED BY <2>1, <2>2
<1>3. CheckpointSettled' /\ PersistedDurable' /\ UnsettledKept'
  BY <1>1, <1>2 DEF SafeInv, CheckpointSettled, PersistedDurable, UnsettledKept, storeVars
<1>4. (HeldIdle /\ HeldOnce /\ UnacceptedIdle /\ ReplayFirst /\ ReplayAhead)'
  BY <1>1, Roles DEF SafeInv, HeldIdle, HeldOnce, UnacceptedIdle, ReplayFirst, ReplayAhead, Idle,
     storeVars
<1>5. (PrefixSettled /\ MarksSettled /\ CountsTrue /\ CallsBehind /\ SeededFirst)'
  <2>1. CASE AbandonForce
    <3> DEFINE q == Min(abandonPage)
    <3>1. q \in Seqs /\ q \in settled
      BY <1>0, <2>1, MinOfRows DEF AbandonForce, TypeInv, AbandonHolds, SafeInv, DeadLettered
    <3>2. PICK p \in Ptrs : /\ forceStopsAt(trk, q, p)
                            /\ trk' = forceTerminal(trk, q, p)
                            /\ call' = [call EXCEPT ![Abandoner] = forceTerminalCall(trk, q, p)]
      BY <2>1 DEF AbandonForce
    <3> HIDE DEF q
    <3>3. /\ trk.committedPtr <= trk'.committedPtr
          /\ trk'.open \subseteq trk.open /\ trk'.removed \subseteq trk.removed \cup {q}
          /\ \A r \in trk'.open : trk'.n[r] = trk.n[r]
          /\ \A r \in Seqs : trk.committedPtr <= r /\ r < trk'.committedPtr =>
              \/ r \in trk.removed \cup {q}
              \/ r \in trk.open /\ trk.n[r] <= 0
      BY <1>0, <3>1, <3>2, ForceType
    <3>4. LET c == forceTerminalCall(trk, q, p) IN c.advanced => c.through < trk'.committedPtr
      BY <1>0, <3>1, <3>2, ForceCallType
    <3>5. MarksSettled' /\ CountsTrue'
      BY <1>1, <1>2, <3>1, <3>3 DEF SafeInv, MarksSettled, CountsTrue
    <3>6. PrefixSettled'
      <4> SUFFICES ASSUME NEW r \in Seqs, r < trk'.committedPtr PROVE r \in settled
        BY <1>2 DEF PrefixSettled
      <4>1. CASE r < trk.committedPtr
        BY <4>1 DEF SafeInv, PrefixSettled
      <4>2. CASE trk.committedPtr <= r
        BY <3>1, <3>3, <4>2 DEF SafeInv, MarksSettled, CountsTrue
      <4> QED BY <1>0, <4>1, <4>2, Fields DEF Ptrs, Seqs
    <3>7. CallsBehind'
      <4> SUFFICES ASSUME NEW h \in Goroutines, call'[h].advanced
                   PROVE  call'[h].through < trk'.committedPtr
        BY DEF CallsBehind
      <4>1. CASE h = Abandoner
        BY <1>0, <3>2, <3>4, <4>1
      <4>2. CASE h # Abandoner
        <5>1. call'[h] = call[h]
          BY <1>0, <3>2, <4>2
        <5>2. call[h].through < trk.committedPtr /\ call[h].through \in 0..MaxSeq
          BY <1>0, <5>1 DEF SafeInv, CallsBehind, Call
        <5>3. trk.committedPtr \in Nat /\ trk'.committedPtr \in Nat
          BY <1>0, Fields DEF Ptrs
        <5> QED BY <3>3, <5>1, <5>2, <5>3
      <4> QED BY <4>1, <4>2
    <3>8. SeededFirst'
      <4>1. q \notin trk.open => forceTerminalCall(trk, q, p) = NoCall
        BY DEF forceTerminalCall
      <4> QED BY <1>0, <1>1, <3>2, <3>3, <4>1, NoCallType, Roles
           DEF SafeInv, SeededFirst, Idle, storeVars
    <3> QED BY <3>5, <3>6, <3>7, <3>8
  <2>2. CASE ~ AbandonForce
    <3>1. trk' = trk /\ call' = call
      BY <2>2 DEF Abandon, AbandonRows, AbandonWrite, AbandonGivesUp, AbandonNext
    <3> QED BY <1>1, <1>2, <3>1 DEF SafeInv, PrefixSettled, MarksSettled, CountsTrue, CallsBehind,
         SeededFirst, Idle, storeVars
  <2> QED BY <2>1, <2>2
<1> QED BY <1>2, <1>3, <1>4, <1>5 DEF SafeInv

\* Every step keeps the invariant.
LEMMA SafeStep ==
  ASSUME EarlyInject = FALSE
  PROVE  TypeInv /\ TypeInv' /\ SafeInv /\ [Next]_vars => SafeInv'
<1> SUFFICES ASSUME TypeInv, TypeInv', SafeInv, [Next]_vars PROVE SafeInv'
  OBVIOUS
<1>1. CASE Start \/ Cancel \/ Shutdown \/ Crash
  BY <1>1, SafeLifecycle
<1>2. CASE resumeCheckpoint \/ ReplayPage \/ ReplayRow \/ ReplayOrphan \/ ReplayDone
  BY <1>2, SafeReplay
<1>3. ASSUME NEW c \in Emitters, Emit(c) \/ AppendSpool(c) \/ AppendRefused(c)
      PROVE  SafeInv'
  BY <1>3, SafeAdmit, Roles
<1>4. ASSUME NEW c \in Callers, Gate(c) \/ GateRefused(c) \/ Register(c) \/ Return(c)
      PROVE  SafeInv'
  BY <1>4, SafeAdmit
<1>5. CASE (\E c \in Callers : Dispatch(c)) \/ (\E w \in Workers : Work(w))
  BY <1>5, SafeDeliver
<1>6. CASE \/ \E g \in Goroutines : OnCommit(g) \/ persistCheckpoint(g) \/ persistCheckpointFails(g)
           \/ \E s \in Sources : SourceCommit(s)
  BY <1>6, SafeCallbacks
<1>7. CASE Abandon \/ AbandonRows \/ AbandonWrite \/ AbandonGivesUp \/ AbandonForce \/ AbandonNext
  BY <1>7, SafeAbandon
<1>8. CASE UNCHANGED vars
  BY <1>8 DEF vars, SafeInv, PrefixSettled, CheckpointSettled, MarksSettled, DeadLettered,
       UnsettledKept, CountsTrue, HeldIdle, HeldOnce, UnacceptedIdle, ReplayFirst, ReplayAhead,
       CallsBehind, PersistedDurable, SeededFirst, Idle, storeVars, runVars, persistVars, scanVars, goVars, histVars
<1> QED BY <1>1, <1>2, <1>3, <1>4, <1>5, <1>6, <1>7, <1>8, Zenon DEF Next, Emitters

-----------------------------------------------------------------------------
\* The invariant of the commit path, types included.
THEOREM Invariant ==
  ASSUME EarlyInject = FALSE
  PROVE  Spec => [](TypeInv /\ SafeInv)
<1>1. Spec => []TypeInv
  BY TypeInit, TypeStep, PTL DEF Spec
<1>2. TypeInv /\ TypeInv' /\ SafeInv /\ [Next]_vars => SafeInv'
  BY SafeStep
<1> QED BY <1>1, <1>2, SafeInit, PTL DEF Spec

(***************************************************************************)
(* At-least-once delivery: whatever the interleaving of sweeps, flushes,   *)
(* retention, Abandon, crashes and replays, a row that was accepted and    *)
(* not settled is in the spool and beyond the durable checkpoint.          *)
(***************************************************************************)
THEOREM NothingLost ==
  ASSUME EarlyInject = FALSE
  PROVE  Spec => []NoLoss
<1>1. TypeInv /\ SafeInv => NoLoss
  <2> SUFFICES ASSUME TypeInv, SafeInv, NEW q \in 1..lastSeq, q \notin settled
               PROVE  q \in spool /\ q > checkpoint
    BY DEF NoLoss
  <2>1. q \in Seqs /\ q <= lastSeq /\ checkpoint \in 0..MaxSeq
    <3>1. lastSeq \in 0..MaxSeq /\ checkpoint \in 0..MaxSeq
      BY DEF TypeInv, TypeOK
    <3> QED BY <3>1, MaxSeqAssumption DEF Seqs
  <2> QED BY <2>1 DEF SafeInv, UnsettledKept, CheckpointSettled, Seqs
<1> QED BY <1>1, Invariant, PTL

\* A step of the commit path is a step of the durable log, or leaves it alone.
LEMMA LogStep ==
  ASSUME TypeInv, TypeInv', SafeInv, SafeInv', [Next]_vars
  PROVE  [Log!Next]_(Log!logVars)
<1>0. lastSeq \in 0..MaxSeq /\ checkpoint \in 0..MaxSeq /\ settled \subseteq Seqs
  BY DEF TypeInv, TypeOK
<1>1. CASE \E c \in Emitters : AppendSpool(c)
  <2>1. Log!Accept
    BY <1>1 DEF AppendSpool, histVars, Log!Accept
  <2> QED BY <2>1 DEF Log!Next
<1>2. CASE (\E c \in Callers : Dispatch(c)) \/ (\E w \in Workers : Work(w))
  <2>1. PICK g \in Goroutines, q \in Seqs, x \in Copies, k \in 0..MaxFan : Branch(g, q, x, k)
    <3>1. CASE \E c \in Callers : Dispatch(c)
      <4>1. PICK c \in Callers : Dispatch(c)
        BY <3>1
      <4>2. c \in Goroutines /\ at[c] \in Seqs /\ CopyOf(c) \in Copies
        BY <4>1, Roles DEF Dispatch, TypeInv, RowsHeld, CopyOf, Copies
      <4> QED BY <4>1, <4>2 DEF Dispatch
    <3>2. CASE \E w \in Workers : Work(w)
      BY <3>2, Roles DEF Work
    <3> QED BY <1>2, <3>1, <3>2
  <2>2. settled \subseteq settled' /\ settled' \subseteq settled \cup {q} /\ q <= lastSeq
    BY <2>1, SafeBranch
  <2>3. UNCHANGED <<lastSeq, spool, checkpoint>>
    BY <1>2 DEF Dispatch, Work, storeVars
  <2>4. q \in 1..lastSeq
    BY <1>0, <2>2 DEF Seqs
  <2>5. settled' = settled \/ settled' = settled \cup {q}
    BY <2>2
  <2> QED BY <2>3, <2>4, <2>5 DEF Log!Next, Log!Finish, Log!logVars
<1>3. CASE ReplayOrphan
  <2>1. Min(page) \in page /\ Min(page) \in Seqs
    BY <1>3, MinOfRows DEF ReplayOrphan, TypeInv, TypeOK
  <2>2. Min(page) \in 1..lastSeq
    BY <1>0, <2>1 DEF TypeInv, RowsAccepted, Seqs
  <2>3. settled' = settled \cup {Min(page)} /\ UNCHANGED <<lastSeq, spool, checkpoint>>
    BY <1>3 DEF ReplayOrphan, storeVars
  <2> QED BY <2>2, <2>3 DEF Log!Next, Log!Finish
<1>4. CASE AbandonWrite
  <2>1. Min(abandonPage) \in abandonPage /\ Min(abandonPage) \in Seqs
    BY <1>4, MinOfRows DEF AbandonWrite, TypeInv, TypeOK, AbandonHolds
  <2>2. Min(abandonPage) \in 1..lastSeq
    BY <1>0, <2>1 DEF TypeInv, RowsAccepted, Seqs
  <2>3. settled' = settled \cup {Min(abandonPage)} /\ UNCHANGED <<lastSeq, spool, checkpoint>>
    BY <1>4 DEF AbandonWrite, storeVars
  <2> QED BY <2>2, <2>3 DEF Log!Next, Log!Finish
<1>5. CASE \E g \in Goroutines : persistCheckpoint(g)
  <2>1. PICK g \in Goroutines : persistCheckpoint(g)
    BY <1>5
  <2>2. /\ checkpoint' >= checkpoint /\ CheckpointSettled'
        /\ spool' \subseteq spool /\ \A q \in spool \ spool' : q <= checkpoint'
    BY <2>1, FlushBehind
  <2>3. UNCHANGED <<lastSeq, settled>>
    BY <2>1 DEF persistCheckpoint, histVars
  <2>4. 1..checkpoint' \subseteq settled
    <3>1. checkpoint' \in 0..MaxSeq
      BY DEF TypeInv, TypeOK
    <3>2. 1..checkpoint' \subseteq Seqs /\ \A q \in 1..checkpoint' : q <= checkpoint'
      BY <3>1, MaxSeqAssumption DEF Seqs
    <3> QED BY <2>2, <2>3, <3>2 DEF CheckpointSettled
  <2>5. Log!Advance
    BY <2>2, <2>3, <2>4 DEF Log!Advance
  <2> QED BY <2>5 DEF Log!Next
<1>6. CASE UNCHANGED <<lastSeq, spool, settled, checkpoint>>
  BY <1>6 DEF Log!logVars
<1>7. CASE \/ Start \/ resumeCheckpoint \/ ReplayPage \/ ReplayRow \/ ReplayDone
           \/ \E c \in Emitters : Emit(c) \/ AppendRefused(c)
           \/ \E c \in Callers : Gate(c) \/ GateRefused(c) \/ Register(c) \/ Return(c)
           \/ \E g \in Goroutines : OnCommit(g) \/ persistCheckpointFails(g)
           \/ \E s \in Sources : SourceCommit(s)
           \/ Abandon \/ AbandonRows \/ AbandonGivesUp \/ AbandonForce \/ AbandonNext
           \/ Cancel \/ Shutdown \/ Crash
  <2>1. UNCHANGED <<lastSeq, spool, settled, checkpoint>>
    BY <1>7 DEF Start, resumeCheckpoint, ReplayPage, ReplayRow, ReplayDone, Emit, AppendRefused,
       Gate, GateRefused, Register, Return, OnCommit, persistCheckpointFails, SourceCommit,
       Abandon, AbandonRows, AbandonGivesUp, AbandonForce, AbandonNext, Cancel, Shutdown, Crash,
       storeVars, histVars
  <2> QED BY <1>6, <2>1
<1>8. CASE UNCHANGED vars
  BY <1>6, <1>8 DEF vars, storeVars, histVars
<1> QED BY <1>1, <1>2, <1>3, <1>4, <1>5, <1>7, <1>8, Zenon DEF Next, Emitters

(***************************************************************************)
(* The commit path implements the durable log: rows are accepted in order, *)
(* the checkpoint moves forward over settled rows only, and only rows      *)
(* behind it are ever dropped.                                             *)
(***************************************************************************)
THEOREM Implementation ==
  ASSUME EarlyInject = FALSE
  PROVE  Spec => ImplementsDurableLog
<1>1. Init => Log!Init
  BY DEF Init, Log!Init
<1>2. TypeInv /\ SafeInv /\ TypeInv' /\ SafeInv' /\ [Next]_vars => [Log!Next]_(Log!logVars)
  BY LogStep
<1> QED BY <1>1, <1>2, Invariant, PTL DEF Spec, ImplementsDurableLog, Log!Spec

=============================================================================
