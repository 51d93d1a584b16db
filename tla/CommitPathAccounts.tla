------------------------- MODULE CommitPathAccounts -------------------------
(***************************************************************************)
(* The two ledgers of CommitPath, admission slots and execution branches,  *)
(* are exact, crash replay forgets nothing and a quiesced pipeline has     *)
(* nothing left, when no injection arrives before crash replay is done     *)
(* (EarlyInject = FALSE).  The durable state of a source never covers an   *)
(* item that could still be lost, and never moves back.  Proved for every  *)
(* number of sources, injectors, workers, rows, runs and branches.         *)
(***************************************************************************)
EXTENDS CommitPathSafety, FiniteSetTheorems

-----------------------------------------------------------------------------
(* The ledgers.                                                            *)

\* The branches the counts n stand for, one pair for each.
Units(n) == {u \in Seqs \X (Nat \ {0}) : u[2] <= n[u[1]]}

(***************************************************************************)
(* The bookkeeping of a tracker between two critical sections: an absent   *)
(* key reads 0, no key and no mark is beyond the highest arrival, the      *)
(* running sum is the number of branches, and the prefix has been swept as *)
(* far as it goes.                                                         *)
(***************************************************************************)
Booked(t) ==
  /\ \A q \in Seqs \ t.open : t.n[q] = 0
  /\ \A q \in t.open \cup t.removed : q <= t.arrivedMax
  /\ IsFiniteSet(Units(t.n)) /\ t.openBranches = Cardinality(Units(t.n))
Swept(t) == StopsAt(t, t.committedPtr)
TrackerSound(t) == Booked(t) /\ Swept(t)
-----------------------------------------------------------------------------
\* Changing one count changes the number of branches by that much.
LEMMA UnitsChange ==
  ASSUME NEW n \in [Seqs -> Int], IsFiniteSet(Units(n)), NEW q \in Seqs, NEW v \in Int
  PROVE  LET m == [n EXCEPT ![q] = v] IN
         /\ IsFiniteSet(Units(m))
         /\ Cardinality(Units(m)) = Cardinality(Units(n)) + posBranches(v) - posBranches(n[q])
<1> DEFINE Of(k) == {q} \X (1..k)
           m == [n EXCEPT ![q] = v]
           rest == Units(n) \ Of(n[q])
<1>1. \A k \in Int : IsFiniteSet(Of(k)) /\ Cardinality(Of(k)) = posBranches(k)
  <2> TAKE k \in Int
  <2>1. IsFiniteSet({q}) /\ Cardinality({q}) = 1
    BY FS_Singleton
  <2>2. IsFiniteSet(1..k) /\ Cardinality(1..k) = IF 1 > k THEN 0 ELSE k - 1 + 1
    BY FS_Interval
  <2>3. IsFiniteSet(Of(k)) /\ Cardinality(Of(k)) = 1 * Cardinality(1..k)
    BY <2>1, <2>2, FS_Product
  <2> QED BY <2>2, <2>3 DEF posBranches
<1>2. n[q] \in Int
  OBVIOUS
<1>3. Of(n[q]) \subseteq Units(n)
  BY <1>2 DEF Units
<1>4. IsFiniteSet(rest) /\ Cardinality(rest) = Cardinality(Units(n)) - posBranches(n[q])
  <2>1. Units(n) \cap Of(n[q]) = Of(n[q])
    BY <1>3
  <2>2. IsFiniteSet(rest) /\ Cardinality(rest) = Cardinality(Units(n)) - Cardinality(Units(n) \cap Of(n[q]))
    BY FS_Difference
  <2> QED BY <1>1, <1>2, <2>1, <2>2
<1>5. rest = {u \in Units(n) : u[1] # q}
  BY <1>2 DEF Units
<1>6. Units(m) = rest \cup Of(v) /\ rest \cap Of(v) = {}
  <2>1. m[q] = v /\ \A r \in Seqs \ {q} : m[r] = n[r]
    OBVIOUS
  <2> HIDE DEF m
  <2>2. \A r \in Seqs, i \in Nat \ {0} :
          /\ <<r, i>> \in Units(m) <=> i <= m[r]
          /\ <<r, i>> \in rest <=> i <= n[r] /\ r # q
          /\ <<r, i>> \in Of(v) <=> r = q /\ i <= v
    BY <1>5 DEF Units
  <2>3. \A r \in Seqs, i \in Nat \ {0} : <<r, i>> \in Units(m) <=> <<r, i>> \in rest \cup Of(v)
    BY <2>1, <2>2
  <2>4. rest \subseteq Seqs \X (Nat \ {0}) /\ Of(v) \subseteq Seqs \X (Nat \ {0})
        /\ Units(m) \subseteq Seqs \X (Nat \ {0})
    BY DEF Units
  <2>5. \A u \in Seqs \X (Nat \ {0}) : u = <<u[1], u[2]>> /\ u[1] \in Seqs /\ u[2] \in Nat \ {0}
    OBVIOUS
  <2>6. rest \cap Of(v) = {}
    BY <1>5
  <2> HIDE DEF rest, Of
  <2>7. \A u \in Seqs \X (Nat \ {0}) : u \in Units(m) <=> u \in rest \cup Of(v)
    <3> TAKE u \in Seqs \X (Nat \ {0})
    <3>1. PICK r \in Seqs, i \in Nat \ {0} : u = <<r, i>>
      BY <2>5
    <3> QED BY <2>3, <3>1
  <2> QED BY <2>4, <2>6, <2>7
<1>7. IsFiniteSet(Of(v)) /\ Cardinality(Of(v)) = posBranches(v)
  BY <1>1
<1>8. Cardinality({}) = 0 /\ Cardinality(Units(n)) \in Int
      /\ posBranches(n[q]) \in Int /\ posBranches(v) \in Int
  BY <1>2, FS_EmptySet, FS_CardinalityType DEF posBranches
<1> HIDE DEF rest, Of
<1>9. /\ IsFiniteSet(rest \cup Of(v))
      /\ Cardinality(rest \cup Of(v))
           = Cardinality(rest) + Cardinality(Of(v)) - Cardinality(rest \cap Of(v))
  BY <1>4, <1>7, FS_Union
<1> HIDE DEF m
<1>10. /\ IsFiniteSet(Units(m))
       /\ Cardinality(Units(m)) = Cardinality(Units(n)) + posBranches(v) - posBranches(n[q])
  <2>1. /\ IsFiniteSet(Units(m))
        /\ Cardinality(Units(m)) = Cardinality(rest) + Cardinality(Of(v)) - Cardinality({})
    BY <1>6, <1>9, Zenon
  <2> QED BY <1>4, <1>7, <1>8, <2>1
<1> QED BY <1>10 DEF m

\* Counts that agree wherever one of them is positive stand for the same branches.
LEMMA UnitsSame ==
  ASSUME NEW n \in [Seqs -> Int], NEW m \in [Seqs -> Int],
         \A q \in Seqs : m[q] = n[q] \/ (m[q] <= 0 /\ n[q] <= 0)
  PROVE  Units(m) = Units(n)
<1>1. \A u \in Seqs \X (Nat \ {0}) : u[2] <= n[u[1]] <=> u[2] <= m[u[1]]
  <2> TAKE u \in Seqs \X (Nat \ {0})
  <2>1. u[1] \in Seqs /\ u[2] \in Nat \ {0}
    OBVIOUS
  <2>2. n[u[1]] \in Int /\ m[u[1]] \in Int
    BY <2>1
  <2> QED BY <2>1, <2>2
<1> QED BY <1>1 DEF Units

\* What a step of advanceLocked leaves, field by field.
LEMMA SweepKeeps ==
  ASSUME NEW t \in Tracker, NEW through
  PROVE  LET u == sweepSrcRefsLocked(t, through) IN
         /\ u.open = t.open /\ u.n = t.n /\ u.removed = t.removed
         /\ u.committedPtr = t.committedPtr /\ u.arrivedMax = t.arrivedMax
         /\ u.openBranches = t.openBranches
BY DEF sweepSrcRefsLocked, Tracker

\* advanceLocked on a booked tracker: it stays booked, is swept, and forgets
\* what lies below the new cursor only.
LEMMA AdvanceSound ==
  ASSUME NEW t \in Tracker, NEW b \in [Sources -> Nat], Bounded(t, b), Booked(t),
         NEW p \in Ptrs, StopsAt(t, p)
  PROVE  LET u == advanceLocked(t, p) IN
         /\ TrackerSound(u) /\ u.committedPtr = p /\ u.arrivedMax = t.arrivedMax
         /\ u.open = t.open \ (t.committedPtr..(p - 1))
         /\ u.removed = t.removed \ (t.committedPtr..(p - 1))
<1> DEFINE crossed == t.committedPtr..(p - 1)
           newN == [q \in Seqs |-> IF q \in crossed THEN 0 ELSE t.n[q]]
           t1 == [t EXCEPT !.open = @ \ crossed, !.removed = @ \ crossed,
                           !.n = newN, !.committedPtr = p]
           u == advanceLocked(t, p)
<1>0. /\ t.open \in SUBSET Seqs /\ t.n \in [Seqs -> Int] /\ t.removed \in SUBSET Seqs
      /\ t.committedPtr \in Ptrs /\ t.arrivedMax \in 0..MaxSeq
  BY Fields
<1>1. newN \in [Seqs -> Int]
  BY <1>0
<1>2. t1 \in Tracker
  <2> HIDE DEF newN
  <2> QED BY <1>1 DEF Tracker
<1>3. /\ t1.open = t.open \ crossed /\ t1.n = newN /\ t1.removed = t.removed \ crossed
      /\ t1.committedPtr = p /\ t1.arrivedMax = t.arrivedMax /\ t1.openBranches = t.openBranches
  <2> HIDE DEF newN
  <2> QED BY DEF Tracker
<1>4. \A q \in crossed : q \in Seqs /\ t.n[q] <= 0
  <2> TAKE q \in crossed
  <2>1. q \in Seqs
    BY <1>0, MaxSeqAssumption DEF Ptrs, Seqs
  <2>2. Passable(t, q)
    BY Zenon DEF StopsAt
  <2> QED BY <1>0, <2>1, <2>2 DEF Passable, Booked
<1>5. Units(newN) = Units(t.n)
  <2>1. \A q \in Seqs : newN[q] = t.n[q] \/ (newN[q] <= 0 /\ t.n[q] <= 0)
    BY <1>4
  <2> HIDE DEF newN
  <2> QED BY <1>0, <1>1, <2>1, UnitsSame
<1>6. p \notin crossed /\ p <= t.arrivedMax + 1 /\ (p <= t.arrivedMax => ~ Passable(t, p))
  BY <1>0 DEF StopsAt, Ptrs
<1>7. \A w : /\ w.open = t.open \ crossed /\ w.n = newN /\ w.removed = t.removed \ crossed
             /\ w.committedPtr = p /\ w.arrivedMax = t.arrivedMax
             /\ w.openBranches = t.openBranches
             => TrackerSound(w)
  <2> SUFFICES ASSUME NEW w, w.open = t.open \ crossed, w.n = newN,
                      w.removed = t.removed \ crossed, w.committedPtr = p,
                      w.arrivedMax = t.arrivedMax, w.openBranches = t.openBranches
               PROVE  TrackerSound(w)
    OBVIOUS
  <2>1. \A q \in Seqs \ w.open : w.n[q] = 0
    BY <1>0 DEF Booked
  <2>2. \A q \in w.open \cup w.removed : q <= w.arrivedMax
    BY DEF Booked
  <2>3. IsFiniteSet(Units(w.n)) /\ w.openBranches = Cardinality(Units(w.n))
    BY <1>5, Zenon DEF Booked
  <2>4. Swept(w)
    <3>1. p <= t.arrivedMax => ~ Passable(w, p)
      <4>1. p <= t.arrivedMax => p \in Seqs
        BY <1>0, MaxSeqAssumption DEF Ptrs, Seqs
      <4> QED BY <1>6, <4>1 DEF Passable
    <3> QED BY <1>0, <1>6, <3>1 DEF Swept, StopsAt, Ptrs
  <2> HIDE DEF newN, crossed
  <2> QED BY <2>1, <2>2, <2>3, <2>4 DEF TrackerSound, Booked
<1>8. CASE crossed = {}
  <2>1. p = t.committedPtr
    BY <1>0, <1>8 DEF StopsAt, Ptrs
  <2>2. u = t
    BY <1>8 DEF advanceLocked
  <2>3. t.n = newN
    BY <1>0, <1>8
  <2> HIDE DEF newN, u
  <2> QED BY <1>7, <1>8, <2>1, <2>2, <2>3 DEF u
<1>9. CASE crossed # {}
  <2>1. u = sweepSrcRefsLocked(t1, p - 1)
    BY <1>9, Zenon DEF advanceLocked
  <2> HIDE DEF t1, newN, u
  <2>2. /\ u.open = t1.open /\ u.n = t1.n /\ u.removed = t1.removed
        /\ u.committedPtr = t1.committedPtr /\ u.arrivedMax = t1.arrivedMax
        /\ u.openBranches = t1.openBranches
    BY <1>2, <2>1, SweepKeeps
  <2> QED BY <1>3, <1>7, <2>2 DEF u
<1> QED BY <1>8, <1>9
\* The tracker of a new engine is sound, and so it is once it has resumed.
LEMMA NewSound ==
  /\ TrackerSound(newCommitTracker)
  /\ \A cp \in 0..MaxSeq :
       LET u == resumeFrom(newCommitTracker, cp) IN
       TrackerSound(u) /\ u.arrivedMax = cp /\ u.committedPtr = cp + 1
<1> DEFINE n0 == [q \in Seqs |-> 0]
           s0 == [s \in Sources |-> [arrivedAt |-> {}, committedAt |-> {}, front |-> 0]]
           T(p) == [open |-> {}, n |-> n0, openBranches |-> 0, arrivedMax |-> p - 1,
                    committedPtr |-> p, removed |-> {}, srcRefs |-> {}, srcs |-> s0]
<1>1. Units(n0) = {}
  BY DEF Units
<1>2. IsFiniteSet({}) /\ Cardinality({}) = 0
  BY FS_EmptySet
<1>3. \A p \in Ptrs : TrackerSound(T(p))
  <2> TAKE p \in Ptrs
  <2>1. \A q \in Seqs : n0[q] = 0
    OBVIOUS
  <2>2. IsFiniteSet(Units(n0)) /\ 0 = Cardinality(Units(n0))
    BY <1>1, <1>2, Zenon
  <2> HIDE DEF n0, s0
  <2>3. Booked(T(p))
    BY <2>1, <2>2 DEF Booked
  <2>4. Swept(T(p))
    BY DEF Swept, StopsAt, Ptrs
  <2> QED BY <2>3, <2>4 DEF TrackerSound
<1>4. newCommitTracker = T(1)
  BY DEF newCommitTracker
<1>5. \A cp \in 0..MaxSeq : resumeFrom(newCommitTracker, cp) = T(cp + 1)
  <2> TAKE cp \in 0..MaxSeq
  <2> HIDE DEF n0, s0
  <2> DEFINE t == newCommitTracker
             p == IF cp + 1 > t.committedPtr THEN cp + 1 ELSE t.committedPtr
             m == IF p - 1 > t.arrivedMax THEN p - 1 ELSE t.arrivedMax
  <2>1. t.committedPtr = 1 /\ t.arrivedMax = 0
    BY <1>4
  <2>2. p = cp + 1 /\ m = cp /\ cp + 1 - 1 = cp
    <3> HIDE DEF t
    <3> QED BY <2>1, MaxSeqAssumption
  <2>3. resumeFrom(t, cp) = [t EXCEPT !.committedPtr = p, !.arrivedMax = m]
    BY DEF resumeFrom
  <2>4. t = [open |-> {}, n |-> n0, openBranches |-> 0, arrivedMax |-> 0,
             committedPtr |-> 1, removed |-> {}, srcRefs |-> {}, srcs |-> s0]
    BY DEF newCommitTracker, n0, s0
  <2>5. T(cp + 1) = [open |-> {}, n |-> n0, openBranches |-> 0, arrivedMax |-> cp,
                     committedPtr |-> cp + 1, removed |-> {}, srcRefs |-> {}, srcs |-> s0]
    BY <2>2
  <2> HIDE DEF p, m, t, T
  <2>6. resumeFrom(t, cp) = T(cp + 1)
    BY <2>2, <2>3, <2>4, <2>5
  <2> QED BY <2>6 DEF t
<1>6. 1 \in Ptrs /\ \A cp \in 0..MaxSeq : cp + 1 \in Ptrs
  BY MaxSeqAssumption DEF Ptrs
<1>7. \A p \in Ptrs : T(p).arrivedMax = p - 1 /\ T(p).committedPtr = p
  OBVIOUS
<1> HIDE DEF T
<1> QED BY <1>3, <1>4, <1>5, <1>6, <1>7

\* arrived opens one branch, and the prefix stays where it stopped.
LEMMA ArrivedSound ==
  ASSUME NEW t \in Tracker, NEW q \in Seqs, NEW node, NEW srcSeq, TrackerSound(t)
  PROVE  LET u == arrived(t, q, node, srcSeq) IN
         /\ TrackerSound(u)
         /\ u.arrivedMax = IF q > t.arrivedMax THEN q ELSE t.arrivedMax
<1> DEFINE u == arrived(t, q, node, srcSeq)
           newN == [t.n EXCEPT ![q] = 1]
<1>0. /\ t.open \in SUBSET Seqs /\ t.n \in [Seqs -> Int] /\ t.removed \in SUBSET Seqs
      /\ t.committedPtr \in Ptrs /\ t.arrivedMax \in 0..MaxSeq /\ t.openBranches \in Int
  BY Fields
<1>1. /\ u.open = t.open \cup {q} /\ u.n = newN /\ u.removed = t.removed
      /\ u.committedPtr = t.committedPtr
      /\ u.arrivedMax = IF q > t.arrivedMax THEN q ELSE t.arrivedMax
      /\ u.openBranches = t.openBranches + 1 - posBranches(t.n[q])
  BY DEF arrived, Tracker
<1> HIDE DEF u
<1>2. /\ IsFiniteSet(Units(newN))
      /\ Cardinality(Units(newN)) = Cardinality(Units(t.n)) + 1 - posBranches(t.n[q])
  <2>1. IsFiniteSet(Units(t.n)) /\ 1 \in Int /\ posBranches(1) = 1
    BY DEF TrackerSound, Booked, posBranches
  <2>2. /\ IsFiniteSet(Units(newN))
        /\ Cardinality(Units(newN)) = Cardinality(Units(t.n)) + posBranches(1) - posBranches(t.n[q])
    BY <1>0, <2>1, UnitsChange
  <2> QED BY <2>1, <2>2
<1>3. \A r \in Seqs \ u.open : u.n[r] = 0
  BY <1>0, <1>1 DEF TrackerSound, Booked
<1>4. \A r \in u.open \cup u.removed : r <= u.arrivedMax
  BY <1>0, <1>1 DEF TrackerSound, Booked, Seqs
<1>5. Swept(u)
  <2>1. u.committedPtr <= u.arrivedMax + 1
    BY <1>0, <1>1 DEF TrackerSound, Swept, StopsAt, Seqs, Ptrs
  <2>2. u.committedPtr <= u.arrivedMax => ~ Passable(u, u.committedPtr)
    <3> DEFINE c == t.committedPtr
    <3>1. CASE c = q
      BY <1>0, <1>1, <3>1 DEF Passable
    <3>2. CASE c # q /\ c <= t.arrivedMax
      <4>1. c \in Seqs
        BY <1>0, <3>2, MaxSeqAssumption DEF Ptrs, Seqs
      <4>2. ~ Passable(t, c)
        BY <3>2 DEF TrackerSound, Swept, StopsAt
      <4>3. (c \in u.open <=> c \in t.open) /\ u.n[c] = t.n[c]
        BY <1>0, <1>1, <3>2, <4>1
      <4> HIDE DEF c
      <4> QED BY <1>1, <4>2, <4>3 DEF Passable, c
    <3>3. CASE c # q /\ ~ (c <= t.arrivedMax)
      BY <1>0, <1>1, <3>3 DEF Passable, TrackerSound, Booked
    <3> QED BY <3>1, <3>2, <3>3
  <2> QED BY <1>0, <1>1, <2>1, <2>2 DEF Swept, StopsAt, Ptrs
<1>6. u.openBranches = Cardinality(Units(u.n)) /\ IsFiniteSet(Units(u.n))
  BY <1>1, <1>2 DEF TrackerSound, Booked
<1> QED BY <1>1, <1>3, <1>4, <1>5, <1>6 DEF TrackerSound, Booked, u
\* The commits a call carries are the ones it was made with.
LEMMA MkCallCommits ==
  ASSUME NEW commits, NEW advanced, NEW t
  PROVE  MkCall(commits, advanced, t).commits = commits
BY DEF MkCall, NoCall

(***************************************************************************)
(* add on a sound tracker: the tracker stays sound, every row that leaves  *)
(* the map is among the commits the call owes, and a row that had arrived  *)
(* is still there or below the cursor.                                     *)
(***************************************************************************)
LEMMA AddSound ==
  ASSUME NEW t \in Tracker, NEW b \in [Sources -> Nat], Bounded(t, b), TrackerSound(t),
         NEW q \in Seqs, NEW delta \in Int, NEW p \in Ptrs, addStopsAt(t, q, delta, p)
  PROVE  LET u == add(t, q, delta, p) IN
         /\ TrackerSound(u) /\ u.arrivedMax = t.arrivedMax
         /\ t.open \ u.open \subseteq addCall(t, q, delta, p).commits
         /\ \A r \in t.open \cup t.removed :
              r < u.committedPtr \/ r \in u.open \cup u.removed
<1> DEFINE u == add(t, q, delta, p)
           t1 == Counted(t, q, delta)
           t2 == advanceLocked(t1, p)
           newN == [t.n EXCEPT ![q] = t.n[q] + delta]
           newSum == t.openBranches + posBranches(t.n[q] + delta) - posBranches(t.n[q])
<1>0. /\ t.open \in SUBSET Seqs /\ t.n \in [Seqs -> Int] /\ t.removed \in SUBSET Seqs
      /\ t.committedPtr \in Ptrs /\ t.arrivedMax \in 0..MaxSeq /\ t.openBranches \in Int
  BY Fields
<1>1. CASE q \notin t.open
  BY <1>1 DEF add
<1>2. CASE q \in t.open
  <2>1. /\ newN \in [Seqs -> Int] /\ newSum \in Int /\ t.n[q] + delta \in Int
        /\ \A r \in Seqs \ {q} : newN[r] = t.n[r]
    BY <1>0 DEF posBranches
  <2>2. t1 = [t EXCEPT !.n = newN, !.openBranches = newSum]
    BY DEF Counted
  <2>3. IsFiniteSet(Units(newN)) /\ newSum = Cardinality(Units(newN))
    <3>1. IsFiniteSet(Units(t.n)) /\ t.openBranches = Cardinality(Units(t.n))
      BY DEF TrackerSound, Booked
    <3> QED BY <1>0, <2>1, <3>1, UnitsChange
  <2> HIDE DEF newN, newSum, t1
  <2>4. /\ t1 \in Tracker /\ Bounded(t1, b)
        /\ t1.open = t.open /\ t1.n = newN /\ t1.removed = t.removed
        /\ t1.committedPtr = t.committedPtr /\ t1.arrivedMax = t.arrivedMax
        /\ t1.openBranches = newSum
    BY <2>1, <2>2 DEF Tracker, Bounded
  <2>5. Booked(t1)
    BY <1>0, <1>2, <2>1, <2>3, <2>4 DEF TrackerSound, Booked
  <2>6. StopsAt(t1, p)
    BY <1>2 DEF addStopsAt, t1
  <2>7. /\ TrackerSound(t2) /\ t2.committedPtr = p /\ t2.arrivedMax = t1.arrivedMax
        /\ t2.open = t1.open \ (t1.committedPtr..(p - 1))
        /\ t2.removed = t1.removed \ (t1.committedPtr..(p - 1))
    BY <2>4, <2>5, <2>6, AdvanceSound
  <2>8. t2 \in Tracker /\ t1.committedPtr <= p
    BY <2>4, <2>6, AdvanceType
  <2>9. /\ t.open \ t2.open \subseteq JustCommit(t1, p)
        /\ \A r \in t.open \cup t.removed : r < p \/ r \in t2.open \cup t2.removed
    BY <1>0, <2>4, <2>7 DEF JustCommit, Ptrs, Seqs
  <2>10. CASE ~ Straggler(t1, q)
    <3>1. u = t2
      BY <1>2, <2>10 DEF add, t1
    <3>2. addCall(t, q, delta, p) = MkCall(JustCommit(t1, p), p > t.committedPtr, u)
      BY <1>2, <2>10, Zenon DEF addCall, t1
    <3>3. addCall(t, q, delta, p).commits = JustCommit(t1, p)
      BY <3>2, MkCallCommits, Zenon
    <3> HIDE DEF t2, u
    <3> QED BY <2>4, <2>7, <2>9, <3>1, <3>3 DEF u
  <2>11. CASE Straggler(t1, q)
    <3> DEFINE n3 == [t2.n EXCEPT ![q] = 0]
               t3 == [t2 EXCEPT !.open = @ \ {q}, !.n = n3]
    <3>1. u = sweepSrcRefsLocked(t3, p - 1)
      BY <1>2, <2>11 DEF add, t1
    <3> DEFINE swept == p > t.committedPtr \/ \E r \in t.srcRefs : r.seq < p
    <3>2. addCall(t, q, delta, p) = MkCall(JustCommit(t1, p) \cup {q}, swept, u)
      BY <1>2, <2>11, Zenon DEF addCall, t1
    <3> HIDE DEF swept
    <3>3. addCall(t, q, delta, p).commits = JustCommit(t1, p) \cup {q}
      BY <3>2, MkCallCommits, Zenon
    <3> HIDE DEF t2, u
    <3>4. /\ t2.open \in SUBSET Seqs /\ t2.n \in [Seqs -> Int] /\ t2.removed \in SUBSET Seqs
          /\ n3 \in [Seqs -> Int]
      BY <2>8, Fields
    <3>5. t3 \in Tracker
      <4> HIDE DEF n3
      <4> QED BY <2>8, <3>4 DEF Tracker
    <3>6. /\ t3.open = t2.open \ {q} /\ t3.n = n3 /\ t3.removed = t2.removed
          /\ t3.committedPtr = p /\ t3.arrivedMax = t2.arrivedMax
          /\ t3.openBranches = t2.openBranches
      <4> HIDE DEF n3
      <4> QED BY <2>7, <2>8 DEF Tracker
    <3> HIDE DEF t3
    <3>7. /\ u.open = t3.open /\ u.n = t3.n /\ u.removed = t3.removed
          /\ u.committedPtr = t3.committedPtr /\ u.arrivedMax = t3.arrivedMax
          /\ u.openBranches = t3.openBranches
      BY <3>1, <3>5, SweepKeeps
    <3>8. q < t.committedPtr /\ t1.n[q] <= 0
      BY <2>4, <2>11 DEF Straggler
    <3>9. q \in t2.open /\ q < p
      BY <1>0, <1>2, <2>4, <2>7, <2>8, <3>8 DEF Ptrs, Seqs
    <3>10. t2.n[q] = t1.n[q]
      BY <2>4, <2>6, <3>9, AdvanceType DEF t2
    <3>11. Units(n3) = Units(t2.n)
      <4>1. \A r \in Seqs : n3[r] = t2.n[r] \/ (n3[r] <= 0 /\ t2.n[r] <= 0)
        BY <3>4, <3>8, <3>10
      <4> HIDE DEF n3
      <4> QED BY <3>4, <4>1, UnitsSame
    <3>12. \A r \in Seqs \ u.open : u.n[r] = 0
      BY <2>7, <3>4, <3>6, <3>7 DEF TrackerSound, Booked
    <3>13. \A r \in u.open \cup u.removed : r <= u.arrivedMax
      BY <2>7, <3>6, <3>7 DEF TrackerSound, Booked
    <3>14. IsFiniteSet(Units(u.n)) /\ u.openBranches = Cardinality(Units(u.n))
      <4>1. u.n = n3 /\ u.openBranches = t2.openBranches
        BY <3>6, <3>7
      <4> HIDE DEF n3
      <4>2. IsFiniteSet(Units(t2.n)) /\ t2.openBranches = Cardinality(Units(t2.n))
        BY <2>7 DEF TrackerSound, Booked
      <4> QED BY <3>11, <4>1, <4>2, Zenon
    <3>15. Swept(u)
      <4>1. p # q
        BY <3>9 DEF Ptrs, Seqs
      <4>2. p \in t2.open => p \in Seqs /\ n3[p] = t2.n[p]
        BY <3>4, <4>1
      <4> HIDE DEF n3
      <4>3. u.committedPtr = p /\ u.arrivedMax = t2.arrivedMax /\ StopsAt(t2, p)
        BY <2>7, <3>6, <3>7 DEF TrackerSound, Swept
      <4>4. Passable(u, p) <=> Passable(t2, p)
        BY <3>6, <3>7, <4>1, <4>2 DEF Passable
      <4>5. p <= u.arrivedMax + 1 /\ (p <= u.arrivedMax => ~ Passable(u, p))
        BY <4>3, <4>4 DEF StopsAt
      <4>6. p <= p /\ p..(p - 1) = {}
        BY DEF Ptrs
      <4> QED BY <4>3, <4>5, <4>6 DEF Swept, StopsAt
    <3> HIDE DEF n3
    <3>16. /\ TrackerSound(u) /\ u.arrivedMax = t.arrivedMax
      BY <2>4, <2>7, <3>6, <3>7, <3>12, <3>13, <3>14, <3>15 DEF TrackerSound, Booked
    <3>17. \A r \in t.open \cup t.removed : r < u.committedPtr \/ r \in u.open \cup u.removed
      BY <2>9, <3>6, <3>7, <3>9
    <3>18. t.open \ u.open \subseteq addCall(t, q, delta, p).commits
      BY <2>9, <3>3, <3>6, <3>7
    <3> QED BY <3>16, <3>17, <3>18 DEF u
  <2> QED BY <2>10, <2>11
<1> QED BY <1>1, <1>2

(***************************************************************************)
(* forceTerminal on a sound tracker: it stays sound, and the rows that     *)
(* leave the map are q and the drained ones the sweep then crosses, which  *)
(* the call owes a commit.                                                 *)
(***************************************************************************)
LEMMA ForceSound ==
  ASSUME NEW t \in Tracker, NEW b \in [Sources -> Nat], Bounded(t, b), TrackerSound(t),
         NEW q \in Seqs, NEW p \in Ptrs, forceStopsAt(t, q, p)
  PROVE  LET u == forceTerminal(t, q, p) IN
         /\ TrackerSound(u) /\ u.arrivedMax = t.arrivedMax
         /\ \A r \in t.open \ u.open :
              r = q \/ (r \in forceTerminalCall(t, q, p).commits /\ t.n[r] <= 0)
         /\ \A r \in t.open \cup t.removed :
              r < u.committedPtr \/ r \in u.open \cup u.removed
<1> DEFINE u == forceTerminal(t, q, p)
           t1 == Dropped(t, q)
           newN == [t.n EXCEPT ![q] = 0]
           newSum == t.openBranches - posBranches(t.n[q])
           newOpen == t.open \ {q}
           newRemoved == t.removed \cup {q}
<1>0. /\ t.open \in SUBSET Seqs /\ t.n \in [Seqs -> Int] /\ t.removed \in SUBSET Seqs
      /\ t.committedPtr \in Ptrs /\ t.arrivedMax \in 0..MaxSeq /\ t.openBranches \in Int
  BY Fields
<1>1. CASE q \notin t.open
  BY <1>1 DEF forceTerminal
<1>2. CASE q \in t.open
  <2>1. /\ newN \in [Seqs -> Int] /\ newSum \in Int /\ newN[q] = 0
        /\ \A r \in Seqs \ {q} : newN[r] = t.n[r]
    BY <1>0 DEF posBranches
  <2>2. t1 = [t EXCEPT !.openBranches = newSum, !.open = newOpen, !.n = newN,
                       !.removed = newRemoved]
    BY DEF Dropped
  <2>3. IsFiniteSet(Units(newN)) /\ newSum = Cardinality(Units(newN))
    <3>1. IsFiniteSet(Units(t.n)) /\ t.openBranches = Cardinality(Units(t.n))
      BY DEF TrackerSound, Booked
    <3>2. 0 \in Int /\ posBranches(0) = 0
      BY DEF posBranches
    <3>3. /\ IsFiniteSet(Units(newN))
          /\ Cardinality(Units(newN)) = Cardinality(Units(t.n)) + posBranches(0) - posBranches(t.n[q])
      BY <1>0, <3>1, <3>2, UnitsChange
    <3> QED BY <1>0, <3>1, <3>2, <3>3 DEF posBranches
  <2>4. newOpen \in SUBSET Seqs /\ newRemoved \in SUBSET Seqs
    BY <1>0
  <2> HIDE DEF newN, newSum, t1, newOpen, newRemoved
  <2>5. /\ t1 \in Tracker /\ Bounded(t1, b)
        /\ t1.open = newOpen /\ t1.n = newN /\ t1.removed = newRemoved
        /\ t1.committedPtr = t.committedPtr /\ t1.arrivedMax = t.arrivedMax
        /\ t1.openBranches = newSum
    BY <2>1, <2>2, <2>4 DEF Tracker, Bounded
  <2>6. Booked(t1)
    BY <1>0, <1>2, <2>1, <2>3, <2>5 DEF TrackerSound, Booked, newOpen, newRemoved
  <2>7. StopsAt(t1, p)
    BY <1>2 DEF forceStopsAt, t1
  <2>8. u = advanceLocked(t1, p)
    BY <1>2 DEF forceTerminal, t1
  <2> HIDE DEF u
  <2>9. /\ TrackerSound(u) /\ u.committedPtr = p /\ u.arrivedMax = t1.arrivedMax
        /\ u.open = t1.open \ (t1.committedPtr..(p - 1))
        /\ u.removed = t1.removed \ (t1.committedPtr..(p - 1))
    BY <2>5, <2>6, <2>7, <2>8, AdvanceSound
  <2>10. forceTerminalCall(t, q, p) = MkCall(JustCommit(t1, p), p > t.committedPtr, u)
    BY <1>2, Zenon DEF forceTerminalCall, t1, u
  <2>11. forceTerminalCall(t, q, p).commits = JustCommit(t1, p)
    BY <2>10, MkCallCommits, Zenon
  <2>12. \A r \in t.open \ u.open :
           r = q \/ (r \in JustCommit(t1, p) /\ t.n[r] <= 0)
    <3> SUFFICES ASSUME NEW r \in t.open \ u.open, r # q
                 PROVE  r \in JustCommit(t1, p) /\ t.n[r] <= 0
      OBVIOUS
    <3>1. r \in t1.open /\ r \in t1.committedPtr..(p - 1) /\ r \in Seqs
      BY <1>0, <2>5, <2>9 DEF newOpen
    <3>2. Passable(t1, r)
      BY <2>7, <3>1, Zenon DEF StopsAt
    <3> QED BY <2>1, <2>5, <3>1, <3>2 DEF Passable, JustCommit
  <2>13. \A r \in t.open \cup t.removed : r < p \/ r \in u.open \cup u.removed
    BY <1>0, <2>5, <2>9 DEF Ptrs, Seqs, newOpen, newRemoved
  <2> QED BY <2>5, <2>9, <2>11, <2>12, <2>13 DEF u
<1> QED BY <1>1, <1>2
(***************************************************************************)
(* ReplayPage pages through the spool without a gap: a row beyond after    *)
(* that is not on the page is beyond every row of it, and the page is then *)
(* full, so another one follows.                                           *)
(***************************************************************************)
LEMMA PageComplete ==
  ASSUME spool \in SUBSET Seqs, NEW after \in Nat, NEW q \in spool, q > after, q \notin Rows(after)
  PROVE  More(Rows(after)) /\ \A r \in Rows(after) : r < q
<1> DEFINE beyond == {r \in spool : r > after}
           below(r) == {s \in beyond : s < r}
           rows == Rows(after)
<1>0. PageSize \in Nat \ {0} /\ MaxSeq \in Nat
  BY CommitPathAssumption, MaxSeqAssumption
<1>1. rows = {r \in beyond : Cardinality(below(r)) < PageSize}
  BY DEF Rows
<1>2. beyond \in SUBSET Nat /\ \A r \in beyond : r <= MaxSeq
  <2>1. \A r \in spool : r \in Nat /\ r <= MaxSeq
    BY <1>0 DEF Seqs
  <2> QED BY <2>1
<1>3. \A S \in SUBSET beyond : IsFiniteSet(S) /\ Cardinality(S) \in Nat
  <2> TAKE S \in SUBSET beyond
  <2>1. S \in SUBSET Nat /\ \A r \in S : r <= MaxSeq
    BY <1>2
  <2>2. IsFiniteSet(S)
    BY <1>0, <2>1, FS_BoundedSetOfNaturals
  <2> QED BY <2>2, FS_CardinalityType
<1>4. \A r \in beyond : below(r) \in SUBSET beyond
  OBVIOUS
<1>5. rows \in SUBSET beyond
  BY <1>1
<1> HIDE DEF rows
<1>6. \A S, T \in SUBSET beyond : S \subseteq T => Cardinality(S) <= Cardinality(T)
  BY <1>3, FS_Subset
<1>7. \A r \in beyond \ rows, s \in rows : s < r
  <2> SUFFICES ASSUME NEW r \in beyond \ rows, NEW s \in rows, ~ (s < r) PROVE FALSE
    OBVIOUS
  <2>1. r \in Nat /\ s \in Nat /\ s \in beyond /\ r <= s
    BY <1>2, <1>5
  <2>2. below(r) \subseteq below(s)
    BY <1>2, <2>1
  <2>3. Cardinality(below(r)) <= Cardinality(below(s))
    BY <1>4, <1>6, <2>1, <2>2
  <2>4. Cardinality(below(s)) < PageSize /\ ~ (Cardinality(below(r)) < PageSize)
    BY <1>1
  <2>5. Cardinality(below(r)) \in Nat /\ Cardinality(below(s)) \in Nat
    BY <1>3, <1>4, <2>1
  <2> HIDE DEF below
  <2> QED BY <1>0, <2>3, <2>4, <2>5
<1>8. q \in beyond \ rows
  BY DEF rows
<1>9. Cardinality(rows) >= PageSize
  <2>1. beyond \ rows \in SUBSET Nat /\ beyond \ rows # {}
    BY <1>2, <1>8
  <2>2. PICK m \in beyond \ rows : \A y \in beyond \ rows : m <= y
    BY <2>1, LeastNat
  <2>3. below(m) \subseteq rows
    BY <1>2, <2>2
  <2>4. ~ (Cardinality(below(m)) < PageSize)
    BY <1>1, <2>2
  <2>5. Cardinality(below(m)) <= Cardinality(rows)
    BY <1>4, <1>5, <1>6, <2>2, <2>3
  <2>6. Cardinality(below(m)) \in Nat /\ Cardinality(rows) \in Nat
    BY <1>3, <1>4, <1>5, <2>2
  <2> HIDE DEF below
  <2> QED BY <1>0, <2>4, <2>5, <2>6
<1>10. Cardinality(rows) <= PageSize
  <2>1. CASE rows = {}
    BY <1>0, <2>1, FS_EmptySet
  <2>2. CASE rows # {}
    <3>1. rows \in SUBSET Nat /\ \A y \in rows : y <= MaxSeq
      BY <1>2, <1>5
    <3>2. Max(rows) \in rows /\ \A y \in rows : y <= Max(rows)
      BY <1>0, <2>2, <3>1, MaxNat
    <3> DEFINE m == Max(rows)
    <3> HIDE DEF m
    <3>3. m \in rows /\ m \in beyond /\ \A y \in rows : y <= m
      BY <1>5, <3>2 DEF m
    <3>4. rows \subseteq below(m) \cup {m} /\ m \notin below(m)
      BY <1>2, <1>5, <3>1, <3>3
    <3>5. Cardinality(below(m) \cup {m}) = Cardinality(below(m)) + 1
      BY <1>3, <1>4, <3>3, <3>4, FS_AddElement
    <3>6. Cardinality(rows) <= Cardinality(below(m) \cup {m})
      BY <1>4, <1>5, <1>6, <3>3, <3>4
    <3>7. Cardinality(below(m)) < PageSize
      BY <1>1, <3>3
    <3>8. Cardinality(below(m)) \in Nat /\ Cardinality(rows) \in Nat
      BY <1>3, <1>4, <1>5, <3>3
    <3> HIDE DEF below
    <3> QED BY <1>0, <3>5, <3>6, <3>7, <3>8
  <2> QED BY <2>1, <2>2
<1>11. Cardinality(rows) \in Nat
  BY <1>3, <1>5
<1>12. Cardinality(rows) = PageSize
  BY <1>0, <1>9, <1>10, <1>11
<1> QED BY <1>7, <1>8, <1>12 DEF More, rows
-----------------------------------------------------------------------------
\* The admissions that hold a slot their row does not have yet.
Admitting == {c \in Callers : pc[c] \in {"append", "register"}}
Owed(q) == \E g \in Goroutines : q \in call[g].commits

\* The gate is the rows of the ledger and the admissions on their way.
SlotsCounted ==
  /\ IsFiniteSet(Admitting)
  /\ gate = Cardinality(acquired) + Cardinality(Admitting)
  /\ gate <= HighWatermark

\* A row about to be registered has no slot of its own yet.
HeldUnacquired ==
  \A c \in Callers : pc[c] = "register" \/ (c = Runner /\ pc[c] = "gate") => at[c] \notin acquired
AcquiredBehind ==
  /\ \A q \in acquired : q <= lastSeq
  /\ phase \in {"down", "boot", "replay"} => \A q \in acquired : q <= scan

\* A goroutine about to change the tracker owes no callback, so the calls it
\* is then given overwrite nothing.
CallsFree ==
  /\ \A c \in Callers : pc[c] \in {"gate", "append", "register", "dispatch"} => call[c] = NoCall
  /\ pc[Abandoner] \in {"idle", "page", "write", "force"} => call[Abandoner] = NoCall

\* A row of the ledger is uncommitted, or some goroutine will release it.
Reclaimable ==
  \A q \in acquired :
    \/ q \in trk.open
    \/ Owed(q)
    \/ (pc[Abandoner] = "release" /\ q = Min(abandonPage))

\* Until the run has read the checkpoint nothing happens in its engine.
FreshBoot ==
  phase \in {"down", "boot"} =>
    /\ trk = newCommitTracker /\ acquired = {} /\ more = TRUE /\ abandonPage = {}
    /\ \A c \in Callers : pc[c] = "idle"
    /\ \A g \in Goroutines : call[g] = NoCall

\* A branch of a row the tracker has let go belongs to a settled row.
DrainedSettled == \A q \in Seqs \ trk.open : ~ Idle(q) => q \in settled

SlotInv ==
  /\ TrackerSound(trk)
  /\ SlotsCounted /\ HeldUnacquired /\ AcquiredBehind
  /\ CallsFree /\ Reclaimable /\ FreshBoot /\ DrainedSettled
-----------------------------------------------------------------------------
\* The ledger is finite, and its size moves by one row at a time.
LEMMA LedgerCounts ==
  ASSUME NEW S \in SUBSET Seqs
  PROVE  /\ IsFiniteSet(S) /\ Cardinality(S) \in Nat
         /\ \A q : Cardinality(S \cup {q}) = IF q \in S THEN Cardinality(S) ELSE Cardinality(S) + 1
         /\ \A q : Cardinality(S \ {q}) = IF q \in S THEN Cardinality(S) - 1 ELSE Cardinality(S)
<1>1. IsFiniteSet(S)
  <2>1. S \in SUBSET Nat /\ \A s \in S : s <= MaxSeq
    BY MaxSeqAssumption DEF Seqs
  <2> QED BY <2>1, MaxSeqAssumption, FS_BoundedSetOfNaturals
<1> QED BY <1>1, FS_CardinalityType, FS_AddElement, FS_RemoveElement

\* A new engine has no slot taken and nobody waiting.
LEMMA SlotFresh ==
  ASSUME NEW ps, NEW cs, (\A g \in Goroutines : ps[g] = "idle" /\ cs[g] = NoCall)
  PROVE  /\ {c \in Callers : ps[c] \in {"append", "register"}} = {}
         /\ \A c \in Callers : ps[c] = "idle"
         /\ IsFiniteSet({}) /\ Cardinality({}) = 0
BY Roles, FS_EmptySet

\* The invariant holds initially.
LEMMA SlotInit == Init => SlotInv
<1> SUFFICES ASSUME Init PROVE SlotInv
  OBVIOUS
<1>1. \A g \in Goroutines : pc[g] = "idle" /\ call[g] = NoCall
  BY DEF Init
<1>2. /\ Admitting = {} /\ IsFiniteSet({}) /\ Cardinality({}) = 0
      /\ \A c \in Callers : pc[c] = "idle"
  BY <1>1, SlotFresh DEF Admitting
<1>3. TrackerSound(trk)
  BY NewSound DEF Init
<1>4. SlotsCounted
  BY <1>2, CommitPathAssumption DEF Init, SlotsCounted
<1>5. HeldUnacquired /\ AcquiredBehind /\ CallsFree /\ Reclaimable /\ FreshBoot
  <2>1. acquired = {} /\ trk = newCommitTracker /\ more = TRUE /\ abandonPage = {}
    BY DEF Init
  <2>2. HeldUnacquired /\ AcquiredBehind /\ Reclaimable
    BY <2>1 DEF HeldUnacquired, AcquiredBehind, Reclaimable
  <2> QED BY <1>1, <1>2, <2>1, <2>2, Roles DEF CallsFree, FreshBoot
<1>6. DrainedSettled
  BY DEF Init, DrainedSettled, Idle, Copies
<1> QED BY <1>3, <1>4, <1>5, <1>6 DEF SlotInv

\* The steps that open, stop and end a run.
LEMMA SlotLifecycle ==
  ASSUME SlotInv, Start \/ Cancel \/ Shutdown \/ Crash
  PROVE  SlotInv'
<1>1. CASE Start \/ Cancel
  <2>1. UNCHANGED <<storeVars, trk, admitVars, scanVars, goVars, histVars>>
    BY <1>1 DEF Start, Cancel
  <2>2. \/ phase = "down" /\ phase' = "boot"
        \/ phase \in {"boot", "replay", "live"} /\ phase' = "stopping"
    BY <1>1 DEF Start, Cancel
  <2> QED BY <2>1, <2>2 DEF SlotInv, SlotsCounted, Admitting, HeldUnacquired, AcquiredBehind,
       CallsFree, Reclaimable, Owed, FreshBoot, DrainedSettled, Idle, storeVars, admitVars,
       scanVars, goVars, histVars
<1>2. CASE Shutdown \/ Crash
  <2>1. EngineGone /\ phase' = "down"
    BY <1>2 DEF Shutdown, Crash
  <2>2. \A g \in Goroutines : pc'[g] = "idle" /\ call'[g] = NoCall
    BY <2>1 DEF EngineGone
  <2>3. /\ Admitting' = {} /\ IsFiniteSet({}) /\ Cardinality({}) = 0
        /\ \A c \in Callers : pc'[c] = "idle"
    BY <2>2, SlotFresh DEF Admitting
  <2>4. TrackerSound(trk')
    BY <2>1, NewSound DEF EngineGone
  <2>5. SlotsCounted'
    BY <2>1, <2>3, CommitPathAssumption DEF EngineGone, SlotsCounted
  <2>6. (HeldUnacquired /\ AcquiredBehind /\ CallsFree /\ Reclaimable /\ FreshBoot)'
    <3>1. acquired' = {} /\ trk' = newCommitTracker /\ more' = TRUE /\ abandonPage' = {}
      BY <2>1 DEF EngineGone
    <3>2. (HeldUnacquired /\ AcquiredBehind /\ Reclaimable)'
      BY <3>1 DEF HeldUnacquired, AcquiredBehind, Reclaimable
    <3> QED BY <2>2, <2>3, <3>1, <3>2, Roles DEF CallsFree, FreshBoot
  <2>7. DrainedSettled'
    BY <2>1 DEF EngineGone, DrainedSettled, Idle, Copies
  <2> QED BY <2>4, <2>5, <2>6, <2>7 DEF SlotInv
<1> QED BY <1>1, <1>2

\* What one call of add does to the ledger: every row that leaves the map is
\* owed a commit, and no owed commit is lost.
LEMMA AddStep ==
  ASSUME TypeInv, NEW t \in Tracker, Bounded(t, emitted), TrackerSound(t),
         NEW g \in Goroutines, call[g] = NoCall,
         NEW q \in Seqs, NEW delta \in Int, NEW p \in Ptrs, addStopsAt(t, q, delta, p),
         trk' = add(t, q, delta, p), call' = [call EXCEPT ![g] = addCall(t, q, delta, p)]
  PROVE  /\ TrackerSound(trk') /\ trk'.arrivedMax = t.arrivedMax
         /\ \A r \in t.open : r \in trk'.open \/ Owed(r)'
         /\ \A r : Owed(r) => Owed(r)'
         /\ \A h \in Goroutines \ {g} : call'[h] = call[h]
         /\ \A r \in t.open \cup t.removed :
              r < trk'.committedPtr \/ r \in trk'.open \cup trk'.removed
<1>1. call \in [Goroutines -> Call] /\ emitted \in [Sources -> Nat]
  BY DEF TypeInv, TypeOK
<1>2. LET u == add(t, q, delta, p) IN
      /\ TrackerSound(u) /\ u.arrivedMax = t.arrivedMax
      /\ t.open \ u.open \subseteq addCall(t, q, delta, p).commits
      /\ \A r \in t.open \cup t.removed : r < u.committedPtr \/ r \in u.open \cup u.removed
  BY <1>1, AddSound
<1>3. call'[g] = addCall(t, q, delta, p) /\ \A h \in Goroutines \ {g} : call'[h] = call[h]
  BY <1>1
<1>4. \A r \in t.open : r \in trk'.open \/ Owed(r)'
  BY <1>2, <1>3 DEF Owed
<1>5. \A r : Owed(r) => Owed(r)'
  BY <1>3, NoCallType DEF Owed
<1> QED BY <1>2, <1>3, <1>4, <1>5

\* One step of a branch.
LEMMA SlotBranch ==
  ASSUME TypeInv, TypeInv', SafeInv, SafeInv', SlotInv, NEW g \in Goroutines, NEW q \in Seqs,
         NEW x \in Copies, NEW k \in 0..MaxFan, Branch(g, q, x, k), call[g] = NoCall
  PROVE  /\ TrackerSound(trk') /\ trk'.arrivedMax = trk.arrivedMax
         /\ \A r \in trk.open : r \in trk'.open \/ Owed(r)'
         /\ \A r : Owed(r) => Owed(r)'
         /\ \A h \in Goroutines \ {g} : call'[h] = call[h]
         /\ \A r \in trk.open \cup trk.removed :
              r < trk'.committedPtr \/ r \in trk'.open \cup trk'.removed
         /\ trk.committedPtr <= trk'.committedPtr
         /\ DrainedSettled'
<1>1. trk \in Tracker /\ Bounded(trk, emitted) /\ emitted \in [Sources -> Nat] /\ TrackerSound(trk)
  BY DEF TypeInv, TypeOK, SlotInv
<1>2. k - 1 \in Int
  BY CommitPathAssumption
<1>3. PICK p \in Ptrs : /\ addStopsAt(trk, q, k - 1, p)
                        /\ trk' = add(trk, q, k - 1, p)
                        /\ call' = [call EXCEPT ![g] = addCall(trk, q, k - 1, p)]
  BY DEF Branch
<1>4. /\ TrackerSound(trk') /\ trk'.arrivedMax = trk.arrivedMax
      /\ \A r \in trk.open : r \in trk'.open \/ Owed(r)'
      /\ \A r : Owed(r) => Owed(r)'
      /\ \A h \in Goroutines \ {g} : call'[h] = call[h]
      /\ \A r \in trk.open \cup trk.removed :
           r < trk'.committedPtr \/ r \in trk'.open \cup trk'.removed
  BY <1>1, <1>2, <1>3, AddStep
<1>5. /\ trk.committedPtr <= trk'.committedPtr
      /\ \A r \in trk.open \ trk'.open : CountAfter(trk, q, k - 1, r) <= 0
  BY <1>1, <1>2, <1>3, AddType
<1>6. /\ settled \subseteq settled' /\ \A r \in Seqs : Idle(r) => Idle(r)'
  BY SafeBranch
<1>7. /\ live \in [Seqs -> [Copies -> Nat]] /\ live' \in [Seqs -> [Copies -> Nat]]
      /\ live' = [live EXCEPT ![q][x] = live[q][x] + k - 1]
  BY DEF Branch, TypeInv, TypeOK
<1>8. \A r \in trk.open \ trk'.open : Idle(r)'
  <2> TAKE r \in trk.open \ trk'.open
  <2>1. r \in Seqs /\ trk.n[r] = live[r]["emitted"] + live[r]["replayed"]
    BY <1>1, Fields DEF SafeInv, CountsTrue
  <2>2. CountAfter(trk, q, k - 1, r) <= 0
    BY <1>5
  <2>3. live'[r]["emitted"] \in Nat /\ live'[r]["replayed"] \in Nat
        /\ live[r]["emitted"] \in Nat /\ live[r]["replayed"] \in Nat
    BY <1>7, <2>1 DEF Copies
  <2>4. CASE r = q
    <3>1. live'[q]["emitted"] + live'[q]["replayed"]
             = live[q]["emitted"] + live[q]["replayed"] + k - 1
      BY <1>7 DEF Copies
    <3> QED BY <1>2, <2>1, <2>2, <2>3, <2>4, <3>1 DEF CountAfter, Idle
  <2>5. CASE r # q
    <3>1. live'[r] = live[r]
      BY <1>7, <2>1, <2>5
    <3> QED BY <2>1, <2>2, <2>3, <2>5, <3>1 DEF CountAfter, Idle
  <2> QED BY <2>4, <2>5
<1>9. DrainedSettled'
  BY <1>6, <1>8 DEF SlotInv, DrainedSettled
<1> QED BY <1>4, <1>5, <1>9

\* The dispatch of an admitted row and the work on a delivered branch.
LEMMA SlotDeliver ==
  ASSUME TypeInv, TypeInv', SafeInv, SafeInv', SlotInv,
         (\E c \in Callers : Dispatch(c)) \/ (\E w \in Workers : Work(w))
  PROVE  /\ SlotInv' /\ trk'.arrivedMax = trk.arrivedMax
         /\ \A r \in trk.open \cup trk.removed :
              r < trk'.committedPtr \/ r \in trk'.open \cup trk'.removed
         /\ trk.committedPtr <= trk'.committedPtr
         /\ \A c \in Callers : pc'[c] = pc[c] \/ (pc[c] = "dispatch" /\ pc'[c] = "return")
<1>1. PICK g \in Goroutines, q \in Seqs, x \in Copies, k \in 0..MaxFan :
        Branch(g, q, x, k) /\ call[g] = NoCall /\ g # Abandoner
        /\ (g \in Callers => pc'[g] = "return")
  <2>1. CASE \E c \in Callers : Dispatch(c)
    <3>1. PICK c \in Callers : Dispatch(c)
      BY <2>1
    <3>2. c \in Goroutines /\ at[c] \in Seqs /\ CopyOf(c) \in Copies /\ c # Abandoner
      BY <3>1, Roles DEF Dispatch, TypeInv, RowsHeld, CopyOf, Copies
    <3>3. call[c] = NoCall /\ pc'[c] = "return"
      BY <3>1, <3>2 DEF Dispatch, SlotInv, CallsFree, TypeInv, TypeOK
    <3> QED BY <3>1, <3>2, <3>3 DEF Dispatch
  <2>2. CASE \E w \in Workers : Work(w)
    <3>1. \A w \in Workers : w \in Goroutines /\ w # Abandoner /\ w \notin Callers
      BY CommitPathAssumption DEF Callers, Goroutines
    <3> QED BY <2>2, <3>1 DEF Work
  <2> QED BY <2>1, <2>2
<1>2. UNCHANGED <<storeVars, phase, admitVars, scanVars, at>>
  BY DEF Dispatch, Work, runVars
<1>3. /\ pc'[Abandoner] = pc[Abandoner]
      /\ \A c \in Callers : pc'[c] = pc[c] \/ (pc[c] = "dispatch" /\ pc'[c] = "return")
  <2>1. pc \in [Goroutines -> PcSet] /\ pc' \in [Goroutines -> PcSet]
    BY DEF TypeInv, TypeOK, PcSet
  <2> QED BY <2>1, Roles DEF Dispatch, Work
<1>4. /\ TrackerSound(trk') /\ trk'.arrivedMax = trk.arrivedMax
      /\ \A r \in trk.open : r \in trk'.open \/ Owed(r)'
      /\ \A r : Owed(r) => Owed(r)'
      /\ \A h \in Goroutines \ {g} : call'[h] = call[h]
      /\ \A r \in trk.open \cup trk.removed :
           r < trk'.committedPtr \/ r \in trk'.open \cup trk'.removed
      /\ trk.committedPtr <= trk'.committedPtr
      /\ DrainedSettled'
  BY <1>1, SlotBranch
<1>5. SlotsCounted'
  <2>1. Admitting' = Admitting
    BY <1>3 DEF Admitting
  <2> QED BY <1>2, <2>1 DEF SlotInv, SlotsCounted, admitVars
<1>6. HeldUnacquired' /\ AcquiredBehind'
  BY <1>2, <1>3 DEF SlotInv, HeldUnacquired, AcquiredBehind, admitVars, storeVars, scanVars
<1>7. CallsFree'
  <2>1. \A c \in Callers : pc'[c] \in {"gate", "append", "register", "dispatch"} =>
          c # g /\ pc'[c] = pc[c]
    BY <1>1, <1>3
  <2> QED BY <1>1, <1>3, <1>4, <2>1, Roles DEF SlotInv, CallsFree
<1>8. Reclaimable'
  BY <1>2, <1>3, <1>4 DEF SlotInv, Reclaimable, admitVars, scanVars
<1>9. FreshBoot'
  <2>1. phase \notin {"down", "boot"}
    <3>1. ~ Idle(q)
      BY <1>1, SafeBranch
    <3> QED BY <3>1 DEF SafeInv, ReplayAhead, Seqs
  <2> QED BY <1>2, <2>1 DEF FreshBoot
<1> QED BY <1>3, <1>4, <1>5, <1>6, <1>7, <1>8, <1>9 DEF SlotInv

\* The steps of crash replay.
LEMMA SlotReplay ==
  ASSUME TypeInv, TypeInv', SafeInv, SafeInv', SlotInv,
         resumeCheckpoint \/ ReplayPage \/ ReplayRow \/ ReplayOrphan \/ ReplayDone
  PROVE  SlotInv'
<1>0. /\ trk \in Tracker /\ Bounded(trk, emitted) /\ emitted \in [Sources -> Nat]
      /\ checkpoint \in 0..MaxSeq /\ scan \in 0..MaxSeq /\ page \subseteq Seqs
      /\ pc \in [Goroutines -> PcSet] /\ at \in [Goroutines -> 0..MaxSeq]
      /\ acquired \in SUBSET Seqs
  BY DEF TypeInv, TypeOK, PcSet
<1>1. CASE resumeCheckpoint
  <2>1. /\ phase = "boot" /\ phase' = "replay" /\ scan' = checkpoint
        /\ UNCHANGED <<lastSeq, admitVars, abandonPage, goVars, histVars>>
        /\ trk' = IF checkpoint > 0 THEN resumeFrom(trk, checkpoint) ELSE trk
    BY <1>1 DEF resumeCheckpoint, storeVars
  <2>2. trk = newCommitTracker /\ acquired = {}
    BY <2>1 DEF SlotInv, FreshBoot
  <2>3. TrackerSound(trk')
    BY <1>0, <2>1, <2>2, NewSound
  <2>4. trk'.open = {}
    <3>1. trk.open = {}
      BY <2>2 DEF newCommitTracker
    <3>2. resumeFrom(trk, checkpoint).open = trk.open
      BY <1>0, ResumeType
    <3> QED BY <2>1, <3>1, <3>2
  <2>5. SlotsCounted' /\ HeldUnacquired' /\ AcquiredBehind' /\ CallsFree' /\ Reclaimable' /\ FreshBoot'
    BY <2>1, <2>2 DEF SlotInv, SlotsCounted, Admitting, HeldUnacquired, AcquiredBehind, CallsFree,
       Reclaimable, FreshBoot, admitVars, goVars
  <2>6. DrainedSettled'
    <3>1. \A q \in Seqs : Idle(q)
      BY <2>1 DEF SafeInv, ReplayAhead, Seqs
    <3> QED BY <2>1, <3>1 DEF DrainedSettled, Idle, histVars
  <2> QED BY <2>3, <2>5, <2>6 DEF SlotInv
<1>2. CASE ReplayPage \/ ReplayDone
  <2>1. UNCHANGED <<lastSeq, trk, admitVars, scan, abandonPage, goVars, histVars>>
        /\ phase = "replay" /\ phase' \in {"replay", "live"}
    BY <1>2 DEF ReplayPage, ReplayDone, RunnerFree, storeVars, runVars, scanVars
  <2> QED BY <2>1 DEF SlotInv, SlotsCounted, Admitting, HeldUnacquired, AcquiredBehind,
       CallsFree, Reclaimable, Owed, FreshBoot, DrainedSettled, Idle, admitVars,
       goVars, histVars
<1>3. CASE ReplayRow
  <2> DEFINE q == Min(page)
  <2>1. q \in page /\ q \in Seqs
    BY <1>0, <1>3, MinOfRows DEF ReplayRow
  <2>2. /\ scan' = q /\ at' = [at EXCEPT ![Runner] = q] /\ pc[Runner] = "idle"
        /\ pc' = [pc EXCEPT ![Runner] = "gate"] /\ phase = "replay" /\ call[Runner] = NoCall
        /\ UNCHANGED <<lastSeq, phase, trk, admitVars, abandonPage, call, histVars>>
    BY <1>3 DEF ReplayRow, RunnerFree, storeVars, runVars
  <2> HIDE DEF q
  <2>3. q > scan /\ \A r \in acquired : r <= scan
    BY <2>1, <2>2 DEF SafeInv, ReplayAhead, SlotInv, AcquiredBehind
  <2>4. /\ \A c \in Goroutines \ {Runner} : pc'[c] = pc[c] /\ at'[c] = at[c]
        /\ pc'[Runner] = "gate" /\ at'[Runner] = q
    BY <1>0, <2>2, Roles
  <2>5. SlotsCounted'
    <3>1. Admitting' = Admitting
      BY <2>2, <2>4, Roles DEF Admitting
    <3> QED BY <2>2, <3>1 DEF SlotInv, SlotsCounted, admitVars
  <2>6. HeldUnacquired'
    <3>1. q \notin acquired
      BY <1>0, <2>1, <2>3 DEF Seqs
    <3> QED BY <2>2, <2>4, <3>1, Roles DEF SlotInv, HeldUnacquired, admitVars
  <2>7. AcquiredBehind'
    <3>1. \A r \in acquired : r <= q
      BY <1>0, <2>1, <2>3 DEF Seqs
    <3> QED BY <2>2, <3>1 DEF SlotInv, AcquiredBehind, admitVars
  <2>8. CallsFree' /\ Reclaimable' /\ FreshBoot'
    BY <2>2, <2>4, Roles DEF SlotInv, CallsFree, Reclaimable, Owed, FreshBoot, admitVars
  <2>9. TrackerSound(trk') /\ DrainedSettled'
    BY <2>2 DEF SlotInv, DrainedSettled, Idle, histVars
  <2> QED BY <2>5, <2>6, <2>7, <2>8, <2>9 DEF SlotInv
<1>4. CASE ReplayOrphan
  <2> DEFINE q == Min(page)
             t1 == arrived(trk, q, NoNode, 0)
  <2>1. q \in page /\ q \in Seqs
    BY <1>0, <1>4, MinOfRows DEF ReplayOrphan
  <2>2. PICK p \in Ptrs : /\ addStopsAt(t1, q, -1, p)
                          /\ trk' = add(t1, q, -1, p)
                          /\ call' = [call EXCEPT ![Runner] = addCall(t1, q, -1, p)]
    BY <1>4 DEF ReplayOrphan
  <2>3. /\ scan' = q /\ settled' = settled \cup {q} /\ phase = "replay"
        /\ pc[Runner] = "idle" /\ call[Runner] = NoCall
        /\ UNCHANGED <<lastSeq, phase, admitVars, abandonPage, pc, at, live>>
    BY <1>4 DEF ReplayOrphan, RunnerFree, storeVars, runVars
  <2> HIDE DEF q
  <2>4. /\ t1 \in Tracker /\ Bounded(t1, emitted)
        /\ t1.open = trk.open \cup {q} /\ t1.n = [trk.n EXCEPT ![q] = 1]
    <3>1. NoNode \in Sources \cup {NoNode} /\ 0 \in Nat /\ NoNode \notin Sources
      BY NoNodeAssumption
    <3> QED BY <1>0, <2>1, <3>1, ArrivedType
  <2>5. TrackerSound(t1)
    BY <1>0, <2>1, ArrivedSound DEF SlotInv
  <2> HIDE DEF t1
  <2>6. -1 \in Int /\ Runner \in Goroutines
    BY Roles
  <2>7. /\ TrackerSound(trk')
        /\ \A r \in t1.open : r \in trk'.open \/ Owed(r)'
        /\ \A r : Owed(r) => Owed(r)'
        /\ \A h \in Goroutines \ {Runner} : call'[h] = call[h]
    BY <2>1, <2>2, <2>3, <2>4, <2>5, <2>6, AddStep
  <2>8. \A r \in t1.open \ trk'.open : CountAfter(t1, q, -1, r) <= 0
    BY <1>0, <2>1, <2>2, <2>4, <2>6, AddType
  <2>9. SlotsCounted'
    <3>1. Admitting' = Admitting
      BY <2>3 DEF Admitting
    <3> QED BY <2>3, <3>1 DEF SlotInv, SlotsCounted, admitVars
  <2>10. HeldUnacquired' /\ FreshBoot'
    BY <2>3 DEF SlotInv, HeldUnacquired, FreshBoot, admitVars
  <2>11. AcquiredBehind'
    <3>1. q > scan /\ \A r \in acquired : r <= scan
      BY <2>1, <2>3 DEF SafeInv, ReplayAhead, SlotInv, AcquiredBehind
    <3>2. \A r \in acquired : r <= q
      BY <1>0, <2>1, <3>1 DEF Seqs
    <3> QED BY <2>3, <3>2 DEF SlotInv, AcquiredBehind, admitVars
  <2>12. CallsFree'
    BY <2>3, <2>7, Roles DEF SlotInv, CallsFree
  <2>13. Reclaimable'
    BY <2>3, <2>4, <2>7 DEF SlotInv, Reclaimable, admitVars
  <2>14. DrainedSettled'
    <3> SUFFICES ASSUME NEW r \in Seqs, r \notin trk'.open, ~ Idle(r)' PROVE r \in settled'
      BY DEF DrainedSettled
    <3>1. ~ Idle(r)
      BY <2>3 DEF Idle
    <3>2. CASE r = q
      BY <2>3, <3>2
    <3>3. CASE r # q /\ r \in trk.open
      <4>1. CountAfter(t1, q, -1, r) = trk.n[r]
        BY <1>0, <2>1, <2>4, <3>3, Fields DEF CountAfter
      <4>2. trk.n[r] <= 0
        BY <2>4, <2>8, <3>3, <4>1
      <4> QED BY <2>3, <3>3, <4>2 DEF SafeInv, CountsTrue
    <3>4. CASE r # q /\ r \notin trk.open
      BY <2>3, <3>1, <3>4 DEF SlotInv, DrainedSettled
    <3> QED BY <3>2, <3>3, <3>4
  <2> QED BY <2>7, <2>9, <2>10, <2>11, <2>12, <2>13, <2>14 DEF SlotInv
<1> QED BY <1>1, <1>2, <1>3, <1>4

\* The steps of admit, up to the dispatch.
LEMMA SlotAdmit ==
  ASSUME TypeInv, TypeInv', SafeInv, SafeInv', SlotInv, EarlyInject = FALSE, NEW c \in Callers,
         \/ c \in Emitters /\ (Emit(c) \/ AppendSpool(c) \/ AppendRefused(c))
         \/ Gate(c) \/ GateRefused(c) \/ Register(c) \/ Return(c)
  PROVE  SlotInv'
<1>0. /\ pc \in [Goroutines -> PcSet] /\ at \in [Goroutines -> 0..MaxSeq]
      /\ c \in Goroutines /\ c # Abandoner /\ trk \in Tracker /\ lastSeq \in 0..MaxSeq
      /\ acquired \in SUBSET Seqs /\ gate \in Int /\ HighWatermark \in Nat
  BY Roles, CommitPathAssumption DEF TypeInv, TypeOK, PcSet
<1>1. /\ IsFiniteSet(Admitting) /\ Cardinality(Admitting) \in Nat
      /\ IsFiniteSet(acquired) /\ Cardinality(acquired) \in Nat
      /\ gate = Cardinality(acquired) + Cardinality(Admitting) /\ gate <= HighWatermark
  BY <1>0, FS_CardinalityType, LedgerCounts DEF SlotInv, SlotsCounted
<1>2. CASE (c \in Emitters /\ Emit(c)) \/ GateRefused(c) \/ Return(c)
  <2>1. /\ UNCHANGED <<lastSeq, phase, trk, admitVars, scanVars, at, call, histVars>>
        /\ \A d \in Goroutines \ {c} : pc'[d] = pc[d]
        /\ pc'[c] = "gate" => c \in Emitters /\ call[c] = NoCall
        /\ pc[c] \notin {"append", "register"}
        /\ pc'[c] \in {"gate", "done", "idle"} /\ phase \notin {"down", "boot"}
    BY <1>0, <1>2 DEF Emit, GateRefused, Return, storeVars, runVars, SlotInv, FreshBoot
  <2>2. Admitting' = Admitting
    BY <2>1, Roles DEF Admitting
  <2>3. SlotsCounted'
    BY <2>1, <2>2 DEF SlotInv, SlotsCounted, admitVars
  <2>4. HeldUnacquired' /\ AcquiredBehind' /\ CallsFree' /\ Reclaimable' /\ FreshBoot'
    BY <1>0, <2>1, Roles DEF SlotInv, HeldUnacquired, AcquiredBehind, CallsFree, Reclaimable, Owed,
       FreshBoot, admitVars, scanVars
  <2> QED BY <2>1, <2>3, <2>4 DEF SlotInv, DrainedSettled, Idle, histVars
<1>3. CASE (c \in Emitters /\ AppendRefused(c)) \/ Gate(c)
  <2>1. /\ UNCHANGED <<lastSeq, trk, acquired, scanVars, at, call, histVars>>
        /\ \A d \in Goroutines \ {c} : pc'[d] = pc[d]
        /\ pc[c] \in {"gate", "append"} /\ pc'[c] \in {"append", "register", "done"}
        /\ pc'[c] = "register" => c = Runner
        /\ pc[c] = "append" => pc'[c] = "done"
        /\ phase' \in {phase, "stopping"}
    BY <1>0, <1>3 DEF Gate, AppendRefused, storeVars, runVars
  <2>2. phase \notin {"down", "boot"}
    BY <2>1 DEF SlotInv, FreshBoot
  <2>3. SlotsCounted'
    <3>1. CASE Gate(c)
      <4>1. gate < HighWatermark /\ gate' = gate + 1 /\ c \notin Admitting
            /\ pc'[c] \in {"append", "register"}
        BY <1>0, <3>1 DEF Gate, Admitting
      <4>2. Admitting' = Admitting \cup {c}
        BY <2>1, <4>1, Roles DEF Admitting
      <4>3. IsFiniteSet(Admitting') /\ Cardinality(Admitting') = Cardinality(Admitting) + 1
        BY <1>1, <4>1, <4>2, FS_AddElement
      <4> QED BY <1>0, <1>1, <2>1, <4>1, <4>3 DEF SlotsCounted
    <3>2. CASE c \in Emitters /\ AppendRefused(c)
      <4>1. gate' = gate - 1 /\ c \in Admitting /\ pc'[c] = "done"
        BY <1>0, <3>2 DEF AppendRefused, Admitting
      <4>2. Admitting' = Admitting \ {c}
        BY <2>1, <4>1, Roles DEF Admitting
      <4>3. IsFiniteSet(Admitting') /\ Cardinality(Admitting') = Cardinality(Admitting) - 1
        BY <1>1, <4>1, <4>2, FS_RemoveElement
      <4> QED BY <1>0, <1>1, <2>1, <4>1, <4>3 DEF SlotsCounted
    <3> QED BY <1>3, <3>1, <3>2
  <2>4. HeldUnacquired'
    <3>1. pc'[c] = "register" => c = Runner /\ pc[c] = "gate"
      BY <2>1
    <3> QED BY <2>1, <3>1, Roles DEF SlotInv, HeldUnacquired
  <2>5. CallsFree' /\ Reclaimable' /\ AcquiredBehind' /\ FreshBoot'
    BY <1>0, <2>1, <2>2, Roles DEF SlotInv, AcquiredBehind, CallsFree, Reclaimable, Owed,
       FreshBoot, scanVars
  <2> QED BY <2>1, <2>3, <2>4, <2>5 DEF SlotInv, DrainedSettled, Idle, histVars
<1>4. CASE c \in Emitters /\ AppendSpool(c)
  <2> DEFINE q == lastSeq + 1
  <2>1. /\ pc[c] = "append" /\ lastSeq' = q /\ at' = [at EXCEPT ![c] = q]
        /\ pc' = [pc EXCEPT ![c] = "register"]
        /\ UNCHANGED <<phase, trk, admitVars, scanVars, call, histVars>>
    BY <1>4 DEF AppendSpool, runVars
  <2>2. /\ \A d \in Goroutines \ {c} : pc'[d] = pc[d] /\ at'[d] = at[d]
        /\ pc'[c] = "register" /\ at'[c] = q
    BY <1>0, <2>1
  <2>3. phase \notin {"down", "boot"}
    BY <2>1 DEF SlotInv, FreshBoot
  <2>4. q \notin acquired /\ \A r \in acquired : r <= q
    BY <1>0 DEF SlotInv, AcquiredBehind, Seqs
  <2>5. SlotsCounted'
    <3>1. Admitting' = Admitting
      BY <2>1, <2>2, Roles DEF Admitting
    <3> QED BY <2>1, <3>1 DEF SlotInv, SlotsCounted, admitVars
  <2> HIDE DEF q
  <2>6. HeldUnacquired' /\ AcquiredBehind'
    BY <2>1, <2>2, <2>4, Roles DEF SlotInv, HeldUnacquired, AcquiredBehind, admitVars, scanVars
  <2>7. CallsFree' /\ Reclaimable' /\ FreshBoot'
    BY <1>0, <2>1, <2>2, <2>3, Roles DEF SlotInv, CallsFree, Reclaimable, Owed, FreshBoot,
       admitVars, scanVars
  <2> QED BY <2>1, <2>5, <2>6, <2>7 DEF SlotInv, DrainedSettled, Idle, histVars
<1>5. CASE Register(c)
  <2> DEFINE q == at[c]
  <2>1. /\ pc[c] = "register" /\ pc' = [pc EXCEPT ![c] = "dispatch"]
        /\ live' = [live EXCEPT ![q][CopyOf(c)] = @ + 1] /\ acquired' = acquired \cup {q}
        /\ UNCHANGED <<lastSeq, phase, gate, scanVars, at, call, settled>>
    BY <1>5 DEF Register, storeVars, runVars
  <2>2. q \in Seqs /\ q <= lastSeq /\ q \notin acquired /\ call[c] = NoCall
    BY <2>1 DEF TypeInv, RowsHeld, SlotInv, HeldUnacquired, CallsFree
  <2>3. /\ \A d \in Goroutines \ {c} : pc'[d] = pc[d]
        /\ pc'[c] = "dispatch"
    BY <1>0, <2>1
  <2>4. phase \notin {"down", "boot"}
    BY <2>1 DEF SlotInv, FreshBoot
  <2>5. PICK node, srcSeq : trk' = arrived(trk, q, node, srcSeq)
    BY <1>5 DEF Register
  <2>6. TrackerSound(trk') /\ trk'.open = trk.open \cup {q}
    <3> HIDE DEF q
    <3>1. TrackerSound(trk')
      BY <1>0, <2>2, <2>5, ArrivedSound DEF SlotInv
    <3>2. trk'.open = trk.open \cup {q}
      BY <1>0, <2>5 DEF arrived, Tracker
    <3> QED BY <3>1, <3>2
  <2>7. SlotsCounted'
    <3>1. Admitting' = Admitting \ {c} /\ c \in Admitting
      BY <2>1, <2>3, Roles DEF Admitting
    <3>2. IsFiniteSet(Admitting') /\ Cardinality(Admitting') = Cardinality(Admitting) - 1
      BY <1>1, <3>1, FS_RemoveElement
    <3>3. Cardinality(acquired') = Cardinality(acquired) + 1
      BY <1>0, <2>1, <2>2, LedgerCounts
    <3> QED BY <1>0, <1>1, <2>1, <3>2, <3>3 DEF SlotsCounted
  <2>8. HeldUnacquired'
    <3> SUFFICES ASSUME NEW d \in Callers,
                        pc'[d] = "register" \/ (d = Runner /\ pc'[d] = "gate")
                 PROVE  at[d] \notin acquired \cup {q}
      BY <2>1 DEF HeldUnacquired
    <3>1. d # c /\ pc'[d] = pc[d]
      BY <2>3, Roles
    <3>2. at[d] \notin acquired
      BY <3>1 DEF SlotInv, HeldUnacquired
    <3>3. at[d] # q
      <4>1. CASE c \in Emitters /\ d \in Emitters
        BY <2>1, <3>1, <4>1, Roles DEF SafeInv, HeldOnce
      <4>2. CASE c \in Emitters /\ d = Runner
        BY <2>1, <3>1, <4>2 DEF SafeInv, ReplayFirst
      <4>3. CASE c = Runner /\ d \in Emitters
        BY <2>1, <3>1, <4>3 DEF SafeInv, ReplayFirst
      <4> QED BY <3>1, <4>1, <4>2, <4>3 DEF Callers, Emitters
    <3> QED BY <3>2, <3>3
  <2>9. AcquiredBehind'
    <3>1. phase \in {"down", "boot", "replay"} => c = Runner /\ q <= scan
      BY <2>1 DEF SafeInv, ReplayFirst, ReplayAhead, Callers, Emitters
    <3> HIDE DEF q
    <3> QED BY <2>1, <2>2, <3>1 DEF SlotInv, AcquiredBehind, scanVars
  <2> HIDE DEF q
  <2>10. CallsFree' /\ FreshBoot'
    BY <1>0, <2>1, <2>2, <2>3, <2>4, Roles DEF SlotInv, CallsFree, FreshBoot
  <2>11. Reclaimable'
    BY <1>0, <2>1, <2>3, <2>6, Roles DEF SlotInv, Reclaimable, Owed, scanVars
  <2>12. DrainedSettled'
    <3>1. \A r \in Seqs \ {q} : live'[r] = live[r]
      BY <2>1 DEF TypeInv, TypeOK
    <3> QED BY <2>1, <2>6, <3>1 DEF SlotInv, DrainedSettled, Idle
  <2> QED BY <2>6, <2>7, <2>8, <2>9, <2>10, <2>11, <2>12 DEF SlotInv
<1> QED BY <1>2, <1>3, <1>4, <1>5

\* Taking a row out of the ledger gives its slot back, once.
LEMMA SlotReleased ==
  ASSUME TypeInv, SlotsCounted, NEW q, Release(q), Admitting' = Admitting
  PROVE  SlotsCounted'
<1>1. acquired \in SUBSET Seqs /\ gate \in Int /\ HighWatermark \in Nat
  BY CommitPathAssumption DEF TypeInv, TypeOK
<1>2. Cardinality(Admitting) \in Nat /\ Cardinality(acquired) \in Nat
  BY <1>1, LedgerCounts, FS_CardinalityType DEF SlotsCounted
<1>3. /\ acquired' = acquired \ {q} /\ gate' = IF q \in acquired THEN gate - 1 ELSE gate
      /\ Cardinality(acquired \ {q})
           = IF q \in acquired THEN Cardinality(acquired) - 1 ELSE Cardinality(acquired)
  BY <1>1, LedgerCounts DEF Release
<1> QED BY <1>1, <1>2, <1>3 DEF SlotsCounted

\* The callbacks of a sweep, and the source committers.
LEMMA SlotCallbacks ==
  ASSUME TypeInv, TypeInv', SafeInv, SafeInv', SlotInv,
         \/ \E g \in Goroutines : OnCommit(g) \/ persistCheckpoint(g) \/ persistCheckpointFails(g)
         \/ \E s \in Sources : SourceCommit(s)
  PROVE  SlotInv'
<1>0. call \in [Goroutines -> Call] /\ acquired \in SUBSET Seqs
  BY DEF TypeInv, TypeOK
<1>1. ASSUME NEW g \in Goroutines, OnCommit(g) PROVE SlotInv'
  <2> DEFINE q == Min(call[g].commits)
             rest == [call[g] EXCEPT !.commits = @ \ {q}]
             new == IF rest.commits = {} /\ ~ rest.advanced THEN NoCall ELSE rest
  <2>1. /\ call[g].commits # {} /\ call' = [call EXCEPT ![g] = new] /\ Release(q)
        /\ UNCHANGED <<lastSeq, phase, trk, scanVars, pc, at, histVars>>
    BY <1>1 DEF OnCommit, storeVars, runVars
  <2>2. call[g] # NoCall
    BY <2>1, NoCallType
  <2>3. rest.commits = call[g].commits \ {q}
    BY <1>0 DEF Call
  <2> HIDE DEF q, rest
  <2>4. new.commits = call[g].commits \ {q}
    BY <2>3, NoCallType
  <2> HIDE DEF new
  <2>5. call'[g] = new /\ \A h \in Goroutines \ {g} : call'[h] = call[h]
    BY <1>0, <2>1
  <2>6. acquired' = acquired \ {q}
    BY <2>1 DEF Release
  <2>7. SlotsCounted'
    <3>1. Admitting' = Admitting
      BY <2>1 DEF Admitting
    <3> QED BY <2>1, <3>1, SlotReleased DEF SlotInv
  <2>8. Reclaimable'
    <3>1. \A r : r # q /\ Owed(r) => Owed(r)'
      BY <2>4, <2>5 DEF Owed
    <3> QED BY <2>1, <2>6, <3>1 DEF SlotInv, Reclaimable, scanVars
  <2>9. CallsFree' /\ FreshBoot' /\ HeldUnacquired' /\ AcquiredBehind'
    BY <2>1, <2>2, <2>5, <2>6 DEF SlotInv, CallsFree, FreshBoot, HeldUnacquired, AcquiredBehind,
       scanVars
  <2> QED BY <2>1, <2>7, <2>8, <2>9 DEF SlotInv, DrainedSettled, Idle, histVars
<1>2. ASSUME NEW g \in Goroutines, persistCheckpoint(g) \/ persistCheckpointFails(g)
      PROVE  SlotInv'
  <2>1. /\ call[g].commits = {} /\ call[g].advanced /\ call' = [call EXCEPT ![g] = NoCall]
        /\ UNCHANGED <<lastSeq, phase, trk, admitVars, scanVars, pc, at, histVars>>
    BY <1>2 DEF persistCheckpoint, persistCheckpointFails, storeVars, runVars
  <2>2. call[g] # NoCall
    BY <2>1, NoCallType
  <2>3. call'[g] = NoCall /\ \A h \in Goroutines \ {g} : call'[h] = call[h]
    BY <1>0, <2>1
  <2>4. \A r : Owed(r) => Owed(r)'
    BY <2>1, <2>3 DEF Owed
  <2>5. SlotsCounted'
    BY <2>1 DEF SlotInv, SlotsCounted, Admitting, admitVars
  <2>6. CallsFree' /\ FreshBoot' /\ HeldUnacquired' /\ AcquiredBehind'
    BY <2>1, <2>2, <2>3 DEF SlotInv, CallsFree, FreshBoot, HeldUnacquired, AcquiredBehind,
       admitVars, scanVars
  <2>7. Reclaimable'
    BY <2>1, <2>4 DEF SlotInv, Reclaimable, admitVars, scanVars
  <2> QED BY <2>1, <2>5, <2>6, <2>7 DEF SlotInv, DrainedSettled, Idle, histVars
<1>3. ASSUME NEW s \in Sources, SourceCommit(s) PROVE SlotInv'
  <2>1. UNCHANGED <<lastSeq, phase, trk, admitVars, scanVars, goVars, histVars>>
    BY <1>3 DEF SourceCommit, runVars
  <2> QED BY <2>1 DEF SlotInv, SlotsCounted, Admitting, HeldUnacquired, AcquiredBehind,
       CallsFree, Reclaimable, Owed, FreshBoot, DrainedSettled, Idle, admitVars,
       scanVars, goVars, histVars
<1> QED BY <1>1, <1>2, <1>3

\* The steps of Abandon.
LEMMA SlotAbandon ==
  ASSUME TypeInv, TypeInv', SafeInv, SafeInv', SlotInv,
         Abandon \/ AbandonRows \/ AbandonWrite \/ AbandonGivesUp \/ AbandonForce \/ AbandonNext
  PROVE  SlotInv'
<1>0. /\ pc \in [Goroutines -> PcSet] /\ at \in [Goroutines -> 0..MaxSeq]
      /\ trk \in Tracker /\ Bounded(trk, emitted) /\ emitted \in [Sources -> Nat]
      /\ call \in [Goroutines -> Call] /\ abandonPage \in SUBSET Seqs
  BY DEF TypeInv, TypeOK, PcSet
<1>1. /\ UNCHANGED <<lastSeq, phase, scan, page, more, live>> /\ settled \subseteq settled'
      /\ \A c \in Callers : pc'[c] = pc[c] /\ at'[c] = at[c]
  BY <1>0, Roles DEF Abandon, AbandonRows, AbandonWrite, AbandonGivesUp, AbandonForce, AbandonNext,
     storeVars, runVars, scanVars, histVars
<1>2. Admitting' = Admitting
  BY <1>1 DEF Admitting
<1>3. CASE Abandon \/ AbandonRows \/ AbandonWrite \/ AbandonGivesUp
  <2>1. /\ UNCHANGED <<trk, admitVars, call>>
        /\ pc[Abandoner] \in {"idle", "page", "write"}
        /\ pc'[Abandoner] \in {"page", "write", "force", "close"}
        /\ abandonPage' = abandonPage \/ \A q \in abandonPage' : isOutstanding(trk, q)
    BY <1>0, <1>3, Roles DEF Abandon, AbandonRows, AbandonWrite, AbandonGivesUp, scanVars
  <2>2. SlotsCounted' /\ HeldUnacquired' /\ AcquiredBehind' /\ Reclaimable'
    BY <1>1, <1>2, <2>1 DEF SlotInv, SlotsCounted, HeldUnacquired, AcquiredBehind, Reclaimable,
       Owed, admitVars
  <2>3. CallsFree'
    BY <1>1, <2>1 DEF SlotInv, CallsFree
  <2>4. FreshBoot'
    <3>1. phase \in {"down", "boot"} => abandonPage' = {}
      BY <2>1 DEF SlotInv, FreshBoot, isOutstanding, newCommitTracker
    <3> QED BY <1>1, <2>1, <3>1 DEF SlotInv, FreshBoot, admitVars
  <2> QED BY <1>1, <2>1, <2>2, <2>3, <2>4 DEF SlotInv, DrainedSettled, Idle
<1>4. CASE AbandonForce
  <2> DEFINE q == Min(abandonPage)
  <2>1. abandonPage # {} /\ q \in Seqs /\ q \in settled /\ call[Abandoner] = NoCall
    BY <1>0, <1>4, MinOfRows DEF AbandonForce, TypeInv, AbandonHolds, SafeInv, DeadLettered,
       SlotInv, CallsFree
  <2>2. PICK p \in Ptrs : /\ forceStopsAt(trk, q, p)
                          /\ trk' = forceTerminal(trk, q, p)
                          /\ call' = [call EXCEPT ![Abandoner] = forceTerminalCall(trk, q, p)]
    BY <1>4 DEF AbandonForce
  <2>3. /\ pc'[Abandoner] = IF q \in trk.open THEN "release" ELSE "next"
        /\ pc[Abandoner] = "force" /\ UNCHANGED <<admitVars, abandonPage, settled>>
    BY <1>0, <1>4, Roles DEF AbandonForce, scanVars, histVars
  <2>4. phase \notin {"down", "boot"}
    BY <2>1 DEF SlotInv, FreshBoot
  <2> HIDE DEF q
  <2>5. /\ TrackerSound(trk')
        /\ \A r \in trk.open \ trk'.open :
             r = q \/ (r \in forceTerminalCall(trk, q, p).commits /\ trk.n[r] <= 0)
    BY <1>0, <2>1, <2>2, ForceSound DEF SlotInv
  <2>6. /\ call'[Abandoner] = forceTerminalCall(trk, q, p)
        /\ \A h \in Goroutines \ {Abandoner} : call'[h] = call[h]
    BY <1>0, <2>2, Roles
  <2>7. \A r : Owed(r) => Owed(r)'
    BY <2>1, <2>6, NoCallType, Roles DEF Owed
  <2>8. Reclaimable'
    <3> SUFFICES ASSUME NEW r \in acquired, r \notin trk'.open, ~ Owed(r)'
                 PROVE  pc'[Abandoner] = "release" /\ r = q
      BY <2>3 DEF Reclaimable, q, admitVars
    <3>1. r \in trk.open
      BY <2>3, <2>7 DEF SlotInv, Reclaimable
    <3>2. r = q
      BY <2>5, <2>6, <3>1, Roles DEF Owed
    <3> QED BY <2>3, <3>1, <3>2
  <2>9. SlotsCounted' /\ HeldUnacquired' /\ AcquiredBehind' /\ FreshBoot'
    BY <1>1, <1>2, <2>3, <2>4 DEF SlotInv, SlotsCounted, HeldUnacquired, AcquiredBehind, FreshBoot,
       admitVars
  <2>10. CallsFree'
    BY <1>1, <2>3, <2>6, Roles DEF SlotInv, CallsFree
  <2>11. DrainedSettled'
    BY <1>0, <1>1, <2>1, <2>5, Fields DEF SlotInv, DrainedSettled, Idle, SafeInv, CountsTrue
  <2> QED BY <2>5, <2>8, <2>9, <2>10, <2>11 DEF SlotInv
<1>5. CASE AbandonNext
  <2> DEFINE q == Min(abandonPage)
  <2>1. /\ pc[Abandoner] \in {"release", "next"} /\ call[Abandoner] = NoCall
        /\ IF pc[Abandoner] = "release" THEN Release(q) ELSE UNCHANGED admitVars
        /\ pc'[Abandoner] \in {"page", "write"} /\ abandonPage' = abandonPage \ {q}
        /\ UNCHANGED <<trk, call, settled>>
    BY <1>0, <1>5, Roles DEF AbandonNext, histVars
  <2>2. abandonPage # {}
    BY <2>1 DEF TypeInv, AbandonHolds
  <2>3. phase \notin {"down", "boot"}
    BY <2>2 DEF SlotInv, FreshBoot
  <2>4. acquired' \subseteq acquired /\ (pc[Abandoner] = "release" => acquired' = acquired \ {q})
    BY <2>1 DEF Release, admitVars
  <2>5. SlotsCounted'
    <3> HIDE DEF q
    <3>1. CASE pc[Abandoner] = "release"
      BY <1>2, <2>1, <3>1, SlotReleased DEF SlotInv
    <3>2. CASE pc[Abandoner] # "release"
      BY <1>2, <2>1, <3>2 DEF SlotInv, SlotsCounted, admitVars
    <3> QED BY <3>1, <3>2
  <2>6. Reclaimable'
    BY <2>1, <2>4 DEF SlotInv, Reclaimable, Owed
  <2> HIDE DEF q
  <2>7. HeldUnacquired' /\ AcquiredBehind' /\ CallsFree' /\ FreshBoot'
    BY <1>1, <2>1, <2>3, <2>4 DEF SlotInv, HeldUnacquired, AcquiredBehind, CallsFree, FreshBoot
  <2> QED BY <1>1, <2>1, <2>5, <2>6, <2>7 DEF SlotInv, DrainedSettled, Idle
<1> QED BY <1>3, <1>4, <1>5

\* Every step keeps the ledgers.
LEMMA SlotStep ==
  ASSUME EarlyInject = FALSE
  PROVE  TypeInv /\ TypeInv' /\ SafeInv /\ SafeInv' /\ SlotInv /\ [Next]_vars => SlotInv'
<1> SUFFICES ASSUME TypeInv, TypeInv', SafeInv, SafeInv', SlotInv, [Next]_vars PROVE SlotInv'
  OBVIOUS
<1>1. CASE Start \/ Cancel \/ Shutdown \/ Crash
  BY <1>1, SlotLifecycle
<1>2. CASE resumeCheckpoint \/ ReplayPage \/ ReplayRow \/ ReplayOrphan \/ ReplayDone
  BY <1>2, SlotReplay
<1>3. ASSUME NEW c \in Emitters, Emit(c) \/ AppendSpool(c) \/ AppendRefused(c)
      PROVE  SlotInv'
  BY <1>3, SlotAdmit, Roles
<1>4. ASSUME NEW c \in Callers, Gate(c) \/ GateRefused(c) \/ Register(c) \/ Return(c)
      PROVE  SlotInv'
  BY <1>4, SlotAdmit
<1>5. CASE (\E c \in Callers : Dispatch(c)) \/ (\E w \in Workers : Work(w))
  BY <1>5, SlotDeliver
<1>6. CASE \/ \E g \in Goroutines : OnCommit(g) \/ persistCheckpoint(g) \/ persistCheckpointFails(g)
           \/ \E s \in Sources : SourceCommit(s)
  BY <1>6, SlotCallbacks
<1>7. CASE Abandon \/ AbandonRows \/ AbandonWrite \/ AbandonGivesUp \/ AbandonForce \/ AbandonNext
  BY <1>7, SlotAbandon
<1>8. CASE UNCHANGED vars
  BY <1>8 DEF vars, SlotInv, SlotsCounted, Admitting, HeldUnacquired, AcquiredBehind,
       CallsFree, Reclaimable, Owed, FreshBoot, DrainedSettled, Idle, storeVars, runVars,
       admitVars, scanVars, goVars, histVars
<1> QED BY <1>1, <1>2, <1>3, <1>4, <1>5, <1>6, <1>7, <1>8, Zenon DEF Next, Emitters
-----------------------------------------------------------------------------
\* The tracker has seen the row in this run, or the prefix has passed it.
HasArrived(q) == q < trk.committedPtr \/ q \in trk.open \cup trk.removed

\* Replay has a page to read yet that will hold the row.
Unread(q) == q > scan /\ more /\ \A r \in page : r < q

\* Nothing is ahead of what was accepted; what is ahead of the checkpoint is
\* kept; and once the run has read the checkpoint its cursor is beyond it.
ArrivedAccepted == trk.arrivedMax <= lastSeq /\ checkpoint <= lastSeq
KeptBeyond == \A q \in 1..lastSeq : q > checkpoint => q \in spool
CursorAhead == phase \in {"replay", "live"} => checkpoint < trk.committedPtr

\* Every accepted row has arrived in this run, or replay still has to reach
\* it, or the goroutine that appended it is about to register it.
ReplayComplete ==
  /\ phase = "replay" =>
       \A q \in 1..lastSeq :
         \/ HasArrived(q) \/ q \in page \/ Unread(q)
         \/ (pc[Runner] \in {"gate", "register"} /\ at[Runner] = q)
  /\ phase = "live" =>
       \A q \in 1..lastSeq :
         HasArrived(q) \/ \E c \in Emitters : pc[c] = "register" /\ at[c] = q

ReplayInv == ArrivedAccepted /\ KeptBeyond /\ CursorAhead /\ ReplayComplete
-----------------------------------------------------------------------------
\* A step that replays nothing keeps what has arrived and what is held.
LEMMA ReplayKept ==
  ASSUME ReplayComplete, phase' \in {"replay", "live"} => phase' = phase,
         UNCHANGED <<lastSeq, scan, page, more>>,
         \A q \in 1..lastSeq : HasArrived(q) => HasArrived(q)',
         phase' \in {"replay", "live"} =>
           /\ pc[Runner] \in {"gate", "register"} =>
                \/ pc'[Runner] \in {"gate", "register"} /\ at'[Runner] = at[Runner]
                \/ \A q \in 1..lastSeq : q = at[Runner] => HasArrived(q)'
           /\ \A c \in Emitters : pc[c] = "register" =>
                \/ pc'[c] = "register" /\ at'[c] = at[c]
                \/ \A q \in 1..lastSeq : q = at[c] => HasArrived(q)'
  PROVE  ReplayComplete'
<1>1. \A q \in 1..lastSeq : Unread(q) => Unread(q)'
  BY DEF Unread
<1>2. ASSUME phase' = "replay", NEW q \in 1..lastSeq
      PROVE  \/ HasArrived(q)' \/ q \in page' \/ Unread(q)'
             \/ (pc'[Runner] \in {"gate", "register"} /\ at'[Runner] = q)
  <2>1. \/ HasArrived(q) \/ q \in page \/ Unread(q)
        \/ (pc[Runner] \in {"gate", "register"} /\ at[Runner] = q)
    BY <1>2 DEF ReplayComplete
  <2> QED BY <1>1, <1>2, <2>1
<1>3. ASSUME phase' = "live", NEW q \in 1..lastSeq
      PROVE  HasArrived(q)' \/ \E c \in Emitters : pc'[c] = "register" /\ at'[c] = q
  <2>1. HasArrived(q) \/ \E c \in Emitters : pc[c] = "register" /\ at[c] = q
    BY <1>3 DEF ReplayComplete
  <2> QED BY <1>3, <2>1
<1> QED BY <1>2, <1>3 DEF ReplayComplete

\* The invariant holds initially, and a run that ends leaves the store alone.
LEMMA ReplayInit == Init => ReplayInv
<1> SUFFICES ASSUME Init PROVE ReplayInv
  OBVIOUS
<1>1. trk.arrivedMax = 0 /\ lastSeq = 0 /\ checkpoint = 0 /\ phase = "down"
  BY DEF Init, newCommitTracker
<1> QED BY <1>1 DEF ReplayInv, ArrivedAccepted, KeptBeyond, CursorAhead, ReplayComplete

\* The steps that open, stop and end a run.
LEMMA ReplayLifecycle ==
  ASSUME TypeInv, ReplayInv, Start \/ Cancel \/ Shutdown \/ Crash
  PROVE  ReplayInv'
<1>1. UNCHANGED <<lastSeq, checkpoint, spool>> /\ phase' \notin {"replay", "live"}
  BY DEF Start, Cancel, Shutdown, Crash, storeVars
<1>2. trk' = trk \/ trk'.arrivedMax = 0
  BY DEF Start, Cancel, Shutdown, Crash, EngineGone, newCommitTracker
<1>3. lastSeq \in 0..MaxSeq
  BY DEF TypeInv, TypeOK
<1> QED BY <1>1, <1>2, <1>3 DEF ReplayInv, ArrivedAccepted, KeptBeyond, CursorAhead, ReplayComplete

\* The steps of crash replay.
LEMMA ReplayReplay ==
  ASSUME TypeInv, TypeInv', SafeInv, SlotInv, ReplayInv,
         resumeCheckpoint \/ ReplayPage \/ ReplayRow \/ ReplayOrphan \/ ReplayDone
  PROVE  ReplayInv'
<1>0. /\ trk \in Tracker /\ Bounded(trk, emitted) /\ emitted \in [Sources -> Nat]
      /\ checkpoint \in 0..MaxSeq /\ scan \in 0..MaxSeq /\ page \subseteq Seqs
      /\ pc \in [Goroutines -> PcSet] /\ at \in [Goroutines -> 0..MaxSeq]
      /\ lastSeq \in 0..MaxSeq /\ spool \in SUBSET Seqs
      /\ UNCHANGED <<lastSeq, checkpoint, spool>>
  BY DEF TypeInv, TypeOK, PcSet, resumeCheckpoint, ReplayPage, ReplayRow, ReplayOrphan, ReplayDone,
     storeVars
<1>1. 1..lastSeq \subseteq Seqs
  BY <1>0, MaxSeqAssumption DEF Seqs
<1>2. KeptBeyond'
  BY <1>0 DEF ReplayInv, KeptBeyond
<1>3. CASE resumeCheckpoint
  <2>1. /\ phase = "boot" /\ phase' = "replay" /\ scan' = checkpoint /\ UNCHANGED <<page, more>>
        /\ trk' = IF checkpoint > 0 THEN resumeFrom(trk, checkpoint) ELSE trk
    BY <1>3 DEF resumeCheckpoint
  <2>2. trk = newCommitTracker /\ more = TRUE /\ page = {}
    BY <2>1 DEF SlotInv, FreshBoot, SafeInv, ReplayAhead
  <2>3. trk'.committedPtr = checkpoint + 1 /\ trk'.arrivedMax = checkpoint
    <3>1. CASE checkpoint > 0
      BY <1>0, <2>1, <2>2, <3>1, NewSound
    <3>2. CASE ~ (checkpoint > 0)
      BY <1>0, <2>1, <2>2, <3>2 DEF newCommitTracker
    <3> QED BY <3>1, <3>2
  <2>4. ArrivedAccepted' /\ CursorAhead'
    BY <1>0, <2>3 DEF ReplayInv, ArrivedAccepted, CursorAhead
  <2>5. \A q \in 1..lastSeq : HasArrived(q)' \/ Unread(q)'
    BY <1>0, <2>1, <2>2, <2>3 DEF HasArrived, Unread
  <2>6. ReplayComplete'
    BY <1>0, <2>1, <2>5 DEF ReplayComplete
  <2> QED BY <1>2, <2>4, <2>6 DEF ReplayInv
<1>4. CASE ReplayPage
  <2>1. /\ phase = "replay" /\ page = {} /\ more /\ page' = Rows(scan) /\ more' = More(Rows(scan))
        /\ pc[Runner] = "idle" /\ UNCHANGED <<phase, trk, scan, goVars>>
    BY <1>4 DEF ReplayPage, RunnerFree, runVars
  <2>2. ArrivedAccepted' /\ CursorAhead'
    BY <1>0, <2>1 DEF ReplayInv, ArrivedAccepted, CursorAhead
  <2>3. ASSUME NEW q \in 1..lastSeq PROVE HasArrived(q)' \/ q \in page' \/ Unread(q)'
    <3>1. HasArrived(q) \/ q > scan
      BY <2>1 DEF ReplayInv, ReplayComplete, Unread
    <3>2. CASE HasArrived(q)
      BY <2>1, <3>2 DEF HasArrived
    <3>3. CASE ~ HasArrived(q) /\ q > scan
      <4>1. q > checkpoint
        BY <1>0, <2>1, <3>3, Fields DEF ReplayInv, CursorAhead, HasArrived, Ptrs
      <4>2. q \in spool /\ scan \in Nat
        BY <1>0, <4>1 DEF ReplayInv, KeptBeyond
      <4>3. q \notin Rows(scan) => More(Rows(scan)) /\ \A r \in Rows(scan) : r < q
        BY <1>0, <3>3, <4>2, PageComplete
      <4> QED BY <2>1, <3>3, <4>3 DEF Unread
    <3> QED BY <3>1, <3>2, <3>3
  <2>4. ReplayComplete'
    BY <1>0, <2>1, <2>3 DEF ReplayComplete
  <2> QED BY <1>2, <2>2, <2>4 DEF ReplayInv
<1>5. CASE ReplayRow \/ ReplayOrphan
  <2>1. PICK q \in Seqs : q = Min(page) /\ q \in page /\ \A r \in page : q <= r
    BY <1>0, <1>5, MinOfRows DEF ReplayRow, ReplayOrphan
  <2>2. /\ page' = page \ {q} /\ scan' = q /\ phase = "replay" /\ phase' = "replay"
        /\ more' = more /\ pc[Runner] = "idle"
    BY <1>5, <2>1 DEF ReplayRow, ReplayOrphan, RunnerFree, runVars
  <2>3. q <= lastSeq
    BY <2>1 DEF TypeInv, RowsAccepted
  <2>4. CASE ReplayRow
    <3>1. pc'[Runner] = "gate" /\ at'[Runner] = q /\ trk' = trk
      BY <1>0, <2>1, <2>4, Roles DEF ReplayRow
    <3>2. ArrivedAccepted' /\ CursorAhead'
      BY <1>0, <2>2, <3>1 DEF ReplayInv, ArrivedAccepted, CursorAhead
    <3>3. ASSUME NEW r \in 1..lastSeq, r # q
          PROVE  HasArrived(r)' \/ r \in page' \/ Unread(r)'
      <4>1. HasArrived(r) \/ r \in page \/ Unread(r)
        BY <2>2 DEF ReplayInv, ReplayComplete
      <4> QED BY <2>1, <2>2, <3>1, <3>3, <4>1 DEF HasArrived, Unread
    <3>4. ReplayComplete'
      BY <1>0, <2>2, <3>1, <3>3 DEF ReplayComplete
    <3> QED BY <1>2, <3>2, <3>4 DEF ReplayInv
  <2>5. CASE ReplayOrphan
    <3> DEFINE t1 == arrived(trk, q, NoNode, 0)
    <3>1. PICK p \in Ptrs : addStopsAt(t1, q, -1, p) /\ trk' = add(t1, q, -1, p)
      BY <2>1, <2>5 DEF ReplayOrphan
    <3>2. NoNode \in Sources \cup {NoNode} /\ 0 \in Nat /\ NoNode \notin Sources
      BY NoNodeAssumption
    <3>3. /\ t1 \in Tracker /\ Bounded(t1, emitted)
          /\ t1.open = trk.open \cup {q} /\ t1.n = [trk.n EXCEPT ![q] = 1]
          /\ t1.removed = trk.removed /\ t1.committedPtr = trk.committedPtr
      BY <1>0, <3>2, ArrivedType
    <3>4. TrackerSound(t1) /\ t1.arrivedMax = IF q > trk.arrivedMax THEN q ELSE trk.arrivedMax
      BY <1>0, <2>1, ArrivedSound DEF SlotInv
    <3> HIDE DEF t1
    <3>5. -1 \in Int
      OBVIOUS
    <3>6. /\ trk'.arrivedMax = t1.arrivedMax
          /\ \A r \in t1.open \cup t1.removed :
               r < trk'.committedPtr \/ r \in trk'.open \cup trk'.removed
      BY <1>0, <2>1, <3>1, <3>3, <3>4, <3>5, AddSound
    <3>7. t1.committedPtr <= trk'.committedPtr
      BY <1>0, <2>1, <3>1, <3>3, <3>5, AddType
    <3>8. trk.committedPtr \in Nat /\ trk'.committedPtr \in Nat
      <4>1. trk' \in Tracker
        BY DEF TypeInv, TypeOK
      <4> QED BY <1>0, <4>1, Fields DEF Ptrs
    <3>9. ArrivedAccepted' /\ CursorAhead'
      BY <1>0, <2>2, <2>3, <3>3, <3>4, <3>6, <3>7, <3>8 DEF ReplayInv, ArrivedAccepted, CursorAhead
    <3>10. HasArrived(q)' /\ \A r \in 1..lastSeq : HasArrived(r) => HasArrived(r)'
      BY <3>3, <3>6, <3>7, <3>8 DEF HasArrived
    <3>11. ASSUME NEW r \in 1..lastSeq, r # q
           PROVE  HasArrived(r)' \/ r \in page' \/ Unread(r)'
      <4>1. HasArrived(r) \/ r \in page \/ Unread(r)
        BY <2>2 DEF ReplayInv, ReplayComplete
      <4> QED BY <2>1, <2>2, <3>10, <3>11, <4>1 DEF Unread
    <3>12. ReplayComplete'
      BY <1>0, <2>2, <3>10, <3>11 DEF ReplayComplete
    <3> QED BY <1>2, <3>9, <3>12 DEF ReplayInv
  <2> QED BY <1>5, <2>4, <2>5
<1>6. CASE ReplayDone
  <2>1. /\ phase = "replay" /\ phase' = "live" /\ page = {} /\ ~ more /\ trk' = trk
        /\ pc[Runner] = "idle"
    BY <1>6 DEF ReplayDone, RunnerFree
  <2>2. \A q \in 1..lastSeq : HasArrived(q)
    BY <2>1 DEF ReplayInv, ReplayComplete, Unread
  <2>3. ReplayComplete'
    BY <1>0, <2>1, <2>2 DEF ReplayComplete, HasArrived
  <2> QED BY <1>0, <1>2, <2>1, <2>3 DEF ReplayInv, ArrivedAccepted, CursorAhead
<1> QED BY <1>3, <1>4, <1>5, <1>6

\* The steps of admission.
LEMMA ReplayAdmit ==
  ASSUME TypeInv, TypeInv', SafeInv, SlotInv, ReplayInv, NEW c \in Callers,
         \/ c \in Emitters /\ (Emit(c) \/ AppendSpool(c) \/ AppendRefused(c))
         \/ Gate(c) \/ GateRefused(c) \/ Register(c) \/ Return(c)
  PROVE  ReplayInv'
<1>0. /\ pc \in [Goroutines -> PcSet] /\ at \in [Goroutines -> 0..MaxSeq]
      /\ c \in Goroutines /\ trk \in Tracker /\ lastSeq \in 0..MaxSeq
      /\ trk.arrivedMax \in 0..MaxSeq /\ checkpoint \in 0..MaxSeq
  BY Roles, Fields DEF TypeInv, TypeOK, PcSet
<1>1. CASE \/ c \in Emitters /\ (Emit(c) \/ AppendRefused(c))
           \/ Gate(c) \/ GateRefused(c) \/ Return(c)
  <2>1. /\ UNCHANGED <<lastSeq, checkpoint, spool, trk, scan, page, more, at>>
        /\ phase' \in {phase, "stopping"}
    BY <1>1 DEF Emit, AppendRefused, Gate, GateRefused, Return, storeVars, runVars, scanVars
  <2>2. /\ pc[c] # "register"
        /\ \A d \in Goroutines \ {c} : pc'[d] = pc[d]
    BY <1>0, <1>1 DEF Emit, AppendRefused, Gate, GateRefused, Return
  <2>3. pc[Runner] = "gate" /\ c = Runner /\ phase' # "stopping" => pc'[Runner] = "register"
    BY <1>0, <1>1, Roles DEF Emit, AppendRefused, Gate, GateRefused, Return, runVars
  <2>4. \A q \in 1..lastSeq : HasArrived(q) => HasArrived(q)'
    BY <2>1 DEF HasArrived
  <2>5. ReplayComplete'
    BY <2>1, <2>2, <2>3, <2>4, ReplayKept, Roles DEF ReplayInv
  <2> QED BY <2>1, <2>5 DEF ReplayInv, ArrivedAccepted, KeptBeyond, CursorAhead
<1>2. CASE c \in Emitters /\ AppendSpool(c)
  <2>1. /\ pc[c] = "append" /\ lastSeq' = lastSeq + 1 /\ spool' = spool \cup {lastSeq + 1}
        /\ UNCHANGED <<phase, checkpoint, trk>>
        /\ \A d \in Goroutines \ {c} : pc'[d] = pc[d] /\ at'[d] = at[d]
        /\ pc'[c] = "register" /\ at'[c] = lastSeq + 1
    BY <1>0, <1>2 DEF AppendSpool, runVars
  <2>2. phase # "replay"
    BY <1>2, <2>1 DEF SafeInv, ReplayFirst
  <2>3. \A q \in 1..lastSeq' : q \in 1..lastSeq \/ q = lastSeq + 1
    BY <1>0, <2>1
  <2>4. ASSUME phase = "live", NEW q \in 1..lastSeq'
        PROVE  HasArrived(q)' \/ \E d \in Emitters : pc'[d] = "register" /\ at'[d] = q
    <3>1. CASE q = lastSeq + 1
      BY <1>2, <2>1, <3>1
    <3>2. CASE q \in 1..lastSeq
      <4>1. HasArrived(q) \/ \E d \in Emitters : pc[d] = "register" /\ at[d] = q
        BY <2>4, <3>2 DEF ReplayInv, ReplayComplete
      <4>2. HasArrived(q) => HasArrived(q)'
        BY <2>1 DEF HasArrived
      <4> QED BY <2>1, <4>1, <4>2, Roles
    <3> QED BY <2>3, <3>1, <3>2
  <2>5. ReplayComplete'
    BY <2>1, <2>2, <2>4 DEF ReplayComplete
  <2>6. KeptBeyond'
    BY <2>1, <2>3 DEF ReplayInv, KeptBeyond
  <2> QED BY <1>0, <2>1, <2>5, <2>6 DEF ReplayInv, ArrivedAccepted, CursorAhead
<1>3. CASE Register(c)
  <2>1. PICK q \in Seqs : q = at[c] /\ q <= lastSeq
    BY <1>3 DEF Register, TypeInv, RowsHeld
  <2>2. /\ pc[c] = "register" /\ pc' = [pc EXCEPT ![c] = "dispatch"]
        /\ UNCHANGED <<lastSeq, checkpoint, spool, phase, scan, page, more, at>>
    BY <1>3 DEF Register, storeVars, runVars, scanVars
  <2>3. PICK node, srcSeq : trk' = arrived(trk, q, node, srcSeq)
    BY <1>3, <2>1 DEF Register
  <2>4. trk'.arrivedMax = IF q > trk.arrivedMax THEN q ELSE trk.arrivedMax
    BY <1>0, <2>3, ArrivedSound DEF SlotInv
  <2>5. /\ trk'.open = trk.open \cup {q} /\ trk'.removed = trk.removed
        /\ trk'.committedPtr = trk.committedPtr
    BY <1>0, <2>3 DEF arrived, Tracker
  <2>6. HasArrived(q)' /\ \A r \in 1..lastSeq : HasArrived(r) => HasArrived(r)'
    BY <2>5 DEF HasArrived
  <2>7. \A d \in Goroutines \ {c} : pc'[d] = pc[d]
    BY <1>0, <2>2
  <2>8. \A r \in 1..lastSeq : r = at[c] => HasArrived(r)'
    BY <2>1, <2>6
  <2>9. ReplayComplete'
    BY <2>2, <2>6, <2>7, <2>8, ReplayKept, Roles DEF ReplayInv
  <2> QED BY <1>0, <2>1, <2>2, <2>4, <2>5, <2>9
        DEF ReplayInv, ArrivedAccepted, KeptBeyond, CursorAhead
<1> QED BY <1>1, <1>2, <1>3

\* A step on the tracker that loses no row and moves the cursor forward only.
LEMMA ReplayMoved ==
  ASSUME TypeInv, TypeInv', ReplayInv,
         UNCHANGED <<lastSeq, checkpoint, spool, phase, scan, page, more>>,
         trk'.arrivedMax = trk.arrivedMax, trk.committedPtr <= trk'.committedPtr,
         \A r \in trk.open \cup trk.removed :
           r < trk'.committedPtr \/ r \in trk'.open \cup trk'.removed,
         \A c \in Callers : pc[c] \in {"gate", "register"} => pc'[c] = pc[c] /\ at'[c] = at[c]
  PROVE  ReplayInv'
<1>1. /\ trk.committedPtr \in Nat /\ trk'.committedPtr \in Nat /\ checkpoint \in Nat
      /\ lastSeq \in Nat
  BY Fields DEF TypeInv, TypeOK, Ptrs
<1>2. \A q \in 1..lastSeq : HasArrived(q) => HasArrived(q)'
  BY <1>1 DEF HasArrived
<1>3. ReplayComplete'
  BY <1>2, ReplayKept, Roles DEF ReplayInv
<1> QED BY <1>1, <1>3 DEF ReplayInv, ArrivedAccepted, KeptBeyond, CursorAhead

\* Dispatches and deliveries.
LEMMA ReplayDeliver ==
  ASSUME TypeInv, TypeInv', SafeInv, SafeInv', SlotInv, ReplayInv,
         (\E c \in Callers : Dispatch(c)) \/ (\E w \in Workers : Work(w))
  PROVE  ReplayInv'
<1>1. UNCHANGED <<lastSeq, checkpoint, spool, phase, scan, page, more, at>>
  BY DEF Dispatch, Work, storeVars, runVars, scanVars
<1>2. /\ trk'.arrivedMax = trk.arrivedMax
      /\ \A r \in trk.open \cup trk.removed :
           r < trk'.committedPtr \/ r \in trk'.open \cup trk'.removed
      /\ trk.committedPtr <= trk'.committedPtr
      /\ \A c \in Callers : pc'[c] = pc[c] \/ (pc[c] = "dispatch" /\ pc'[c] = "return")
  BY SlotDeliver
<1> QED BY <1>1, <1>2, ReplayMoved

\* The callbacks of a sweep: a checkpoint moves behind the cursor only, and
\* retention trims behind the checkpoint.
LEMMA ReplayCallbacks ==
  ASSUME TypeInv, TypeInv', SafeInv, SlotInv, ReplayInv,
         \/ \E g \in Goroutines : OnCommit(g) \/ persistCheckpoint(g) \/ persistCheckpointFails(g)
         \/ \E s \in Sources : SourceCommit(s)
  PROVE  ReplayInv'
<1>1. UNCHANGED <<lastSeq, phase, trk, scan, page, more, pc, at>>
  BY DEF OnCommit, persistCheckpoint, persistCheckpointFails, SourceCommit, storeVars, runVars,
     scanVars, goVars
<1>2. /\ trk.committedPtr \in Nat /\ trk.arrivedMax \in Nat /\ lastSeq \in Nat
      /\ checkpoint \in Nat /\ checkpoint' \in Nat
  BY Fields DEF TypeInv, TypeOK, Ptrs
<1>3. ReplayComplete'
  BY <1>1 DEF ReplayInv, ReplayComplete, HasArrived, Unread
<1>4. CASE UNCHANGED <<spool, checkpoint>>
  BY <1>1, <1>3, <1>4 DEF ReplayInv, ArrivedAccepted, KeptBeyond, CursorAhead
<1>5. ASSUME NEW g \in Goroutines, persistCheckpoint(g) PROVE ReplayInv'
  <2>1. checkpoint' >= checkpoint /\ \A q \in spool \ spool' : q <= checkpoint'
    BY <1>5, FlushBehind
  <2>2. checkpoint' = checkpoint \/ (checkpoint' = call[g].through /\ call[g].advanced)
    BY <1>5 DEF persistCheckpoint
  <2>3. checkpoint' = checkpoint \/ checkpoint' < trk.committedPtr
    BY <2>2 DEF SafeInv, CallsBehind
  <2>4. trk.committedPtr <= trk.arrivedMax + 1
    BY DEF SlotInv, TrackerSound, Swept, StopsAt
  <2>5. ArrivedAccepted'
    BY <1>1, <1>2, <2>3, <2>4 DEF ReplayInv, ArrivedAccepted
  <2>6. CursorAhead'
    BY <1>1, <2>3 DEF ReplayInv, CursorAhead
  <2>7. KeptBeyond'
    BY <1>1, <1>2, <2>1 DEF ReplayInv, KeptBeyond
  <2> QED BY <1>3, <2>5, <2>6, <2>7 DEF ReplayInv
<1>6. (\E g \in Goroutines : persistCheckpoint(g)) \/ UNCHANGED <<spool, checkpoint>>
  BY DEF OnCommit, persistCheckpointFails, SourceCommit, storeVars
<1> QED BY <1>4, <1>5, <1>6

\* The steps of Abandon.
LEMMA ReplayAbandon ==
  ASSUME TypeInv, TypeInv', SafeInv, SlotInv, ReplayInv,
         Abandon \/ AbandonRows \/ AbandonWrite \/ AbandonGivesUp \/ AbandonForce \/ AbandonNext
  PROVE  ReplayInv'
<1>0. /\ pc \in [Goroutines -> PcSet] /\ at \in [Goroutines -> 0..MaxSeq]
      /\ trk \in Tracker /\ Bounded(trk, emitted) /\ emitted \in [Sources -> Nat]
      /\ abandonPage \in SUBSET Seqs
  BY DEF TypeInv, TypeOK, PcSet
<1>1. /\ UNCHANGED <<lastSeq, checkpoint, spool, phase, scan, page, more>>
      /\ \A c \in Callers : pc'[c] = pc[c] /\ at'[c] = at[c]
  BY <1>0, Roles DEF Abandon, AbandonRows, AbandonWrite, AbandonGivesUp, AbandonForce, AbandonNext,
     storeVars, runVars, scanVars
<1>2. CASE ~ AbandonForce
  <2>1. trk' = trk
    BY <1>2 DEF Abandon, AbandonRows, AbandonWrite, AbandonGivesUp, AbandonNext
  <2>2. trk.committedPtr <= trk'.committedPtr
    BY <1>0, <2>1, Fields DEF Ptrs
  <2> QED BY <1>1, <2>1, <2>2, ReplayMoved
<1>3. CASE AbandonForce
  <2>1. PICK q \in Seqs : q = Min(abandonPage)
    BY <1>0, <1>3, MinOfRows DEF AbandonForce, TypeInv, AbandonHolds
  <2>2. PICK p \in Ptrs : forceStopsAt(trk, q, p) /\ trk' = forceTerminal(trk, q, p)
    BY <1>3, <2>1 DEF AbandonForce
  <2>3. /\ trk'.arrivedMax = trk.arrivedMax
        /\ \A r \in trk.open \cup trk.removed :
             r < trk'.committedPtr \/ r \in trk'.open \cup trk'.removed
    BY <1>0, <2>2, ForceSound DEF SlotInv
  <2>4. trk.committedPtr <= trk'.committedPtr
    BY <1>0, <2>2, ForceType
  <2> QED BY <1>1, <2>3, <2>4, ReplayMoved
<1> QED BY <1>2, <1>3

\* Every step keeps what replay has to do.
LEMMA ReplayStep ==
  TypeInv /\ TypeInv' /\ SafeInv /\ SafeInv' /\ SlotInv /\ ReplayInv /\ [Next]_vars => ReplayInv'
<1> SUFFICES ASSUME TypeInv, TypeInv', SafeInv, SafeInv', SlotInv, ReplayInv, [Next]_vars
             PROVE  ReplayInv'
  OBVIOUS
<1>1. CASE Start \/ Cancel \/ Shutdown \/ Crash
  BY <1>1, ReplayLifecycle
<1>2. CASE resumeCheckpoint \/ ReplayPage \/ ReplayRow \/ ReplayOrphan \/ ReplayDone
  BY <1>2, ReplayReplay
<1>3. ASSUME NEW c \in Emitters, Emit(c) \/ AppendSpool(c) \/ AppendRefused(c)
      PROVE  ReplayInv'
  BY <1>3, ReplayAdmit, Roles
<1>4. ASSUME NEW c \in Callers, Gate(c) \/ GateRefused(c) \/ Register(c) \/ Return(c)
      PROVE  ReplayInv'
  BY <1>4, ReplayAdmit
<1>5. CASE (\E c \in Callers : Dispatch(c)) \/ (\E w \in Workers : Work(w))
  BY <1>5, ReplayDeliver
<1>6. CASE \/ \E g \in Goroutines : OnCommit(g) \/ persistCheckpoint(g) \/ persistCheckpointFails(g)
           \/ \E s \in Sources : SourceCommit(s)
  BY <1>6, ReplayCallbacks
<1>7. CASE Abandon \/ AbandonRows \/ AbandonWrite \/ AbandonGivesUp \/ AbandonForce \/ AbandonNext
  BY <1>7, ReplayAbandon
<1>8. CASE UNCHANGED vars
  BY <1>8 DEF vars, ReplayInv, ArrivedAccepted, KeptBeyond, CursorAhead, ReplayComplete,
       HasArrived, Unread, storeVars, runVars, scanVars, goVars
<1> QED BY <1>1, <1>2, <1>3, <1>4, <1>5, <1>6, <1>7, <1>8, Zenon DEF Next, Emitters
-----------------------------------------------------------------------------
\* The ledgers and the replay obligations hold in every reachable state.
LEMMA LedgerInvariant ==
  ASSUME EarlyInject = FALSE
  PROVE  Spec => [](TypeInv /\ SafeInv /\ SlotInv /\ ReplayInv)
<1>1. TypeInv /\ TypeInv' /\ SafeInv /\ SafeInv' /\ SlotInv /\ [Next]_vars => SlotInv'
  BY SlotStep
<1> QED BY <1>1, SlotInit, ReplayInit, ReplayStep, Invariant, PTL DEF Spec

(***************************************************************************)
(* The slots taken at the admission gate are the rows of the ledger and    *)
(* the admissions on their way, never more than the high watermark, and no *)
(* slot is leaked or given back twice; and the branch counts of the commit *)
(* tracker, its running sum included, are the branches really in flight.   *)
(***************************************************************************)
THEOREM LedgersExact ==
  ASSUME EarlyInject = FALSE
  PROVE  Spec => []Accounted
<1>1. TypeInv /\ SlotInv => SlotsAccounted
  <2> SUFFICES ASSUME TypeInv, SlotInv PROVE SlotsAccounted
    OBVIOUS
  <2>1. /\ acquired \in SUBSET Seqs /\ HighWatermark \in Nat /\ IsFiniteSet(Admitting)
        /\ gate = Cardinality(acquired) + Cardinality(Admitting) /\ gate <= HighWatermark
    BY CommitPathAssumption DEF TypeInv, TypeOK, SlotInv, SlotsCounted
  <2>2. Cardinality(acquired) \in Nat /\ Cardinality(Admitting) \in Nat
    BY <2>1, LedgerCounts, FS_CardinalityType
  <2>3. gate \in 0..HighWatermark
    BY <2>1, <2>2
  <2> QED BY <2>1, <2>3 DEF SlotsAccounted, Admitting, SlotInv, Reclaimable, Owed
<1>2. TypeInv /\ SafeInv /\ SlotInv => BranchesCounted
  <2> SUFFICES ASSUME TypeInv, SafeInv, SlotInv PROVE BranchesCounted
    OBVIOUS
  <2>0. trk.n \in [Seqs -> Int] /\ trk.open \in SUBSET Seqs
    BY Fields DEF TypeInv, TypeOK
  <2>1. /\ \A q \in Seqs \ trk.open : trk.n[q] = 0
        /\ trk.openBranches = Cardinality(Units(trk.n))
    BY DEF SlotInv, TrackerSound, Booked
  <2> DEFINE inMap == UNION {{q} \X (1..trk.n[q]) : q \in trk.open}
  <2>2. Units(trk.n) = inMap
    <3>1. ASSUME NEW u \in Units(trk.n) PROVE u \in inMap
      <4>1. PICK q \in Seqs, i \in Nat \ {0} : u = <<q, i>> /\ i <= trk.n[q]
        BY DEF Units
      <4>2. q \in trk.open /\ i \in 1..trk.n[q]
        BY <2>0, <2>1, <4>1
      <4> QED BY <4>1, <4>2
    <3>2. ASSUME NEW u \in inMap PROVE u \in Units(trk.n)
      <4>1. PICK q \in trk.open : u \in {q} \X (1..trk.n[q])
        OBVIOUS
      <4>2. PICK i \in 1..trk.n[q] : u = <<q, i>>
        BY <4>1
      <4>3. q \in Seqs /\ i \in Nat \ {0} /\ i <= trk.n[q]
        BY <2>0, <4>2
      <4> QED BY <4>2, <4>3 DEF Units
    <3> HIDE DEF inMap
    <3> QED BY <3>1, <3>2
  <2> HIDE DEF inMap
  <2>3. trk.openBranches = Cardinality(inMap)
    BY <2>1, <2>2, Zenon
  <2>4. \A q \in Seqs \ trk.open : (\E x \in Copies : live[q][x] > 0) => q \in settled
    BY DEF SlotInv, DrainedSettled, Idle, Copies
  <2> QED BY <2>3, <2>4 DEF BranchesCounted, inMap, SafeInv, CountsTrue
<1> QED BY <1>1, <1>2, LedgerInvariant, PTL DEF Accounted

(***************************************************************************)
(* Crash replay forgets nothing: once it is done, an accepted row that is  *)
(* not settled has an open branch in this run, or the goroutine that       *)
(* appended it is about to register it (replaySpool, ReplayFrom).          *)
(***************************************************************************)
THEOREM ReplayForgetsNothing ==
  ASSUME EarlyInject = FALSE
  PROVE  Spec => []NothingForgotten
<1>1. TypeInv /\ SafeInv /\ ReplayInv => NothingForgotten
  <2> SUFFICES ASSUME TypeInv, SafeInv, ReplayInv, phase = "live",
                      NEW q \in 1..lastSeq, q \notin settled
               PROVE  \/ \E x \in Copies : live[q][x] > 0
                      \/ \E c \in Sources \cup Injectors : pc[c] = "register" /\ at[c] = q
    BY DEF NothingForgotten
  <2>1. q \in Seqs /\ live[q] \in [Copies -> Nat] /\ trk \in Tracker
    BY MaxSeqAssumption DEF TypeInv, TypeOK, Seqs
  <2>2. HasArrived(q) \/ \E c \in Emitters : pc[c] = "register" /\ at[c] = q
    BY DEF ReplayInv, ReplayComplete
  <2>3. CASE HasArrived(q)
    <3>1. q \in trk.open
      BY <2>1, <2>3 DEF HasArrived, SafeInv, PrefixSettled, MarksSettled
    <3>2. trk.n[q] = live[q]["emitted"] + live[q]["replayed"] /\ ~ (trk.n[q] <= 0)
      BY <3>1 DEF SafeInv, CountsTrue
    <3>3. "emitted" \in Copies /\ "replayed" \in Copies
      BY DEF Copies
    <3> QED BY <2>1, <3>2, <3>3
  <2> QED BY <2>2, <2>3 DEF Emitters
<1> QED BY <1>1, LedgerInvariant, PTL

(***************************************************************************)
(* A job that polls Quiesced and stops its engine stops one with nothing   *)
(* left: every row ever spooled is settled, and the prefix has crossed     *)
(* them all.                                                               *)
(***************************************************************************)
THEOREM QuiescenceSound ==
  ASSUME EarlyInject = FALSE
  PROVE  Spec => []QuiescedMeansDone
<1>1. TypeInv /\ SafeInv /\ SlotInv /\ ReplayInv => QuiescedMeansDone
  <2> SUFFICES ASSUME TypeInv, SafeInv, SlotInv, ReplayInv, Quiesced
               PROVE  1..lastSeq \subseteq settled /\ trk.committedPtr = lastSeq + 1
    BY DEF QuiescedMeansDone
  <2>0. /\ trk.n \in [Seqs -> Int] /\ trk.open \in SUBSET Seqs /\ trk.removed \in SUBSET Seqs
        /\ trk.committedPtr \in Ptrs /\ trk.arrivedMax \in 0..MaxSeq /\ lastSeq \in 0..MaxSeq
    BY Fields DEF TypeInv, TypeOK
  <2>1. \A q \in Seqs : trk.n[q] <= 0
    <3>1. Units(trk.n) = {}
      BY FS_EmptySet DEF Quiesced, SlotInv, TrackerSound, Booked
    <3> SUFFICES ASSUME NEW q \in Seqs, ~ (trk.n[q] <= 0) PROVE FALSE
      OBVIOUS
    <3>2. 1 <= trk.n[q]
      BY <2>0
    <3>3. <<q, 1>> \in Units(trk.n)
      BY <3>2 DEF Units
    <3> QED BY <3>1, <3>3
  <2>2. \A q \in 1..lastSeq : HasArrived(q)
    BY Roles DEF Quiesced, ReplayInv, ReplayComplete
  <2>3. lastSeq < trk.committedPtr
    <3> DEFINE p == trk.committedPtr
    <3> SUFFICES ASSUME p <= lastSeq PROVE FALSE
      BY <2>0 DEF Ptrs
    <3>1. p \in 1..lastSeq /\ p \in Seqs /\ ~ (p < p)
      BY <2>0, MaxSeqAssumption DEF Ptrs, Seqs
    <3>2. p \in trk.open \cup trk.removed
      BY <2>2, <3>1 DEF HasArrived
    <3>3. p <= trk.arrivedMax
      BY <3>2 DEF SlotInv, TrackerSound, Booked
    <3>4. ~ Passable(trk, p)
      BY <3>3 DEF SlotInv, TrackerSound, Swept, StopsAt
    <3> QED BY <2>1, <3>1, <3>2, <3>4 DEF Passable
  <2>4. trk.committedPtr <= trk.arrivedMax + 1
    BY DEF SlotInv, TrackerSound, Swept, StopsAt
  <2>5. trk.committedPtr = lastSeq + 1
    BY <2>0, <2>3, <2>4 DEF ReplayInv, ArrivedAccepted, Ptrs
  <2>6. \A q \in 1..lastSeq : q \in Seqs /\ q < trk.committedPtr
    BY <2>0, <2>5, MaxSeqAssumption DEF Seqs
  <2> QED BY <2>5, <2>6 DEF SafeInv, PrefixSettled
<1> QED BY <1>1, LedgerInvariant, PTL

-----------------------------------------------------------------------------
(***************************************************************************)
(* The state of the sources.  The argument follows an item from its        *)
(* emission: the row it is spooled as, the reference the tracker keeps for *)
(* that row, the sweep that pops the reference once the prefix has passed  *)
(* the row, the frontier of the source, the frontiers a call carries to    *)
(* persistCheckpoint, and what the committer posts and writes.             *)
(***************************************************************************)

\* The emissions of s whose references a sweep up to L pops.
PoppedSeqs(t, s, L) == {r.srcSeq : r \in {e \in t.srcRefs : e.seq <= L /\ e.node = s}}

\* The frontier of a source moves over arrivals that are swept.
LEMMA NextFrontSwept ==
  ASSUME NEW st \in SrcTracker, NEW b \in Nat, st.arrivedAt \subseteq 1..b
  PROVE  /\ NextFront(st) = st.front \/ NextFront(st) \in st.arrivedAt
         /\ (st.front + 1)..NextFront(st) \subseteq st.committedAt
<1> DEFINE swept == st.arrivedAt \cap st.committedAt
           F == {f \in {st.front} \cup swept : f >= st.front /\ (st.front + 1)..f \subseteq swept}
<1>1. st.front \in Nat /\ swept \subseteq Nat
  BY DEF SrcTracker
<1>2. F \in SUBSET Nat /\ st.front \in F
  BY <1>1
<1>3. \A y \in F : y <= st.front + b
  BY <1>1
<1>4. Max(F) \in F
  <2>1. st.front + b \in Nat /\ F # {}
    BY <1>1, <1>2
  <2> HIDE DEF F
  <2> QED BY <1>2, <1>3, <2>1, MaxNat, Zenon
<1>5. NextFront(st) = Max(F)
  BY DEF NextFront
<1>6. NextFront(st) \in F
  BY <1>4, <1>5
<1> QED BY <1>6

\* What one sweep does to one source: its frontier moves up, to an arrival, over
\* emissions that were committed or are in seqs, and nothing else becomes committed.
LEMMA SrcCommittedMoves ==
  ASSUME NEW st \in SrcTracker, NEW b \in Nat, st.arrivedAt \subseteq 1..b,
         NEW seqs \in SUBSET (Nat \ {0})
  PROVE  LET u == srcCommitted(st, seqs) IN
         /\ st.front <= u.front
         /\ u.front = st.front \/ u.front \in st.arrivedAt
         /\ u.arrivedAt \subseteq st.arrivedAt
         /\ u.committedAt \subseteq st.committedAt \cup seqs
         /\ (st.front + 1)..u.front \subseteq st.committedAt \cup seqs
<1> DEFINE st1 == [st EXCEPT !.committedAt = @ \cup seqs]
<1>1. /\ st1 \in SrcTracker /\ st1.arrivedAt = st.arrivedAt
      /\ st1.front = st.front /\ st1.committedAt = st.committedAt \cup seqs
  BY DEF SrcTracker
<1>2. /\ NextFront(st1) >= st1.front
      /\ NextFront(st1) = st1.front \/ NextFront(st1) \in st1.arrivedAt
      /\ (st1.front + 1)..NextFront(st1) \subseteq st1.committedAt
  <2> HIDE DEF st1
  <2> QED BY <1>1, NextFrontNat, NextFrontSwept
<1>3. LET u == srcCommitted(st, seqs) IN
      /\ u.front = NextFront(st1)
      /\ u.arrivedAt \subseteq st1.arrivedAt /\ u.committedAt \subseteq st1.committedAt
  BY DEF srcCommitted
<1> HIDE DEF st1
<1> QED BY <1>1, <1>2, <1>3 DEF SrcTracker
-----------------------------------------------------------------------------
(***************************************************************************)
(* From t to u references up to L were popped and nothing else happened to *)
(* the sources.                                                            *)
(***************************************************************************)
SrcMoved(t, u, L) ==
  /\ u.srcRefs \subseteq t.srcRefs
  /\ \A s \in Sources :
       /\ t.srcs[s].front <= u.srcs[s].front
       /\ u.srcs[s].front = t.srcs[s].front \/ u.srcs[s].front \in t.srcs[s].arrivedAt
       /\ u.srcs[s].arrivedAt \subseteq t.srcs[s].arrivedAt
       /\ u.srcs[s].committedAt \subseteq t.srcs[s].committedAt \cup PoppedSeqs(t, s, L)
       /\ (t.srcs[s].front + 1)..u.srcs[s].front
            \subseteq t.srcs[s].committedAt \cup PoppedSeqs(t, s, L)

\* Nothing popped is a case of it.
LEMMA SrcStays ==
  ASSUME NEW t \in Tracker, NEW u, u.srcs = t.srcs, u.srcRefs = t.srcRefs, NEW L \in Int
  PROVE  SrcMoved(t, u, L)
<1>1. \A s \in Sources : t.srcs[s].front \in Nat
  BY DEF Tracker, SrcTracker
<1> QED BY <1>1 DEF SrcMoved

\* Two sweeps up to the same row are one.
LEMMA SrcMovedTwice ==
  ASSUME NEW t \in Tracker, NEW u \in Tracker, NEW v \in Tracker, NEW L \in Int,
         SrcMoved(t, u, L), SrcMoved(u, v, L)
  PROVE  SrcMoved(t, v, L)
<1> SUFFICES ASSUME NEW s \in Sources
             PROVE  /\ t.srcs[s].front <= v.srcs[s].front
                    /\ v.srcs[s].front = t.srcs[s].front \/ v.srcs[s].front \in t.srcs[s].arrivedAt
                    /\ v.srcs[s].arrivedAt \subseteq t.srcs[s].arrivedAt
                    /\ v.srcs[s].committedAt \subseteq t.srcs[s].committedAt \cup PoppedSeqs(t, s, L)
                    /\ (t.srcs[s].front + 1)..v.srcs[s].front
                         \subseteq t.srcs[s].committedAt \cup PoppedSeqs(t, s, L)
  BY DEF SrcMoved
<1>1. t.srcs[s].front \in Nat /\ u.srcs[s].front \in Nat /\ v.srcs[s].front \in Nat
  BY DEF Tracker, SrcTracker
<1>2. PoppedSeqs(u, s, L) \subseteq PoppedSeqs(t, s, L)
  BY DEF SrcMoved, PoppedSeqs
<1>3. /\ t.srcs[s].front <= u.srcs[s].front
      /\ u.srcs[s].front = t.srcs[s].front \/ u.srcs[s].front \in t.srcs[s].arrivedAt
      /\ u.srcs[s].arrivedAt \subseteq t.srcs[s].arrivedAt
      /\ u.srcs[s].committedAt \subseteq t.srcs[s].committedAt \cup PoppedSeqs(t, s, L)
      /\ (t.srcs[s].front + 1)..u.srcs[s].front
           \subseteq t.srcs[s].committedAt \cup PoppedSeqs(t, s, L)
  BY DEF SrcMoved
<1>4. /\ u.srcs[s].front <= v.srcs[s].front
      /\ v.srcs[s].front = u.srcs[s].front \/ v.srcs[s].front \in u.srcs[s].arrivedAt
      /\ v.srcs[s].arrivedAt \subseteq u.srcs[s].arrivedAt
      /\ v.srcs[s].committedAt \subseteq u.srcs[s].committedAt \cup PoppedSeqs(u, s, L)
      /\ (u.srcs[s].front + 1)..v.srcs[s].front
           \subseteq u.srcs[s].committedAt \cup PoppedSeqs(u, s, L)
  BY DEF SrcMoved
<1>5. \A i \in (t.srcs[s].front + 1)..v.srcs[s].front :
        \/ i \in (t.srcs[s].front + 1)..u.srcs[s].front
        \/ i \in (u.srcs[s].front + 1)..v.srcs[s].front
  BY <1>1
<1>6. (t.srcs[s].front + 1)..v.srcs[s].front
         \subseteq t.srcs[s].committedAt \cup PoppedSeqs(t, s, L)
  BY <1>2, <1>3, <1>4, <1>5, Zenon
<1> QED BY <1>1, <1>2, <1>3, <1>4, <1>6

\* sweepSrcRefsLocked pops references up to through.
LEMMA SweepMoves ==
  ASSUME NEW t \in Tracker, NEW b \in [Sources -> Nat], Bounded(t, b), NEW through \in Int
  PROVE  SrcMoved(t, sweepSrcRefsLocked(t, through), through)
<1> DEFINE popped == {r \in t.srcRefs : r.seq <= through}
           mine(s) == {r \in popped : r.node = s}
           seqs(s) == {r.srcSeq : r \in mine(s)}
           new == [s \in Sources |-> IF mine(s) = {} THEN t.srcs[s]
                                     ELSE srcCommitted(t.srcs[s], seqs(s))]
<1>1. sweepSrcRefsLocked(t, through) = [t EXCEPT !.srcRefs = @ \ popped, !.srcs = new]
  BY Zenon DEF sweepSrcRefsLocked
<1>2. \A s \in Sources : seqs(s) \in SUBSET (Nat \ {0}) /\ seqs(s) = PoppedSeqs(t, s, through)
  BY DEF Tracker, SrcRef, PoppedSeqs
<1>3. ASSUME NEW s \in Sources
      PROVE  /\ t.srcs[s].front <= new[s].front
             /\ new[s].front = t.srcs[s].front \/ new[s].front \in t.srcs[s].arrivedAt
             /\ new[s].arrivedAt \subseteq t.srcs[s].arrivedAt
             /\ new[s].committedAt \subseteq t.srcs[s].committedAt \cup PoppedSeqs(t, s, through)
             /\ (t.srcs[s].front + 1)..new[s].front
                  \subseteq t.srcs[s].committedAt \cup PoppedSeqs(t, s, through)
  <2> HIDE DEF seqs
  <2>1. t.srcs[s] \in SrcTracker /\ t.srcs[s].arrivedAt \subseteq 1..b[s] /\ b[s] \in Nat
        /\ t.srcs[s].front \in Nat
    BY DEF Tracker, Bounded, SrcTracker
  <2>2. CASE mine(s) = {}
    <3>1. new[s] = t.srcs[s]
      BY <2>2
    <3> QED BY <2>1, <3>1
  <2>3. CASE mine(s) # {}
    <3>1. new[s] = srcCommitted(t.srcs[s], seqs(s))
      BY <2>3
    <3> HIDE DEF new, mine
    <3> QED BY <1>2, <2>1, <3>1, SrcCommittedMoves
  <2> QED BY <2>2, <2>3
<1> HIDE DEF new, popped
<1>4. /\ sweepSrcRefsLocked(t, through).srcs = new
      /\ sweepSrcRefsLocked(t, through).srcRefs \subseteq t.srcRefs
  BY <1>1 DEF Tracker
<1> QED BY <1>3, <1>4 DEF SrcMoved

\* advanceLocked pops the references of the rows it has crossed.
LEMMA AdvanceMoves ==
  ASSUME NEW t \in Tracker, NEW b \in [Sources -> Nat], Bounded(t, b),
         NEW p \in Ptrs, StopsAt(t, p)
  PROVE  SrcMoved(t, advanceLocked(t, p), p - 1)
<1> DEFINE crossed == t.committedPtr..(p - 1)
           newN == [q \in Seqs |-> IF q \in crossed THEN 0 ELSE t.n[q]]
           t1 == [t EXCEPT !.open = @ \ crossed, !.removed = @ \ crossed,
                           !.n = newN, !.committedPtr = p]
<1>1. p - 1 \in Int
  BY DEF Ptrs
<1>2. CASE crossed = {}
  <2>1. advanceLocked(t, p) = t
    BY <1>2 DEF advanceLocked
  <2> QED BY <1>1, <2>1, SrcStays
<1>3. CASE crossed # {}
  <2>1. advanceLocked(t, p) = sweepSrcRefsLocked(t1, p - 1)
    BY <1>3, Zenon DEF advanceLocked
  <2>2. t1 \in Tracker /\ t1.srcs = t.srcs /\ t1.srcRefs = t.srcRefs
    <3>1. newN \in [Seqs -> Int]
      BY Fields
    <3> HIDE DEF newN
    <3> QED BY <3>1 DEF Tracker
  <2> HIDE DEF t1
  <2>3. SrcMoved(t1, sweepSrcRefsLocked(t1, p - 1), p - 1)
    BY <1>1, <2>2, SweepMoves DEF Bounded
  <2> QED BY <2>1, <2>2, <2>3 DEF SrcMoved, PoppedSeqs
<1> QED BY <1>2, <1>3

\* add pops references behind the cursor it leaves.
LEMMA AddMoves ==
  ASSUME NEW t \in Tracker, NEW b \in [Sources -> Nat], Bounded(t, b),
         NEW q \in Seqs, NEW delta \in Int, NEW p \in Ptrs, addStopsAt(t, q, delta, p)
  PROVE  SrcMoved(t, add(t, q, delta, p), add(t, q, delta, p).committedPtr - 1)
<1> DEFINE t1 == Counted(t, q, delta)
           t2 == advanceLocked(t1, p)
<1>1. CASE q \notin t.open
  <2>1. add(t, q, delta, p) = t /\ t.committedPtr - 1 \in Int
    BY <1>1 DEF add, Tracker, Ptrs
  <2> QED BY <2>1, SrcStays
<1>2. CASE q \in t.open
  <2>1. t1 \in Tracker /\ t1.srcs = t.srcs /\ t1.srcRefs = t.srcRefs
    <3> DEFINE newN == [t.n EXCEPT ![q] = @ + delta]
               newSum == t.openBranches + posBranches(t.n[q] + delta) - posBranches(t.n[q])
    <3>1. newN \in [Seqs -> Int]
      BY Fields
    <3>2. newSum \in Int
      <4>1. t.n[q] \in Int /\ t.openBranches \in Int
        BY Fields
      <4>2. posBranches(t.n[q] + delta) \in Int /\ posBranches(t.n[q]) \in Int
        BY <4>1 DEF posBranches
      <4> QED BY <4>1, <4>2
    <3>3. t1 = [t EXCEPT !.n = newN, !.openBranches = newSum]
      BY DEF Counted
    <3> HIDE DEF newN, newSum, t1
    <3> QED BY <3>1, <3>2, <3>3 DEF Tracker
  <2>2. Bounded(t1, b) /\ StopsAt(t1, p)
    BY <1>2, <2>1 DEF addStopsAt, Bounded
  <2> HIDE DEF t1
  <2>3. t2 \in Tracker /\ Bounded(t2, b) /\ t2.committedPtr = p
    BY <2>1, <2>2, AdvanceType
  <2>4. SrcMoved(t, t2, p - 1)
    <3>1. SrcMoved(t1, t2, p - 1)
      BY <2>1, <2>2, AdvanceMoves
    <3> QED BY <2>1, <3>1 DEF SrcMoved, PoppedSeqs
  <2> HIDE DEF t2
  <2>5. CASE ~ Straggler(t1, q)
    <3>1. add(t, q, delta, p) = t2
      BY <1>2, <2>5 DEF add, t1, t2
    <3> QED BY <2>3, <2>4, <3>1
  <2>6. CASE Straggler(t1, q)
    <3> DEFINE newN == [t2.n EXCEPT ![q] = 0]
               t3 == [t2 EXCEPT !.open = @ \ {q}, !.n = newN]
    <3>1. add(t, q, delta, p) = sweepSrcRefsLocked(t3, p - 1)
      BY <1>2, <2>6 DEF add, t1, t2
    <3>2. /\ t3 \in Tracker /\ t3.srcs = t2.srcs /\ t3.srcRefs = t2.srcRefs
          /\ t3.committedPtr = p
      <4>1. newN \in [Seqs -> Int]
        BY <2>3, Fields
      <4> HIDE DEF newN
      <4> QED BY <2>3, <4>1 DEF Tracker
    <3>3. p - 1 \in Int
      BY DEF Ptrs
    <3>4. Bounded(t3, b)
      BY <2>3, <3>2 DEF Bounded
    <3> HIDE DEF t3
    <3>5. LET u == sweepSrcRefsLocked(t3, p - 1) IN
          u \in Tracker /\ u.committedPtr = p /\ SrcMoved(t3, u, p - 1)
      BY <3>2, <3>3, <3>4, SweepType, SweepMoves
    <3>6. SrcMoved(t2, sweepSrcRefsLocked(t3, p - 1), p - 1)
      BY <3>2, <3>5 DEF SrcMoved, PoppedSeqs
    <3> QED BY <2>3, <2>4, <3>1, <3>3, <3>5, <3>6, SrcMovedTwice
  <2> QED BY <2>5, <2>6
<1> QED BY <1>1, <1>2

\* forceTerminal likewise.
LEMMA ForceMoves ==
  ASSUME NEW t \in Tracker, NEW b \in [Sources -> Nat], Bounded(t, b),
         NEW q \in Seqs, NEW p \in Ptrs, forceStopsAt(t, q, p)
  PROVE  SrcMoved(t, forceTerminal(t, q, p), forceTerminal(t, q, p).committedPtr - 1)
<1> DEFINE t1 == Dropped(t, q)
<1>1. CASE q \notin t.open
  <2>1. forceTerminal(t, q, p) = t /\ t.committedPtr - 1 \in Int
    BY <1>1 DEF forceTerminal, Tracker, Ptrs
  <2> QED BY <2>1, SrcStays
<1>2. CASE q \in t.open
  <2>1. t1 \in Tracker /\ t1.srcs = t.srcs /\ t1.srcRefs = t.srcRefs
    <3> DEFINE newN == [t.n EXCEPT ![q] = 0]
               newSum == t.openBranches - posBranches(t.n[q])
               newOpen == t.open \ {q}
               newRemoved == t.removed \cup {q}
    <3>1. newN \in [Seqs -> Int] /\ newOpen \in SUBSET Seqs /\ newRemoved \in SUBSET Seqs
      BY Fields
    <3>2. newSum \in Int
      <4>1. t.n[q] \in Int /\ t.openBranches \in Int
        BY Fields
      <4>2. posBranches(t.n[q]) \in Int
        BY <4>1 DEF posBranches
      <4> QED BY <4>1, <4>2
    <3>3. t1 = [t EXCEPT !.openBranches = newSum, !.open = newOpen, !.n = newN,
                         !.removed = newRemoved]
      BY DEF Dropped
    <3> HIDE DEF newN, newSum, newOpen, newRemoved, t1
    <3> QED BY <3>1, <3>2, <3>3 DEF Tracker
  <2>2. Bounded(t1, b) /\ StopsAt(t1, p)
    BY <1>2, <2>1 DEF forceStopsAt, Bounded
  <2>3. forceTerminal(t, q, p) = advanceLocked(t1, p)
    BY <1>2 DEF forceTerminal
  <2> HIDE DEF t1
  <2>4. advanceLocked(t1, p).committedPtr = p /\ SrcMoved(t1, advanceLocked(t1, p), p - 1)
    BY <2>1, <2>2, AdvanceType, AdvanceMoves
  <2> QED BY <2>1, <2>3, <2>4 DEF SrcMoved, PoppedSeqs
<1> QED BY <1>1, <1>2

\* An arrival leaves a reference for its source and moves no frontier.
LEMMA ArrivedMoves ==
  ASSUME NEW t \in Tracker, NEW q \in Seqs, NEW node \in Sources \cup {NoNode}, NEW srcSeq \in Nat
  PROVE  LET u == arrived(t, q, node, srcSeq) IN
         /\ node \in Sources => u.srcRefs = t.srcRefs \cup {[seq |-> q, node |-> node, srcSeq |-> srcSeq]}
         /\ node \notin Sources => u.srcRefs = t.srcRefs /\ u.srcs = t.srcs
         /\ \A s \in Sources : /\ u.srcs[s].front = t.srcs[s].front
                               /\ u.srcs[s].committedAt = t.srcs[s].committedAt
<1> DEFINE known == node \in Sources
           newRefs == IF known THEN t.srcRefs \cup {[seq |-> q, node |-> node, srcSeq |-> srcSeq]}
                      ELSE t.srcRefs
           newSrcs == IF known
                      THEN [t.srcs EXCEPT ![node].arrivedAt = @ \cup {srcSeq}] ELSE t.srcs
           newMax == IF q > t.arrivedMax THEN q ELSE t.arrivedMax
           newSum == t.openBranches + 1 - posBranches(t.n[q])
           newOpen == t.open \cup {q}
           newN == [t.n EXCEPT ![q] = 1]
<1>1. \A s \in Sources : /\ newSrcs[s].front = t.srcs[s].front
                         /\ newSrcs[s].committedAt = t.srcs[s].committedAt
  BY DEF Tracker, SrcTracker
<1>2. arrived(t, q, node, srcSeq) =
        [t EXCEPT !.openBranches = newSum, !.open = newOpen, !.n = newN,
                  !.arrivedMax = newMax, !.srcs = newSrcs, !.srcRefs = newRefs]
  BY Zenon DEF arrived
<1> HIDE DEF newRefs, newSrcs, newMax, newSum, newOpen, newN
<1>3. LET u == arrived(t, q, node, srcSeq) IN u.srcs = newSrcs /\ u.srcRefs = newRefs
  BY <1>2 DEF Tracker
<1> QED BY <1>1, <1>3 DEF newRefs, newSrcs

\* The frontiers a call carries are those of the tracker that made it.
LEMMA MkCallFrontiers ==
  ASSUME NEW t \in Tracker, NEW commits, NEW advanced \in BOOLEAN, NEW s \in Sources
  PROVE  MkCall(commits, advanced, t).frontiers[s] <= t.srcs[s].front
<1>1. t.srcs[s].front \in Nat
  BY DEF Tracker, SrcTracker
<1>2. MkCall(commits, advanced, t).frontiers[s] \in {0, t.srcs[s].front}
  BY DEF MkCall, NoCall, Frontiers
<1> QED BY <1>1, <1>2

\* add carries frontiers of the tracker it leaves.
LEMMA AddFrontiers ==
  ASSUME NEW t \in Tracker, NEW q, NEW delta, NEW p,
         add(t, q, delta, p) \in Tracker, NEW s \in Sources
  PROVE  addCall(t, q, delta, p).frontiers[s] <= add(t, q, delta, p).srcs[s].front
<1> DEFINE t1 == Counted(t, q, delta)
           u == add(t, q, delta, p)
           adv == p > t.committedPtr
           swept == p > t.committedPtr \/ \E r \in t.srcRefs : r.seq < p
<1>1. addCall(t, q, delta, p) \in {NoCall, MkCall(JustCommit(t1, p), adv, u),
                                  MkCall(JustCommit(t1, p) \cup {q}, swept, u)}
  BY Zenon DEF addCall
<1>2. u \in Tracker /\ adv \in BOOLEAN /\ swept \in BOOLEAN
  OBVIOUS
<1>3. NoCall.frontiers[s] = 0 /\ u.srcs[s].front \in Nat
  BY <1>2 DEF NoCall, Tracker, SrcTracker
<1> HIDE DEF u, t1, adv, swept
<1>4. MkCall(JustCommit(t1, p), adv, u).frontiers[s] <= u.srcs[s].front
  BY <1>2, MkCallFrontiers
<1>5. MkCall(JustCommit(t1, p) \cup {q}, swept, u).frontiers[s] <= u.srcs[s].front
  BY <1>2, MkCallFrontiers
<1>6. addCall(t, q, delta, p).frontiers[s] <= u.srcs[s].front
  BY <1>1, <1>3, <1>4, <1>5
<1> QED BY <1>6 DEF u

\* forceTerminal likewise.
LEMMA ForceFrontiers ==
  ASSUME NEW t \in Tracker, NEW q, NEW p, forceTerminal(t, q, p) \in Tracker, NEW s \in Sources
  PROVE  forceTerminalCall(t, q, p).frontiers[s] <= forceTerminal(t, q, p).srcs[s].front
<1> DEFINE t1 == Dropped(t, q)
           u == forceTerminal(t, q, p)
           adv == p > t.committedPtr
<1>1. forceTerminalCall(t, q, p) \in {NoCall, MkCall(JustCommit(t1, p), adv, u)}
  BY Zenon DEF forceTerminalCall
<1>2. u \in Tracker /\ adv \in BOOLEAN
  OBVIOUS
<1>3. NoCall.frontiers[s] = 0 /\ u.srcs[s].front \in Nat
  BY <1>2 DEF NoCall, Tracker, SrcTracker
<1> HIDE DEF u, t1, adv
<1>4. MkCall(JustCommit(t1, p), adv, u).frontiers[s] <= u.srcs[s].front
  BY <1>2, MkCallFrontiers
<1>5. forceTerminalCall(t, q, p).frontiers[s] <= u.srcs[s].front
  BY <1>1, <1>3, <1>4
<1> QED BY <1>5 DEF u

\* resumeFrom leaves the sources alone.
LEMMA ResumeMoves ==
  ASSUME NEW t \in Tracker, NEW cp \in 0..MaxSeq
  PROVE  resumeFrom(t, cp).srcs = t.srcs /\ resumeFrom(t, cp).srcRefs = t.srcRefs
BY DEF resumeFrom, Tracker
-----------------------------------------------------------------------------
(***************************************************************************)
(* The chain of a source's counters: what its durable state covers in this *)
(* run, what is posted to its committer, what is on its way there, the     *)
(* frontier and the emissions.                                             *)
(***************************************************************************)
FrontiersOrdered ==
  \A s \in Sources :
    /\ persisted[s] <= pending[s] /\ pending[s] <= trk.srcs[s].front
    /\ trk.srcs[s].front <= emitted[s]
    /\ \A g \in Goroutines : call[g].frontiers[s] <= trk.srcs[s].front

\* Sources start when replay is done.
NothingEmitted ==
  phase \in {"down", "boot", "replay"} => \A s \in Sources : emitted[s] = 0

\* From then on the state of a source is where it resumed and what was persisted.
StateResumed ==
  \A s \in Sources : phase = "live" \/ emitted[s] > 0 => srcState[s] = base[s] + persisted[s]

FrontierInv == FrontiersOrdered /\ NothingEmitted /\ StateResumed

\* The types the proofs below need.
LEMMA SourceTypes ==
  ASSUME TypeInv
  PROVE  /\ trk \in Tracker /\ Bounded(trk, emitted) /\ call \in [Goroutines -> Call]
         /\ emitted \in [Sources -> Nat] /\ base \in [Sources -> Nat]
         /\ pending \in [Sources -> Nat] /\ persisted \in [Sources -> Nat]
         /\ srcState \in [Sources -> Nat]
         /\ \A s \in Sources : trk.srcs[s].front \in Nat
         /\ \A g \in Goroutines : \A s \in Sources : call[g].frontiers[s] \in Nat
<1>1. /\ trk \in Tracker /\ Bounded(trk, emitted) /\ call \in [Goroutines -> Call]
      /\ emitted \in [Sources -> Nat] /\ base \in [Sources -> Nat]
      /\ pending \in [Sources -> Nat] /\ persisted \in [Sources -> Nat]
      /\ srcState \in [Sources -> Nat]
  BY DEF TypeInv, TypeOK
<1>2. \A s \in Sources : trk.srcs[s].front \in Nat
  BY <1>1 DEF Tracker, SrcTracker
<1>3. \A g \in Goroutines : \A s \in Sources : call[g].frontiers[s] \in Nat
  BY <1>1 DEF Call
<1> QED BY <1>1, <1>2, <1>3

(***************************************************************************)
(* The steps that sweep: only references behind the cursor are popped, and *)
(* the call they leave carries the frontiers after the sweep.              *)
(***************************************************************************)
LEMMA TrackerMoves ==
  ASSUME TypeInv, TypeInv',
         \/ ReplayOrphan \/ AbandonForce
         \/ \E c \in Callers : Dispatch(c)
         \/ \E w \in Workers : Work(w)
  PROVE  /\ SrcMoved(trk, trk', trk'.committedPtr - 1)
         /\ \A h \in Goroutines : \/ call'[h] = call[h]
                                  \/ \A s \in Sources : call'[h].frontiers[s] <= trk'.srcs[s].front
<1>0. /\ trk \in Tracker /\ Bounded(trk, emitted) /\ emitted \in [Sources -> Nat]
      /\ call \in [Goroutines -> Call] /\ trk' \in Tracker
  BY SourceTypes DEF TypeInv, TypeOK
<1>1. ASSUME NEW g \in Goroutines, NEW q \in Seqs, NEW x \in Copies, NEW k \in 0..MaxFan,
             Branch(g, q, x, k)
      PROVE  /\ SrcMoved(trk, trk', trk'.committedPtr - 1)
             /\ \A h \in Goroutines : \/ call'[h] = call[h]
                                      \/ \A s \in Sources : call'[h].frontiers[s] <= trk'.srcs[s].front
  <2>1. k - 1 \in Int
    BY CommitPathAssumption
  <2>2. PICK p \in Ptrs : /\ addStopsAt(trk, q, k - 1, p)
                          /\ trk' = add(trk, q, k - 1, p)
                          /\ call' = [call EXCEPT ![g] = addCall(trk, q, k - 1, p)]
    BY <1>1 DEF Branch
  <2>3. SrcMoved(trk, trk', trk'.committedPtr - 1)
    BY <1>0, <2>1, <2>2, AddMoves
  <2>4. \A s \in Sources : addCall(trk, q, k - 1, p).frontiers[s] <= trk'.srcs[s].front
    BY <1>0, <2>2, AddFrontiers
  <2> QED BY <1>0, <2>2, <2>3, <2>4
<1>2. CASE \E c \in Callers : Dispatch(c)
  <2>1. PICK c \in Callers : Dispatch(c)
    BY <1>2
  <2>2. c \in Goroutines /\ at[c] \in Seqs /\ CopyOf(c) \in Copies
    BY <2>1, Roles DEF Dispatch, TypeInv, RowsHeld, CopyOf, Copies
  <2>3. PICK k \in 0..MaxFan : Branch(c, at[c], CopyOf(c), k)
    BY <2>1 DEF Dispatch
  <2> QED BY <1>1, <2>2, <2>3
<1>3. CASE \E w \in Workers : Work(w)
  <2>1. PICK w \in Workers, q \in Seqs, x \in Copies, k \in 0..MaxFan : Branch(w, q, x, k)
    BY <1>3 DEF Work
  <2> QED BY <1>1, <2>1, Roles
<1>4. CASE ReplayOrphan
  <2> DEFINE q == Min(page)
             t1 == arrived(trk, q, NoNode, 0)
  <2>1. q \in Seqs
    BY <1>4, MinOfRows DEF ReplayOrphan, TypeInv, TypeOK
  <2>2. PICK p \in Ptrs : /\ addStopsAt(t1, q, -1, p)
                          /\ trk' = add(t1, q, -1, p)
                          /\ call' = [call EXCEPT ![Runner] = addCall(t1, q, -1, p)]
    BY <1>4 DEF ReplayOrphan
  <2> HIDE DEF q
  <2>3. /\ t1 \in Tracker /\ Bounded(t1, emitted)
        /\ t1.srcs = trk.srcs /\ t1.srcRefs = trk.srcRefs
    <3>1. NoNode \in Sources \cup {NoNode} /\ 0 \in Nat /\ NoNode \notin Sources
      BY NoNodeAssumption
    <3>2. t1 \in Tracker /\ Bounded(t1, emitted)
      BY <1>0, <2>1, <3>1, ArrivedType
    <3>3. t1.srcs = trk.srcs /\ t1.srcRefs = trk.srcRefs
      BY <1>0, <2>1, <3>1, ArrivedMoves
    <3> QED BY <3>2, <3>3
  <2>4. -1 \in Int
    OBVIOUS
  <2> HIDE DEF t1
  <2>5. SrcMoved(t1, trk', trk'.committedPtr - 1)
    BY <1>0, <2>1, <2>2, <2>3, <2>4, AddMoves
  <2>6. SrcMoved(trk, trk', trk'.committedPtr - 1)
    BY <2>3, <2>5 DEF SrcMoved, PoppedSeqs
  <2>7. \A s \in Sources : addCall(t1, q, -1, p).frontiers[s] <= trk'.srcs[s].front
    BY <1>0, <2>2, <2>3, AddFrontiers
  <2> QED BY <1>0, <2>2, <2>6, <2>7
<1>5. CASE AbandonForce
  <2> DEFINE q == Min(abandonPage)
  <2>1. q \in Seqs
    BY <1>5, MinOfRows DEF AbandonForce, TypeInv, TypeOK, AbandonHolds
  <2>2. PICK p \in Ptrs : /\ forceStopsAt(trk, q, p)
                          /\ trk' = forceTerminal(trk, q, p)
                          /\ call' = [call EXCEPT ![Abandoner] = forceTerminalCall(trk, q, p)]
    BY <1>5 DEF AbandonForce
  <2> HIDE DEF q
  <2>3. SrcMoved(trk, trk', trk'.committedPtr - 1)
    BY <1>0, <2>1, <2>2, ForceMoves
  <2>4. \A s \in Sources : forceTerminalCall(trk, q, p).frontiers[s] <= trk'.srcs[s].front
    BY <1>0, <2>2, ForceFrontiers
  <2>5. \A h \in Goroutines : call'[h] = call[h] \/ call'[h] = forceTerminalCall(trk, q, p)
    BY <1>0, <2>2
  <2> QED BY <2>3, <2>4, <2>5
<1> QED BY <1>2, <1>3, <1>4, <1>5

\* A step that only moves frontiers up, below the emissions, keeps the chain.
LEMMA FrontierKept ==
  ASSUME TypeInv, TypeInv', FrontierInv,
         UNCHANGED <<phase, srcState, base, emitted, pending, persisted>>,
         \A s \in Sources : trk.srcs[s].front <= trk'.srcs[s].front /\ trk'.srcs[s].front <= emitted[s],
         \A h \in Goroutines : \/ call'[h] = call[h]
                               \/ \A s \in Sources : call'[h].frontiers[s] <= trk'.srcs[s].front
  PROVE  FrontierInv'
<1>1. \A s \in Sources : /\ trk.srcs[s].front \in Nat /\ trk'.srcs[s].front \in Nat
                         /\ pending[s] \in Nat /\ persisted[s] \in Nat
  <2>1. trk' \in Tracker
    BY DEF TypeInv, TypeOK
  <2> QED BY <2>1, SourceTypes DEF Tracker, SrcTracker
<1>2. \A g \in Goroutines : \A s \in Sources : call[g].frontiers[s] \in Nat
  BY SourceTypes
<1>3. FrontiersOrdered'
  <2> SUFFICES ASSUME NEW s \in Sources
               PROVE  /\ persisted'[s] <= pending'[s] /\ pending'[s] <= trk'.srcs[s].front
                      /\ trk'.srcs[s].front <= emitted'[s]
                      /\ \A g \in Goroutines : call'[g].frontiers[s] <= trk'.srcs[s].front
    BY DEF FrontiersOrdered
  <2>1. persisted[s] <= pending[s] /\ pending[s] <= trk.srcs[s].front
    BY DEF FrontierInv, FrontiersOrdered
  <2>2. ASSUME NEW g \in Goroutines PROVE call'[g].frontiers[s] <= trk'.srcs[s].front
    <3>1. call[g].frontiers[s] <= trk.srcs[s].front
      BY DEF FrontierInv, FrontiersOrdered
    <3>2. CASE call'[g] = call[g]
      BY <1>1, <1>2, <3>1, <3>2
    <3> QED BY <3>2
  <2> QED BY <1>1, <2>1, <2>2
<1>4. NothingEmitted' /\ StateResumed'
  BY DEF FrontierInv, NothingEmitted, StateResumed
<1> QED BY <1>3, <1>4 DEF FrontierInv

\* A step that changes none of the counters keeps the chain.
LEMMA FrontierQuiet ==
  ASSUME TypeInv, TypeInv', FrontierInv,
         UNCHANGED <<srcState, base, emitted, pending, persisted>>, trk'.srcs = trk.srcs,
         \/ phase' = phase
         \/ phase = "down" /\ phase' = "boot"
         \/ phase = "boot" /\ phase' = "replay"
         \/ phase' = "stopping",
         \A h \in Goroutines : call'[h].frontiers = call[h].frontiers \/ call'[h] = NoCall
  PROVE  FrontierInv'
<1>1. \A s \in Sources : trk.srcs[s].front \in Nat /\ NoCall.frontiers[s] = 0
  BY SourceTypes DEF NoCall
<1> QED BY <1>1 DEF FrontierInv, FrontiersOrdered, NothingEmitted, StateResumed

\* The chain holds initially, and whenever an engine is gone.
LEMMA FrontierNew ==
  ASSUME phase = "down", trk = newCommitTracker, emitted = [s \in Sources |-> 0],
         pending = [s \in Sources |-> 0], persisted = [s \in Sources |-> 0],
         call = [g \in Goroutines |-> NoCall]
  PROVE  FrontierInv
<1>1. \A s \in Sources : trk.srcs[s].front = 0
  BY DEF newCommitTracker
<1>2. \A g \in Goroutines : \A s \in Sources : call[g].frontiers[s] = 0
  BY DEF NoCall
<1> QED BY <1>1, <1>2 DEF FrontierInv, FrontiersOrdered, NothingEmitted, StateResumed

\* Every step keeps the chain.
LEMMA FrontierStep == TypeInv /\ TypeInv' /\ FrontierInv /\ [Next]_vars => FrontierInv'
<1> SUFFICES ASSUME TypeInv, TypeInv', FrontierInv, [Next]_vars PROVE FrontierInv'
  OBVIOUS
<1>0. /\ trk \in Tracker /\ Bounded(trk, emitted) /\ call \in [Goroutines -> Call]
      /\ emitted \in [Sources -> Nat] /\ base \in [Sources -> Nat]
      /\ pending \in [Sources -> Nat] /\ persisted \in [Sources -> Nat]
      /\ srcState \in [Sources -> Nat]
      /\ \A s \in Sources : trk.srcs[s].front \in Nat
      /\ \A g \in Goroutines : \A s \in Sources : call[g].frontiers[s] \in Nat
  BY SourceTypes
<1>1. CASE Shutdown \/ Crash
  <2>1. EngineGone /\ phase' = "down"
    BY <1>1 DEF Shutdown, Crash
  <2>2. /\ trk' = newCommitTracker /\ emitted' = [s \in Sources |-> 0]
        /\ pending' = [s \in Sources |-> 0] /\ persisted' = [s \in Sources |-> 0]
        /\ call' = [g \in Goroutines |-> NoCall]
    BY <2>1 DEF EngineGone
  <2>3. \A s \in Sources : trk'.srcs[s].front = 0
    BY <2>2 DEF newCommitTracker
  <2>4. \A g \in Goroutines : \A s \in Sources : call'[g].frontiers[s] = 0
    BY <2>2 DEF NoCall
  <2> QED BY <2>1, <2>2, <2>3, <2>4 DEF FrontierInv, FrontiersOrdered, NothingEmitted, StateResumed
<1>2. CASE Start \/ Cancel \/ ReplayPage \/ ReplayRow \/ Abandon \/ AbandonRows \/ AbandonWrite
           \/ AbandonGivesUp \/ AbandonNext
  <2>1. /\ UNCHANGED <<srcState, base, emitted, pending, persisted, trk, call>>
        /\ phase' = phase \/ (phase = "down" /\ phase' = "boot") \/ phase' = "stopping"
    BY <1>2 DEF Start, Cancel, ReplayPage, ReplayRow, Abandon, AbandonRows, AbandonWrite,
       AbandonGivesUp, AbandonNext, storeVars, committerVars, sourceVars, goVars, runVars
  <2> QED BY <2>1, FrontierQuiet
<1>3. CASE resumeCheckpoint
  <2>1. trk'.srcs = trk.srcs
    BY <1>0, <1>3, ResumeMoves DEF resumeCheckpoint, TypeInv, TypeOK
  <2>2. /\ UNCHANGED <<srcState, base, emitted, pending, persisted, call>>
        /\ phase = "boot" /\ phase' = "replay"
    BY <1>3 DEF resumeCheckpoint, storeVars, committerVars, sourceVars, goVars
  <2> QED BY <2>1, <2>2, FrontierQuiet
<1>4. CASE ReplayDone
  <2>1. /\ UNCHANGED <<trk, call, emitted, pending, persisted, srcState>>
        /\ phase = "replay" /\ phase' = "live" /\ base' = [s \in Sources |-> srcState[s]]
    BY <1>4 DEF ReplayDone, RunnerFree, InitSource, committerVars, goVars, storeVars
  <2>2. \A s \in Sources : persisted[s] = 0
    BY <1>0, <2>1 DEF FrontierInv, FrontiersOrdered, NothingEmitted
  <2> QED BY <1>0, <2>1, <2>2 DEF FrontierInv, FrontiersOrdered, NothingEmitted, StateResumed
<1>5. ASSUME NEW c \in Emitters, Emit(c) PROVE FrontierInv'
  <2>1. UNCHANGED <<trk, call, pending, persisted, srcState, base, phase>>
    BY <1>5 DEF Emit, committerVars, storeVars, runVars
  <2>2. \/ phase = "live" /\ c \in Sources /\ emitted' = [emitted EXCEPT ![c] = @ + 1]
        \/ emitted' = emitted
    BY <1>5 DEF Emit
  <2>3. CASE emitted' = emitted
    BY <2>1, <2>3 DEF FrontierInv, FrontiersOrdered, NothingEmitted, StateResumed
  <2>4. CASE phase = "live" /\ c \in Sources /\ emitted' = [emitted EXCEPT ![c] = @ + 1]
    <3>1. \A s \in Sources : emitted[s] <= emitted'[s] /\ emitted'[s] \in Nat
      BY <1>0, <2>4
    <3> QED BY <1>0, <2>1, <2>4, <3>1
         DEF FrontierInv, FrontiersOrdered, NothingEmitted, StateResumed
  <2> QED BY <2>2, <2>3, <2>4
<1>6. ASSUME NEW c \in Callers,
             \/ c \in Emitters /\ (AppendSpool(c) \/ AppendRefused(c))
             \/ Gate(c) \/ GateRefused(c) \/ Return(c)
      PROVE  FrontierInv'
  <2>1. /\ UNCHANGED <<srcState, base, emitted, pending, persisted, trk, call>>
        /\ phase' = phase \/ phase' = "stopping"
    BY <1>6 DEF AppendSpool, AppendRefused, Gate, GateRefused, Return, storeVars, committerVars,
       sourceVars, runVars
  <2> QED BY <2>1, FrontierQuiet
<1>7. ASSUME NEW c \in Callers, Register(c) PROVE FrontierInv'
  <2>1. UNCHANGED <<srcState, base, emitted, pending, persisted, phase, call>>
    BY <1>7 DEF Register, storeVars, committerVars, sourceVars, runVars
  <2>2. \A s \in Sources : trk'.srcs[s].front = trk.srcs[s].front
    <3>1. at[c] \in Seqs
      BY <1>7 DEF Register, TypeInv, RowsHeld
    <3>2. CASE c \in Sources
      <4>1. trk' = arrived(trk, at[c], c, emitted[c]) /\ emitted[c] \in Nat
        BY <1>0, <1>7, <3>2 DEF Register
      <4> QED BY <1>0, <3>1, <3>2, <4>1, ArrivedMoves
    <3>3. CASE c \notin Sources
      <4>1. trk' = arrived(trk, at[c], NoNode, 0)
        BY <1>7, <3>3 DEF Register
      <4>2. NoNode \in Sources \cup {NoNode} /\ 0 \in Nat /\ trk \in Tracker /\ NoNode \notin Sources
        BY <1>0, NoNodeAssumption
      <4>3. arrived(trk, at[c], NoNode, 0).srcs = trk.srcs
        BY <3>1, <4>2, ArrivedMoves
      <4> QED BY <4>1, <4>3
    <3> QED BY <3>2, <3>3
  <2> QED BY <1>0, <2>1, <2>2 DEF FrontierInv, FrontiersOrdered, NothingEmitted, StateResumed
<1>8. CASE \/ ReplayOrphan \/ AbandonForce
           \/ \E c \in Callers : Dispatch(c)
           \/ \E w \in Workers : Work(w)
  <2>1. /\ SrcMoved(trk, trk', trk'.committedPtr - 1)
        /\ \A h \in Goroutines : \/ call'[h] = call[h]
                                 \/ \A s \in Sources : call'[h].frontiers[s] <= trk'.srcs[s].front
    BY <1>8, TrackerMoves
  <2>2. UNCHANGED <<srcState, base, emitted, pending, persisted, phase>>
    BY <1>8 DEF ReplayOrphan, AbandonForce, Dispatch, Work, storeVars, committerVars, sourceVars,
       runVars
  <2>3. \A s \in Sources : trk.srcs[s].front <= trk'.srcs[s].front /\ trk'.srcs[s].front <= emitted[s]
    <3> SUFFICES ASSUME NEW s \in Sources
                 PROVE  trk.srcs[s].front <= trk'.srcs[s].front /\ trk'.srcs[s].front <= emitted[s]
      OBVIOUS
    <3>1. /\ trk.srcs[s].front <= trk'.srcs[s].front
          /\ trk'.srcs[s].front = trk.srcs[s].front \/ trk'.srcs[s].front \in trk.srcs[s].arrivedAt
      BY <2>1 DEF SrcMoved
    <3>2. trk.srcs[s].front <= emitted[s] /\ trk.srcs[s].arrivedAt \subseteq 1..emitted[s]
      BY <1>0 DEF FrontierInv, FrontiersOrdered, Bounded
    <3> QED BY <1>0, <3>1, <3>2
  <2> QED BY <2>1, <2>2, <2>3, FrontierKept
<1>9. ASSUME NEW g \in Goroutines, OnCommit(g) \/ persistCheckpointFails(g) PROVE FrontierInv'
  <2>1. UNCHANGED <<srcState, base, emitted, pending, persisted, phase, trk>>
    BY <1>9 DEF OnCommit, persistCheckpointFails, storeVars, committerVars, sourceVars, runVars
  <2>2. \A h \in Goroutines : call'[h].frontiers = call[h].frontiers \/ call'[h] = NoCall
    <3> DEFINE rest == [call[g] EXCEPT !.commits = @ \ {Min(call[g].commits)}]
    <3>1. rest.frontiers = call[g].frontiers
      BY <1>0 DEF Call
    <3>2. \/ call' = [call EXCEPT ![g] = rest] \/ call' = [call EXCEPT ![g] = NoCall]
      BY <1>9 DEF OnCommit, persistCheckpointFails
    <3> HIDE DEF rest
    <3> QED BY <1>0, <3>1, <3>2
  <2> QED BY <2>1, <2>2, FrontierQuiet
<1>10. ASSUME NEW g \in Goroutines, persistCheckpoint(g) PROVE FrontierInv'
  <2>1. /\ UNCHANGED <<srcState, base, emitted, persisted, phase, trk>>
        /\ call' = [call EXCEPT ![g] = NoCall]
        /\ pending' = [s \in Sources |-> IF call[g].frontiers[s] > pending[s]
                                         THEN call[g].frontiers[s] ELSE pending[s]]
    BY <1>10 DEF persistCheckpoint, Post, sourceVars, runVars
  <2>2. \A s \in Sources : pending[s] <= pending'[s] /\ pending'[s] <= trk.srcs[s].front
    BY <1>0, <2>1 DEF FrontierInv, FrontiersOrdered
  <2>3. \A h \in Goroutines : \A s \in Sources : call'[h].frontiers[s] <= trk.srcs[s].front
    <3>1. \A s \in Sources : NoCall.frontiers[s] = 0
      BY DEF NoCall
    <3> QED BY <1>0, <2>1, <3>1 DEF FrontierInv, FrontiersOrdered
  <2>4. \A s \in Sources : pending'[s] \in Nat
    BY <1>0, <2>1
  <2> QED BY <1>0, <2>1, <2>2, <2>3, <2>4 DEF FrontierInv, FrontiersOrdered, NothingEmitted,
       StateResumed
<1>11. ASSUME NEW s \in Sources, SourceCommit(s) PROVE FrontierInv'
  <2>1. UNCHANGED <<base, emitted, pending, phase, trk, call>>
    BY <1>11 DEF SourceCommit, sourceVars, runVars, goVars
  <2>2. \/ UNCHANGED <<srcState, persisted>>
        \/ /\ srcState' = [srcState EXCEPT ![s] = base[s] + pending[s]]
           /\ persisted' = [persisted EXCEPT ![s] = pending[s]]
    BY <1>11 DEF SourceCommit
  <2> QED BY <1>0, <2>1, <2>2 DEF FrontierInv, FrontiersOrdered, NothingEmitted, StateResumed
<1>12. CASE UNCHANGED vars
  BY <1>12, FrontierQuiet DEF vars, storeVars, committerVars, sourceVars, runVars, goVars
<1> QED BY <1>1, <1>2, <1>3, <1>4, <1>5, <1>6, <1>7, <1>8, <1>9, <1>10, <1>11, <1>12, Roles, Zenon
     DEF Next, Emitters

(***************************************************************************)
(* A source's durable state never moves back, within a run and across      *)
(* runs (sourceCommitter.run, flush), injections during replay included.   *)
(***************************************************************************)
THEOREM StateNeverMovesBack == Spec => SourceStateMonotone
<1>1. Init => FrontierInv
  BY FrontierNew DEF Init
<1>2. Spec => []TypeInv
  BY TypeInit, TypeStep, PTL DEF Spec
<1>3. TypeInv /\ TypeInv' /\ FrontierInv /\ [Next]_vars => FrontierInv'
  BY FrontierStep
<1>4. TypeInv /\ FrontierInv /\ [Next]_vars => [\A s \in Sources : srcState'[s] >= srcState[s]]_vars
  <2> SUFFICES ASSUME TypeInv, FrontierInv, [Next]_vars, NEW s \in Sources
               PROVE  srcState'[s] >= srcState[s] \/ UNCHANGED vars
    OBVIOUS
  <2>0. /\ srcState[s] \in Nat /\ base[s] \in Nat /\ pending[s] \in Nat /\ persisted[s] \in Nat
        /\ emitted[s] \in Nat /\ trk.srcs[s].front \in Nat /\ srcState \in [Sources -> Nat]
    BY SourceTypes
  <2>1. pending[s] > persisted[s] => base[s] + pending[s] >= srcState[s]
    BY <2>0 DEF FrontierInv, FrontiersOrdered, StateResumed
  <2>2. CASE \E r \in Sources : SourceCommit(r)
    BY <2>0, <2>1, <2>2 DEF SourceCommit
  <2>3. CASE Shutdown
    BY <2>0, <2>1, <2>3 DEF Shutdown
  <2>4. CASE srcState' = srcState
    BY <2>0, <2>4
  <2>5. CASE ~ Shutdown /\ ~ \E r \in Sources : SourceCommit(r)
    <3>1. srcState' = srcState
      BY <2>5 DEF Next, vars, Start, resumeCheckpoint, ReplayPage, ReplayRow, ReplayOrphan,
         ReplayDone, Emit, AppendSpool, AppendRefused, Gate, GateRefused, Register, Dispatch, Return,
         Work, OnCommit, persistCheckpoint, persistCheckpointFails, Abandon, AbandonRows,
         AbandonWrite, AbandonGivesUp, AbandonForce, AbandonNext, Cancel, Crash, storeVars
    <3> QED BY <2>4, <3>1
  <2> QED BY <2>2, <2>3, <2>5
<1> QED BY <1>1, <1>2, <1>3, <1>4, PTL DEF Spec, SourceStateMonotone
-----------------------------------------------------------------------------
(***************************************************************************)
(* What a source's position rests on: an item is covered when a row of it  *)
(* is settled.  A reference, and a source about to register, name the item *)
(* its row was spooled for; committed emissions and everything up to the   *)
(* frontier are covered.                                                   *)
(***************************************************************************)
Covered(s, i) == \E q \in 1..lastSeq : origin[q] = <<s, i>> /\ q \in settled

RefsTrue ==
  \A r \in trk.srcRefs :
    /\ r.seq <= lastSeq /\ r.srcSeq <= emitted[r.node]
    /\ origin[r.seq] = <<r.node, base[r.node] + r.srcSeq>>
HeldTrue ==
  \A s \in Sources : pc[s] = "register" => origin[at[s]] = <<s, base[s] + emitted[s]>>
CommittedCovered ==
  \A s \in Sources : \A i \in trk.srcs[s].committedAt :
    i <= emitted[s] /\ Covered(s, base[s] + i)
FrontCovered ==
  \A s \in Sources : \A i \in 1..(base[s] + trk.srcs[s].front) : Covered(s, i)
StateCovered == \A s \in Sources : \A i \in 1..srcState[s] : Covered(s, i)

CoverInv == RefsTrue /\ HeldTrue /\ CommittedCovered /\ FrontCovered /\ StateCovered

\* A covered item stays covered: rows keep their origin and stay settled.
LEMMA CoveredKept ==
  ASSUME TypeInv, lastSeq' \in Nat, lastSeq <= lastSeq', settled \subseteq settled',
         \A q \in 1..lastSeq : origin'[q] = origin[q],
         NEW s, NEW i, Covered(s, i)
  PROVE  Covered(s, i)'
<1>1. PICK q \in 1..lastSeq : origin[q] = <<s, i>> /\ q \in settled
  BY DEF Covered
<1>2. q \in 1..lastSeq'
  BY <1>1 DEF TypeInv, TypeOK
<1> QED BY <1>1, <1>2 DEF Covered

\* A step that pops references behind the cursor keeps every position covered: the
\* rows of the references are settled, because the prefix is.
LEMMA CoverSweep ==
  ASSUME TypeInv, TypeInv', FrontierInv, CoverInv, PrefixSettled',
         SrcMoved(trk, trk', trk'.committedPtr - 1),
         UNCHANGED <<lastSeq, origin, base, emitted, srcState>>, settled \subseteq settled',
         \A s \in Sources : pc'[s] = "register" => pc[s] = "register" /\ at'[s] = at[s]
  PROVE  CoverInv'
<1>0. /\ trk \in Tracker /\ trk' \in Tracker /\ Bounded(trk, emitted)
      /\ emitted \in [Sources -> Nat] /\ base \in [Sources -> Nat]
      /\ srcState \in [Sources -> Nat] /\ lastSeq \in 0..MaxSeq
  BY DEF TypeInv, TypeOK
<1>1. \A s \in Sources : trk.srcs[s].front \in Nat /\ trk'.srcs[s].front \in Nat
                         /\ trk.srcs[s].committedAt \subseteq Nat
  BY <1>0 DEF Tracker, SrcTracker
<1>2. \A s, i : Covered(s, i) => Covered(s, i)'
  <2>1. lastSeq' \in Nat /\ lastSeq <= lastSeq'
    BY <1>0
  <2> QED BY <2>1, CoveredKept
<1>3. ASSUME NEW s \in Sources, NEW j \in PoppedSeqs(trk, s, trk'.committedPtr - 1)
      PROVE  j \in Nat /\ j <= emitted[s] /\ Covered(s, base[s] + j)'
  <2>1. PICK r \in trk.srcRefs : r.seq <= trk'.committedPtr - 1 /\ r.node = s /\ j = r.srcSeq
    BY <1>3 DEF PoppedSeqs
  <2>2. r.seq \in Seqs /\ r.srcSeq \in Nat /\ trk'.committedPtr \in Nat
    BY <1>0, <2>1, Fields DEF SrcRef, Ptrs
  <2>3. r.seq \in settled'
    BY <2>1, <2>2 DEF PrefixSettled, Seqs
  <2>4. /\ r.seq <= lastSeq /\ r.srcSeq <= emitted[s]
        /\ origin[r.seq] = <<s, base[s] + r.srcSeq>>
    BY <2>1 DEF CoverInv, RefsTrue
  <2>5. r.seq \in 1..lastSeq'
    BY <1>0, <2>2, <2>4 DEF Seqs
  <2> QED BY <2>1, <2>2, <2>3, <2>4, <2>5 DEF Covered
<1>4. ASSUME NEW s \in Sources,
             NEW j \in trk.srcs[s].committedAt \cup PoppedSeqs(trk, s, trk'.committedPtr - 1)
      PROVE  j \in Nat /\ j <= emitted[s] /\ Covered(s, base[s] + j)'
  <2>1. CASE j \in trk.srcs[s].committedAt
    BY <1>1, <1>2, <2>1 DEF CoverInv, CommittedCovered
  <2> QED BY <1>3, <2>1
<1>5. RefsTrue'
  BY DEF CoverInv, RefsTrue, SrcMoved
<1>6. HeldTrue'
  BY DEF CoverInv, HeldTrue
<1>7. CommittedCovered'
  <2> SUFFICES ASSUME NEW s \in Sources, NEW i \in trk'.srcs[s].committedAt
               PROVE  i <= emitted'[s] /\ Covered(s, base[s] + i)'
    BY DEF CommittedCovered
  <2>1. i \in trk.srcs[s].committedAt \cup PoppedSeqs(trk, s, trk'.committedPtr - 1)
    BY DEF SrcMoved
  <2> QED BY <1>4, <2>1
<1>8. FrontCovered'
  <2> SUFFICES ASSUME NEW s \in Sources, NEW i \in 1..(base[s] + trk'.srcs[s].front)
               PROVE  Covered(s, i)'
    BY DEF FrontCovered
  <2>1. CASE i <= base[s] + trk.srcs[s].front
    <3>1. i \in 1..(base[s] + trk.srcs[s].front)
      BY <1>0, <1>1, <2>1
    <3> QED BY <1>2, <3>1 DEF CoverInv, FrontCovered
  <2>2. CASE i > base[s] + trk.srcs[s].front
    <3>1. i - base[s] \in (trk.srcs[s].front + 1)..trk'.srcs[s].front
      BY <1>0, <1>1, <2>2
    <3>2. i - base[s] \in trk.srcs[s].committedAt \cup PoppedSeqs(trk, s, trk'.committedPtr - 1)
      BY <3>1 DEF SrcMoved
    <3>3. Covered(s, base[s] + (i - base[s]))'
      BY <1>4, <3>2
    <3>4. base[s] + (i - base[s]) = i
      BY <1>0
    <3> QED BY <3>3, <3>4
  <2> QED BY <1>0, <1>1, <2>1, <2>2
<1>9. StateCovered'
  BY <1>2 DEF CoverInv, StateCovered
<1> QED BY <1>5, <1>6, <1>7, <1>8, <1>9 DEF CoverInv

\* A step that leaves references, frontiers and items alone keeps them true.
LEMMA CoverQuiet ==
  ASSUME TypeInv, CoverInv, UNCHANGED <<lastSeq, origin, base, emitted, srcState>>,
         settled \subseteq settled', trk'.srcs = trk.srcs, trk'.srcRefs = trk.srcRefs,
         \A s \in Sources : pc'[s] = "register" => pc[s] = "register" /\ at'[s] = at[s]
  PROVE  CoverInv'
<1>1. \A s, i : Covered(s, i) => Covered(s, i)'
  <2>1. lastSeq' \in Nat /\ lastSeq <= lastSeq'
    BY DEF TypeInv, TypeOK
  <2> QED BY <2>1, CoveredKept
<1>2. RefsTrue' /\ HeldTrue'
  BY DEF CoverInv, RefsTrue, HeldTrue
<1>3. CommittedCovered' /\ FrontCovered' /\ StateCovered'
  BY <1>1 DEF CoverInv, CommittedCovered, FrontCovered, StateCovered
<1> QED BY <1>2, <1>3 DEF CoverInv

\* What a committer writes is covered.
LEMMA PostedCovered ==
  ASSUME TypeInv, FrontierInv, CoverInv, NEW s \in Sources, NEW i \in 1..(base[s] + pending[s])
  PROVE  Covered(s, i)
<1>1. /\ base[s] \in Nat /\ pending[s] \in Nat /\ trk.srcs[s].front \in Nat
      /\ pending[s] <= trk.srcs[s].front
  BY SourceTypes DEF FrontierInv, FrontiersOrdered
<1>2. i \in 1..(base[s] + trk.srcs[s].front)
  BY <1>1
<1> QED BY <1>2 DEF CoverInv, FrontCovered

\* The steps of admit.
LEMMA CoverAdmit ==
  ASSUME TypeInv, TypeInv', FrontierInv, CoverInv, NEW c \in Callers,
         \/ c \in Emitters /\ (Emit(c) \/ AppendSpool(c) \/ AppendRefused(c))
         \/ Gate(c) \/ GateRefused(c) \/ Register(c) \/ Return(c)
  PROVE  CoverInv'
<1>0. /\ trk \in Tracker /\ emitted \in [Sources -> Nat] /\ base \in [Sources -> Nat]
      /\ lastSeq \in 0..MaxSeq /\ pc \in [Goroutines -> PcSet] /\ at \in [Goroutines -> 0..MaxSeq]
      /\ origin \in [Seqs -> (Sources \cup {NoNode}) \X Nat] /\ trk' \in Tracker
  BY DEF TypeInv, TypeOK, PcSet
<1>1. CASE c \in Emitters /\ Emit(c)
  <2>1. /\ UNCHANGED <<lastSeq, origin, base, srcState, settled, trk, at>>
        /\ pc' = [pc EXCEPT ![c] = "gate"]
    BY <1>1 DEF Emit, storeVars, histVars
  <2>2. \A s \in Sources : emitted[s] <= emitted'[s] /\ (s # c => emitted'[s] = emitted[s])
    BY <1>0, <1>1 DEF Emit
  <2>3. HeldTrue'
    BY <1>0, <2>1, <2>2, Roles DEF CoverInv, HeldTrue
  <2>4. RefsTrue'
    <3> SUFFICES ASSUME NEW r \in trk.srcRefs PROVE r.srcSeq <= emitted'[r.node]
      BY <2>1 DEF CoverInv, RefsTrue
    <3>1. r.node \in Sources /\ r.srcSeq \in Nat /\ r.srcSeq <= emitted[r.node]
      BY <1>0, Fields DEF SrcRef, CoverInv, RefsTrue
    <3>2. emitted'[r.node] \in Nat
      BY <3>1 DEF TypeInv, TypeOK
    <3> QED BY <1>0, <2>2, <3>1, <3>2
  <2>5. CommittedCovered'
    <3> SUFFICES ASSUME NEW s \in Sources, NEW i \in trk.srcs[s].committedAt
                 PROVE  i <= emitted'[s] /\ Covered(s, base[s] + i)'
      BY <2>1 DEF CommittedCovered
    <3>1. i \in Nat /\ i <= emitted[s] /\ Covered(s, base[s] + i)
      BY <1>0 DEF Tracker, SrcTracker, CoverInv, CommittedCovered
    <3>2. emitted'[s] \in Nat
      BY DEF TypeInv, TypeOK
    <3> QED BY <1>0, <2>1, <2>2, <3>1, <3>2 DEF Covered
  <2>6. FrontCovered' /\ StateCovered'
    BY <2>1 DEF CoverInv, FrontCovered, StateCovered, Covered
  <2> QED BY <2>3, <2>4, <2>5, <2>6 DEF CoverInv
<1>2. CASE c \in Emitters /\ AppendSpool(c)
  <2> DEFINE q == lastSeq + 1
  <2>1. /\ UNCHANGED <<base, srcState, settled, trk, emitted>>
        /\ pc' = [pc EXCEPT ![c] = "register"] /\ at' = [at EXCEPT ![c] = q]
        /\ lastSeq' = q /\ q \in Seqs
        /\ origin' = [origin EXCEPT ![q] =
                        IF c \in Sources THEN <<c, base[c] + emitted[c]>> ELSE Injected]
    BY <1>0, <1>2, MaxSeqAssumption DEF AppendSpool, histVars, sourceVars, Seqs
  <2>2. \A r \in Seqs : r <= lastSeq => origin'[r] = origin[r]
    BY <1>0, <2>1 DEF Seqs
  <2>3. \A s, i : Covered(s, i) => Covered(s, i)'
    <3>1. lastSeq' \in Nat /\ lastSeq <= lastSeq' /\ \A r \in 1..lastSeq : origin'[r] = origin[r]
      BY <1>0, <2>1, <2>2, MaxSeqAssumption DEF Seqs
    <3> QED BY <2>1, <3>1, CoveredKept
  <2>4. RefsTrue'
    <3> SUFFICES ASSUME NEW r \in trk.srcRefs
                 PROVE  /\ r.seq <= lastSeq' /\ r.srcSeq <= emitted[r.node]
                        /\ origin'[r.seq] = <<r.node, base[r.node] + r.srcSeq>>
      BY <2>1 DEF RefsTrue
    <3>1. /\ r.seq <= lastSeq /\ r.srcSeq <= emitted[r.node] /\ r.seq \in Seqs
          /\ origin[r.seq] = <<r.node, base[r.node] + r.srcSeq>>
      BY <1>0, Fields DEF SrcRef, CoverInv, RefsTrue
    <3> QED BY <1>0, <2>1, <2>2, <3>1 DEF Seqs
  <2>5. HeldTrue'
    <3> SUFFICES ASSUME NEW s \in Sources, pc'[s] = "register"
                 PROVE  origin'[at'[s]] = <<s, base[s] + emitted[s]>>
      BY <2>1 DEF HeldTrue
    <3>1. CASE s = c
      <4>1. at'[s] = q /\ origin'[q] = <<s, base[s] + emitted[s]>>
        <5> HIDE DEF q
        <5> QED BY <1>0, <2>1, <3>1, Roles
      <4> QED BY <4>1
    <3>2. CASE s # c
      <4>1. pc[s] = "register" /\ at'[s] = at[s]
        BY <1>0, <2>1, <3>2, Roles
      <4>2. at[s] \in Seqs /\ at[s] <= lastSeq
        BY <4>1, Roles DEF TypeInv, RowsHeld
      <4> QED BY <2>2, <4>1, <4>2 DEF CoverInv, HeldTrue
    <3> QED BY <3>1, <3>2
  <2>6. CommittedCovered' /\ FrontCovered' /\ StateCovered'
    BY <2>1, <2>3 DEF CoverInv, CommittedCovered, FrontCovered, StateCovered
  <2> QED BY <2>4, <2>5, <2>6 DEF CoverInv
<1>3. CASE \/ c \in Emitters /\ AppendRefused(c)
           \/ Gate(c) \/ GateRefused(c) \/ Return(c)
  <2>1. /\ UNCHANGED <<lastSeq, origin, base, emitted, srcState, settled, trk, at>>
        /\ pc' \in {[pc EXCEPT ![c] = "done"], [pc EXCEPT ![c] = "idle"],
                    [pc EXCEPT ![c] = IF c = Runner THEN "register" ELSE "append"]}
    BY <1>3 DEF AppendRefused, Gate, GateRefused, Return, storeVars, sourceVars, histVars
  <2>2. \A s \in Sources : pc'[s] = "register" => pc[s] = "register"
    BY <1>0, <2>1, Roles
  <2> QED BY <2>1, <2>2, CoverQuiet
<1>4. CASE Register(c)
  <2>1. /\ UNCHANGED <<lastSeq, origin, base, emitted, srcState, settled, at>>
        /\ pc' = [pc EXCEPT ![c] = "dispatch"]
    BY <1>4 DEF Register, storeVars, sourceVars
  <2>2. at[c] \in Seqs /\ at[c] <= lastSeq
    BY <1>4 DEF Register, TypeInv, RowsHeld
  <2>3. HeldTrue'
    BY <1>0, <2>1, Roles DEF CoverInv, HeldTrue
  <2>4. CASE c \in Sources
    <3>1. trk' = arrived(trk, at[c], c, emitted[c]) /\ emitted[c] \in Nat /\ pc[c] = "register"
      BY <1>0, <1>4, <2>4 DEF Register
    <3>2. /\ trk'.srcRefs = trk.srcRefs \cup {[seq |-> at[c], node |-> c, srcSeq |-> emitted[c]]}
          /\ \A s \in Sources : /\ trk'.srcs[s].front = trk.srcs[s].front
                                /\ trk'.srcs[s].committedAt = trk.srcs[s].committedAt
      BY <1>0, <2>2, <2>4, <3>1, ArrivedMoves
    <3>3. RefsTrue'
      <4>1. origin[at[c]] = <<c, base[c] + emitted[c]>>
        BY <2>4, <3>1 DEF CoverInv, HeldTrue
      <4> QED BY <1>0, <2>1, <2>2, <2>4, <3>2, <4>1 DEF CoverInv, RefsTrue
    <3>4. CommittedCovered' /\ FrontCovered' /\ StateCovered'
      BY <2>1, <3>2 DEF CoverInv, CommittedCovered, FrontCovered, StateCovered, Covered
    <3> QED BY <2>3, <3>3, <3>4 DEF CoverInv
  <2>5. CASE c \notin Sources
    <3>1. trk' = arrived(trk, at[c], NoNode, 0)
      BY <1>4, <2>5 DEF Register
    <3>2. NoNode \in Sources \cup {NoNode} /\ 0 \in Nat /\ trk \in Tracker /\ NoNode \notin Sources
      BY <1>0, NoNodeAssumption
    <3>3. /\ arrived(trk, at[c], NoNode, 0).srcs = trk.srcs
          /\ arrived(trk, at[c], NoNode, 0).srcRefs = trk.srcRefs
      BY <2>2, <3>2, ArrivedMoves
    <3>4. \A s \in Sources : pc'[s] = "register" => pc[s] = "register"
      BY <1>0, <2>1, Roles
    <3> QED BY <2>1, <3>1, <3>3, <3>4, CoverQuiet
  <2> QED BY <2>4, <2>5
<1> QED BY <1>1, <1>2, <1>3, <1>4

\* Every step keeps what the positions rest on.
LEMMA CoverStep ==
  TypeInv /\ TypeInv' /\ PrefixSettled' /\ FrontierInv /\ CoverInv /\ [Next]_vars => CoverInv'
<1> SUFFICES ASSUME TypeInv, TypeInv', PrefixSettled', FrontierInv, CoverInv, [Next]_vars
             PROVE  CoverInv'
  OBVIOUS
<1>0. /\ trk \in Tracker /\ emitted \in [Sources -> Nat] /\ base \in [Sources -> Nat]
      /\ srcState \in [Sources -> Nat] /\ lastSeq \in 0..MaxSeq /\ pc \in [Goroutines -> PcSet]
      /\ at \in [Goroutines -> 0..MaxSeq] /\ pending \in [Sources -> Nat]
  BY DEF TypeInv, TypeOK, PcSet
<1>1. CASE Shutdown \/ Crash
  <2>1. EngineGone /\ UNCHANGED <<lastSeq, origin, settled>>
    BY <1>1 DEF Shutdown, Crash, storeVars
  <2>2. /\ trk'.srcRefs = {}
        /\ \A s \in Sources : /\ trk'.srcs[s].front = 0 /\ trk'.srcs[s].committedAt = {}
                              /\ base'[s] = 0 /\ pc'[s] = "idle"
    BY <2>1, Roles DEF EngineGone, newCommitTracker
  <2>3. StateCovered'
    <3> SUFFICES ASSUME NEW s \in Sources, NEW i \in 1..srcState'[s] PROVE Covered(s, i)
      BY <2>1 DEF StateCovered, Covered
    <3>1. srcState'[s] = srcState[s] \/ srcState'[s] = base[s] + pending[s]
      BY <1>0, <1>1 DEF Shutdown, Crash, storeVars
    <3> QED BY <3>1, PostedCovered DEF CoverInv, StateCovered
  <2>4. RefsTrue' /\ HeldTrue' /\ CommittedCovered' /\ FrontCovered'
    BY <2>2 DEF RefsTrue, HeldTrue, CommittedCovered, FrontCovered
  <2> QED BY <2>3, <2>4 DEF CoverInv
<1>2. CASE Start \/ Cancel \/ ReplayPage \/ ReplayRow \/ Abandon \/ AbandonRows \/ AbandonWrite
           \/ AbandonGivesUp \/ AbandonNext
  <2>1. /\ UNCHANGED <<lastSeq, origin, base, emitted, srcState, trk>> /\ settled \subseteq settled'
        /\ \A s \in Sources : pc'[s] = pc[s] /\ at'[s] = at[s]
    BY <1>0, <1>2, Roles DEF Start, Cancel, ReplayPage, ReplayRow, Abandon, AbandonRows, AbandonWrite,
       AbandonGivesUp, AbandonNext, storeVars, sourceVars, goVars, histVars
  <2> QED BY <2>1, CoverQuiet
<1>3. CASE resumeCheckpoint
  <2>1. trk'.srcs = trk.srcs /\ trk'.srcRefs = trk.srcRefs
    BY <1>0, <1>3, ResumeMoves DEF resumeCheckpoint, TypeInv, TypeOK
  <2>2. UNCHANGED <<lastSeq, origin, base, emitted, srcState, settled, pc, at>>
    BY <1>3 DEF resumeCheckpoint, storeVars, sourceVars, goVars, histVars
  <2> QED BY <2>1, <2>2, CoverQuiet
<1>4. CASE ReplayDone
  <2>1. /\ UNCHANGED <<lastSeq, origin, settled, trk, emitted, srcState, pc, at>>
        /\ phase = "replay" /\ \A s \in Sources : base'[s] = srcState[s]
    BY <1>4 DEF ReplayDone, RunnerFree, InitSource, storeVars, histVars, goVars
  <2>2. \A s \in Sources : emitted[s] = 0
    BY <2>1 DEF FrontierInv, NothingEmitted
  <2>3. trk.srcRefs = {}
    BY <1>0, <2>2, Fields DEF CoverInv, RefsTrue, SrcRef
  <2>4. \A s \in Sources : trk.srcs[s].front = 0 /\ trk.srcs[s].committedAt = {}
    <3> SUFFICES ASSUME NEW s \in Sources
                 PROVE  trk.srcs[s].front = 0 /\ trk.srcs[s].committedAt = {}
      OBVIOUS
    <3>1. /\ trk.srcs[s].front \in Nat /\ trk.srcs[s].front <= 0
          /\ trk.srcs[s].committedAt \subseteq Nat \ {0}
      BY <1>0, <2>2 DEF Tracker, SrcTracker, FrontierInv, FrontiersOrdered
    <3>2. \A i \in trk.srcs[s].committedAt : i <= 0
      BY <2>2 DEF CoverInv, CommittedCovered
    <3> QED BY <3>1, <3>2
  <2>5. \A s \in Sources : pc[s] # "register"
    BY <2>2, Roles DEF TypeInv, EmittedBeforeHeld
  <2>6. FrontCovered' /\ StateCovered'
    <3>1. \A s \in Sources : base'[s] + trk'.srcs[s].front = srcState[s]
      BY <1>0, <2>1, <2>4
    <3>2. \A s \in Sources : \A i \in 1..srcState[s] : Covered(s, i)'
      BY <2>1 DEF CoverInv, StateCovered, Covered
    <3> QED BY <2>1, <3>1, <3>2 DEF FrontCovered, StateCovered
  <2> QED BY <2>1, <2>3, <2>4, <2>5, <2>6 DEF CoverInv, RefsTrue, HeldTrue, CommittedCovered
<1>5. ASSUME NEW c \in Callers,
             \/ c \in Emitters /\ (Emit(c) \/ AppendSpool(c) \/ AppendRefused(c))
             \/ Gate(c) \/ GateRefused(c) \/ Register(c) \/ Return(c)
      PROVE  CoverInv'
  BY <1>5, CoverAdmit
<1>6. CASE \/ ReplayOrphan \/ AbandonForce
           \/ \E c \in Callers : Dispatch(c)
           \/ \E w \in Workers : Work(w)
  <2>1. SrcMoved(trk, trk', trk'.committedPtr - 1)
    BY <1>6, TrackerMoves
  <2>2. /\ UNCHANGED <<lastSeq, origin, base, emitted, srcState, at>>
        /\ settled \subseteq settled'
    BY <1>6 DEF ReplayOrphan, AbandonForce, Dispatch, Work, Branch, storeVars, sourceVars, histVars
  <2>3. \A s \in Sources : pc'[s] = "register" => pc[s] = "register"
    BY <1>0, <1>6, Roles DEF ReplayOrphan, AbandonForce, Dispatch, Work
  <2> QED BY <2>1, <2>2, <2>3, CoverSweep
<1>7. ASSUME NEW g \in Goroutines, OnCommit(g) \/ persistCheckpoint(g) \/ persistCheckpointFails(g)
      PROVE  CoverInv'
  <2>1. UNCHANGED <<lastSeq, origin, base, emitted, srcState, settled, trk, pc, at>>
    BY <1>7 DEF OnCommit, persistCheckpoint, persistCheckpointFails, storeVars, sourceVars, histVars
  <2> QED BY <2>1, CoverQuiet
<1>8. ASSUME NEW r \in Sources, SourceCommit(r) PROVE CoverInv'
  <2>1. UNCHANGED <<lastSeq, origin, base, emitted, settled, trk, pc, at>>
    BY <1>8 DEF SourceCommit, sourceVars, histVars, goVars
  <2>2. StateCovered'
    <3> SUFFICES ASSUME NEW s \in Sources, NEW i \in 1..srcState'[s] PROVE Covered(s, i)
      BY <2>1 DEF StateCovered, Covered
    <3>1. srcState'[s] = srcState[s] \/ srcState'[s] = base[s] + pending[s]
      BY <1>0, <1>8 DEF SourceCommit
    <3> QED BY <3>1, PostedCovered DEF CoverInv, StateCovered
  <2>3. RefsTrue' /\ HeldTrue' /\ CommittedCovered' /\ FrontCovered'
    BY <2>1 DEF CoverInv, RefsTrue, HeldTrue, CommittedCovered, FrontCovered, Covered
  <2> QED BY <2>2, <2>3 DEF CoverInv
<1>9. CASE UNCHANGED vars
  BY <1>9, CoverQuiet DEF vars, storeVars, sourceVars, goVars, histVars
<1> QED BY <1>1, <1>2, <1>3, <1>4, <1>5, <1>6, <1>7, <1>8, <1>9, Roles, Zenon DEF Next, Emitters

(***************************************************************************)
(* A source never resumes past an item that could still be lost: every     *)
(* item its durable state covers was spooled, in this run or an earlier    *)
(* one, and that row is settled.                                           *)
(***************************************************************************)
THEOREM StateCoversSettledOnly ==
  ASSUME EarlyInject = FALSE
  PROVE  Spec => []SourceStateCovered
<1>1. Init => FrontierInv
  BY FrontierNew DEF Init
<1>2. Init => CoverInv
  BY Roles DEF Init, newCommitTracker, CoverInv, RefsTrue, HeldTrue, CommittedCovered, FrontCovered,
     StateCovered
<1>3. TypeInv /\ TypeInv' /\ FrontierInv /\ [Next]_vars => FrontierInv'
  BY FrontierStep
<1>4. TypeInv /\ TypeInv' /\ SafeInv' /\ FrontierInv /\ CoverInv /\ [Next]_vars => CoverInv'
  BY CoverStep DEF SafeInv
<1>5. CoverInv => SourceStateCovered
  BY DEF CoverInv, StateCovered, Covered, SourceStateCovered
<1> QED BY <1>1, <1>2, <1>3, <1>4, <1>5, Invariant, PTL DEF Spec

=============================================================================
