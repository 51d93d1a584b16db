--------------------------- MODULE DeliveryProofs ---------------------------
(***************************************************************************)
(* The commit tracker and the goroutines of a pipeline agree, proved for   *)
(* every graph of PipelineAssumption and every number of messages, workers *)
(* and faults.                                                             *)
(***************************************************************************)
EXTENDS Delivery, FiniteSetTheorems, SequenceTheorems, WellFoundedInduction, TLAPS

Places == {"start", "idle", "fan", "apply", "reapply", "encode", "write", "backoff",
           "dispose", "gone"}

\* Branches of the first n messages, and what a goroutine holds of them.
Vias == (DOMAIN graph.edges) \cup {0, -1}
Instances(n) == [seq : 1..n, via : Vias]
Goroutine(n) ==
  [pc : Places, inst : [seq : 0..n, via : Vias], tries : Nat, fan : Nat,
   todo : Seq(Vias \ {0}), pend : Seq(Instances(n)), batch : Seq(Instances(n)),
   q : Seq(Instances(n)), leaving : BOOLEAN]

DeliveryTypes ==
  /\ graph \in Pipelines /\ ctx \in {"live", "cancelled"}
  /\ next \in 0..graph.msgs /\ open \in [Seqs -> Nat]
  /\ chan \in [DOMAIN graph.kind -> Seq(Instances(next))]
  /\ proc \in [DOMAIN graph.node -> Goroutine(next)]
  /\ owed \subseteq Instances(next)
  /\ \A s \in Seqs : s > next => open[s] = 0

\* What a goroutine has at its control point; the last part is PatienceOfEdge.
Shaped(p, v) ==
  /\ v.pc # "idle" => v.pend = <<>>
  /\ v.pend # <<>> => IsSink(p)
  /\ v.pc \notin {"encode", "dispose"} => v.q = <<>>
  /\ v.pc \notin {"encode", "write", "backoff", "dispose"} => v.batch = <<>>
  /\ v.pc \in {"fan", "apply", "reapply"} => v.inst.seq # 0
  /\ v.pc \in {"apply", "reapply"} => v.todo = <<>>
  /\ v.pc = "dispose" /\ IsSink(p) =>
       \A b \in Members(v.q) : v.tries >= Edge(b.via).retries

\* The sums are those of finite sets.
Finite ==
  \A s \in Seqs : IsFiniteSet(Units(Waiting(s))) /\ IsFiniteSet(Units(Working(s)))

\* A branch is with a goroutine.
With(v, b) ==
  \/ b \in Members(v.pend) \/ b \in Members(v.q)
  \/ v.pc # "dispose" /\ b \in Members(v.batch)
  \/ v.pc = "fan" /\ v.fan > 0 /\ v.inst = b
  \/ v.pc = "fan" /\ \E k \in DOMAIN v.todo : b = Branch(v.inst.seq, v.todo[k])
  \/ v.pc \in {"apply", "reapply"} /\ v.inst = b

\* A branch that came to an end its edge allows.
Ended(b) ==
  \E o \in out : o.seq = b.seq /\ o.via = b.via /\ (o.how = "dropped" => ~Required(b))

\* Every branch has ended, is somewhere, or was left behind by a cancelled engine, which
\* keeps its message open.
Followed ==
  \A b \in owed :
    \/ Ended(b)
    \/ \E n \in DOMAIN chan : b \in Members(chan[n])
    \/ \E p \in DOMAIN proc : With(proc[p], b)
    \/ open[b.seq] > Present(b.seq)

DeliveryInv ==
  /\ DeliveryTypes /\ (\A p \in DOMAIN proc : Shaped(p, proc[p]))
  /\ Finite /\ OpenIsPresent /\ Followed
-----------------------------------------------------------------------------
(* Sums and counts.                                                        *)

\* Changing one value changes the sum by that much.
LEMMA TotalChange ==
  ASSUME NEW D, NEW f \in [D -> Nat], IsFiniteSet(Units(f)), NEW x \in D, NEW k \in Nat,
         NEW g, g = [f EXCEPT ![x] = k]
  PROVE  /\ IsFiniteSet(Units(g)) /\ Total(f) \in Nat
         /\ Total(g) = Total(f) - f[x] + k
<1> DEFINE Of(m) == {x} \X (1..m)
           others == {u \in Units(f) : u[1] # x}
<1>1. \A m \in Nat : IsFiniteSet(Of(m)) /\ Cardinality(Of(m)) = m
  <2> TAKE m \in Nat
  <2>1. IsFiniteSet({x}) /\ Cardinality({x}) = 1
    BY FS_Singleton
  <2>2. IsFiniteSet(1..m) /\ Cardinality(1..m) = IF 1 > m THEN 0 ELSE m - 1 + 1
    <3>1. 1 \in Int /\ m \in Int
      OBVIOUS
    <3> QED BY <3>1, FS_Interval
  <2>3. IsFiniteSet(Of(m)) /\ Cardinality(Of(m)) = 1 * Cardinality(1..m)
    BY <2>1, <2>2, FS_Product
  <2> QED BY <2>2, <2>3
<1>2. f[x] \in Nat /\ g \in [D -> Nat] /\ g[x] = k /\ \A y \in D \ {x} : g[y] = f[y]
  OBVIOUS
<1>3. \A u : u \in Units(f) <=> \E y \in D : u \in {y} \X (1..f[y])
  BY DEF Units
<1>4. \A u : u \in Units(g) <=> \E y \in D : u \in {y} \X (1..g[y])
  BY <1>2 DEF Units
<1>5. Units(f) = others \cup Of(f[x]) /\ others \cap Of(f[x]) = {}
  BY <1>3
<1>6. Units(g) = others \cup Of(k) /\ others \cap Of(k) = {}
  <2>1. \A u : u \in others <=> \E y \in D \ {x} : u \in {y} \X (1..f[y])
    BY <1>3
  <2>2. \A u : u \in others <=> \E y \in D \ {x} : u \in {y} \X (1..g[y])
    BY <1>2, <2>1
  <2>3. \A u : u \in Units(g) <=> u \in others \/ u \in {x} \X (1..g[x])
    BY <1>4, <2>2
  <2>4. others \cap Of(k) = {}
    OBVIOUS
  <2> QED BY <1>2, <2>3, <2>4
<1>7. IsFiniteSet(others)
  BY FS_Subset
<1>8. IsFiniteSet(Of(f[x])) /\ Cardinality(Of(f[x])) = f[x]
      /\ IsFiniteSet(Of(k)) /\ Cardinality(Of(k)) = k
  BY <1>1, <1>2
<1> HIDE DEF others, Of
<1>9. Cardinality(others) \in Nat /\ Cardinality({}) = 0
  BY <1>7, FS_CardinalityType, FS_EmptySet
<1>10. Cardinality(Units(f)) = Cardinality(others) + f[x]
  <2>1. Cardinality(others \cup Of(f[x]))
          = Cardinality(others) + Cardinality(Of(f[x])) - Cardinality(others \cap Of(f[x]))
    BY <1>7, <1>8, FS_Union
  <2>2. Cardinality(Units(f)) = Cardinality(others) + f[x] - Cardinality({})
    BY <1>5, <1>8, <2>1, Zenon
  <2> QED BY <1>2, <1>9, <2>2
<1>11. IsFiniteSet(Units(g)) /\ Cardinality(Units(g)) = Cardinality(others) + k
  <2>1. IsFiniteSet(others \cup Of(k)) /\
        Cardinality(others \cup Of(k))
          = Cardinality(others) + Cardinality(Of(k)) - Cardinality(others \cap Of(k))
    BY <1>7, <1>8, FS_Union
  <2>2. IsFiniteSet(Units(g)) /\ Cardinality(Units(g)) = Cardinality(others) + k - Cardinality({})
    BY <1>6, <1>8, <2>1, Zenon
  <2> QED BY <1>9, <2>2
<1> QED BY <1>2, <1>9, <1>10, <1>11 DEF Total

\* The sum of nothing.
LEMMA TotalZero ==
  ASSUME NEW f, \A x \in DOMAIN f : f[x] = 0
  PROVE  IsFiniteSet(Units(f)) /\ Total(f) = 0
<1>1. Units(f) = {}
  <2>1. \A x \in DOMAIN f : {x} \X (1..f[x]) = {}
    OBVIOUS
  <2> QED BY <2>1 DEF Units
<1> QED BY <1>1, FS_EmptySet DEF Total

\* The sum of something.
LEMMA TotalPositive ==
  ASSUME NEW D, NEW f \in [D -> Nat], IsFiniteSet(Units(f)), NEW x \in D, f[x] > 0
  PROVE  Total(f) > 0
<1>1. <<x, 1>> \in Units(f)
  <2>1. <<x, 1>> \in {x} \X (1..f[x])
    OBVIOUS
  <2> QED BY <2>1 DEF Units
<1>2. Units(f) # {} /\ Cardinality(Units(f)) \in Nat
  BY <1>1, FS_CardinalityType
<1> QED BY <1>2, FS_EmptySet DEF Total

\* A count is a number.
LEMMA CountType ==
  ASSUME NEW S, NEW t \in Seq(S), NEW s
  PROVE  Count(t, s) \in Nat /\ IsFiniteSet({i \in DOMAIN t : t[i].seq = s})
<1>1. DOMAIN t = 1..Len(t) /\ Len(t) \in Nat
  BY LenProperties
<1>2. IsFiniteSet(1..Len(t))
  BY <1>1, FS_Interval
<1>3. IsFiniteSet({i \in DOMAIN t : t[i].seq = s})
  BY <1>1, <1>2, FS_Subset
<1> QED BY <1>3, FS_CardinalityType DEF Count

\* An empty list counts nothing.
LEMMA CountEmpty ==
  ASSUME NEW s
  PROVE  Count(<<>>, s) = 0
<1>1. {i \in DOMAIN <<>> : <<>>[i].seq = s} = {}
  OBVIOUS
<1> QED BY <1>1, FS_EmptySet DEF Count

\* An instance in a list is counted.
LEMMA CountMember ==
  ASSUME NEW S, NEW t \in Seq(S), NEW b \in Members(t)
  PROVE  Count(t, b.seq) > 0 /\ b \in S
<1>1. PICK k \in DOMAIN t : b = t[k]
  BY DEF Members
<1>2. PICK A : A = {i \in DOMAIN t : t[i].seq = b.seq}
  OBVIOUS
<1>3. A # {} /\ b \in S /\ IsFiniteSet(A) /\ Cardinality(A) \in Nat
  <2>1. IsFiniteSet({i \in DOMAIN t : t[i].seq = b.seq})
    BY CountType
  <2>2. IsFiniteSet(A)
    BY <1>2, <2>1
  <2>3. k \in A /\ b \in S
    BY <1>1, <1>2
  <2> QED BY <2>2, <2>3, FS_CardinalityType
<1>4. Cardinality(A) # 0
  BY <1>3, FS_EmptySet
<1> QED BY <1>2, <1>3, <1>4 DEF Count

\* No instance, no count.
LEMMA CountNone ==
  ASSUME NEW t, NEW s, \A i \in DOMAIN t : t[i].seq # s
  PROVE  Count(t, s) = 0
<1>1. {i \in DOMAIN t : t[i].seq = s} = {}
  OBVIOUS
<1> QED BY <1>1, FS_EmptySet DEF Count

\* The instance b is one of message s, or none of it.
One(b, s) == IF b.seq = s THEN 1 ELSE 0

\* A list that grows by one instance.
LEMMA CountAppend ==
  ASSUME NEW S, NEW t \in Seq(S), NEW b \in S, NEW s
  PROVE  /\ Append(t, b) \in Seq(S) /\ Count(Append(t, b), s) = Count(t, s) + One(b, s)
         /\ Members(Append(t, b)) = Members(t) \cup {b}
<1>1. DOMAIN t = 1..Len(t) /\ Len(t) \in Nat
  BY LenProperties
<1>2. PICK u : u = Append(t, b)
  OBVIOUS
<1>3. /\ u \in Seq(S) /\ DOMAIN u = 1..(Len(t) + 1) /\ u[Len(t) + 1] = b
      /\ \A i \in 1..Len(t) : u[i] = t[i]
  BY <1>1, <1>2, AppendProperties
<1>4. PICK A : A = {i \in DOMAIN t : t[i].seq = s}
  OBVIOUS
<1>5. IsFiniteSet(A) /\ Cardinality(A) \in Nat /\ Count(t, s) = Cardinality(A)
  BY <1>4, CountType DEF Count
<1>6. Count(u, s) = Cardinality(A) + One(b, s)
  <2>1. CASE b.seq = s
    <3>1. {i \in DOMAIN u : u[i].seq = s} = A \cup {Len(t) + 1} /\ Len(t) + 1 \notin A
      BY <1>1, <1>3, <1>4, <2>1
    <3>2. Cardinality(A \cup {Len(t) + 1}) = Cardinality(A) + 1
      BY <1>5, <3>1, FS_AddElement
    <3>3. Count(u, s) = Cardinality(A \cup {Len(t) + 1})
      BY <3>1 DEF Count
    <3> QED BY <2>1, <3>2, <3>3 DEF One
  <2>2. CASE b.seq # s
    <3>1. {i \in DOMAIN u : u[i].seq = s} = A
      BY <1>1, <1>3, <1>4, <2>2
    <3>2. Count(u, s) = Cardinality(A)
      BY <3>1 DEF Count
    <3> QED BY <1>5, <2>2, <3>2 DEF One
  <2> QED BY <2>1, <2>2
<1>7. Members(u) = Members(t) \cup {b}
  <2>1. 1..(Len(t) + 1) = 1..Len(t) \cup {Len(t) + 1}
    BY <1>1
  <2> QED BY <1>1, <1>3, <2>1 DEF Members
<1> QED BY <1>2, <1>3, <1>5, <1>6, <1>7

\* The two ends of a list.
LEMMA CountTail ==
  ASSUME NEW S, NEW t \in Seq(S), t # <<>>, NEW s
  PROVE  /\ Tail(t) \in Seq(S) /\ Head(t) \in S
         /\ Count(t, s) = Count(Tail(t), s) + One(Head(t), s)
         /\ Members(t) = Members(Tail(t)) \cup {Head(t)}
<1>1. PICK u : u = Tail(t)
  OBVIOUS
<1>2. /\ DOMAIN t = 1..Len(t) /\ Len(t) \in Nat /\ Len(t) > 0 /\ Head(t) = t[1] /\ t[1] \in S
      /\ u \in Seq(S) /\ DOMAIN u = 1..(Len(t) - 1) /\ \A i \in 1..(Len(t) - 1) : u[i] = t[i + 1]
  BY <1>1, EmptySeq, HeadTailProperties, LenProperties
<1>3. PICK A : A = {i \in DOMAIN u : u[i].seq = s}
  OBVIOUS
<1>4. PICK B : B = {i \in DOMAIN t : t[i].seq = s /\ i # 1}
  OBVIOUS
<1>5. IsFiniteSet(A) /\ Cardinality(A) \in Nat /\ Count(u, s) = Cardinality(A)
  BY <1>2, <1>3, CountType DEF Count
<1>6. IsFiniteSet(B)
  <2>1. PICK C : C = {i \in DOMAIN t : t[i].seq = s}
    OBVIOUS
  <2>2. IsFiniteSet(C) /\ B \subseteq C
    BY <1>4, <2>1, CountType
  <2> QED BY <2>2, FS_Subset
<1>7. Cardinality(B) = Cardinality(A)
  <2>1. PICK h : h = [i \in A |-> i + 1]
    OBVIOUS
  <2>2. h \in Bijection(A, B)
    <3>1. h \in [A -> B]
      BY <1>2, <1>3, <1>4, <2>1
    <3>2. \A i, j \in A : h[i] = h[j] => i = j
      BY <1>2, <1>3, <2>1
    <3>3. \A k \in B : \E i \in A : h[i] = k
      <4> TAKE k \in B
      <4>1. k - 1 \in A /\ h[k - 1] = k
        BY <1>2, <1>3, <1>4, <2>1
      <4> QED BY <4>1
    <3> QED BY <3>1, <3>2, <3>3 DEF Bijection, Injection, Surjection, IsInjective
  <2> QED BY <1>5, <1>6, <2>2, FS_Bijection DEF ExistsBijection
<1>8. Count(t, s) = Cardinality(A) + One(Head(t), s)
  <2>1. CASE t[1].seq = s
    <3>1. {i \in DOMAIN t : t[i].seq = s} = B \cup {1} /\ 1 \notin B
      BY <1>2, <1>4, <2>1
    <3> QED BY <1>2, <1>6, <1>7, <2>1, <3>1, FS_AddElement DEF Count, One
  <2>2. CASE t[1].seq # s
    <3>1. {i \in DOMAIN t : t[i].seq = s} = B
      BY <1>2, <1>4, <2>2
    <3>2. Count(t, s) = Cardinality(B)
      BY <3>1 DEF Count
    <3> QED BY <1>2, <1>5, <1>7, <2>2, <3>2 DEF One
  <2> QED BY <2>1, <2>2
<1>9. Members(t) = Members(u) \cup {Head(t)}
  <2>1. \A i \in 1..Len(t) : i = 1 \/ i - 1 \in 1..(Len(t) - 1)
    BY <1>2
  <2>2. \A i \in 1..Len(t) : t[i] = t[1] \/ t[i] \in Members(u)
    <3> TAKE i \in 1..Len(t)
    <3>1. i # 1 => u[i - 1] = t[i] /\ i - 1 \in DOMAIN u
      BY <1>2, <2>1
    <3> QED BY <3>1 DEF Members
  <2>3. \A i \in DOMAIN u : u[i] \in Members(t)
    <3> TAKE i \in DOMAIN u
    <3>1. i + 1 \in DOMAIN t /\ u[i] = t[i + 1]
      BY <1>2
    <3> QED BY <3>1 DEF Members
  <2> QED BY <1>2, <2>2, <2>3 DEF Members
<1> QED BY <1>1, <1>2, <1>5, <1>8, <1>9

CountedAt(t, S, s) == {m \in S : t[m].seq = s}

\* A list of the entries of t at the positions S, in their order.
LEMMA CountPicked ==
  ASSUME NEW T, NEW t \in Seq(T), NEW S \in SUBSET DOMAIN t, NEW i \in Ascending(S), NEW s
  PROVE  /\ Picked(t, i) \in Seq(T) /\ Members(Picked(t, i)) = {t[m] : m \in S}
         /\ Count(Picked(t, i), s) = Cardinality(CountedAt(t, S, s))
<1> DEFINE u == Picked(t, i)
<1>1. DOMAIN t = 1..Len(t) /\ Len(t) \in Nat
  BY LenProperties
<1>2. IsFiniteSet(1..Len(t))
  BY <1>1, FS_Interval
<1>3. IsFiniteSet(S) /\ Cardinality(S) \in Nat
  BY <1>1, <1>2, FS_Subset, FS_CardinalityType
<1>4. /\ i \in [1..Cardinality(S) -> S] /\ (\A e \in S : \E k \in 1..Cardinality(S) : i[k] = e)
      /\ \A j, k \in 1..Cardinality(S) : j < k => i[j] < i[k]
  BY DEF Ascending
<1>5. \A k \in 1..Cardinality(S) : i[k] \in S /\ t[i[k]] \in T
  BY <1>1, <1>4
<1>6. u \in Seq(T) /\ DOMAIN u = 1..Cardinality(S) /\ \A k \in 1..Cardinality(S) : u[k] = t[i[k]]
  <2>1. u \in [1..Cardinality(S) -> T] /\ \A k \in 1..Cardinality(S) : u[k] = t[i[k]]
    BY <1>4, <1>5 DEF Picked
  <2> QED BY <1>3, <2>1, IsASeq
<1> HIDE DEF u
<1>7. Members(u) = {t[m] : m \in S}
  BY <1>4, <1>5, <1>6 DEF Members
<1>8. PICK A : A = {k \in DOMAIN u : u[k].seq = s}
  OBVIOUS
<1>9. PICK B : B = {m \in S : t[m].seq = s}
  OBVIOUS
<1>10. IsFiniteSet(A)
  <2>1. IsFiniteSet(1..Cardinality(S)) /\ A \subseteq 1..Cardinality(S)
    BY <1>3, <1>6, <1>8, FS_Interval
  <2> QED BY <2>1, FS_Subset
<1>11. PICK h : h = [k \in A |-> i[k]]
  OBVIOUS
<1>12. h \in Bijection(A, B)
  <2>1. h \in [A -> B]
    BY <1>5, <1>6, <1>8, <1>9, <1>11
  <2>2. \A j, k \in A : h[j] = h[k] => j = k
    <3> TAKE j, k \in A
    <3>1. j \in 1..Cardinality(S) /\ k \in 1..Cardinality(S) /\ h[j] = i[j] /\ h[k] = i[k]
      BY <1>6, <1>8, <1>11
    <3>2. i[j] \in Nat /\ i[k] \in Nat
      BY <1>1, <1>5, <3>1
    <3>3. j < k \/ k < j \/ j = k
      BY <1>3, <3>1
    <3>4. (j < k => i[j] < i[k]) /\ (k < j => i[k] < i[j])
      BY <1>4, <3>1
    <3> QED BY <3>1, <3>2, <3>3, <3>4
  <2>3. \A m \in B : \E k \in A : h[k] = m
    <3> TAKE m \in B
    <3>1. PICK k \in 1..Cardinality(S) : i[k] = m
      BY <1>4, <1>9
    <3>2. k \in A
      BY <1>6, <1>8, <1>9, <3>1
    <3> QED BY <1>11, <3>1, <3>2
  <2> QED BY <2>1, <2>2, <2>3 DEF Bijection, Injection, Surjection, IsInjective
<1>13. Cardinality(B) = Cardinality(A)
  BY <1>10, <1>12, FS_Bijection DEF ExistsBijection
<1>14. Count(u, s) = Cardinality(A)
  BY <1>8 DEF Count
<1> QED BY <1>6, <1>7, <1>9, <1>13, <1>14 DEF CountedAt, u

\* writeBatch sets the instances at some positions aside: every instance is in one of
\* the two lists, and counted there.
LEMMA CountSplit ==
  ASSUME NEW T, NEW t \in Seq(T), NEW S \in SUBSET DOMAIN t,
         NEW i \in Ascending(S), NEW j \in Ascending(DOMAIN t \ S),
         NEW u, u = Picked(t, i), NEW w, w = Picked(t, j), NEW s
  PROVE  /\ u \in Seq(T) /\ w \in Seq(T) /\ Members(t) = Members(u) \cup Members(w)
         /\ Count(t, s) = Count(u, s) + Count(w, s)
<1>1. PICK R : R = DOMAIN t \ S
  OBVIOUS
<1>2. R \in SUBSET DOMAIN t /\ j \in Ascending(R)
  BY <1>1
<1>3. PICK A : A = {m \in S : t[m].seq = s}
  OBVIOUS
<1>4. PICK B : B = {m \in R : t[m].seq = s}
  OBVIOUS
<1>5. u \in Seq(T) /\ Members(u) = {t[m] : m \in S} /\ Count(u, s) = Cardinality(A)
  <2>1. /\ Picked(t, i) \in Seq(T) /\ Members(Picked(t, i)) = {t[m] : m \in S}
        /\ Count(Picked(t, i), s) = Cardinality(CountedAt(t, S, s))
    BY CountPicked
  <2> QED BY <1>3, <2>1 DEF CountedAt
<1>6. w \in Seq(T) /\ Members(w) = {t[m] : m \in R} /\ Count(w, s) = Cardinality(B)
  <2>1. /\ w \in Seq(T) /\ Members(w) = {t[m] : m \in R}
        /\ Count(w, s) = Cardinality({m \in R : t[m].seq = s})
    <3>1. R \in SUBSET DOMAIN t
      BY <1>2
    <3>2. j \in Ascending(R)
      BY <1>2
    <3>3. /\ Picked(t, j) \in Seq(T) /\ Members(Picked(t, j)) = {t[m] : m \in R}
          /\ Count(Picked(t, j), s) = Cardinality(CountedAt(t, R, s))
      BY <3>1, <3>2, CountPicked
    <3> QED BY <3>3 DEF CountedAt
  <2> QED BY <1>4, <2>1
<1>7. PICK C : C = {m \in DOMAIN t : t[m].seq = s}
  OBVIOUS
<1>8. IsFiniteSet(C) /\ Count(t, s) = Cardinality(C)
  <2>1. IsFiniteSet({m \in DOMAIN t : t[m].seq = s})
    BY CountType
  <2> QED BY <1>7, <2>1 DEF Count
<1>9. C = A \cup B /\ A \cap B = {}
  BY <1>1, <1>3, <1>4, <1>7
<1>10. IsFiniteSet(A) /\ IsFiniteSet(B)
  BY <1>8, <1>9, FS_Subset
<1>11. Cardinality(A \cup B) = Cardinality(A) + Cardinality(B) - Cardinality(A \cap B)
  BY <1>10, FS_Union
<1>12. Cardinality(C) = Cardinality(A) + Cardinality(B) - Cardinality({})
  BY <1>9, <1>11, Zenon
<1>13. Cardinality(A) \in Nat /\ Cardinality(B) \in Nat /\ Cardinality({}) = 0
  BY <1>10, FS_CardinalityType, FS_EmptySet
<1>14. Count(t, s) = Count(u, s) + Count(w, s)
  BY <1>5, <1>6, <1>8, <1>12, <1>13
<1>15. Members(t) = Members(u) \cup Members(w)
  BY <1>1, <1>5, <1>6 DEF Members
<1> QED BY <1>5, <1>6, <1>14, <1>15

-----------------------------------------------------------------------------
(* Goroutines.                                                             *)

\* What a goroutine holds of a message, list by list.
LEMMA HeldNat ==
  ASSUME NEW n, NEW v \in Goroutine(n), NEW s
  PROVE  /\ Held(v, s) \in Nat /\ Count(v.pend, s) \in Nat /\ Count(v.q, s) \in Nat
         /\ Count(v.batch, s) \in Nat /\ Len(v.todo) \in Nat
<1>1. /\ v.pend \in Seq(Instances(n)) /\ v.q \in Seq(Instances(n)) /\ v.batch \in Seq(Instances(n))
      /\ v.todo \in Seq(Vias \ {0}) /\ v.fan \in Nat
  BY DEF Goroutine
<1>2. Count(v.pend, s) \in Nat /\ Count(v.q, s) \in Nat /\ Count(v.batch, s) \in Nat
  BY <1>1, CountType
<1>3. Len(v.todo) \in Nat
  BY <1>1, LenProperties
<1> QED BY <1>1, <1>2, <1>3 DEF Held

\* The goroutine that waits.
LEMMA IdleType ==
  ASSUME NEW n \in Nat
  PROVE  Idle \in Goroutine(n) /\ (\A p : Shaped(p, Idle)) /\ \A s : Held(Idle, s) = 0
<1>1. PICK w : w = Idle
  OBVIOUS
<1>2. /\ w.pc = "idle" /\ w.inst = Branch(0, 0) /\ w.tries = 0 /\ w.fan = 0 /\ w.todo = <<>>
      /\ w.pend = <<>> /\ w.batch = <<>> /\ w.q = <<>> /\ w.leaving = FALSE
  BY <1>1 DEF Idle
<1>3. Branch(0, 0) \in [seq : 0..n, via : Vias]
  BY DEF Branch, Vias
<1>4. <<>> \in Seq(Vias \ {0}) /\ <<>> \in Seq(Instances(n))
  OBVIOUS
<1>5. w \in Goroutine(n)
  BY <1>1, <1>3, <1>4 DEF Idle, Goroutine, Places
<1>6. \A p : Shaped(p, w)
  BY <1>2 DEF Shaped
<1>7. \A s : Held(w, s) = 0
  BY <1>2, CountEmpty DEF Held
<1> QED BY <1>1, <1>5, <1>6, <1>7

\* Rest: nothing but the pending batch is left.
LEMMA RestType ==
  ASSUME NEW n \in Nat, NEW v \in Goroutine(n), NEW p, v.pend = <<>>
  PROVE  /\ Rest(v) \in Goroutine(n) /\ Shaped(p, Rest(v))
         /\ \A s : Held(Rest(v), s) = 0
<1>1. PICK w : w = Rest(v)
  OBVIOUS
<1>2. PICK i : i = Idle
  OBVIOUS
<1>3. /\ i.pc = "idle" /\ i.inst = Branch(0, 0) /\ i.tries = 0 /\ i.fan = 0 /\ i.todo = <<>>
      /\ i.pend = <<>> /\ i.batch = <<>> /\ i.q = <<>> /\ i.leaving = FALSE
      /\ i = [pc |-> "idle", inst |-> Branch(0, 0), tries |-> 0, fan |-> 0, todo |-> <<>>,
              pend |-> <<>>, batch |-> <<>>, q |-> <<>>, leaving |-> FALSE]
  BY <1>2 DEF Idle
<1>4. w = [i EXCEPT !.pc = "gone"] \/ w = i
  <2>1. [i EXCEPT !.pend = v.pend] = i
    BY <1>3
  <2> QED BY <1>1, <1>2, <2>1 DEF Rest
<1>5. /\ w.pc \in {"idle", "gone"} /\ w.inst = Branch(0, 0) /\ w.tries = 0 /\ w.fan = 0
      /\ w.todo = <<>> /\ w.pend = <<>> /\ w.batch = <<>> /\ w.q = <<>> /\ w.leaving = FALSE
  BY <1>3, <1>4
<1>6. i \in Goroutine(n)
  BY <1>2, IdleType
<1>7. w \in Goroutine(n)
  BY <1>4, <1>6 DEF Goroutine, Places
<1>8. Shaped(p, w)
  BY <1>5 DEF Shaped
<1>9. \A s : Held(w, s) = 0
  BY <1>5, CountEmpty DEF Held
<1> QED BY <1>1, <1>7, <1>8, <1>9

\* Onwards loses nothing of what the goroutine holds.
LEMMA OnwardsKeeps ==
  ASSUME NEW n \in Nat, NEW v \in Goroutine(n), NEW p, Shaped(p, v)
  PROVE  /\ Onwards(v) \in Goroutine(n) /\ Shaped(p, Onwards(v))
         /\ \A s : Held(Onwards(v), s) = Held(v, s)
         /\ \A b : With(v, b) => With(Onwards(v), b)
<1>1. CASE v.pc = "fan" /\ v.fan = 0 /\ v.todo = <<>>
  <2>1. Onwards(v) = Idle
    BY <1>1 DEF Onwards
  <2>2. v.pend = <<>> /\ v.q = <<>> /\ v.batch = <<>>
    BY <1>1 DEF Shaped
  <2>3. \A s : Held(v, s) = 0
    <3>1. Len(v.todo) = 0
      BY <1>1
    <3> QED BY <1>1, <2>2, <3>1, CountEmpty DEF Held
  <2>4. \A b : ~With(v, b)
    BY <1>1, <2>2 DEF With, Members
  <2> QED BY <2>1, <2>3, <2>4, IdleType
<1>2. CASE v.pc = "encode" /\ v.q = <<>> /\ v.batch # <<>>
  <2>1. PICK w : w = [v EXCEPT !.pc = "write"]
    OBVIOUS
  <2>2. Onwards(v) = w
    BY <1>2, <2>1 DEF Onwards
  <2>3. /\ w.pc = "write" /\ w.inst = v.inst /\ w.fan = v.fan /\ w.todo = v.todo
        /\ w.pend = v.pend /\ w.batch = v.batch /\ w.q = v.q
    BY <2>1 DEF Goroutine
  <2>4. w \in Goroutine(n)
    BY <2>1 DEF Goroutine, Places
  <2>5. Shaped(p, w)
    BY <1>2, <2>3 DEF Shaped
  <2>6. \A s : Held(w, s) = Held(v, s)
    BY <1>2, <2>3 DEF Held
  <2>7. \A b : With(v, b) => With(w, b)
    BY <1>2, <2>3 DEF With
  <2> QED BY <2>2, <2>4, <2>5, <2>6, <2>7
<1>3. CASE v.q = <<>> /\ (v.pc = "dispose" \/ (v.pc = "encode" /\ v.batch = <<>>))
  <2>1. Onwards(v) = Rest(v)
    BY <1>3 DEF Onwards
  <2>2. v.pend = <<>>
    BY <1>3 DEF Shaped
  <2>3. \A s : Held(v, s) = 0
    <3>1. CASE v.pc = "dispose"
      BY <1>3, <2>2, <3>1, CountEmpty DEF Held
    <3>2. CASE v.pc = "encode" /\ v.batch = <<>>
      BY <1>3, <2>2, <3>2, CountEmpty DEF Held
    <3> QED BY <1>3, <3>1, <3>2
  <2>4. \A b : ~With(v, b)
    BY <1>3, <2>2 DEF With, Members
  <2>5. /\ Rest(v) \in Goroutine(n) /\ Shaped(p, Rest(v))
        /\ \A s : Held(Rest(v), s) = 0
    BY <2>2, RestType
  <2> QED BY <2>1, <2>3, <2>4, <2>5
<1>4. CASE /\ ~(v.pc = "fan" /\ v.fan = 0 /\ v.todo = <<>>)
           /\ ~(v.pc = "encode" /\ v.q = <<>> /\ v.batch # <<>>)
           /\ ~(v.q = <<>> /\ (v.pc = "dispose" \/ (v.pc = "encode" /\ v.batch = <<>>)))
  <2>1. Onwards(v) = v
    BY <1>4 DEF Onwards
  <2> QED BY <2>1
<1> QED BY <1>1, <1>2, <1>3, <1>4

\* Set: the books of the goroutine that moves, and the others as they were.
LEMMA ProcSet ==
  ASSUME DeliveryInv, NEW p \in DOMAIN proc, NEW n \in Nat, NEW v \in Goroutine(n),
         Shaped(p, v), Set(p, v), NEW s \in Seqs
  PROVE  /\ IsFiniteSet(Units(Working(s)')) /\ Total(Working(s)) \in Nat
         /\ Total(Working(s)') = Total(Working(s)) - Held(proc[p], s) + Held(v, s)
<1>1. proc \in [DOMAIN graph.node -> Goroutine(next)] /\ IsFiniteSet(Units(Working(s)))
  BY DEF DeliveryInv, DeliveryTypes, Finite
<1>2. proc' = [proc EXCEPT ![p] = Onwards(v)]
  BY DEF Set
<1>3. Held(Onwards(v), s) = Held(v, s) /\ Held(v, s) \in Nat
  BY OnwardsKeeps, HeldNat
<1>4. PICK f : f = Working(s)
  OBVIOUS
<1>5. PICK g : g = Working(s)'
  OBVIOUS
<1>6. \A r \in DOMAIN graph.node : Held(proc[r], s) \in Nat
  BY <1>1, HeldNat
<1>7. f \in [DOMAIN proc -> Nat] /\ \A r \in DOMAIN proc : f[r] = Held(proc[r], s)
  BY <1>1, <1>4, <1>6 DEF Working
<1>8. DOMAIN g = DOMAIN proc /\ \A r \in DOMAIN proc : g[r] = Held(proc'[r], s)
  BY <1>1, <1>2, <1>5 DEF Working
<1>9. g = [f EXCEPT ![p] = Held(v, s)]
  <2>1. \A r \in DOMAIN proc : g[r] = IF r = p THEN Held(v, s) ELSE f[r]
    BY <1>1, <1>2, <1>3, <1>7, <1>8
  <2>2. g = [r \in DOMAIN proc |-> g[r]]
    BY <1>5, <1>8 DEF Working
  <2> QED BY <1>7, <1>8, <2>1, <2>2
<1>10. /\ IsFiniteSet(Units(g)) /\ Total(f) \in Nat
       /\ Total(g) = Total(f) - f[p] + Held(v, s)
  <2>1. IsFiniteSet(Units(f))
    BY <1>1, <1>4
  <2>2. PICK k : k = Held(v, s)
    OBVIOUS
  <2>3. f \in [DOMAIN proc -> Nat] /\ k \in Nat /\ g = [f EXCEPT ![p] = k]
    BY <1>3, <1>7, <1>9, <2>2
  <2>4. /\ IsFiniteSet(Units(g)) /\ Total(f) \in Nat
        /\ Total(g) = Total(f) - f[p] + k
    BY <2>1, <2>3, TotalChange
  <2> QED BY <2>2, <2>4
<1> QED BY <1>4, <1>5, <1>7, <1>10

\* The same for a channel.
LEMMA ChanSet ==
  ASSUME DeliveryInv, NEW n \in DOMAIN chan, NEW T, NEW t \in Seq(T),
         chan' = [chan EXCEPT ![n] = t], NEW s \in Seqs
  PROVE  /\ IsFiniteSet(Units(Waiting(s)')) /\ Total(Waiting(s)) \in Nat
         /\ Total(Waiting(s)') = Total(Waiting(s)) - Count(chan[n], s) + Count(t, s)
<1>1. chan \in [DOMAIN graph.kind -> Seq(Instances(next))] /\ IsFiniteSet(Units(Waiting(s)))
  BY DEF DeliveryInv, DeliveryTypes, Finite
<1>2. PICK f : f = Waiting(s)
  OBVIOUS
<1>3. PICK g : g = Waiting(s)'
  OBVIOUS
<1>4. Count(t, s) \in Nat /\ \A m \in DOMAIN chan : Count(chan[m], s) \in Nat
  BY <1>1, CountType
<1>5. f \in [DOMAIN chan -> Nat] /\ \A m \in DOMAIN chan : f[m] = Count(chan[m], s)
  BY <1>2, <1>4 DEF Waiting
<1>6. DOMAIN g = DOMAIN chan /\ \A m \in DOMAIN chan : g[m] = Count(chan'[m], s)
  BY <1>1, <1>3 DEF Waiting
<1>7. g = [f EXCEPT ![n] = Count(t, s)]
  <2>1. \A m \in DOMAIN chan : g[m] = IF m = n THEN Count(t, s) ELSE f[m]
    BY <1>1, <1>5, <1>6
  <2>2. g = [m \in DOMAIN chan |-> g[m]]
    BY <1>3, <1>6 DEF Waiting
  <2> QED BY <1>5, <1>6, <2>1, <2>2
<1>8. /\ IsFiniteSet(Units(g)) /\ Total(f) \in Nat
      /\ Total(g) = Total(f) - f[n] + Count(t, s)
  <2>1. IsFiniteSet(Units(f))
    BY <1>1, <1>2
  <2>2. PICK k : k = Count(t, s)
    OBVIOUS
  <2>3. f \in [DOMAIN chan -> Nat] /\ k \in Nat /\ g = [f EXCEPT ![n] = k]
    BY <1>4, <1>5, <1>7, <2>2
  <2>4. /\ IsFiniteSet(Units(g)) /\ Total(f) \in Nat
        /\ Total(g) = Total(f) - f[n] + k
    BY <2>1, <2>3, TotalChange
  <2> QED BY <2>2, <2>4
<1> QED BY <1>2, <1>3, <1>5, <1>8

\* The channels as they were.
LEMMA ChanSame ==
  ASSUME DeliveryInv, UNCHANGED chan, NEW s \in Seqs
  PROVE  /\ IsFiniteSet(Units(Waiting(s)')) /\ Total(Waiting(s)) \in Nat
         /\ Total(Waiting(s)') = Total(Waiting(s))
<1>1. Waiting(s)' = Waiting(s) /\ IsFiniteSet(Units(Waiting(s)))
  BY DEF DeliveryInv, Finite, Waiting
<1> QED BY <1>1, FS_CardinalityType DEF Total

-----------------------------------------------------------------------------
(* The steps of a goroutine.                                               *)

\* The branches of message s that appear when p goes on to v.
Gain(p, v, s) == Total(Waiting(s)') - Total(Waiting(s)) + Held(v, s) - Held(proc[p], s)

\* The types after the step.
Framed(p, v) ==
  /\ graph' = graph /\ ctx' \in {"live", "cancelled"} /\ (ctx' = "live" => ctx = "live")
  /\ next' \in Nat /\ next' <= graph.msgs /\ next <= next' /\ open' \in [Seqs -> Nat]
  /\ chan' \in [DOMAIN graph.kind -> Seq(Instances(next'))]
  /\ owed' \subseteq Instances(next') /\ out \subseteq out'
  /\ \A s \in Seqs : s > next' => open'[s] = 0
  /\ v \in Goroutine(next') /\ Shaped(p, v)

\* The tracker gains what the pipeline gains, and no less when the engine is cancelled.
Balanced(p, v) ==
  \A s \in Seqs : /\ IsFiniteSet(Units(Waiting(s)')) /\ Total(Waiting(s)') \in Nat
                  /\ open'[s] - open[s] >= Gain(p, v, s)
                  /\ ctx' = "live" => open'[s] - open[s] = Gain(p, v, s)

\* New branches are with p, what p had it keeps, sends, ends or leaves open, and what
\* leaves a channel is with p.
Traced(p, v) ==
  /\ \A b \in owed' \ owed : With(v, b)
  /\ \A b \in owed : With(proc[p], b) =>
       \/ Ended(b)' \/ With(v, b) \/ \E n \in DOMAIN chan' : b \in Members(chan'[n])
       \/ open'[b.seq] - open[b.seq] > Gain(p, v, b.seq)
  /\ \A b \in owed, n \in DOMAIN chan : b \in Members(chan[n]) =>
       With(v, b) \/ \E m \in DOMAIN chan' : b \in Members(chan'[m])

\* A step with these three parts keeps the invariant.
LEMMA Moves ==
  ASSUME DeliveryInv, NEW p \in DOMAIN proc, NEW v, Set(p, v),
         Framed(p, v), Balanced(p, v), Traced(p, v)
  PROVE  DeliveryInv'
<1>1. /\ graph' = graph /\ next' \in Nat /\ v \in Goroutine(next') /\ Shaped(p, v)
      /\ next \in Nat /\ next <= next' /\ next' <= graph.msgs
  BY DEF Framed, DeliveryInv, DeliveryTypes
<1>2. PICK w : w = Onwards(v)
  OBVIOUS
<1>3. /\ w \in Goroutine(next') /\ Shaped(p, w) /\ (\A b : With(v, b) => With(w, b))
  BY <1>1, <1>2, OnwardsKeeps
<1>4. /\ proc \in [DOMAIN graph.node -> Goroutine(next)] /\ proc' = [proc EXCEPT ![p] = w]
  BY <1>2 DEF Set, DeliveryInv, DeliveryTypes
<1>5. /\ DOMAIN proc' = DOMAIN proc /\ proc'[p] = w /\ DOMAIN proc = DOMAIN graph.node
      /\ \A r \in DOMAIN proc : r # p => proc'[r] = proc[r]
  BY <1>4
<1>6. Seqs' = Seqs /\ Instances(next)' = Instances(next') /\ Goroutine(next)' = Goroutine(next')
  BY <1>1 DEF Seqs, Instances, Goroutine, Vias
<1>7. DeliveryTypes'
  <2>1. Goroutine(next) \subseteq Goroutine(next')
    <3>1. Instances(next) \subseteq Instances(next')
      BY <1>1 DEF Instances
    <3>2. Seq(Instances(next)) \subseteq Seq(Instances(next'))
      BY <3>1
    <3>3. [seq : 0..next, via : Vias] \subseteq [seq : 0..next', via : Vias]
      BY <1>1
    <3> QED BY <3>2, <3>3 DEF Goroutine
  <2>2. proc' \in [DOMAIN graph.node -> Goroutine(next')]
    BY <1>3, <1>4, <1>5, <2>1
  <2>3. graph \in Pipelines
    BY DEF DeliveryInv, DeliveryTypes
  <2>4. next' \in 0..graph.msgs
    <3>1. graph.msgs \in Nat
      BY <2>3, PipelineAssumption
    <3> QED BY <1>1, <3>1
  <2> QED BY <1>1, <1>6, <2>2, <2>3, <2>4 DEF Framed, DeliveryTypes
<1>8. (\A r \in DOMAIN proc : Shaped(r, proc[r]))'
  <2>1. \A r, u : Shaped(r, u)' <=> Shaped(r, u)
    BY <1>1 DEF Shaped, IsSink, Node, Edge
  <2>2. \A r \in DOMAIN proc : Shaped(r, proc[r])
    BY DEF DeliveryInv
  <2>3. \A r \in DOMAIN proc : Shaped(r, proc'[r])
    BY <1>3, <1>5, <2>2
  <2> QED BY <1>5, <2>1, <2>3
<1>9. \A s \in Seqs : /\ IsFiniteSet(Units(Working(s)')) /\ Total(Working(s)) \in Nat
                      /\ Total(Working(s)') = Total(Working(s)) - Held(proc[p], s) + Held(v, s)
  BY <1>1, ProcSet
<1>10. Finite'
  BY <1>6, <1>9 DEF Finite, Balanced
<1>11. \A s \in Seqs : /\ Total(Waiting(s)) \in Nat /\ Total(Working(s)) \in Nat
                       /\ Held(proc[p], s) \in Nat /\ Held(v, s) \in Nat
                       /\ Total(Waiting(s)') \in Nat /\ open[s] \in Nat /\ open'[s] \in Nat
  <2>1. \A s \in Seqs : Total(Waiting(s)) \in Nat
    BY FS_CardinalityType DEF DeliveryInv, Finite, Total
  <2>2. \A s \in Seqs : Held(proc[p], s) \in Nat /\ Held(v, s) \in Nat
    BY <1>1, <1>4, <1>5, HeldNat
  <2> QED BY <1>9, <2>1, <2>2 DEF Balanced, Framed, DeliveryInv, DeliveryTypes
<1>12. \A s \in Seqs : /\ Present(s) \in Nat /\ Gain(p, v, s) \in Int
                       /\ Present(s)' = Present(s) + Gain(p, v, s)
  BY <1>9, <1>11 DEF Present, Gain
<1>13. OpenIsPresent'
  <2>1. SUFFICES ASSUME NEW s \in Seqs
                 PROVE  /\ ctx' = "live" => open'[s] = Present(s)'
                        /\ open'[s] >= Present(s)'
    BY <1>6 DEF OpenIsPresent
  <2>2. /\ ctx = "live" => open[s] = Present(s)
        /\ open[s] >= Present(s)
    BY DEF DeliveryInv, OpenIsPresent
  <2>3. /\ ctx' = "live" => ctx = "live" /\ open'[s] - open[s] = Gain(p, v, s)
        /\ open'[s] - open[s] >= Gain(p, v, s)
    BY DEF Balanced, Framed
  <2>4. /\ open[s] \in Nat /\ open'[s] \in Nat /\ Present(s) \in Nat /\ Gain(p, v, s) \in Int
        /\ Present(s)' = Present(s) + Gain(p, v, s)
    BY <1>11, <1>12
  <2> QED BY <2>2, <2>3, <2>4
<1>14. Followed'
  <2>1. SUFFICES ASSUME NEW b \in owed'
                 PROVE  \/ Ended(b)'
                        \/ \E n \in DOMAIN chan' : b \in Members(chan'[n])
                        \/ \E r \in DOMAIN proc' : With(proc'[r], b)
                        \/ open'[b.seq] > Present(b.seq)'
    BY DEF Followed
  <2>2. b.seq \in Seqs
    <3>1. graph.msgs \in Nat
      BY PipelineAssumption DEF DeliveryInv, DeliveryTypes
    <3> QED BY <1>1, <3>1 DEF Framed, Instances, Seqs
  <2>3. With(v, b) => \E r \in DOMAIN proc' : With(proc'[r], b)
    BY <1>3, <1>5
  <2>4. CASE b \notin owed
    BY <2>3, <2>4 DEF Traced
  <2>5. CASE b \in owed
    <3>1. CASE Ended(b)
      BY <1>1, <3>1 DEF Ended, Framed, Required, Edge
    <3>2. CASE \E n \in DOMAIN chan : b \in Members(chan[n])
      BY <2>3, <2>5, <3>2 DEF Traced
    <3>3. CASE \E r \in DOMAIN proc : With(proc[r], b)
      <4>1. PICK r \in DOMAIN proc : With(proc[r], b)
        BY <3>3
      <4>2. CASE r # p
        BY <1>5, <4>1, <4>2
      <4>3. CASE r = p
        <5>1. CASE open'[b.seq] - open[b.seq] > Gain(p, v, b.seq)
          BY <1>11, <1>12, <2>2, <5>1 DEF DeliveryInv, OpenIsPresent
        <5> QED BY <2>3, <2>5, <4>1, <4>3, <5>1 DEF Traced
      <4> QED BY <4>2, <4>3
    <3>4. CASE open[b.seq] > Present(b.seq)
      BY <1>11, <1>12, <2>2, <3>4 DEF Balanced
    <3> QED BY <2>5, <3>1, <3>2, <3>3, <3>4 DEF DeliveryInv, Followed
  <2> QED BY <2>4, <2>5
<1> QED BY <1>7, <1>8, <1>10, <1>13, <1>14 DEF DeliveryInv

\* What a goroutine has is counted, and none of it is of a message not yet admitted.
LEMMA WithHeld ==
  ASSUME NEW n \in Nat, NEW v \in Goroutine(n), NEW b, With(v, b)
  PROVE  Held(v, b.seq) > 0
<1>1. /\ v.pend \in Seq(Instances(n)) /\ v.q \in Seq(Instances(n)) /\ v.batch \in Seq(Instances(n))
      /\ v.todo \in Seq(Vias \ {0}) /\ v.fan \in Nat
  BY DEF Goroutine
<1>2. PICK s : s = b.seq
  OBVIOUS
<1>3. /\ Count(v.pend, s) \in Nat /\ Count(v.q, s) \in Nat /\ Count(v.batch, s) \in Nat
      /\ Len(v.todo) \in Nat
  BY HeldNat
<1>4. CASE b \in Members(v.pend)
  <2>1. Count(v.pend, s) > 0
    BY <1>1, <1>2, <1>4, CountMember
  <2> QED BY <1>1, <1>2, <1>3, <2>1 DEF Held
<1>5. CASE b \in Members(v.q)
  <2>1. Count(v.q, s) > 0
    BY <1>1, <1>2, <1>5, CountMember
  <2> QED BY <1>1, <1>2, <1>3, <2>1 DEF Held
<1>6. CASE v.pc # "dispose" /\ b \in Members(v.batch)
  <2>1. Count(v.batch, s) > 0
    BY <1>1, <1>2, <1>6, CountMember
  <2> QED BY <1>1, <1>2, <1>3, <1>6, <2>1 DEF Held
<1>7. CASE v.pc = "fan" /\ v.fan > 0 /\ v.inst = b
  BY <1>1, <1>2, <1>3, <1>7 DEF Held
<1>8. CASE v.pc = "fan" /\ \E k \in DOMAIN v.todo : b = Branch(v.inst.seq, v.todo[k])
  <2>1. v.inst.seq = s
    BY <1>2, <1>8 DEF Branch
  <2>2. Len(v.todo) > 0
    BY <1>1, <1>8, LenProperties
  <2> QED BY <1>1, <1>2, <1>3, <1>8, <2>1, <2>2 DEF Held
<1>9. CASE v.pc \in {"apply", "reapply"} /\ v.inst = b
  BY <1>1, <1>2, <1>3, <1>9 DEF Held
<1> QED BY <1>4, <1>5, <1>6, <1>7, <1>8, <1>9 DEF With

\* A goroutine holds nothing of a message that is not admitted.
LEMMA HeldLate ==
  ASSUME NEW n \in Nat, NEW v \in Goroutine(n), NEW s \in Nat, s > n
  PROVE  Held(v, s) = 0
<1>1. \A t \in Seq(Instances(n)) : Count(t, s) = 0
  <2> TAKE t \in Seq(Instances(n))
  <2>1. \A i \in DOMAIN t : t[i].seq \in 1..n
    <3>1. \A i \in DOMAIN t : t[i] \in Instances(n)
      OBVIOUS
    <3> QED BY <3>1 DEF Instances
  <2>2. \A i \in DOMAIN t : t[i].seq # s
    BY <2>1
  <2> QED BY <2>2, CountNone
<1>2. Count(v.pend, s) = 0 /\ Count(v.q, s) = 0 /\ Count(v.batch, s) = 0
  BY <1>1 DEF Goroutine
<1>3. v.inst.seq # s
  BY DEF Goroutine
<1> QED BY <1>2, <1>3 DEF Held

\* The sum of a function is at least each of its values.
LEMMA TotalAtLeast ==
  ASSUME NEW D, NEW f \in [D -> Nat], IsFiniteSet(Units(f)), NEW x \in D
  PROVE  Total(f) \in Nat /\ Total(f) >= f[x]
<1>1. PICK g : g = [f EXCEPT ![x] = 0]
  OBVIOUS
<1>2. 0 \in Nat
  OBVIOUS
<1>3. /\ IsFiniteSet(Units(g)) /\ Total(f) \in Nat
      /\ Total(g) = Total(f) - f[x] + 0
  BY <1>1, <1>2, TotalChange, Zenon
<1>4. Total(g) \in Nat
  BY <1>3, FS_CardinalityType DEF Total
<1> QED BY <1>3, <1>4

\* The facts a step starts from.
LEMMA Before ==
  ASSUME DeliveryInv, NEW p \in DOMAIN proc
  PROVE  /\ graph \in Pipelines /\ graph.msgs \in Nat /\ next \in Nat /\ next <= graph.msgs
         /\ open \in [Seqs -> Nat] /\ (\A s \in Seqs : s > next => open[s] = 0)
         /\ chan \in [DOMAIN graph.kind -> Seq(Instances(next))]
         /\ proc[p] \in Goroutine(next) /\ Shaped(p, proc[p])
         /\ owed \subseteq Instances(next) /\ Instances(next) \subseteq [seq : Seqs, via : Vias]
         /\ ctx \in {"live", "cancelled"}
<1>1. graph.msgs \in Nat
  BY PipelineAssumption DEF DeliveryInv, DeliveryTypes
<1>2. next \in Nat /\ next <= graph.msgs
  BY <1>1 DEF DeliveryInv, DeliveryTypes
<1>3. Instances(next) \subseteq [seq : Seqs, via : Vias]
  BY <1>1, <1>2 DEF Instances, Seqs
<1> QED BY <1>1, <1>2, <1>3 DEF DeliveryInv, DeliveryTypes

\* The tracker counts at least what one goroutine has.
LEMMA OpenAtLeast ==
  ASSUME DeliveryInv, NEW p \in DOMAIN proc, NEW s \in Seqs
  PROVE  open[s] \in Nat /\ open[s] >= Held(proc[p], s) /\ Held(proc[p], s) \in Nat
<1>1. proc \in [DOMAIN graph.node -> Goroutine(next)] /\ open[s] \in Nat
      /\ IsFiniteSet(Units(Working(s))) /\ IsFiniteSet(Units(Waiting(s)))
      /\ open[s] >= Present(s)
  BY DEF DeliveryInv, DeliveryTypes, Finite, OpenIsPresent
<1>2. PICK f : f = Working(s)
  OBVIOUS
<1>3. \A r \in DOMAIN proc : Held(proc[r], s) \in Nat
  BY <1>1, HeldNat
<1>4. f \in [DOMAIN proc -> Nat] /\ f[p] = Held(proc[p], s) /\ IsFiniteSet(Units(f))
  BY <1>1, <1>2, <1>3 DEF Working
<1>5. Total(f) \in Nat /\ Total(f) >= f[p]
  BY <1>4, TotalAtLeast
<1>6. Total(Waiting(s)) \in Nat
  BY <1>1, FS_CardinalityType DEF Total
<1> QED BY <1>1, <1>2, <1>3, <1>4, <1>5, <1>6 DEF Present

\* A step of one goroutine that leaves the channels alone: the tracker follows what it
\* holds, or the engine is cancelled and the tracker keeps counting what it leaves.
Follows(p, w) ==
  \A s \in Seqs :
    \/ open'[s] = open[s] + Held(w, s) - Held(proc[p], s)
    \/ ctx' = "cancelled" /\ open'[s] = open[s] /\ Held(w, s) <= Held(proc[p], s)

Local(p, w) ==
  /\ graph' = graph /\ next' = next /\ chan' = chan
  /\ ctx' \in {"live", "cancelled"} /\ (ctx' = "live" => ctx = "live")
  /\ w \in Goroutine(next) /\ Shaped(p, w)
  /\ owed' \subseteq Instances(next) /\ out \subseteq out'
  /\ DOMAIN open' = Seqs /\ open' = [s \in Seqs |-> open'[s]]
  /\ \A b \in owed' \ owed : With(w, b)
  /\ \A b \in owed : With(proc[p], b) =>
       \/ Ended(b)' \/ With(w, b)
       \/ open'[b.seq] = open[b.seq] /\ Held(w, b.seq) < Held(proc[p], b.seq)

\* A step that leaves the channels alone keeps the invariant.
LEMMA LocalMoves ==
  ASSUME DeliveryInv, NEW p \in DOMAIN proc, NEW w, Set(p, w), Local(p, w), Follows(p, w)
  PROVE  DeliveryInv'
<1>1. /\ graph.msgs \in Nat /\ next \in Nat /\ next <= graph.msgs
      /\ open \in [Seqs -> Nat] /\ (\A s \in Seqs : s > next => open[s] = 0)
      /\ chan \in [DOMAIN graph.kind -> Seq(Instances(next))]
      /\ proc[p] \in Goroutine(next) /\ w \in Goroutine(next)
  BY Before DEF Local
<1>2. \A s \in Seqs : /\ IsFiniteSet(Units(Waiting(s)')) /\ Total(Waiting(s)) \in Nat
                      /\ Total(Waiting(s)') = Total(Waiting(s))
  BY ChanSame DEF Local
<1>3. \A s \in Seqs : /\ open[s] \in Nat /\ open[s] >= Held(proc[p], s)
                      /\ Held(proc[p], s) \in Nat /\ Held(w, s) \in Nat
  BY <1>1, OpenAtLeast, HeldNat
<1>4. \A s \in Seqs : Gain(p, w, s) = Held(w, s) - Held(proc[p], s)
  BY <1>2, <1>3 DEF Gain
<1>5. \A s \in Seqs : open'[s] \in Nat /\ (s > next => open'[s] = 0)
  <2> TAKE s \in Seqs
  <2>1. open'[s] = open[s] + Held(w, s) - Held(proc[p], s) \/ open'[s] = open[s]
    BY DEF Follows
  <2>2. open'[s] \in Nat
    BY <1>3, <2>1
  <2>3. s > next => Held(w, s) = 0 /\ open[s] = 0
    BY <1>1, HeldLate DEF Seqs
  <2>4. s > next => open'[s] = 0
    BY <1>3, <2>1, <2>3
  <2> QED BY <2>2, <2>4
<1>6. open' \in [Seqs -> Nat]
  BY <1>5 DEF Local
<1>7. Framed(p, w)
  BY <1>1, <1>5, <1>6 DEF Framed, Local
<1>8. Balanced(p, w)
  <2>1. SUFFICES ASSUME NEW s \in Seqs
                 PROVE  /\ open'[s] - open[s] >= Gain(p, w, s)
                        /\ ctx' = "live" => open'[s] - open[s] = Gain(p, w, s)
    BY <1>2 DEF Balanced
  <2> QED BY <1>3, <1>4, <1>5 DEF Follows
<1>9. Traced(p, w)
  <2>1. \A b \in owed : b.seq \in Seqs
    BY Before
  <2>2. ASSUME NEW b \in owed, With(proc[p], b)
        PROVE  \/ Ended(b)' \/ With(w, b)
               \/ open'[b.seq] - open[b.seq] > Gain(p, w, b.seq)
    <3>1. CASE open'[b.seq] = open[b.seq] /\ Held(w, b.seq) < Held(proc[p], b.seq)
      BY <1>3, <1>4, <2>1, <3>1
    <3> QED BY <2>2, <3>1 DEF Local
  <2> QED BY <2>2 DEF Traced, Local
<1> QED BY <1>7, <1>8, <1>9, Moves

\* The same when the tracker and the history stay as they are.
Quiet(p, w) ==
  /\ UNCHANGED <<graph, next, open, chan, owed, out>>
  /\ ctx' \in {"live", "cancelled"} /\ (ctx' = "live" => ctx = "live")
  /\ w \in Goroutine(next) /\ Shaped(p, w)
  /\ \A s \in Seqs : \/ Held(w, s) = Held(proc[p], s)
                     \/ ctx' = "cancelled" /\ Held(w, s) <= Held(proc[p], s)
  /\ \A b : With(proc[p], b) => With(w, b) \/ Held(w, b.seq) < Held(proc[p], b.seq)

\* A step that only moves a goroutine keeps the invariant.
LEMMA QuietMoves ==
  ASSUME DeliveryInv, NEW p \in DOMAIN proc, NEW w, Set(p, w), Quiet(p, w)
  PROVE  DeliveryInv'
<1>1. /\ open \in [Seqs -> Nat] /\ proc[p] \in Goroutine(next) /\ w \in Goroutine(next)
      /\ owed \subseteq Instances(next)
  BY Before DEF Quiet
<1>2. Local(p, w)
  BY <1>1 DEF Local, Quiet
<1>3. \A s \in Seqs : open[s] \in Nat /\ Held(proc[p], s) \in Nat /\ Held(w, s) \in Nat
  BY <1>1, HeldNat
<1>4. Follows(p, w)
  BY <1>3 DEF Follows, Quiet
<1> QED BY <1>2, <1>4, LocalMoves

\* A goroutine that has ended.
LEMMA GoneType ==
  ASSUME NEW n \in Nat
  PROVE  /\ [Idle EXCEPT !.pc = "gone"] \in Goroutine(n)
         /\ (\A p : Shaped(p, [Idle EXCEPT !.pc = "gone"]))
         /\ \A s : Held([Idle EXCEPT !.pc = "gone"], s) = 0
<1>1. PICK w : w = [Idle EXCEPT !.pc = "gone"]
  OBVIOUS
<1>2. /\ w.pc = "gone" /\ w.inst = Branch(0, 0) /\ w.tries = 0 /\ w.fan = 0 /\ w.todo = <<>>
      /\ w.pend = <<>> /\ w.batch = <<>> /\ w.q = <<>> /\ w.leaving = FALSE
  BY <1>1 DEF Idle
<1>3. w \in Goroutine(n)
  BY <1>1, IdleType DEF Goroutine, Places
<1>4. \A p : Shaped(p, w)
  BY <1>2 DEF Shaped
<1>5. \A s : Held(w, s) = 0
  BY <1>2, CountEmpty DEF Held
<1> QED BY <1>1, <1>3, <1>4, <1>5

\* A goroutine that lets go of everything, under a cancelled context or having nothing.
LEMMA LetsGo ==
  ASSUME DeliveryInv, NEW p \in DOMAIN proc, NEW w, Set(p, w),
         UNCHANGED <<graph, next, open, chan, owed, out>>,
         ctx' \in {"live", "cancelled"}, ctx' = "live" => ctx = "live",
         w \in Goroutine(next), Shaped(p, w), \A s : Held(w, s) = 0,
         \/ ctx' = "cancelled"
         \/ \A s \in Seqs : Held(proc[p], s) = 0
  PROVE  DeliveryInv'
<1>1. proc[p] \in Goroutine(next) /\ next \in Nat
  BY Before
<1>2. \A s : Held(proc[p], s) \in Nat
  BY <1>1, HeldNat
<1>3. \A b : With(proc[p], b) => Held(w, b.seq) < Held(proc[p], b.seq)
  BY <1>1, WithHeld
<1>4. \A s \in Seqs : \/ Held(w, s) = Held(proc[p], s)
                      \/ ctx' = "cancelled" /\ Held(w, s) <= Held(proc[p], s)
  BY <1>2
<1>5. Quiet(p, w)
  BY <1>3, <1>4 DEF Quiet
<1> QED BY <1>5, QuietMoves

\* sleepBackoff of a transform.
LEMMA ReapplyStep ==
  ASSUME DeliveryInv, NEW p \in DOMAIN proc, Reapply(p)
  PROVE  DeliveryInv'
<1>1. PICK v : v = proc[p]
  OBVIOUS
<1>2. v \in Goroutine(next) /\ Shaped(p, v) /\ next \in Nat /\ ctx \in {"live", "cancelled"}
  BY <1>1, Before
<1>3. v.pc = "reapply" /\ UNCHANGED <<graph, ctx, next, open, chan, owed, out>>
  BY <1>1 DEF Reapply
<1>4. CASE Set(p, [v EXCEPT !.pc = "apply", !.tries = @ + 1])
  <2>1. PICK w : w = [v EXCEPT !.pc = "apply", !.tries = @ + 1]
    OBVIOUS
  <2>2. /\ w.pc = "apply" /\ w.inst = v.inst /\ w.fan = v.fan /\ w.todo = v.todo
        /\ w.pend = v.pend /\ w.batch = v.batch /\ w.q = v.q
    BY <1>2, <2>1 DEF Goroutine
  <2>3. w \in Goroutine(next)
    <3>1. PICK k : k = v.tries + 1
      OBVIOUS
    <3>2. k \in Nat
      BY <1>2, <3>1 DEF Goroutine
    <3>3. w = [[v EXCEPT !.pc = w.pc] EXCEPT !.tries = k]
      BY <1>2, <2>1, <3>1 DEF Goroutine
    <3>4. [v EXCEPT !.pc = w.pc] \in Goroutine(next)
      BY <1>2, <2>2 DEF Goroutine, Places
    <3> QED BY <3>2, <3>3, <3>4 DEF Goroutine
  <2>4. Shaped(p, w)
    BY <1>2, <1>3, <2>2 DEF Shaped
  <2>5. (\A s : Held(w, s) = Held(v, s)) /\ \A b : With(v, b) => With(w, b)
    BY <1>3, <2>2 DEF Held, With
  <2>6. Quiet(p, w)
    BY <1>1, <1>2, <1>3, <2>3, <2>4, <2>5 DEF Quiet
  <2>7. Set(p, w)
    BY <1>4, <2>1
  <2> QED BY <2>6, <2>7, QuietMoves
<1>5. CASE ctx = "cancelled" /\ Set(p, Idle)
  <2>1. Idle \in Goroutine(next) /\ Shaped(p, Idle) /\ \A s : Held(Idle, s) = 0
    BY <1>2, IdleType
  <2>2. Set(p, Idle) /\ ctx' = "cancelled"
    BY <1>3, <1>5
  <2> QED BY <1>3, <2>1, <2>2, LetsGo
<1> QED BY <1>1, <1>4, <1>5 DEF Reapply

\* sleepBackoff of a sink.
LEMMA BackoffStep ==
  ASSUME DeliveryInv, NEW p \in DOMAIN proc, Backoff(p)
  PROVE  DeliveryInv'
<1>1. PICK v : v = proc[p]
  OBVIOUS
<1>2. v \in Goroutine(next) /\ Shaped(p, v) /\ next \in Nat /\ ctx \in {"live", "cancelled"}
  BY <1>1, Before
<1>3. v.pc = "backoff" /\ UNCHANGED <<graph, ctx, next, open, chan, owed, out>>
  BY <1>1 DEF Backoff
<1>4. CASE Set(p, [v EXCEPT !.pc = "write", !.tries = @ + 1])
  <2>1. PICK w : w = [v EXCEPT !.pc = "write", !.tries = @ + 1]
    OBVIOUS
  <2>2. /\ w.pc = "write" /\ w.inst = v.inst /\ w.fan = v.fan /\ w.todo = v.todo
        /\ w.pend = v.pend /\ w.batch = v.batch /\ w.q = v.q
    BY <1>2, <2>1 DEF Goroutine
  <2>3. w \in Goroutine(next)
    <3>1. PICK k : k = v.tries + 1
      OBVIOUS
    <3>2. k \in Nat
      BY <1>2, <3>1 DEF Goroutine
    <3>3. w = [[v EXCEPT !.pc = w.pc] EXCEPT !.tries = k]
      BY <1>2, <2>1, <3>1 DEF Goroutine
    <3>4. [v EXCEPT !.pc = w.pc] \in Goroutine(next)
      BY <1>2, <2>2 DEF Goroutine, Places
    <3> QED BY <3>2, <3>3, <3>4 DEF Goroutine
  <2>4. Shaped(p, w)
    BY <1>2, <1>3, <2>2 DEF Shaped
  <2>5. (\A s : Held(w, s) = Held(v, s)) /\ \A b : With(v, b) => With(w, b)
    BY <1>3, <2>2 DEF Held, With
  <2>6. Quiet(p, w)
    BY <1>1, <1>2, <1>3, <2>3, <2>4, <2>5 DEF Quiet
  <2>7. Set(p, w)
    BY <1>4, <2>1
  <2> QED BY <2>6, <2>7, QuietMoves
<1>5. CASE ctx = "cancelled" /\ Set(p, Rest(v))
  <2>1. v.pend = <<>>
    BY <1>2, <1>3 DEF Shaped
  <2>2. Rest(v) \in Goroutine(next) /\ Shaped(p, Rest(v)) /\ \A s : Held(Rest(v), s) = 0
    BY <1>2, <2>1, RestType
  <2>3. Set(p, Rest(v)) /\ ctx' = "cancelled"
    BY <1>3, <1>5
  <2> QED BY <1>3, <2>2, <2>3, LetsGo
<1> QED BY <1>1, <1>4, <1>5 DEF Backoff

\* runTransform, the clone of the plugin.
LEMMA CloneStep ==
  ASSUME DeliveryInv, NEW p \in DOMAIN proc, Clone(p)
  PROVE  DeliveryInv'
<1>1. proc[p] \in Goroutine(next) /\ Shaped(p, proc[p]) /\ next \in Nat /\ ctx \in {"live", "cancelled"}
  BY Before
<1>2. proc[p].pc = "start" /\ UNCHANGED <<graph, next, open, chan, owed, out>>
  BY DEF Clone
<1>3. \A s \in Seqs : Held(proc[p], s) = 0
  <2>1. proc[p].pend = <<>> /\ proc[p].q = <<>> /\ proc[p].batch = <<>>
    BY <1>1, <1>2 DEF Shaped
  <2> QED BY <1>2, <2>1, CountEmpty DEF Held
<1>4. CASE Set(p, Idle) /\ ctx' = ctx
  <2>1. Idle \in Goroutine(next) /\ Shaped(p, Idle) /\ \A s : Held(Idle, s) = 0
    BY <1>1, IdleType
  <2>2. Set(p, Idle) /\ ctx' \in {"live", "cancelled"} /\ (ctx' = "live" => ctx = "live")
    BY <1>1, <1>4
  <2> QED BY <1>2, <1>3, <2>1, <2>2, LetsGo
<1>5. CASE Set(p, [Idle EXCEPT !.pc = "gone"]) /\ ctx' = "cancelled"
  <2>1. PICK w : w = [Idle EXCEPT !.pc = "gone"]
    OBVIOUS
  <2>2. w \in Goroutine(next) /\ Shaped(p, w) /\ \A s : Held(w, s) = 0
    BY <1>1, <2>1, GoneType
  <2>3. Set(p, w) /\ ctx' \in {"live", "cancelled"} /\ (ctx' = "live" => ctx = "live")
    BY <1>5, <2>1
  <2> QED BY <1>2, <1>3, <2>2, <2>3, LetsGo
<1> QED BY <1>4, <1>5 DEF Clone

\* The edge a branch came by.
LEMMA EdgeType ==
  ASSUME DeliveryInv, NEW e \in Vias
  PROVE  Edge(e).retries \in Nat /\ (e # 0 => Edge(e).to \in DOMAIN graph.kind)
<1>1. /\ graph.edges \in Seq([from : STRING, to : DOMAIN graph.kind, when : BOOLEAN,
                              required : BOOLEAN, retries : Nat])
      /\ graph.inject \in DOMAIN graph.kind
  BY PipelineAssumption DEF DeliveryInv, DeliveryTypes
<1>2. CASE e \in DOMAIN graph.edges
  <2>1. PICK T : T = [from : STRING, to : DOMAIN graph.kind, when : BOOLEAN,
                      required : BOOLEAN, retries : Nat]
    OBVIOUS
  <2>2. graph.edges \in Seq(T)
    BY <1>1, <2>1
  <2>3. e > 0 /\ graph.edges[e] \in T
    BY <1>2, <2>2
  <2>4. graph.edges[e].retries \in Nat /\ graph.edges[e].to \in DOMAIN graph.kind
    BY <2>1, <2>3
  <2> QED BY <2>3, <2>4 DEF Edge
<1>3. CASE e = 0
  BY <1>3 DEF Edge
<1>4. CASE e = -1
  <2>1. ~(e > 0) /\ e # 0
    BY <1>4
  <2> QED BY <1>1, <2>1 DEF Edge
<1> QED BY <1>2, <1>3, <1>4 DEF Vias

\* A list of one instance.
LEMMA CountOne ==
  ASSUME NEW S, NEW b \in S, NEW s
  PROVE  /\ <<b>> \in Seq(S) /\ Count(<<b>>, s) = One(b, s) /\ Members(<<b>>) = {b}
<1>0. PICK t : t = <<>>
  OBVIOUS
<1>1. t \in Seq(S) /\ Append(t, b) = <<b>>
  BY <1>0
<1>2. /\ Append(t, b) \in Seq(S) /\ Count(Append(t, b), s) = Count(t, s) + One(b, s)
      /\ Members(Append(t, b)) = Members(t) \cup {b}
  <2>1. t \in Seq(S)
    BY <1>1
  <2> QED BY <2>1, CountAppend
<1>3. Count(t, s) = 0 /\ One(b, s) \in Nat /\ Members(t) = {}
  BY <1>0, CountEmpty DEF One, Members
<1> QED BY <1>1, <1>2, <1>3

\* A transform has the branch of its message.
LEMMA ApplyHolds ==
  ASSUME NEW n \in Nat, NEW v \in Goroutine(n), NEW p, Shaped(p, v), v.pc \in {"apply", "reapply"}
  PROVE  /\ v.inst \in Instances(n) /\ (\A s : Held(v, s) = One(v.inst, s))
         /\ \A b : With(v, b) <=> b = v.inst
<1>1. v.pend = <<>> /\ v.q = <<>> /\ v.batch = <<>> /\ v.inst.seq # 0
  BY DEF Shaped
<1>2. v.inst \in [seq : 0..n, via : Vias]
  BY DEF Goroutine
<1>3. v.inst \in Instances(n)
  BY <1>1, <1>2 DEF Instances
<1>4. \A s : Held(v, s) = One(v.inst, s)
  BY <1>1, CountEmpty DEF Held, One
<1>5. \A b : With(v, b) <=> b = v.inst
  BY <1>1 DEF With, Members
<1> QED BY <1>3, <1>4, <1>5

\* processTransform, a failure: the branch waits for another attempt, or for its dead letter.
LEMMA TransformFails ==
  ASSUME DeliveryInv, NEW p \in DOMAIN proc, proc[p].pc = "apply",
         UNCHANGED <<graph, ctx, next, open, chan, owed, out>>,
         Set(p, IF proc[p].tries < Edge(proc[p].inst.via).retries
                THEN [proc[p] EXCEPT !.pc = "reapply"]
                ELSE [proc[p] EXCEPT !.pc = "dispose", !.q = <<proc[p].inst>>])
  PROVE  DeliveryInv'
<1>1. PICK v : v = proc[p]
  OBVIOUS
<1>2. v \in Goroutine(next) /\ Shaped(p, v) /\ next \in Nat /\ ctx \in {"live", "cancelled"}
  BY <1>1, Before
<1>3. v.pc = "apply" /\ v.tries \in Nat
  BY <1>1, <1>2 DEF Goroutine
<1>4. /\ v.inst \in Instances(next) /\ (\A s : Held(v, s) = One(v.inst, s))
      /\ \A b : With(v, b) <=> b = v.inst
  BY <1>2, <1>3, ApplyHolds
<1>5. CASE v.tries < Edge(v.inst.via).retries
  <2>1. PICK w : w = [v EXCEPT !.pc = "reapply"]
    OBVIOUS
  <2>2. /\ w.pc = "reapply" /\ w.inst = v.inst /\ w.fan = v.fan /\ w.todo = v.todo
        /\ w.pend = v.pend /\ w.batch = v.batch /\ w.q = v.q
    BY <1>2, <2>1 DEF Goroutine
  <2>3. w \in Goroutine(next)
    BY <1>2, <2>1 DEF Goroutine, Places
  <2>4. Shaped(p, w)
    BY <1>2, <1>3, <2>2 DEF Shaped
  <2>5. (\A s : Held(w, s) = Held(v, s)) /\ \A b : With(v, b) => With(w, b)
    BY <1>3, <2>2 DEF Held, With
  <2>6. Quiet(p, w)
    BY <1>1, <1>2, <2>3, <2>4, <2>5 DEF Quiet
  <2>7. Set(p, w)
    BY <1>1, <1>5, <2>1
  <2> QED BY <2>6, <2>7, QuietMoves
<1>6. CASE ~(v.tries < Edge(v.inst.via).retries)
  <2>1. PICK w : w = [v EXCEPT !.pc = "dispose", !.q = <<v.inst>>]
    OBVIOUS
  <2>2. /\ w.pc = "dispose" /\ w.inst = v.inst /\ w.fan = v.fan /\ w.todo = v.todo
        /\ w.pend = v.pend /\ w.batch = v.batch /\ w.q = <<v.inst>> /\ w.tries = v.tries
    BY <1>2, <2>1 DEF Goroutine
  <2>3. \A s : /\ <<v.inst>> \in Seq(Instances(next)) /\ Count(<<v.inst>>, s) = One(v.inst, s)
               /\ Members(<<v.inst>>) = {v.inst}
    BY <1>4, CountOne
  <2>4. w \in Goroutine(next)
    <3>1. [v EXCEPT !.q = <<v.inst>>] \in Goroutine(next)
      BY <1>2, <2>3 DEF Goroutine
    <3>2. w = [[v EXCEPT !.q = <<v.inst>>] EXCEPT !.pc = "dispose"]
      BY <1>2, <2>1 DEF Goroutine
    <3> QED BY <3>1, <3>2 DEF Goroutine, Places
  <2>5. v.pend = <<>> /\ v.batch = <<>>
    BY <1>2, <1>3 DEF Shaped
  <2>6. Shaped(p, w)
    <3>1. IsSink(p) => v.tries >= Edge(v.inst.via).retries
      <4>1. Edge(v.inst.via).retries \in Nat
        <5>1. v.inst.via \in Vias
          BY <1>4 DEF Instances
        <5> QED BY <5>1, EdgeType
      <4> QED BY <1>3, <1>6, <4>1
    <3> QED BY <2>2, <2>3, <2>5, <3>1 DEF Shaped
  <2>7. \A s : Held(w, s) = Held(v, s)
    <3>1. \A s : Held(w, s) = One(v.inst, s)
      BY <2>2, <2>3, <2>5, CountEmpty DEF Held, One
    <3> QED BY <1>4, <3>1
  <2>8. \A b : With(v, b) => With(w, b)
    BY <1>4, <2>2, <2>3 DEF With
  <2>9. Quiet(p, w)
    BY <1>1, <1>2, <2>4, <2>6, <2>7, <2>8 DEF Quiet
  <2>10. Set(p, w)
    BY <1>1, <1>6, <2>1
  <2> QED BY <2>9, <2>10, QuietMoves
<1> QED BY <1>5, <1>6

\* processTransform, k outputs: the tracker expands by k - 1.
LEMMA TransformOutputs ==
  ASSUME DeliveryInv, NEW p \in DOMAIN proc, proc[p].pc = "apply",
         UNCHANGED <<graph, ctx, next, chan, owed>>, NEW k \in graph.outputs,
         IF k = 0 THEN Done(proc[p].inst, "filtered")
         ELSE open' = [open EXCEPT ![proc[p].inst.seq] = @ + k - 1] /\ UNCHANGED out,
         Set(p, [proc[p] EXCEPT !.pc = "fan", !.fan = k])
  PROVE  DeliveryInv'
<1>1. PICK v : v = proc[p]
  OBVIOUS
<1>2. /\ v \in Goroutine(next) /\ Shaped(p, v) /\ next \in Nat /\ ctx \in {"live", "cancelled"}
      /\ open \in [Seqs -> Nat] /\ Instances(next) \subseteq [seq : Seqs, via : Vias]
      /\ owed \subseteq Instances(next)
  BY <1>1, Before
<1>3. v.pc = "apply" /\ v.todo = <<>> /\ v.pend = <<>> /\ v.q = <<>> /\ v.batch = <<>> /\ v.inst.seq # 0
  BY <1>1, <1>2 DEF Shaped
<1>4. /\ v.inst \in Instances(next) /\ (\A s : Held(v, s) = One(v.inst, s))
      /\ \A b : With(v, b) <=> b = v.inst
  BY <1>2, <1>3, ApplyHolds
<1>5. k \in Nat /\ v.inst.seq \in Seqs
  <2>1. graph.outputs \subseteq Nat
    BY Before, PipelineAssumption
  <2> QED BY <1>2, <1>4, <2>1
<1>6. PICK w : w = [v EXCEPT !.pc = "fan", !.fan = k]
  OBVIOUS
<1>7. /\ w.pc = "fan" /\ w.inst = v.inst /\ w.fan = k /\ w.todo = <<>>
      /\ w.pend = <<>> /\ w.batch = <<>> /\ w.q = <<>>
  BY <1>2, <1>3, <1>6 DEF Goroutine
<1>8. w \in Goroutine(next)
  <2>1. [v EXCEPT !.fan = k] \in Goroutine(next)
    BY <1>2, <1>5 DEF Goroutine
  <2>2. w = [[v EXCEPT !.fan = k] EXCEPT !.pc = "fan"]
    BY <1>2, <1>6 DEF Goroutine
  <2> QED BY <2>1, <2>2 DEF Goroutine, Places
<1>9. Shaped(p, w)
  BY <1>3, <1>7 DEF Shaped
<1>10. \A s : Held(w, s) = IF v.inst.seq = s THEN k ELSE 0
  <2>1. Len(w.todo) = 0
    BY <1>7
  <2> QED BY <1>5, <1>7, <2>1, CountEmpty DEF Held
<1>11. /\ open' = [s \in Seqs |-> open'[s]] /\ DOMAIN open' = Seqs
       /\ \A s \in Seqs : open'[s] = IF s = v.inst.seq THEN open[s] + k - 1 ELSE open[s]
  <2>1. CASE k = 0
    <3>1. open' = [open EXCEPT ![v.inst.seq] = @ - 1]
      BY <1>1, <2>1 DEF Done
    <3>2. /\ open' = [s \in Seqs |-> open'[s]] /\ DOMAIN open' = Seqs
          /\ \A s \in Seqs : open'[s] = IF s = v.inst.seq THEN open[s] - 1 ELSE open[s]
      BY <1>2, <1>5, <3>1
    <3>3. \A s \in Seqs : open[s] + k - 1 = open[s] - 1
      BY <1>2, <2>1
    <3> QED BY <3>2, <3>3
  <2>2. CASE k # 0
    <3>1. open' = [open EXCEPT ![v.inst.seq] = @ + k - 1]
      BY <1>1, <2>2
    <3> QED BY <1>2, <1>5, <2>2, <3>1
  <2> QED BY <2>1, <2>2
<1>12. Follows(p, w)
  <2>1. \A s \in Seqs : open'[s] = open[s] + Held(w, s) - Held(v, s)
    <3> TAKE s \in Seqs
    <3>1. open[s] \in Nat /\ open'[s] = IF s = v.inst.seq THEN open[s] + k - 1 ELSE open[s]
      BY <1>2, <1>11
    <3>2. Held(w, s) = (IF v.inst.seq = s THEN k ELSE 0) /\ Held(v, s) = IF v.inst.seq = s THEN 1 ELSE 0
      BY <1>4, <1>10 DEF One
    <3> QED BY <1>5, <3>1, <3>2
  <2> QED BY <1>1, <2>1 DEF Follows
<1>13. out \subseteq out' /\ (k = 0 => [seq |-> v.inst.seq, via |-> v.inst.via, how |-> "filtered"] \in out')
  BY <1>1 DEF Done
<1>14. \A b \in owed : With(v, b) => Ended(b)' \/ With(w, b)
  <2> TAKE b \in owed
  <2>1. CASE k = 0
    BY <1>4, <1>13, <2>1 DEF Ended
  <2>2. CASE k # 0
    BY <1>4, <1>5, <1>7, <2>2 DEF With
  <2> QED BY <2>1, <2>2
<1>15. Local(p, w)
  BY <1>1, <1>2, <1>8, <1>9, <1>11, <1>13, <1>14 DEF Local
<1>16. Set(p, w)
  BY <1>1, <1>6
<1> QED BY <1>12, <1>15, <1>16, LocalMoves

\* processTransform.
LEMMA TransformStep ==
  ASSUME DeliveryInv, NEW p \in DOMAIN proc, processTransform(p)
  PROVE  DeliveryInv'
<1>1. proc[p].pc = "apply" /\ UNCHANGED <<graph, ctx, next, chan, owed>>
  BY DEF processTransform
<1>2. CASE \E k \in graph.outputs :
             /\ IF k = 0 THEN Done(proc[p].inst, "filtered")
                ELSE open' = [open EXCEPT ![proc[p].inst.seq] = @ + k - 1] /\ UNCHANGED out
             /\ Set(p, [proc[p] EXCEPT !.pc = "fan", !.fan = k])
  BY <1>1, <1>2, TransformOutputs
<1>3. CASE /\ UNCHANGED <<open, out>>
           /\ Set(p, IF proc[p].tries < Edge(proc[p].inst.via).retries
                     THEN [proc[p] EXCEPT !.pc = "reapply"]
                     ELSE [proc[p] EXCEPT !.pc = "dispose", !.q = <<proc[p].inst>>])
  BY <1>1, <1>3, TransformFails
<1> QED BY <1>2, <1>3 DEF processTransform

\* Retries: a number of attempts that is enough for every edge of the batch.
LEMMA RetriesMost ==
  ASSUME DeliveryInv, NEW t \in Seq(Instances(next))
  PROVE  Retries(t) \in Nat /\ \A b \in Members(t) : Edge(b.via).retries <= Retries(t)
<1> DEFINE S == {0} \cup {Edge(b.via).retries : b \in Members(t)}
<1>1. \A b \in Members(t) : b.via \in Vias
  <2>1. \A b \in Members(t) : b \in Instances(next)
    BY CountMember
  <2> QED BY <2>1 DEF Instances
<1>2. S \subseteq Nat /\ 0 \in S
  BY <1>1, EdgeType
<1>3. PICK r \in Nat : \A x \in S : x <= r
  <2>1. PICK r \in {0} \cup {graph.edges[e].retries : e \in DOMAIN graph.edges} :
          \A e \in DOMAIN graph.edges : graph.edges[e].retries <= r
    BY PipelineAssumption DEF DeliveryInv, DeliveryTypes
  <2>2. \A e \in DOMAIN graph.edges : e \in Vias /\ e > 0 /\ Edge(e) = graph.edges[e]
    <3>1. PICK T : graph.edges \in Seq(T)
      BY PipelineAssumption DEF DeliveryInv, DeliveryTypes
    <3>2. \A e \in DOMAIN graph.edges : e > 0
      BY <3>1
    <3> QED BY <3>2 DEF Vias, Edge
  <2>3. r \in Nat
    BY <2>1, <2>2, EdgeType
  <2>4. \A e \in Vias : Edge(e).retries <= r
    <3> TAKE e \in Vias
    <3>1. CASE e \in DOMAIN graph.edges
      BY <2>1, <2>2, <3>1
    <3>2. CASE e \in {0, -1}
      <4>1. ~(e > 0)
        BY <3>2
      <4>2. Edge(e).retries = 0
        BY <4>1 DEF Edge
      <4> QED BY <2>3, <4>2
    <3> QED BY <3>1, <3>2 DEF Vias
  <2>5. \A x \in S : x <= r
    BY <1>1, <2>3, <2>4
  <2> QED BY <2>3, <2>5
<1> HIDE DEF S
<1>4. \E m \in S : \A y \in S : m >= y
  <2>1. PICK U : U = {u \in Nat : \A x \in S : x <= u}
    OBVIOUS
  <2>2. U \subseteq Nat /\ U # {}
    BY <1>3, <2>1
  <2>3. PICK m \in U : \A y \in U : ~ (<<y, m>> \in OpToRel(<, Nat))
    BY <2>2, NatLessThanWellFounded, WFMin
  <2>4. \A y \in U : ~(y < m)
    BY <2>2, <2>3 DEF OpToRel
  <2>5. m \in Nat /\ \A x \in S : x <= m
    BY <2>1
  <2>6. m \in S
    <3>1. SUFFICES ASSUME m \notin S PROVE FALSE
      OBVIOUS
    <3>2. m # 0
      BY <1>2, <3>1
    <3>3. \A x \in S : x <= m - 1
      BY <1>2, <2>5, <3>1
    <3>4. m - 1 \in U
      BY <2>1, <2>5, <3>2, <3>3
    <3> QED BY <2>4, <2>5, <3>4
  <2>7. \A y \in S : m >= y
    BY <1>2, <2>5
  <2> QED BY <2>6, <2>7
<1>5. Max(S) \in S /\ \A y \in S : Max(S) >= y
  BY <1>4 DEF Max
<1>6. Retries(t) = Max(S)
  BY DEF Retries, S
<1>7. Retries(t) \in Nat /\ \A y \in S : y <= Retries(t)
  BY <1>2, <1>5, <1>6
<1> QED BY <1>7 DEF S

\* A sink that writes has its batch.
LEMMA WriteHolds ==
  ASSUME NEW n \in Nat, NEW v \in Goroutine(n), NEW p, Shaped(p, v), v.pc \in {"write", "backoff"}
  PROVE  /\ v.batch \in Seq(Instances(n)) /\ v.pend = <<>> /\ v.q = <<>>
         /\ \A s : Held(v, s) = Count(v.batch, s) /\ Count(v.batch, s) \in Nat
         /\ \A b : With(v, b) <=> b \in Members(v.batch)
<1>1. v.pend = <<>> /\ v.q = <<>> /\ v.batch \in Seq(Instances(n))
  BY DEF Shaped, Goroutine
<1>2. \A s : Count(v.batch, s) \in Nat
  BY <1>1, CountType
<1>3. \A s : Held(v, s) = Count(v.batch, s)
  BY <1>1, <1>2, CountEmpty DEF Held
<1>4. \A b : With(v, b) <=> b \in Members(v.batch)
  BY <1>1 DEF With, Members
<1> QED BY <1>1, <1>2, <1>3, <1>4

\* writeBatch, a batch that is written.
LEMMA WrittenStep ==
  ASSUME DeliveryInv, NEW p \in DOMAIN proc, Written(p)
  PROVE  DeliveryInv'
<1>1. PICK v : v = proc[p]
  OBVIOUS
<1>2. /\ v \in Goroutine(next) /\ Shaped(p, v) /\ next \in Nat /\ ctx \in {"live", "cancelled"}
      /\ open \in [Seqs -> Nat] /\ owed \subseteq Instances(next)
  BY <1>1, Before
<1>3. /\ v.pc = "write" /\ UNCHANGED <<graph, ctx, next, chan, owed>> /\ Set(p, Rest(v))
      /\ open' = [s \in Seqs |-> open[s] - Count(v.batch, s)]
      /\ out' = out \cup {[seq |-> b.seq, via |-> b.via, how |-> "written"] : b \in Members(v.batch)}
  BY <1>1 DEF Written
<1>4. /\ v.batch \in Seq(Instances(next)) /\ v.pend = <<>> /\ v.q = <<>>
      /\ \A s : Held(v, s) = Count(v.batch, s) /\ Count(v.batch, s) \in Nat
      /\ \A b : With(v, b) <=> b \in Members(v.batch)
  BY <1>2, <1>3, WriteHolds
<1>5. Rest(v) \in Goroutine(next) /\ Shaped(p, Rest(v)) /\ \A s : Held(Rest(v), s) = 0
  BY <1>2, <1>4, RestType
<1>6. Follows(p, Rest(v))
  <2>1. \A s \in Seqs : open'[s] = open[s] + Held(Rest(v), s) - Held(v, s)
    BY <1>2, <1>3, <1>4, <1>5
  <2> QED BY <1>1, <2>1 DEF Follows
<1>7. \A b \in owed : With(v, b) => Ended(b)'
  <2>1. SUFFICES ASSUME NEW b \in owed, With(v, b) PROVE Ended(b)'
    OBVIOUS
  <2>2. [seq |-> b.seq, via |-> b.via, how |-> "written"] \in out'
    BY <1>3, <1>4, <2>1
  <2> QED BY <2>2 DEF Ended
<1>8. DOMAIN open' = Seqs /\ open' = [s \in Seqs |-> open'[s]] /\ out \subseteq out'
  BY <1>3
<1>9. Local(p, Rest(v))
  BY <1>1, <1>2, <1>3, <1>5, <1>7, <1>8 DEF Local
<1> QED BY <1>3, <1>6, <1>9, LocalMoves

\* writeBatch, a batch that is not: it is tried again, or all of it is to be settled.
LEMMA WriteFailedStep ==
  ASSUME DeliveryInv, NEW p \in DOMAIN proc, WriteFailed(p)
  PROVE  DeliveryInv'
<1>1. PICK v : v = proc[p]
  OBVIOUS
<1>2. v \in Goroutine(next) /\ Shaped(p, v) /\ next \in Nat /\ ctx \in {"live", "cancelled"}
  BY <1>1, Before
<1>3. /\ v.pc = "write" /\ UNCHANGED <<graph, ctx, next, open, chan, owed, out>>
      /\ Set(p, IF v.tries < Retries(v.batch) THEN [v EXCEPT !.pc = "backoff"]
                ELSE [v EXCEPT !.pc = "dispose", !.q = v.batch])
  BY <1>1 DEF WriteFailed
<1>4. /\ v.batch \in Seq(Instances(next)) /\ v.pend = <<>> /\ v.q = <<>>
      /\ \A s : Held(v, s) = Count(v.batch, s) /\ Count(v.batch, s) \in Nat
      /\ \A b : With(v, b) <=> b \in Members(v.batch)
  BY <1>2, <1>3, WriteHolds
<1>5. CASE v.tries < Retries(v.batch)
  <2>1. PICK w : w = [v EXCEPT !.pc = "backoff"]
    OBVIOUS
  <2>2. /\ w.pc = "backoff" /\ w.inst = v.inst /\ w.fan = v.fan /\ w.todo = v.todo
        /\ w.pend = v.pend /\ w.batch = v.batch /\ w.q = v.q
    BY <1>2, <2>1 DEF Goroutine
  <2>3. w \in Goroutine(next)
    BY <1>2, <2>1 DEF Goroutine, Places
  <2>4. Shaped(p, w)
    BY <1>2, <1>3, <2>2 DEF Shaped
  <2>5. (\A s : Held(w, s) = Held(v, s)) /\ \A b : With(v, b) => With(w, b)
    BY <1>3, <2>2 DEF Held, With
  <2>6. Quiet(p, w)
    BY <1>1, <1>2, <1>3, <2>3, <2>4, <2>5 DEF Quiet
  <2>7. Set(p, w)
    BY <1>3, <1>5, <2>1
  <2> QED BY <2>6, <2>7, QuietMoves
<1>6. CASE ~(v.tries < Retries(v.batch))
  <2>1. PICK w : w = [v EXCEPT !.pc = "dispose", !.q = v.batch]
    OBVIOUS
  <2>2. /\ w.pc = "dispose" /\ w.inst = v.inst /\ w.fan = v.fan /\ w.todo = v.todo
        /\ w.pend = v.pend /\ w.batch = v.batch /\ w.q = v.batch /\ w.tries = v.tries
        /\ v.tries \in Nat
    BY <1>2, <2>1 DEF Goroutine
  <2>3. w \in Goroutine(next)
    <3>1. [v EXCEPT !.q = v.batch] \in Goroutine(next)
      BY <1>2, <1>4 DEF Goroutine
    <3>2. w = [[v EXCEPT !.q = v.batch] EXCEPT !.pc = "dispose"]
      BY <1>2, <2>1 DEF Goroutine
    <3> QED BY <3>1, <3>2 DEF Goroutine, Places
  <2>4. \A b \in Members(v.batch) : v.tries >= Edge(b.via).retries
    <3>1. Retries(v.batch) \in Nat /\ \A b \in Members(v.batch) : Edge(b.via).retries <= Retries(v.batch)
      BY <1>4, RetriesMost
    <3>2. \A b \in Members(v.batch) : Edge(b.via).retries \in Nat
      <4>1. \A b \in Members(v.batch) : b.via \in Vias
        <5>1. \A b \in Members(v.batch) : b \in Instances(next)
          BY <1>4, CountMember
        <5> QED BY <5>1 DEF Instances
      <4> QED BY <4>1, EdgeType
    <3> QED BY <1>6, <2>2, <3>1, <3>2
  <2>5. Shaped(p, w)
    BY <1>4, <2>2, <2>4 DEF Shaped
  <2>6. \A s : Held(w, s) = Held(v, s)
    <3>1. \A s : Held(w, s) = Count(v.batch, s)
      BY <1>4, <2>2, CountEmpty DEF Held
    <3> QED BY <1>4, <3>1
  <2>7. \A b : With(v, b) => With(w, b)
    BY <1>4, <2>2 DEF With
  <2>8. Quiet(p, w)
    BY <1>1, <1>2, <1>3, <2>3, <2>5, <2>6, <2>7 DEF Quiet
  <2>9. Set(p, w)
    BY <1>3, <1>6, <2>1
  <2> QED BY <2>8, <2>9, QuietMoves
<1> QED BY <1>5, <1>6

\* One instance fewer to dead-letter or drop.
LEMMA DisposeHolds ==
  ASSUME NEW n \in Nat, NEW v \in Goroutine(n), NEW p, Shaped(p, v),
         v.pc \in {"encode", "dispose"}, v.q # <<>>,
         NEW w, w = [v EXCEPT !.q = Tail(@)]
  PROVE  /\ w \in Goroutine(n) /\ Shaped(p, w) /\ Head(v.q) \in Instances(n)
         /\ \A s : Held(v, s) = Held(w, s) + One(Head(v.q), s)
         /\ \A c : With(v, c) => c = Head(v.q) \/ With(w, c)
<1>1. v.q \in Seq(Instances(n))
  BY DEF Goroutine
<1>2. \A s : /\ Tail(v.q) \in Seq(Instances(n)) /\ Head(v.q) \in Instances(n)
             /\ Count(v.q, s) = Count(Tail(v.q), s) + One(Head(v.q), s)
             /\ Members(v.q) = Members(Tail(v.q)) \cup {Head(v.q)}
  BY <1>1, CountTail
<1>3. PICK u : u = Tail(v.q)
  OBVIOUS
<1>4. /\ w.pc = v.pc /\ w.inst = v.inst /\ w.fan = v.fan /\ w.todo = v.todo
      /\ w.pend = v.pend /\ w.batch = v.batch /\ w.q = u /\ w.tries = v.tries
      /\ w = [v EXCEPT !.q = u]
  BY <1>3 DEF Goroutine
<1>5. w \in Goroutine(n)
  <2>1. u \in Seq(Instances(n))
    BY <1>2, <1>3
  <2> QED BY <1>4, <2>1 DEF Goroutine
<1>6. Members(v.q) = Members(u) \cup {Head(v.q)}
  BY <1>2, <1>3
<1>7. Shaped(p, w)
  BY <1>4, <1>6 DEF Shaped
<1>8. \A s : Held(v, s) = Held(w, s) + One(Head(v.q), s)
  <2> TAKE s
  <2>1. Count(v.q, s) = Count(u, s) + One(Head(v.q), s)
    BY <1>2, <1>3
  <2>2. /\ Count(v.pend, s) \in Nat /\ Count(v.batch, s) \in Nat /\ Count(u, s) \in Nat
        /\ One(Head(v.q), s) \in Nat
    BY <1>4, <1>5, HeldNat DEF One
  <2>3. PICK k : k = IF v.pc = "dispose" THEN 0 ELSE Count(v.batch, s)
    OBVIOUS
  <2>4. /\ Held(v, s) = Count(v.pend, s) + Count(v.q, s) + k + 0
        /\ Held(w, s) = Count(v.pend, s) + Count(u, s) + k + 0
    <3>1. v.pc # "fan" /\ v.pc # "apply" /\ v.pc # "reapply" /\ w.pc = v.pc
      BY <1>4
    <3>2. Held(v, s) = Count(v.pend, s) + Count(v.q, s) + k + 0
      BY <2>3, <3>1 DEF Held
    <3>3. Held(w, s) = Count(w.pend, s) + Count(w.q, s) + k + 0
      BY <1>4, <2>3, <3>1 DEF Held
    <3> QED BY <1>4, <3>2, <3>3
  <2>5. k \in Nat
    BY <2>2, <2>3
  <2> QED BY <2>1, <2>2, <2>4, <2>5
<1>9. \A c : With(v, c) => c = Head(v.q) \/ With(w, c)
  BY <1>4, <1>6 DEF With
<1> QED BY <1>2, <1>5, <1>7, <1>8, <1>9

\* writeBatch, deadLetterMsg and writeDeadLetter.
LEMMA DisposeStep ==
  ASSUME DeliveryInv, NEW p \in DOMAIN proc, Dispose(p)
  PROVE  DeliveryInv'
<1>1. PICK v : v = proc[p]
  OBVIOUS
<1>2. /\ v \in Goroutine(next) /\ Shaped(p, v) /\ next \in Nat /\ ctx \in {"live", "cancelled"}
      /\ open \in [Seqs -> Nat] /\ owed \subseteq Instances(next)
      /\ Instances(next) \subseteq [seq : Seqs, via : Vias]
  BY <1>1, Before
<1>3. PICK w : w = [v EXCEPT !.q = Tail(@)]
  OBVIOUS
<1>4. PICK b : b = Head(v.q)
  OBVIOUS
<1>5. /\ v.pc \in {"encode", "dispose"} /\ v.q # <<>> /\ UNCHANGED <<graph, ctx, next, chan, owed>>
      /\ \/ Done(b, Disposal(p, b)) /\ Set(p, w)
         \/ UNCHANGED <<open, out>> /\ Set(p, IF ctx = "cancelled" THEN w ELSE v)
  BY <1>1, <1>3, <1>4 DEF Dispose
<1>6. /\ w \in Goroutine(next) /\ Shaped(p, w) /\ b \in Instances(next)
      /\ \A s : Held(v, s) = Held(w, s) + One(b, s)
      /\ \A c : With(v, c) => c = b \/ With(w, c)
  BY <1>2, <1>3, <1>4, <1>5, DisposeHolds
<1>7. \A s : Held(v, s) \in Nat /\ Held(w, s) \in Nat
  BY <1>2, <1>6, HeldNat
<1>8. CASE Done(b, Disposal(p, b)) /\ Set(p, w)
  <2>1. b.seq \in Seqs
    BY <1>2, <1>6
  <2>2. open' = [open EXCEPT ![b.seq] = @ - 1]
    BY <1>8 DEF Done
  <2>3. /\ open' = [s \in Seqs |-> open'[s]] /\ DOMAIN open' = Seqs
        /\ \A s \in Seqs : open'[s] = IF s = b.seq THEN open[s] - 1 ELSE open[s]
    BY <1>2, <2>1, <2>2
  <2>4. Follows(p, w)
    <3>1. \A s \in Seqs : open'[s] = open[s] + Held(w, s) - Held(v, s)
      <4> TAKE s \in Seqs
      <4>1. open[s] \in Nat /\ open'[s] = IF s = b.seq THEN open[s] - 1 ELSE open[s]
        BY <1>2, <2>3
      <4>2. Held(v, s) = Held(w, s) + (IF b.seq = s THEN 1 ELSE 0) /\ Held(w, s) \in Nat
        BY <1>6, <1>7 DEF One
      <4> QED BY <4>1, <4>2
    <3> QED BY <1>1, <3>1 DEF Follows
  <2>5. out \subseteq out' /\ [seq |-> b.seq, via |-> b.via, how |-> Disposal(p, b)] \in out'
    BY <1>8 DEF Done
  <2>6. Disposal(p, b) = "dropped" => ~Required(b)
    BY DEF Disposal
  <2>7. Ended(b)'
    <3>1. Disposal(p, b) = "dropped" => ~Required(b)'
      BY <1>5, <2>6 DEF Required, Edge
    <3> QED BY <2>5, <3>1 DEF Ended
  <2>8. \A c \in owed : With(v, c) => Ended(c)' \/ With(w, c)
    BY <1>6, <2>7
  <2>9. Local(p, w)
    BY <1>1, <1>2, <1>5, <1>6, <2>3, <2>5, <2>8 DEF Local
  <2> QED BY <1>8, <2>4, <2>9, LocalMoves
<1>9. CASE UNCHANGED <<open, out>> /\ Set(p, IF ctx = "cancelled" THEN w ELSE v)
  <2>1. CASE ctx = "cancelled"
    <3>1. \A s : Held(w, s) <= Held(v, s)
      BY <1>6, <1>7 DEF One
    <3>2. \A c : With(v, c) => With(w, c) \/ Held(w, c.seq) < Held(v, c.seq)
      <4>1. Held(w, b.seq) < Held(v, b.seq)
        BY <1>6, <1>7 DEF One
      <4> QED BY <1>6, <4>1
    <3>3. Quiet(p, w)
      BY <1>1, <1>2, <1>5, <1>6, <1>9, <2>1, <3>1, <3>2 DEF Quiet
    <3> QED BY <1>9, <2>1, <3>3, QuietMoves
  <2>2. CASE ctx # "cancelled"
    <3>1. Quiet(p, v)
      BY <1>1, <1>2, <1>5, <1>9 DEF Quiet
    <3> QED BY <1>9, <2>2, <3>1, QuietMoves
  <2> QED BY <2>1, <2>2
<1> QED BY <1>5, <1>8, <1>9

-----------------------------------------------------------------------------
(* Batches.                                                                *)

\* A goroutine that waits has its pending batch.
LEMMA IdleHolds ==
  ASSUME NEW n \in Nat, NEW v \in Goroutine(n), NEW p, Shaped(p, v), v.pc = "idle"
  PROVE  /\ v.pend \in Seq(Instances(n)) /\ v.q = <<>> /\ v.batch = <<>>
         /\ \A s : Held(v, s) = Count(v.pend, s) /\ Count(v.pend, s) \in Nat
         /\ \A b : With(v, b) <=> b \in Members(v.pend)
<1>1. v.batch = <<>> /\ v.q = <<>> /\ v.pend \in Seq(Instances(n))
  BY DEF Shaped, Goroutine
<1>2. \A s : Count(v.pend, s) \in Nat
  BY <1>1, CountType
<1>3. \A s : Held(v, s) = Count(v.pend, s)
  BY <1>1, <1>2, CountEmpty DEF Held
<1>4. \A b : With(v, b) <=> b \in Members(v.pend)
  BY <1>1 DEF With, Members
<1> QED BY <1>1, <1>2, <1>3, <1>4

\* A flush: the sink has what was in the batch.
FlushedTo(p, t, w, n) ==
  /\ w \in Goroutine(n) /\ Shaped(p, w)
  /\ \A s : Held(w, s) = Count(t, s)
  /\ \A b : b \in Members(t) => With(w, b)

\* writeBatch sets aside what cannot be encoded and loses none of it.
LEMMA FlushHolds ==
  ASSUME NEW n \in Nat, NEW v \in Goroutine(n), NEW p, NEW t \in Seq(Instances(n)),
         Flushed(p, t, v)
  PROVE  \E w : Set(p, w) /\ FlushedTo(p, t, w, n)
<1>1. PICK bad \in SUBSET DOMAIN t : \E i \in Ascending(bad), j \in Ascending(DOMAIN t \ bad) :
        Set(p, [v EXCEPT !.pc = "encode", !.pend = <<>>, !.q = Picked(t, i), !.batch = Picked(t, j)])
  BY DEF Flushed
<1>2. PICK i \in Ascending(bad), j \in Ascending(DOMAIN t \ bad) :
        Set(p, [v EXCEPT !.pc = "encode", !.pend = <<>>, !.q = Picked(t, i), !.batch = Picked(t, j)])
  BY <1>1
<1>3. PICK x : x = Picked(t, i)
  OBVIOUS
<1>4. PICK y : y = Picked(t, j)
  OBVIOUS
<1>5. \A s : /\ x \in Seq(Instances(n)) /\ y \in Seq(Instances(n))
             /\ Members(t) = Members(x) \cup Members(y)
             /\ Count(t, s) = Count(x, s) + Count(y, s)
  BY <1>3, <1>4, CountSplit
<1>6. PICK w : w = [v EXCEPT !.pc = "encode", !.pend = <<>>, !.q = x, !.batch = y]
  OBVIOUS
<1>7. /\ w.pc = "encode" /\ w.pend = <<>> /\ w.q = x /\ w.batch = y
  BY <1>6 DEF Goroutine
<1>8. w \in Goroutine(n)
  <2>1. [v EXCEPT !.pc = "encode"] \in Goroutine(n)
    BY DEF Goroutine, Places
  <2>2. [[v EXCEPT !.pc = "encode"] EXCEPT !.pend = <<>>] \in Goroutine(n)
    <3>1. <<>> \in Seq(Instances(n))
      OBVIOUS
    <3> QED BY <2>1, <3>1 DEF Goroutine
  <2>3. [[[v EXCEPT !.pc = "encode"] EXCEPT !.pend = <<>>] EXCEPT !.q = x] \in Goroutine(n)
    BY <1>5, <2>2 DEF Goroutine
  <2>4. [[[[v EXCEPT !.pc = "encode"] EXCEPT !.pend = <<>>] EXCEPT !.q = x] EXCEPT !.batch = y]
          \in Goroutine(n)
    BY <1>5, <2>3 DEF Goroutine
  <2> QED BY <1>6, <2>4 DEF Goroutine
<1>9. Shaped(p, w)
  BY <1>7 DEF Shaped
<1>10. \A s : Held(w, s) = Count(t, s)
  <2> TAKE s
  <2>1. Count(x, s) \in Nat /\ Count(y, s) \in Nat /\ Count(t, s) = Count(x, s) + Count(y, s)
    BY <1>5, CountType
  <2>2. Count(w.pend, s) = 0
    BY <1>7, CountEmpty
  <2> QED BY <1>7, <2>1, <2>2 DEF Held
<1>11. \A b : b \in Members(t) => With(w, b)
  BY <1>5, <1>7 DEF With
<1>12. Set(p, w)
  BY <1>2, <1>3, <1>4, <1>6
<1> QED BY <1>8, <1>9, <1>10, <1>11, <1>12 DEF FlushedTo

\* runSink, the ticker.
LEMMA TickStep ==
  ASSUME DeliveryInv, NEW p \in DOMAIN proc, Tick(p)
  PROVE  DeliveryInv'
<1>1. PICK v : v = proc[p]
  OBVIOUS
<1>2. v \in Goroutine(next) /\ Shaped(p, v) /\ next \in Nat /\ ctx \in {"live", "cancelled"}
  BY <1>1, Before
<1>3. v.pc = "idle" /\ UNCHANGED <<graph, ctx, next, open, chan, owed, out>> /\ Flushed(p, v.pend, v)
  BY <1>1 DEF Tick
<1>4. /\ v.pend \in Seq(Instances(next)) /\ v.q = <<>> /\ v.batch = <<>>
      /\ \A s : Held(v, s) = Count(v.pend, s) /\ Count(v.pend, s) \in Nat
      /\ \A b : With(v, b) <=> b \in Members(v.pend)
  BY <1>2, <1>3, IdleHolds
<1>5. PICK w : Set(p, w) /\ FlushedTo(p, v.pend, w, next)
  BY <1>2, <1>3, <1>4, FlushHolds
<1>6. Quiet(p, w)
  BY <1>1, <1>2, <1>3, <1>4, <1>5 DEF Quiet, FlushedTo
<1> QED BY <1>5, <1>6, QuietMoves

\* ctx.Done.
LEMMA LeaveStep ==
  ASSUME DeliveryInv, NEW p \in DOMAIN proc, Leave(p)
  PROVE  DeliveryInv'
<1>1. PICK v : v = proc[p]
  OBVIOUS
<1>2. v \in Goroutine(next) /\ Shaped(p, v) /\ next \in Nat
  BY <1>1, Before
<1>3. /\ v.pc = "idle" /\ ctx' = "cancelled" /\ UNCHANGED <<graph, ctx, next, open, chan, owed, out>>
      /\ \/ Flushed(p, v.pend, [v EXCEPT !.leaving = TRUE])
         \/ Set(p, [Idle EXCEPT !.pc = "gone"])
  BY <1>1 DEF Leave
<1>4. CASE Flushed(p, v.pend, [v EXCEPT !.leaving = TRUE])
  <2>1. /\ v.pend \in Seq(Instances(next)) /\ v.q = <<>> /\ v.batch = <<>>
        /\ \A s : Held(v, s) = Count(v.pend, s) /\ Count(v.pend, s) \in Nat
        /\ \A b : With(v, b) <=> b \in Members(v.pend)
    BY <1>2, <1>3, IdleHolds
  <2>2. PICK u : u = [v EXCEPT !.leaving = TRUE]
    OBVIOUS
  <2>3. u \in Goroutine(next)
    BY <1>2, <2>2 DEF Goroutine
  <2>4. Flushed(p, v.pend, u)
    BY <1>4, <2>2
  <2>5. PICK w : Set(p, w) /\ FlushedTo(p, v.pend, w, next)
    BY <1>2, <2>1, <2>3, <2>4, FlushHolds
  <2>6. Quiet(p, w)
    BY <1>1, <1>2, <1>3, <2>1, <2>5 DEF Quiet, FlushedTo
  <2> QED BY <2>5, <2>6, QuietMoves
<1>5. CASE Set(p, [Idle EXCEPT !.pc = "gone"])
  <2>1. PICK w : w = [Idle EXCEPT !.pc = "gone"]
    OBVIOUS
  <2>2. w \in Goroutine(next) /\ Shaped(p, w) /\ \A s : Held(w, s) = 0
    BY <1>2, <2>1, GoneType
  <2>3. Set(p, w) /\ ctx' \in {"live", "cancelled"} /\ (ctx' = "live" => ctx = "live")
    BY <1>3, <1>5, <2>1
  <2> QED BY <1>3, <2>2, <2>3, LetsGo
<1> QED BY <1>3, <1>4, <1>5

-----------------------------------------------------------------------------
(* Channels.                                                               *)

\* A step that moves a branch between a goroutine and a channel.
Passing(p, w, n, t) ==
  /\ UNCHANGED <<graph, ctx, next, open, owed, out>>
  /\ n \in DOMAIN chan /\ t \in Seq(Instances(next)) /\ chan' = [chan EXCEPT ![n] = t]
  /\ w \in Goroutine(next) /\ Shaped(p, w)
  /\ \A s \in Seqs : Held(w, s) + Count(t, s) = Held(proc[p], s) + Count(chan[n], s)
  /\ \A b : With(proc[p], b) => With(w, b) \/ b \in Members(t)
  /\ \A b \in Members(chan[n]) : With(w, b) \/ b \in Members(t)

\* A step that moves a branch between a goroutine and a channel keeps the invariant.
LEMMA PassingMoves ==
  ASSUME DeliveryInv, NEW p \in DOMAIN proc, NEW w, NEW n, NEW t, Set(p, w), Passing(p, w, n, t)
  PROVE  DeliveryInv'
<1>1. /\ graph.msgs \in Nat /\ next \in Nat /\ next <= graph.msgs
      /\ open \in [Seqs -> Nat] /\ (\A s \in Seqs : s > next => open[s] = 0)
      /\ chan \in [DOMAIN graph.kind -> Seq(Instances(next))]
      /\ proc[p] \in Goroutine(next) /\ owed \subseteq Instances(next)
      /\ ctx \in {"live", "cancelled"}
  BY Before
<1>2. /\ UNCHANGED <<graph, ctx, next, open, owed, out>>
      /\ n \in DOMAIN chan /\ t \in Seq(Instances(next)) /\ chan' = [chan EXCEPT ![n] = t]
      /\ w \in Goroutine(next) /\ Shaped(p, w)
  BY DEF Passing
<1>3. \A s \in Seqs : /\ IsFiniteSet(Units(Waiting(s)')) /\ Total(Waiting(s)) \in Nat
                      /\ Total(Waiting(s)') = Total(Waiting(s)) - Count(chan[n], s) + Count(t, s)
  BY <1>2, ChanSet
<1>4. DOMAIN chan' = DOMAIN chan /\ chan'[n] = t /\ \A m \in DOMAIN chan : m # n => chan'[m] = chan[m]
  BY <1>1, <1>2
<1>5. chan' \in [DOMAIN graph.kind -> Seq(Instances(next'))]
  BY <1>1, <1>2
<1>6. Framed(p, w)
  BY <1>1, <1>2, <1>5 DEF Framed
<1>7. Balanced(p, w)
  <2>1. SUFFICES ASSUME NEW s \in Seqs
                 PROVE  /\ Total(Waiting(s)') \in Nat /\ open'[s] - open[s] >= Gain(p, w, s)
                        /\ open'[s] - open[s] = Gain(p, w, s)
    BY <1>3 DEF Balanced
  <2>2. /\ Total(Waiting(s)) \in Nat /\ Count(t, s) \in Nat /\ Count(chan[n], s) \in Nat
        /\ Held(w, s) \in Nat /\ Held(proc[p], s) \in Nat /\ open[s] \in Nat
    BY <1>1, <1>2, <1>3, HeldNat, CountType
  <2>3. Total(Waiting(s)') = Total(Waiting(s)) - Count(chan[n], s) + Count(t, s)
    BY <1>3
  <2>4. Total(Waiting(s)') \in Nat
    BY <1>3, FS_CardinalityType DEF Total
  <2>5. Held(w, s) + Count(t, s) = Held(proc[p], s) + Count(chan[n], s)
    BY DEF Passing
  <2>6. Gain(p, w, s) = 0
    BY <2>2, <2>3, <2>5 DEF Gain
  <2> QED BY <1>2, <2>2, <2>4, <2>6
<1>8. Traced(p, w)
  <2>1. \A b \in owed' \ owed : With(w, b)
    BY <1>2
  <2>2. \A b \in owed : With(proc[p], b) =>
          With(w, b) \/ \E m \in DOMAIN chan' : b \in Members(chan'[m])
    BY <1>2, <1>4 DEF Passing
  <2>3. \A b \in owed, m \in DOMAIN chan : b \in Members(chan[m]) =>
          With(w, b) \/ \E k \in DOMAIN chan' : b \in Members(chan'[k])
    <3> SUFFICES ASSUME NEW b \in owed, NEW m \in DOMAIN chan, b \in Members(chan[m])
                 PROVE  With(w, b) \/ \E k \in DOMAIN chan' : b \in Members(chan'[k])
      OBVIOUS
    <3>1. CASE m = n
      BY <1>2, <1>4, <3>1 DEF Passing
    <3>2. CASE m # n
      BY <1>4, <3>2
    <3> QED BY <3>1, <3>2
  <2> QED BY <2>1, <2>2, <2>3 DEF Traced
<1> QED BY <1>6, <1>7, <1>8, Moves

\* The first message of a channel that is not empty.
LEMMA ChanHead ==
  ASSUME DeliveryInv, NEW n \in DOMAIN chan, chan[n] # <<>>, NEW s
  PROVE  /\ Tail(chan[n]) \in Seq(Instances(next)) /\ Head(chan[n]) \in Instances(next)
         /\ Count(chan[n], s) = Count(Tail(chan[n]), s) + One(Head(chan[n]), s)
         /\ Members(chan[n]) = Members(Tail(chan[n])) \cup {Head(chan[n])}
         /\ Count(Tail(chan[n]), s) \in Nat
<1>1. chan[n] \in Seq(Instances(next))
  BY DEF DeliveryInv, DeliveryTypes
<1>2. /\ Tail(chan[n]) \in Seq(Instances(next)) /\ Head(chan[n]) \in Instances(next)
      /\ Count(chan[n], s) = Count(Tail(chan[n]), s) + One(Head(chan[n]), s)
      /\ Members(chan[n]) = Members(Tail(chan[n])) \cup {Head(chan[n])}
  BY <1>1, CountTail
<1>3. Count(Tail(chan[n]), s) \in Nat
  BY <1>2, CountType
<1> QED BY <1>2, <1>3

\* runTransform, the next message.
LEMMA TakeStep ==
  ASSUME DeliveryInv, NEW p \in DOMAIN proc, Take(p)
  PROVE  DeliveryInv'
<1>1. PICK v : v = proc[p]
  OBVIOUS
<1>2. PICK n : n = Node(p)
  OBVIOUS
<1>3. /\ v \in Goroutine(next) /\ Shaped(p, v) /\ next \in Nat
      /\ chan \in [DOMAIN graph.kind -> Seq(Instances(next))]
  BY <1>1, Before
<1>4. PICK b : b = Head(chan[n])
  OBVIOUS
<1>5. PICK t : t = Tail(chan[n])
  OBVIOUS
<1>6. PICK w : w = [Idle EXCEPT !.pc = "apply", !.inst = b]
  OBVIOUS
<1>7. /\ n \in DOMAIN chan /\ ~IsSink(p) /\ v.pc = "idle" /\ chan[n] # <<>>
      /\ Set(p, w) /\ chan' = [chan EXCEPT ![n] = t]
      /\ UNCHANGED <<graph, ctx, next, open, owed, out>>
  BY <1>1, <1>2, <1>3, <1>4, <1>5, <1>6 DEF Take, IsTransform
<1>8. \A s : /\ t \in Seq(Instances(next)) /\ b \in Instances(next)
             /\ Count(chan[n], s) = Count(t, s) + One(b, s)
             /\ Members(chan[n]) = Members(t) \cup {b}
             /\ Count(t, s) \in Nat
  BY <1>4, <1>5, <1>7, ChanHead
<1>9. v.pend = <<>>
  BY <1>3, <1>7 DEF Shaped
<1>10. (\A s : Held(v, s) = 0) /\ \A c : ~With(v, c)
  <2>1. /\ v.pend \in Seq(Instances(next)) /\ v.q = <<>> /\ v.batch = <<>>
        /\ \A s : Held(v, s) = Count(v.pend, s) /\ Count(v.pend, s) \in Nat
        /\ \A c : With(v, c) <=> c \in Members(v.pend)
    BY <1>3, <1>7, IdleHolds
  <2> QED BY <1>9, <2>1, CountEmpty DEF Members
<1>11. /\ w.pc = "apply" /\ w.inst = b /\ w.todo = <<>> /\ w.pend = <<>> /\ w.q = <<>> /\ w.batch = <<>>
  BY <1>6 DEF Idle
<1>12. b.seq # 0 /\ b \in [seq : 0..next, via : Vias]
  BY <1>3, <1>8 DEF Instances
<1>13. w \in Goroutine(next)
  <2>1. [Idle EXCEPT !.inst = b] \in Goroutine(next)
    BY <1>3, <1>12, IdleType DEF Goroutine
  <2>2. w = [[Idle EXCEPT !.inst = b] EXCEPT !.pc = "apply"]
    BY <1>6 DEF Idle
  <2> QED BY <2>1, <2>2 DEF Goroutine, Places
<1>14. Shaped(p, w)
  BY <1>11, <1>12 DEF Shaped
<1>15. (\A s : Held(w, s) = One(b, s)) /\ \A c : With(w, c) <=> c = b
  <2>1. /\ w.inst \in Instances(next) /\ (\A s : Held(w, s) = One(w.inst, s))
        /\ \A c : With(w, c) <=> c = w.inst
    BY <1>3, <1>11, <1>13, <1>14, ApplyHolds
  <2> QED BY <1>11, <2>1
<1>16. \A s \in Seqs : Held(w, s) + Count(t, s) = Held(v, s) + Count(chan[n], s)
  BY <1>8, <1>10, <1>15 DEF One
<1>17. Passing(p, w, n, t)
  BY <1>1, <1>7, <1>8, <1>10, <1>13, <1>14, <1>15, <1>16 DEF Passing
<1> QED BY <1>7, <1>17, PassingMoves

\* runSink, the next message.
LEMMA ReceiveStep ==
  ASSUME DeliveryInv, NEW p \in DOMAIN proc, Receive(p)
  PROVE  DeliveryInv'
<1>1. PICK v : v = proc[p]
  OBVIOUS
<1>2. PICK n : n = Node(p)
  OBVIOUS
<1>3. /\ v \in Goroutine(next) /\ Shaped(p, v) /\ next \in Nat /\ graph \in Pipelines
      /\ chan \in [DOMAIN graph.kind -> Seq(Instances(next))]
  BY <1>1, Before
<1>4. PICK b : b = Head(chan[n])
  OBVIOUS
<1>5. PICK t : t = Tail(chan[n])
  OBVIOUS
<1>6. PICK u : u = Append(v.pend, b)
  OBVIOUS
<1>7. /\ IsSink(p) /\ v.pc = "idle" /\ chan[n] # <<>> /\ chan' = [chan EXCEPT ![n] = t]
      /\ UNCHANGED <<graph, ctx, next, open, owed, out>>
      /\ Flushed(p, u, v) \/ Set(p, [v EXCEPT !.pend = u])
  BY <1>1, <1>2, <1>4, <1>5, <1>6 DEF Receive
<1>8. n \in DOMAIN chan
  <2>1. DOMAIN graph.size \subseteq DOMAIN graph.kind
    BY <1>3, PipelineAssumption
  <2> QED BY <1>2, <1>3, <1>7, <2>1 DEF IsSink
<1>9. \A s : /\ t \in Seq(Instances(next)) /\ b \in Instances(next)
             /\ Count(chan[n], s) = Count(t, s) + One(b, s)
             /\ Members(chan[n]) = Members(t) \cup {b}
             /\ Count(t, s) \in Nat
  BY <1>4, <1>5, <1>7, <1>8, ChanHead
<1>10. /\ v.pend \in Seq(Instances(next)) /\ v.q = <<>> /\ v.batch = <<>>
       /\ \A s : Held(v, s) = Count(v.pend, s) /\ Count(v.pend, s) \in Nat
       /\ \A c : With(v, c) <=> c \in Members(v.pend)
  BY <1>3, <1>7, IdleHolds
<1>11. \A s : /\ u \in Seq(Instances(next)) /\ Count(u, s) = Count(v.pend, s) + One(b, s)
              /\ Members(u) = Members(v.pend) \cup {b}
  BY <1>6, <1>9, <1>10, CountAppend
<1>12. \E w : Set(p, w) /\ FlushedTo(p, u, w, next)
  <2>1. CASE Flushed(p, u, v)
    BY <1>3, <1>11, <2>1, FlushHolds
  <2>2. CASE Set(p, [v EXCEPT !.pend = u])
    <3>1. PICK w : w = [v EXCEPT !.pend = u]
      OBVIOUS
    <3>2. w.pc = "idle" /\ w.pend = u /\ w.q = v.q /\ w.batch = v.batch
      BY <1>3, <1>7, <3>1 DEF Goroutine
    <3>3. w \in Goroutine(next)
      BY <1>3, <1>11, <3>1 DEF Goroutine
    <3>4. Shaped(p, w)
      BY <1>7, <1>10, <3>2 DEF Shaped
    <3>5. /\ w.pend \in Seq(Instances(next)) /\ w.q = <<>> /\ w.batch = <<>>
          /\ \A s : Held(w, s) = Count(w.pend, s) /\ Count(w.pend, s) \in Nat
          /\ \A c : With(w, c) <=> c \in Members(w.pend)
      BY <1>3, <3>2, <3>3, <3>4, IdleHolds
    <3>6. FlushedTo(p, u, w, next)
      BY <3>2, <3>3, <3>4, <3>5 DEF FlushedTo
    <3> QED BY <2>2, <3>1, <3>6
  <2> QED BY <1>7, <2>1, <2>2
<1>13. PICK w : Set(p, w) /\ FlushedTo(p, u, w, next)
  BY <1>12
<1>14. \A s \in Seqs : Held(w, s) + Count(t, s) = Held(v, s) + Count(chan[n], s)
  <2> TAKE s \in Seqs
  <2>1. /\ Held(w, s) = Count(u, s) /\ Count(u, s) = Count(v.pend, s) + One(b, s)
        /\ Held(v, s) = Count(v.pend, s) /\ Count(chan[n], s) = Count(t, s) + One(b, s)
    BY <1>9, <1>10, <1>11, <1>13 DEF FlushedTo
  <2>2. Count(v.pend, s) \in Nat /\ Count(t, s) \in Nat /\ One(b, s) \in Nat
    BY <1>9, <1>10 DEF One
  <2> QED BY <2>1, <2>2
<1>15. Passing(p, w, n, t)
  <2>1. w \in Goroutine(next) /\ Shaped(p, w)
    BY <1>13 DEF FlushedTo
  <2>2. \A c : With(v, c) => With(w, c)
    BY <1>10, <1>11, <1>13 DEF FlushedTo
  <2>3. \A c \in Members(chan[n]) : With(w, c) \/ c \in Members(t)
    BY <1>9, <1>11, <1>13 DEF FlushedTo
  <2> QED BY <1>1, <1>7, <1>8, <1>9, <1>14, <2>1, <2>2, <2>3 DEF Passing
<1> QED BY <1>13, <1>15, PassingMoves

-----------------------------------------------------------------------------
(* Fan-out.                                                                *)

\* A goroutine that fans out has the outputs left and the deliveries left.
LEMMA FanHolds ==
  ASSUME NEW n \in Nat, NEW v \in Goroutine(n), NEW p, Shaped(p, v), v.pc = "fan"
  PROVE  /\ v.inst \in Instances(n) /\ v.pend = <<>> /\ v.q = <<>> /\ v.batch = <<>>
         /\ \A s : Held(v, s) = IF v.inst.seq = s THEN v.fan + Len(v.todo) ELSE 0
         /\ \A b : With(v, b) <=> \/ v.fan > 0 /\ v.inst = b
                                  \/ \E k \in DOMAIN v.todo : b = Branch(v.inst.seq, v.todo[k])
<1>1. v.pend = <<>> /\ v.q = <<>> /\ v.batch = <<>> /\ v.inst.seq # 0
  BY DEF Shaped
<1>2. v.inst \in [seq : 0..n, via : Vias] /\ v.fan \in Nat /\ Len(v.todo) \in Nat
  BY HeldNat DEF Goroutine
<1>3. v.inst \in Instances(n)
  BY <1>1, <1>2 DEF Instances
<1>4. \A s : Held(v, s) = IF v.inst.seq = s THEN v.fan + Len(v.todo) ELSE 0
  BY <1>1, <1>2, CountEmpty DEF Held
<1>5. \A b : With(v, b) <=> \/ v.fan > 0 /\ v.inst = b
                            \/ \E k \in DOMAIN v.todo : b = Branch(v.inst.seq, v.todo[k])
  BY <1>1 DEF With, Members
<1> QED BY <1>1, <1>3, <1>4, <1>5

\* The state after fanOut or a delivery: other outputs and deliveries are left.
Fanned(v, f, t) == [v EXCEPT !.fan = f, !.todo = t]

\* What the goroutine holds then.
LEMMA FanSet ==
  ASSUME NEW n \in Nat, NEW v \in Goroutine(n), NEW p, Shaped(p, v), v.pc = "fan",
         NEW f \in Nat, NEW t \in Seq(Vias \ {0}),
         NEW w, w = Fanned(v, f, t)
  PROVE  /\ w \in Goroutine(n) /\ Shaped(p, w)
         /\ \A s : Held(w, s) = IF v.inst.seq = s THEN f + Len(t) ELSE 0
         /\ \A b : With(w, b) <=> \/ f > 0 /\ v.inst = b
                                  \/ \E k \in DOMAIN t : b = Branch(v.inst.seq, t[k])
<1>1. /\ w.pc = "fan" /\ w.inst = v.inst /\ w.fan = f /\ w.todo = t /\ w.pend = v.pend
      /\ w.q = v.q /\ w.batch = v.batch
  BY DEF Goroutine, Fanned
<1>2. w \in Goroutine(n)
  <2>1. [v EXCEPT !.fan = f] \in Goroutine(n)
    BY DEF Goroutine
  <2>2. w = [[v EXCEPT !.fan = f] EXCEPT !.todo = t]
    BY DEF Goroutine, Fanned
  <2> QED BY <2>1, <2>2 DEF Goroutine
<1>3. Shaped(p, w)
  BY <1>1 DEF Shaped
<1>4. /\ w.inst \in Instances(n) /\ w.pend = <<>> /\ w.q = <<>> /\ w.batch = <<>>
      /\ \A s : Held(w, s) = IF w.inst.seq = s THEN w.fan + Len(w.todo) ELSE 0
      /\ \A b : With(w, b) <=> \/ w.fan > 0 /\ w.inst = b
                               \/ \E k \in DOMAIN w.todo : b = Branch(w.inst.seq, w.todo[k])
  BY <1>1, <1>2, <1>3, FanHolds
<1> QED BY <1>1, <1>2, <1>3, <1>4

\* fanOut: one branch becomes one for every edge that matched, or ends.
LEMMA FanOutStep ==
  ASSUME DeliveryInv, NEW p \in DOMAIN proc, fanOut(p)
  PROVE  DeliveryInv'
<1>1. PICK v : v = proc[p]
  OBVIOUS
<1>2. /\ v \in Goroutine(next) /\ Shaped(p, v) /\ next \in Nat /\ ctx \in {"live", "cancelled"}
      /\ open \in [Seqs -> Nat] /\ owed \subseteq Instances(next) /\ graph \in Pipelines
      /\ Instances(next) \subseteq [seq : Seqs, via : Vias]
  BY <1>1, Before
<1>3. PICK M \in SUBSET Outgoing(Node(p)) :
        /\ \E todo \in Ascending(M) : Set(p, [v EXCEPT !.fan = @ - 1, !.todo = todo])
        /\ owed' = owed \cup {Branch(v.inst.seq, e) : e \in M}
        /\ IF M = {} THEN Done(v.inst, "filtered")
           ELSE /\ open' = [open EXCEPT ![v.inst.seq] = @ + Cardinality(M) - 1]
                /\ out' = out \cup {[seq |-> v.inst.seq, via |-> v.inst.via, how |-> "passed"]}
  <2> DEFINE maybe == {e \in Outgoing(Node(p)) : graph.edges[e].when}
             matched(some) == (Outgoing(Node(p)) \ maybe) \cup some
  <2>1. PICK some \in SUBSET maybe :
          /\ \E todo \in Ascending(matched(some)) :
               Set(p, [proc[p] EXCEPT !.fan = @ - 1, !.todo = todo])
          /\ owed' = owed \cup {Branch(proc[p].inst.seq, e) : e \in matched(some)}
          /\ IF matched(some) = {} THEN Done(proc[p].inst, "filtered")
             ELSE /\ open' = [open EXCEPT ![proc[p].inst.seq] = @ + Cardinality(matched(some)) - 1]
                  /\ out' = out \cup {[seq |-> proc[p].inst.seq, via |-> proc[p].inst.via,
                                       how |-> "passed"]}
    BY Zenon DEF fanOut
  <2>2. PICK M : M = matched(some)
    OBVIOUS
  <2>3. M \in SUBSET Outgoing(Node(p))
    BY <2>2
  <2>4. /\ \E todo \in Ascending(M) : Set(p, [v EXCEPT !.fan = @ - 1, !.todo = todo])
        /\ owed' = owed \cup {Branch(v.inst.seq, e) : e \in M}
        /\ IF M = {} THEN Done(v.inst, "filtered")
           ELSE /\ open' = [open EXCEPT ![v.inst.seq] = @ + Cardinality(M) - 1]
                /\ out' = out \cup {[seq |-> v.inst.seq, via |-> v.inst.via, how |-> "passed"]}
    BY <1>1, <2>1, <2>2, Zenon
  <2> QED BY <2>3, <2>4, Zenon
<1>4. PICK t \in Ascending(M) : Set(p, [v EXCEPT !.fan = @ - 1, !.todo = t])
  BY <1>3
<1>5. /\ v.pc = "fan" /\ v.fan > 0 /\ v.todo = <<>> /\ v.fan \in Nat
      /\ UNCHANGED <<graph, ctx, next, chan>>
  BY <1>1, <1>2 DEF fanOut, Goroutine
<1>6. M \subseteq DOMAIN graph.edges /\ IsFiniteSet(M) /\ Cardinality(M) \in Nat
  <2>1. PICK T : graph.edges \in Seq(T)
    BY <1>2, PipelineAssumption
  <2>2. DOMAIN graph.edges = 1..Len(graph.edges) /\ Len(graph.edges) \in Nat
    BY <2>1, LenProperties
  <2>3. IsFiniteSet(DOMAIN graph.edges)
    BY <2>2, FS_Interval
  <2>4. M \subseteq DOMAIN graph.edges
    BY DEF Outgoing
  <2> QED BY <2>3, <2>4, FS_Subset, FS_CardinalityType
<1>7. /\ t \in [1..Cardinality(M) -> M] /\ \A e \in M : \E k \in 1..Cardinality(M) : t[k] = e
  BY DEF Ascending
<1>8. t \in Seq(Vias \ {0}) /\ Len(t) = Cardinality(M) /\ DOMAIN t = 1..Cardinality(M)
  <2>1. M \subseteq Vias \ {0}
    <3>1. PICK T : graph.edges \in Seq(T)
      BY <1>2, PipelineAssumption
    <3>2. 0 \notin DOMAIN graph.edges
      BY <3>1
    <3> QED BY <1>6, <3>2 DEF Vias
  <2>2. t \in [1..Cardinality(M) -> Vias \ {0}]
    BY <1>7, <2>1
  <2>3. t \in Seq(Vias \ {0})
    BY <1>6, <2>2, IsASeq
  <2> QED BY <1>6, <1>7, <2>3, LenProperties
<1>9. PICK f : f = v.fan - 1
  OBVIOUS
<1>10. PICK w : w = Fanned(v, f, t)
  OBVIOUS
<1>11. Set(p, w) /\ f \in Nat
  BY <1>4, <1>5, <1>9, <1>10 DEF Fanned
<1>12. /\ w \in Goroutine(next) /\ Shaped(p, w)
       /\ \A s : Held(w, s) = IF v.inst.seq = s THEN f + Len(t) ELSE 0
       /\ \A b : With(w, b) <=> \/ f > 0 /\ v.inst = b
                                \/ \E k \in DOMAIN t : b = Branch(v.inst.seq, t[k])
  <2>1. next \in Nat /\ v \in Goroutine(next) /\ Shaped(p, v) /\ v.pc = "fan"
        /\ f \in Nat /\ t \in Seq(Vias \ {0})
    BY <1>2, <1>5, <1>8, <1>11
  <2> QED BY <1>10, <2>1, FanSet
<1>13. /\ v.inst \in Instances(next)
       /\ \A s : Held(v, s) = IF v.inst.seq = s THEN v.fan + Len(v.todo) ELSE 0
       /\ \A b : With(v, b) <=> \/ v.fan > 0 /\ v.inst = b
                                \/ \E k \in DOMAIN v.todo : b = Branch(v.inst.seq, v.todo[k])
  BY <1>2, <1>5, FanHolds
<1>14. v.inst.seq \in Seqs
  BY <1>2, <1>13
<1>15. /\ open' = [s \in Seqs |-> open'[s]] /\ DOMAIN open' = Seqs
       /\ \A s \in Seqs : open'[s] = IF s = v.inst.seq THEN open[s] + Cardinality(M) - 1 ELSE open[s]
  <2>1. CASE M = {}
    <3>1. open' = [open EXCEPT ![v.inst.seq] = @ - 1]
      BY <1>3, <2>1 DEF Done
    <3>2. /\ open' = [s \in Seqs |-> open'[s]] /\ DOMAIN open' = Seqs
          /\ \A s \in Seqs : open'[s] = IF s = v.inst.seq THEN open[s] - 1 ELSE open[s]
      BY <1>2, <1>14, <3>1
    <3>3. Cardinality(M) = 0
      BY <2>1, FS_EmptySet
    <3>4. \A s \in Seqs : open[s] + Cardinality(M) - 1 = open[s] - 1
      BY <1>2, <3>3
    <3> QED BY <3>2, <3>4
  <2>2. CASE M # {}
    <3>1. open' = [open EXCEPT ![v.inst.seq] = @ + Cardinality(M) - 1]
      BY <1>3, <2>2
    <3> QED BY <1>2, <1>14, <3>1
  <2> QED BY <2>1, <2>2
<1>16. Follows(p, w)
  <2>1. \A s \in Seqs : open'[s] = open[s] + Held(w, s) - Held(v, s)
    <3> TAKE s \in Seqs
    <3>1. open[s] \in Nat /\ open'[s] = IF s = v.inst.seq THEN open[s] + Cardinality(M) - 1 ELSE open[s]
      BY <1>2, <1>15
    <3>2. Held(w, s) = IF v.inst.seq = s THEN (v.fan - 1) + Cardinality(M) ELSE 0
      BY <1>8, <1>9, <1>12
    <3>3. Held(v, s) = IF v.inst.seq = s THEN v.fan + 0 ELSE 0
      <4>1. Len(v.todo) = 0
        BY <1>5
      <4> QED BY <1>13, <4>1
    <3> QED BY <1>5, <1>6, <3>1, <3>2, <3>3
  <2> QED BY <1>1, <2>1 DEF Follows
<1>17. out \subseteq out' /\ Ended(v.inst)'
  <2>1. PICK how : how = IF M = {} THEN "filtered" ELSE "passed"
    OBVIOUS
  <2>2. out' = out \cup {[seq |-> v.inst.seq, via |-> v.inst.via, how |-> how]}
    <3>1. CASE M = {}
      BY <1>3, <2>1, <3>1 DEF Done
    <3>2. CASE M # {}
      BY <1>3, <2>1, <3>2
    <3> QED BY <3>1, <3>2
  <2>3. PICK o : o = [seq |-> v.inst.seq, via |-> v.inst.via, how |-> how]
    OBVIOUS
  <2>4. o \in out' /\ o.seq = v.inst.seq /\ o.via = v.inst.via /\ o.how # "dropped"
    BY <2>1, <2>2, <2>3
  <2> QED BY <2>2, <2>4 DEF Ended
<1>18. \A b \in owed' \ owed : With(w, b)
  <2>1. \A e \in M : \E k \in DOMAIN t : Branch(v.inst.seq, e) = Branch(v.inst.seq, t[k])
    BY <1>7, <1>8
  <2> QED BY <1>3, <1>12, <2>1
<1>19. \A b \in owed : With(v, b) => Ended(b)'
  BY <1>5, <1>13, <1>17
<1>20. owed' \subseteq Instances(next)
  <2>1. \A e \in M : Branch(v.inst.seq, e) \in Instances(next)
    BY <1>6, <1>13 DEF Branch, Instances, Vias
  <2> QED BY <1>2, <1>3, <2>1
<1>21. Local(p, w)
  BY <1>1, <1>2, <1>5, <1>12, <1>15, <1>17, <1>18, <1>19, <1>20 DEF Local
<1> QED BY <1>11, <1>16, <1>21, LocalMoves

\* deliver: the branch is in the channel, or left open under a cancelled context.
LEMMA DeliverStep ==
  ASSUME DeliveryInv, NEW p \in DOMAIN proc, deliver(p)
  PROVE  DeliveryInv'
<1>1. PICK v : v = proc[p]
  OBVIOUS
<1>2. /\ v \in Goroutine(next) /\ Shaped(p, v) /\ next \in Nat /\ ctx \in {"live", "cancelled"}
      /\ chan \in [DOMAIN graph.kind -> Seq(Instances(next))]
  BY <1>1, Before
<1>3. PICK e : e = Head(v.todo)
  OBVIOUS
<1>4. PICK t : t = Tail(v.todo)
  OBVIOUS
<1>5. PICK w : w = Fanned(v, v.fan, t)
  OBVIOUS
<1>6. PICK n : n = Edge(e).to
  OBVIOUS
<1>7. PICK c : c = Branch(v.inst.seq, e)
  OBVIOUS
<1>8. v.fan \in Nat /\ v.todo \in Seq(Vias \ {0})
  BY <1>2 DEF Goroutine
<1>9. /\ v.pc = "fan" /\ v.todo # <<>> /\ Set(p, w)
      /\ UNCHANGED <<graph, ctx, next, open, owed, out>>
      /\ \/ chan' = [chan EXCEPT ![n] = Append(chan[n], c)]
         \/ ctx = "cancelled" /\ UNCHANGED chan
  <2>1. w = [v EXCEPT !.todo = Tail(@)]
    BY <1>2, <1>4, <1>5 DEF Goroutine, Fanned
  <2> QED BY <1>1, <1>3, <1>6, <1>7, <2>1 DEF deliver
<1>10. /\ e \in Vias \ {0} /\ t \in Seq(Vias \ {0}) /\ Len(v.todo) = Len(t) + 1 /\ Len(t) \in Nat
       /\ \A k \in DOMAIN v.todo : v.todo[k] = e \/ \E j \in DOMAIN t : t[j] = v.todo[k]
  <2>1. /\ DOMAIN v.todo = 1..Len(v.todo) /\ Len(v.todo) \in Nat /\ Len(v.todo) > 0 /\ e = v.todo[1]
        /\ e \in Vias \ {0} /\ t \in Seq(Vias \ {0}) /\ Len(t) = Len(v.todo) - 1
        /\ DOMAIN t = 1..(Len(v.todo) - 1) /\ \A i \in 1..(Len(v.todo) - 1) : t[i] = v.todo[i + 1]
    BY <1>3, <1>4, <1>8, <1>9, EmptySeq, HeadTailProperties, LenProperties
  <2>2. ASSUME NEW k \in DOMAIN v.todo, k # 1
        PROVE  \E j \in DOMAIN t : t[j] = v.todo[k]
    <3>1. k - 1 \in DOMAIN t /\ t[k - 1] = v.todo[k]
      BY <2>1, <2>2
    <3> QED BY <3>1
  <2> QED BY <2>1, <2>2
<1>11. /\ w \in Goroutine(next) /\ Shaped(p, w)
       /\ \A s : Held(w, s) = IF v.inst.seq = s THEN v.fan + Len(t) ELSE 0
       /\ \A b : With(w, b) <=> \/ v.fan > 0 /\ v.inst = b
                                \/ \E k \in DOMAIN t : b = Branch(v.inst.seq, t[k])
  <2>1. next \in Nat /\ v \in Goroutine(next) /\ Shaped(p, v) /\ v.pc = "fan"
        /\ v.fan \in Nat /\ t \in Seq(Vias \ {0})
    BY <1>2, <1>8, <1>9, <1>10
  <2> QED BY <1>5, <2>1, FanSet
<1>12. /\ v.inst \in Instances(next)
       /\ \A s : Held(v, s) = IF v.inst.seq = s THEN v.fan + Len(v.todo) ELSE 0
       /\ \A b : With(v, b) <=> \/ v.fan > 0 /\ v.inst = b
                                \/ \E k \in DOMAIN v.todo : b = Branch(v.inst.seq, v.todo[k])
  BY <1>2, <1>9, FanHolds
<1>13. c \in Instances(next) /\ c.seq = v.inst.seq
  BY <1>7, <1>10, <1>12 DEF Branch, Instances
<1>14. \A s : Held(v, s) = Held(w, s) + One(c, s) /\ Held(w, s) \in Nat
  <2> TAKE s
  <2>1. /\ Held(v, s) = IF v.inst.seq = s THEN v.fan + (Len(t) + 1) ELSE 0
        /\ Held(w, s) = IF v.inst.seq = s THEN v.fan + Len(t) ELSE 0
        /\ One(c, s) = IF v.inst.seq = s THEN 1 ELSE 0
    BY <1>10, <1>11, <1>12, <1>13 DEF One
  <2>2. v.fan \in Nat /\ Len(t) \in Nat
    BY <1>8, <1>10
  <2> QED BY <2>1, <2>2
<1>15. \A b : With(v, b) => With(w, b) \/ b = c
  BY <1>7, <1>10, <1>11, <1>12
<1>16. CASE chan' = [chan EXCEPT ![n] = Append(chan[n], c)]
  <2>1. n \in DOMAIN chan
    BY <1>2, <1>6, <1>10, EdgeType
  <2>2. PICK u : u = Append(chan[n], c)
    OBVIOUS
  <2>3. chan[n] \in Seq(Instances(next))
    BY <1>2, <2>1
  <2>4. \A s : /\ u \in Seq(Instances(next)) /\ Count(u, s) = Count(chan[n], s) + One(c, s)
               /\ Members(u) = Members(chan[n]) \cup {c}
    <3>1. c \in Instances(next)
      BY <1>13
    <3> QED BY <2>2, <2>3, <3>1, CountAppend
  <2>5. \A s \in Seqs : Held(w, s) + Count(u, s) = Held(v, s) + Count(chan[n], s)
    <3> TAKE s \in Seqs
    <3>1. Count(chan[n], s) \in Nat /\ One(c, s) \in Nat
      BY <2>3, CountType DEF One
    <3> QED BY <1>14, <2>4, <3>1
  <2>6. Passing(p, w, n, u)
    BY <1>1, <1>9, <1>11, <1>15, <1>16, <2>1, <2>2, <2>4, <2>5 DEF Passing
  <2> QED BY <1>9, <2>6, PassingMoves
<1>17. CASE ctx = "cancelled" /\ UNCHANGED chan
  <2>1. \A s : Held(w, s) <= Held(v, s)
    BY <1>14 DEF One
  <2>2. Held(w, c.seq) < Held(v, c.seq)
    BY <1>14 DEF One
  <2>3. Quiet(p, w)
    BY <1>1, <1>2, <1>9, <1>11, <1>15, <1>17, <2>1, <2>2 DEF Quiet
  <2> QED BY <1>9, <2>3, QuietMoves
<1> QED BY <1>9, <1>16, <1>17

-----------------------------------------------------------------------------
(* Admission.                                                              *)

\* A message is admitted and its one branch is with the goroutine that admits it.
Admits(p, w, e) ==
  /\ UNCHANGED <<graph, ctx, chan, out>> /\ next < graph.msgs /\ next' = next + 1
  /\ open' = [open EXCEPT ![next + 1] = 1] /\ owed' = owed \cup {Branch(next + 1, e)}
  /\ proc[p].pc = "idle" /\ proc[p].pend = <<>> /\ e \in Vias
  /\ w \in Goroutine(next + 1) /\ Shaped(p, w)
  /\ \A s : Held(w, s) = IF s = next + 1 THEN 1 ELSE 0
  /\ With(w, Branch(next + 1, e))

\* A step that admits a message keeps the invariant.
LEMMA AdmitMoves ==
  ASSUME DeliveryInv, NEW p \in DOMAIN proc, NEW w, NEW e, Set(p, w), Admits(p, w, e)
  PROVE  DeliveryInv'
<1>1. /\ graph.msgs \in Nat /\ next \in Nat /\ next <= graph.msgs
      /\ open \in [Seqs -> Nat] /\ (\A s \in Seqs : s > next => open[s] = 0)
      /\ chan \in [DOMAIN graph.kind -> Seq(Instances(next))]
      /\ proc[p] \in Goroutine(next) /\ Shaped(p, proc[p]) /\ owed \subseteq Instances(next)
      /\ ctx \in {"live", "cancelled"}
  BY Before
<1>2. /\ UNCHANGED <<graph, ctx, chan, out>> /\ next < graph.msgs /\ next' = next + 1
      /\ open' = [open EXCEPT ![next + 1] = 1] /\ owed' = owed \cup {Branch(next + 1, e)}
      /\ proc[p].pc = "idle" /\ proc[p].pend = <<>> /\ e \in Vias
      /\ w \in Goroutine(next + 1) /\ Shaped(p, w)
  BY DEF Admits
<1>3. (\A s : Held(proc[p], s) = 0) /\ \A b : ~With(proc[p], b)
  <2>1. /\ proc[p].pend \in Seq(Instances(next)) /\ proc[p].q = <<>> /\ proc[p].batch = <<>>
        /\ \A s : Held(proc[p], s) = Count(proc[p].pend, s) /\ Count(proc[p].pend, s) \in Nat
        /\ \A b : With(proc[p], b) <=> b \in Members(proc[p].pend)
    BY <1>1, <1>2, IdleHolds
  <2> QED BY <1>2, <2>1, CountEmpty DEF Members
<1>4. next + 1 \in Seqs /\ open[next + 1] = 0
  BY <1>1, <1>2 DEF Seqs
<1>5. /\ open' \in [Seqs -> Nat]
      /\ \A s \in Seqs : open'[s] = IF s = next + 1 THEN 1 ELSE open[s]
  BY <1>1, <1>2, <1>4
<1>6. Instances(next) \subseteq Instances(next + 1) /\ Branch(next + 1, e) \in Instances(next + 1)
  BY <1>1, <1>2 DEF Instances, Branch
<1>7. Framed(p, w)
  <2>1. chan' \in [DOMAIN graph.kind -> Seq(Instances(next'))]
    <3>1. Seq(Instances(next)) \subseteq Seq(Instances(next + 1))
      BY <1>6
    <3> QED BY <1>1, <1>2, <3>1
  <2>2. owed' \subseteq Instances(next')
    BY <1>1, <1>2, <1>6
  <2>3. \A s \in Seqs : s > next' => open'[s] = 0
    BY <1>1, <1>2, <1>5 DEF Seqs
  <2>4. next' \in Nat /\ next' <= graph.msgs /\ next <= next'
    BY <1>1, <1>2
  <2> QED BY <1>1, <1>2, <1>5, <2>1, <2>2, <2>3, <2>4 DEF Framed
<1>8. Balanced(p, w)
  <2>1. \A s \in Seqs : /\ IsFiniteSet(Units(Waiting(s)')) /\ Total(Waiting(s)) \in Nat
                        /\ Total(Waiting(s)') = Total(Waiting(s))
    BY <1>2, ChanSame
  <2>2. SUFFICES ASSUME NEW s \in Seqs
                 PROVE  open'[s] - open[s] = Gain(p, w, s) /\ open'[s] - open[s] >= Gain(p, w, s)
    BY <2>1 DEF Balanced
  <2>3. Held(w, s) = (IF s = next + 1 THEN 1 ELSE 0) /\ Held(proc[p], s) = 0
    BY <1>3 DEF Admits
  <2>4. Gain(p, w, s) = IF s = next + 1 THEN 1 ELSE 0
    BY <2>1, <2>3 DEF Gain
  <2>5. open[s] \in Nat /\ open'[s] = (IF s = next + 1 THEN 1 ELSE open[s]) /\ open[next + 1] = 0
    BY <1>1, <1>4, <1>5
  <2> QED BY <2>4, <2>5
<1>9. Traced(p, w)
  BY <1>2, <1>3 DEF Traced, Admits
<1> QED BY <1>7, <1>8, <1>9, Moves

\* A goroutine of no node of the graph is no sink: it has no pending batch.
LEMMA EntryShape ==
  ASSUME DeliveryInv, NEW p \in DOMAIN proc, Node(p) \in {"src", "inject"}
  PROVE  ~IsSink(p) /\ proc[p].pend = <<>>
<1>1. graph \in Pipelines /\ Shaped(p, proc[p])
  BY Before
<1>2. DOMAIN graph.size \subseteq DOMAIN graph.kind /\ {"src", "inject"} \cap DOMAIN graph.kind = {}
  BY <1>1, PipelineAssumption
<1>3. ~IsSink(p)
  BY <1>2 DEF IsSink
<1> QED BY <1>1, <1>3 DEF Shaped

\* accept and dispatchFrom.
LEMMA AcceptStep ==
  ASSUME DeliveryInv, NEW p \in DOMAIN proc, Accept(p)
  PROVE  DeliveryInv'
<1>1. next \in Nat /\ next + 1 \in Nat
  BY Before
<1>2. PICK b : b = Branch(next + 1, 0)
  OBVIOUS
<1>3. /\ Node(p) = "src" /\ proc[p].pc = "idle" /\ next < graph.msgs /\ next' = next + 1
      /\ open' = [open EXCEPT ![next + 1] = 1] /\ owed' = owed \cup {Branch(next + 1, 0)}
      /\ UNCHANGED <<graph, ctx, chan, out>>
      /\ \/ Set(p, [Idle EXCEPT !.pc = "fan", !.inst = b, !.fan = 1])
         \/ Set(p, [Idle EXCEPT !.pc = "dispose", !.q = <<b>>])
  BY <1>2 DEF Accept
<1>4. ~IsSink(p) /\ proc[p].pend = <<>>
  BY <1>3, EntryShape
<1>5. /\ b \in Instances(next + 1) /\ b \in [seq : 0..(next + 1), via : Vias]
      /\ b.seq = next + 1 /\ b.seq # 0 /\ 0 \in Vias
  BY <1>1, <1>2 DEF Branch, Instances, Vias
<1>6. PICK i : i = Idle /\ i \in Goroutine(next + 1)
  BY <1>1, IdleType
<1>7. CASE Set(p, [Idle EXCEPT !.pc = "fan", !.inst = b, !.fan = 1])
  <2>1. PICK w : w = [Idle EXCEPT !.pc = "fan", !.inst = b, !.fan = 1]
    OBVIOUS
  <2>2. /\ w.pc = "fan" /\ w.inst = b /\ w.fan = 1 /\ w.todo = <<>> /\ w.pend = <<>> /\ w.q = <<>>
        /\ w.batch = <<>>
    BY <2>1 DEF Idle
  <2>3. w \in Goroutine(next + 1)
    <3>1. [i EXCEPT !.inst = b] \in Goroutine(next + 1)
      BY <1>5, <1>6 DEF Goroutine
    <3>2. [[i EXCEPT !.inst = b] EXCEPT !.fan = 1] \in Goroutine(next + 1)
      BY <3>1 DEF Goroutine
    <3>3. w = [[[i EXCEPT !.inst = b] EXCEPT !.fan = 1] EXCEPT !.pc = "fan"]
      BY <1>6, <2>1 DEF Idle
    <3> QED BY <3>2, <3>3 DEF Goroutine, Places
  <2>4. Shaped(p, w)
    BY <1>5, <2>2 DEF Shaped
  <2>5. \A s : Held(w, s) = IF s = next + 1 THEN 1 ELSE 0
    <3>1. Len(w.todo) = 0
      BY <2>2
    <3> QED BY <1>5, <2>2, <3>1, CountEmpty DEF Held
  <2>6. With(w, b)
    BY <2>2 DEF With
  <2>7. Admits(p, w, 0)
    BY <1>2, <1>3, <1>4, <1>5, <2>3, <2>4, <2>5, <2>6 DEF Admits
  <2> QED BY <1>7, <2>1, <2>7, AdmitMoves
<1>8. CASE Set(p, [Idle EXCEPT !.pc = "dispose", !.q = <<b>>])
  <2>1. PICK w : w = [Idle EXCEPT !.pc = "dispose", !.q = <<b>>]
    OBVIOUS
  <2>2. /\ w.pc = "dispose" /\ w.pend = <<>> /\ w.q = <<b>> /\ w.batch = <<>>
    BY <2>1 DEF Idle
  <2>3. \A s : /\ <<b>> \in Seq(Instances(next + 1)) /\ Count(<<b>>, s) = One(b, s)
               /\ Members(<<b>>) = {b}
    BY <1>5, CountOne
  <2>4. w \in Goroutine(next + 1)
    <3>1. [i EXCEPT !.q = <<b>>] \in Goroutine(next + 1)
      BY <1>6, <2>3 DEF Goroutine
    <3>2. w = [[i EXCEPT !.q = <<b>>] EXCEPT !.pc = "dispose"]
      BY <1>6, <2>1 DEF Idle
    <3> QED BY <3>1, <3>2 DEF Goroutine, Places
  <2>5. Shaped(p, w)
    BY <1>4, <2>2 DEF Shaped
  <2>6. \A s : Held(w, s) = IF s = next + 1 THEN 1 ELSE 0
    BY <1>5, <2>2, <2>3, CountEmpty DEF Held, One
  <2>7. With(w, b)
    BY <2>2, <2>3 DEF With
  <2>8. Admits(p, w, 0)
    BY <1>2, <1>3, <1>4, <1>5, <2>4, <2>5, <2>6, <2>7 DEF Admits
  <2> QED BY <1>8, <2>1, <2>8, AdmitMoves
<1> QED BY <1>3, <1>7, <1>8

\* injectAt and dispatchInternal.
LEMMA InjectStep ==
  ASSUME DeliveryInv, NEW p \in DOMAIN proc, InjectAt(p)
  PROVE  DeliveryInv'
<1>1. next \in Nat /\ next + 1 \in Nat
  BY Before
<1>2. PICK b : b = Branch(next + 1, -1)
  OBVIOUS
<1>3. PICK t : t = <<-1>>
  OBVIOUS
<1>4. /\ Node(p) = "inject" /\ proc[p].pc = "idle" /\ next < graph.msgs /\ next' = next + 1
      /\ open' = [open EXCEPT ![next + 1] = 1] /\ owed' = owed \cup {Branch(next + 1, -1)}
      /\ UNCHANGED <<graph, ctx, chan, out>>
      /\ Set(p, [Idle EXCEPT !.pc = "fan", !.inst = b, !.todo = t])
  BY <1>2, <1>3 DEF InjectAt
<1>5. ~IsSink(p) /\ proc[p].pend = <<>>
  BY <1>4, EntryShape
<1>6. /\ b \in [seq : 0..(next + 1), via : Vias] /\ b.seq = next + 1 /\ b.seq # 0 /\ -1 \in Vias
  BY <1>1, <1>2 DEF Branch, Vias
<1>7. t \in Seq(Vias \ {0}) /\ Len(t) = 1 /\ 1 \in DOMAIN t /\ t[1] = -1
  BY <1>3, <1>6
<1>8. PICK i : i = Idle /\ i \in Goroutine(next + 1)
  BY <1>1, IdleType
<1>9. PICK w : w = [Idle EXCEPT !.pc = "fan", !.inst = b, !.todo = t]
  OBVIOUS
<1>10. /\ w.pc = "fan" /\ w.inst = b /\ w.fan = 0 /\ w.todo = t /\ w.pend = <<>> /\ w.q = <<>>
       /\ w.batch = <<>>
  BY <1>9 DEF Idle
<1>11. w \in Goroutine(next + 1)
  <2>1. [i EXCEPT !.inst = b] \in Goroutine(next + 1)
    BY <1>6, <1>8 DEF Goroutine
  <2>2. [[i EXCEPT !.inst = b] EXCEPT !.todo = t] \in Goroutine(next + 1)
    BY <1>7, <2>1 DEF Goroutine
  <2>3. w = [[[i EXCEPT !.inst = b] EXCEPT !.todo = t] EXCEPT !.pc = "fan"]
    BY <1>8, <1>9 DEF Idle
  <2> QED BY <2>2, <2>3 DEF Goroutine, Places
<1>12. Shaped(p, w)
  BY <1>6, <1>10 DEF Shaped
<1>13. \A s : Held(w, s) = IF s = next + 1 THEN 1 ELSE 0
  <2>1. w.inst.seq = next + 1 /\ w.fan + Len(w.todo) = 1
    BY <1>6, <1>7, <1>10
  <2>2. /\ w.inst \in Instances(next + 1) /\ w.pend = <<>> /\ w.q = <<>> /\ w.batch = <<>>
        /\ \A s : Held(w, s) = IF w.inst.seq = s THEN w.fan + Len(w.todo) ELSE 0
        /\ \A c : With(w, c) <=> \/ w.fan > 0 /\ w.inst = c
                                 \/ \E k \in DOMAIN w.todo : c = Branch(w.inst.seq, w.todo[k])
    <3>1. next + 1 \in Nat /\ w \in Goroutine(next + 1) /\ Shaped(p, w) /\ w.pc = "fan"
      BY <1>1, <1>10, <1>11, <1>12
    <3> QED BY <3>1, FanHolds
  <2> QED BY <2>1, <2>2
<1>14. With(w, b)
  <2>1. b = Branch(w.inst.seq, w.todo[1])
    BY <1>2, <1>6, <1>7, <1>10
  <2> QED BY <1>7, <1>10, <2>1 DEF With
<1>15. Admits(p, w, -1)
  BY <1>2, <1>4, <1>5, <1>6, <1>11, <1>12, <1>13, <1>14 DEF Admits
<1> QED BY <1>4, <1>9, <1>15, AdmitMoves

-----------------------------------------------------------------------------
(* The theorem.                                                            *)

\* A step that touches the context alone.
LEMMA CancelStep ==
  ASSUME DeliveryInv, ctx' \in {"live", "cancelled"}, ctx' = "live" => ctx = "live",
         UNCHANGED <<graph, next, open, chan, proc, owed, out>>
  PROVE  DeliveryInv'
<1>1. DeliveryTypes'
  BY DEF DeliveryInv, DeliveryTypes, Seqs, Instances, Goroutine, Vias
<1>2. (\A p \in DOMAIN proc : Shaped(p, proc[p]))'
  BY DEF DeliveryInv, Shaped, IsSink, Node, Edge
<1>3. \A s : Waiting(s)' = Waiting(s) /\ Working(s)' = Working(s)
  BY DEF Waiting, Working
<1>4. Seqs' = Seqs
  BY DEF Seqs
<1>5. \A s : Present(s)' = Present(s)
  BY <1>3 DEF Present
<1>6. Finite'
  BY <1>3, <1>4 DEF DeliveryInv, Finite
<1>7. OpenIsPresent'
  BY <1>4, <1>5 DEF DeliveryInv, OpenIsPresent
<1>8. Followed'
  BY <1>5 DEF DeliveryInv, Followed, Ended, Required, Edge
<1> QED BY <1>1, <1>2, <1>6, <1>7, <1>8 DEF DeliveryInv

\* The invariant holds when the engine starts.
LEMMA DeliveryStarts ==
  ASSUME DeliveryInit
  PROVE  DeliveryInv
<1>1. /\ graph \in Pipelines /\ ctx = "live" /\ next = 0 /\ open = [s \in Seqs |-> 0]
      /\ chan = [n \in DOMAIN graph.kind |-> <<>>] /\ owed = {}
      /\ DOMAIN proc = DOMAIN graph.node
      /\ \A p \in DOMAIN graph.node : proc[p] = Idle \/ proc[p] = [Idle EXCEPT !.pc = "start"]
      /\ proc = [p \in DOMAIN graph.node |-> proc[p]]
  BY DEF DeliveryInit
<1>2. PICK u : u = [Idle EXCEPT !.pc = "start"]
  OBVIOUS
<1>3. /\ Idle \in Goroutine(0) /\ (\A p : Shaped(p, Idle)) /\ \A s : Held(Idle, s) = 0
  BY IdleType
<1>4. /\ u \in Goroutine(0) /\ (\A p : Shaped(p, u)) /\ \A s : Held(u, s) = 0
  <2>1. /\ u.pc = "start" /\ u.pend = <<>> /\ u.batch = <<>> /\ u.q = <<>>
    BY <1>2 DEF Idle
  <2>2. u \in Goroutine(0)
    BY <1>2, <1>3 DEF Goroutine, Places
  <2>3. \A p : Shaped(p, u)
    BY <2>1 DEF Shaped
  <2>4. \A s : Held(u, s) = 0
    BY <2>1, CountEmpty DEF Held
  <2> QED BY <2>2, <2>3, <2>4
<1>5. \A p \in DOMAIN proc : /\ proc[p] \in Goroutine(0) /\ Shaped(p, proc[p])
                             /\ \A s : Held(proc[p], s) = 0
  BY <1>1, <1>2, <1>3, <1>4
<1>6. DeliveryTypes
  <2>1. graph.msgs \in Nat
    BY <1>1, PipelineAssumption
  <2>2. <<>> \in Seq(Instances(0))
    OBVIOUS
  <2>3. chan \in [DOMAIN graph.kind -> Seq(Instances(next))]
    BY <1>1, <2>2
  <2>4. proc \in [DOMAIN graph.node -> Goroutine(next)]
    BY <1>1, <1>5
  <2> QED BY <1>1, <2>1, <2>3, <2>4 DEF DeliveryTypes
<1>7. \A s : /\ IsFiniteSet(Units(Waiting(s))) /\ Total(Waiting(s)) = 0
             /\ IsFiniteSet(Units(Working(s))) /\ Total(Working(s)) = 0
  <2> TAKE s
  <2>1. PICK f : f = Waiting(s)
    OBVIOUS
  <2>2. \A n \in DOMAIN f : f[n] = 0
    BY <1>1, <2>1, CountEmpty DEF Waiting
  <2>3. PICK g : g = Working(s)
    OBVIOUS
  <2>4. \A p \in DOMAIN g : g[p] = 0
    BY <1>5, <2>3 DEF Working
  <2>5. IsFiniteSet(Units(f)) /\ Total(f) = 0 /\ IsFiniteSet(Units(g)) /\ Total(g) = 0
    BY <2>2, <2>4, TotalZero
  <2> QED BY <2>1, <2>3, <2>5
<1>8. Finite /\ OpenIsPresent /\ Followed
  BY <1>1, <1>7 DEF Finite, OpenIsPresent, Present, Followed
<1> QED BY <1>5, <1>6, <1>8 DEF DeliveryInv

\* Every step keeps it.
LEMMA DeliverySteps ==
  ASSUME DeliveryInv, [DeliveryNext]_deliveryVars
  PROVE  DeliveryInv'
<1>1. ASSUME NEW p \in DOMAIN proc, Step(p)
      PROVE  DeliveryInv'
  BY <1>1, AcceptStep, FanOutStep, DeliverStep, CloneStep, TakeStep, TransformStep, ReapplyStep,
     ReceiveStep, TickStep, WrittenStep, WriteFailedStep, BackoffStep, DisposeStep, LeaveStep DEF Step
<1>2. ASSUME NEW p \in DOMAIN proc, InjectAt(p)
      PROVE  DeliveryInv'
  BY <1>2, InjectStep
<1>3. ctx \in {"live", "cancelled"}
  BY DEF DeliveryInv, DeliveryTypes
<1>4. CASE Cancel
  BY <1>4, CancelStep DEF Cancel
<1>5. CASE UNCHANGED deliveryVars
  BY <1>3, <1>5, CancelStep DEF deliveryVars
<1> QED BY <1>1, <1>2, <1>4, <1>5 DEF DeliveryNext

\* A message that is committed has nothing left anywhere, so that its branches ended.
LEMMA DeliveryAccounts ==
  ASSUME DeliveryInv
  PROVE  BranchesAccounted
<1>1. OpenIsPresent
  BY DEF DeliveryInv
<1>2. PatienceOfEdge
  BY DEF PatienceOfEdge, DeliveryInv, Shaped
<1>3. CommittedIsAccounted
  <2>1. SUFFICES ASSUME NEW b \in owed, open[b.seq] = 0 PROVE Ended(b)
    BY DEF CommittedIsAccounted, Ended
  <2>2. PICK s : s = b.seq
    OBVIOUS
  <2>3. s \in Seqs
    <3>1. graph.msgs \in Nat
      BY PipelineAssumption DEF DeliveryInv, DeliveryTypes
    <3> QED BY <2>2, <3>1 DEF DeliveryInv, DeliveryTypes, Instances, Seqs
  <2>4. /\ IsFiniteSet(Units(Waiting(s))) /\ IsFiniteSet(Units(Working(s)))
        /\ open[s] >= Present(s)
    BY <2>3 DEF DeliveryInv, Finite, OpenIsPresent
  <2>5. Total(Waiting(s)) \in Nat /\ Total(Working(s)) \in Nat
    BY <2>4, FS_CardinalityType DEF Total
  <2>6. Total(Waiting(s)) = 0 /\ Total(Working(s)) = 0 /\ open[s] = 0 /\ Present(s) = 0
    BY <2>1, <2>2, <2>4, <2>5 DEF Present
  <2>7. ASSUME NEW n \in DOMAIN chan, b \in Members(chan[n]) PROVE FALSE
    <3>1. chan \in [DOMAIN graph.kind -> Seq(Instances(next))]
      BY DEF DeliveryInv, DeliveryTypes
    <3>2. PICK f : f = Waiting(s)
      OBVIOUS
    <3>3. \A m \in DOMAIN chan : Count(chan[m], s) \in Nat
      BY <3>1, CountType
    <3>4. Count(chan[n], s) > 0
      BY <2>2, <2>7, <3>1, CountMember
    <3>5. f \in [DOMAIN chan -> Nat] /\ f[n] > 0 /\ IsFiniteSet(Units(f))
      BY <2>4, <3>2, <3>3, <3>4 DEF Waiting
    <3>6. Total(f) > 0
      BY <3>5, TotalPositive
    <3> QED BY <2>6, <3>2, <3>6
  <2>8. ASSUME NEW p \in DOMAIN proc, With(proc[p], b) PROVE FALSE
    <3>1. proc \in [DOMAIN graph.node -> Goroutine(next)] /\ next \in Nat
      BY DEF DeliveryInv, DeliveryTypes
    <3>2. PICK f : f = Working(s)
      OBVIOUS
    <3>3. \A r \in DOMAIN proc : Held(proc[r], s) \in Nat
      BY <3>1, HeldNat
    <3>4. Held(proc[p], s) > 0
      BY <2>2, <2>8, <3>1, WithHeld
    <3>5. f \in [DOMAIN proc -> Nat] /\ f[p] > 0 /\ IsFiniteSet(Units(f))
      BY <2>4, <3>2, <3>3, <3>4 DEF Working
    <3>6. Total(f) > 0
      BY <3>5, TotalPositive
    <3> QED BY <2>6, <3>2, <3>6
  <2> QED BY <2>2, <2>6, <2>7, <2>8 DEF DeliveryInv, Followed
<1> QED BY <1>1, <1>2, <1>3 DEF BranchesAccounted

\* Through fan-out, splits, batches, retries, dead letters and a stop, in every pipeline
\* and for any number of messages, workers and faults: the commit tracker counts the
\* branches that exist, a committed message has an end its edge allows on every branch
\* it took, and a sink gives a message up only after the attempts of its own edge.
THEOREM BranchesSound == DeliverySpec => []BranchesAccounted
<1>1. DeliveryInit => DeliveryInv
  BY DeliveryStarts
<1>2. DeliveryInv /\ [DeliveryNext]_deliveryVars => DeliveryInv'
  BY DeliverySteps
<1>3. DeliveryInv => BranchesAccounted
  BY DeliveryAccounts
<1> QED BY <1>1, <1>2, <1>3, PTL DEF DeliverySpec
=============================================================================
