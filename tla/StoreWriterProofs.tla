----------------------------- MODULE StoreWriterProofs -----------------------------
(***************************************************************************)
(* The write path of the store keeps its word, proved for every number of  *)
(* requests, sources, rows per transaction and openings: types, the spool  *)
(* order, the refusal contract and the checkpoint for any number of engine *)
(* runs over one open store; source states for one run per opening, which  *)
(* is what the marks are made for.                                         *)
(***************************************************************************)
EXTENDS StoreWriter, FiniteSetTheorems, SequenceTheorems, WellFoundedInduction, TLAPS

Increasing(q) == \A a, b \in 1..Len(q) : a < b => q[a] < q[b]

\* What the writer has taken from the queue, and what callers still wait for.
Group == Elems(batch) \cup Elems(appends) \cup stmts
InFlight == Elems(queue) \cup Group

\* The transaction is committed and its callers are not yet answered.
Landed == wpc = "answer" /\ ~ failed
Taken == IF Len(appends) < MaxRows THEN Len(appends) ELSE MaxRows
\* the appends that are not in the spool yet
Coming == {appends[k] : k \in (IF Landed THEN Taken + 1 ELSE 1)..Len(appends)}

\* A request is answered once at most; it has no answer before it is made.
AnsweredOnce ==
  \A i \in Ids : /\ resolves[i] = IF answer[i] \in {"ok", "refused"} THEN 1 ELSE 0
                 /\ i > Len(reqs) => answer[i] = "none"

\* The numbers of requests grow along rows, appends, batch and queue.
Ordered ==
  /\ Increasing(rows) /\ Increasing(queue) /\ Increasing(batch) /\ Increasing(appends)
  /\ \A i \in Elems(queue), j \in Group : j < i
  /\ \A r \in Elems(rows), i \in Elems(queue) \cup Elems(batch) \cup Coming : r < i

\* What is under way has no answer, and was asked by the present run.
Open1(i) ==
  /\ i \in 1..Len(reqs) /\ answer[i] = "none"
  /\ reqs[i].kind = "checkpoint" => cpBase < reqs[i].val /\ reqs[i].val <= cpBase + MaxVal
  /\ reqs[i].kind = "state" => 1 <= reqs[i].val /\ reqs[i].val <= MaxVal /\ reqs[i].pos = base[reqs[i].src] + reqs[i].val
OpenRequests == \A i \in InFlight : Open1(i)

Phases ==
  /\ wpc # "collect" => batch = <<>>
  /\ wpc \in {"take", "sleep", "collect", "exited"} => appends = <<>> /\ stmts = {}
  /\ \A i \in Elems(appends) : reqs[i].kind = "append"
  /\ \A i \in stmts : reqs[i].kind # "append"

\* What is in the tables was answered ok, or is about to be, or its caller died.
Written ==
  \A i \in Elems(rows) \cup records :
    i \in 1..Len(reqs) /\ (answer[i] \in {"ok", "lost"} \/ (Landed /\ i \in InTx))

\* Who was told ok, or will be.
Granted(i) == answer[i] = "ok" \/ (Landed /\ i \in InTx)

\* The mark stands for the checkpoint once the writer has written one.
Checkpoints ==
  /\ cpBase <= cp /\ (cpMark = cp \/ (cpMark = 0 /\ cp = cpBase))
  /\ \A i \in 1..Len(reqs) : Granted(i) => /\ reqs[i].kind = "append" => i \in Elems(rows)
                                           /\ reqs[i].kind = "rest" => i \in records
                                           /\ reqs[i].kind = "checkpoint" => reqs[i].val <= cp

StoreInv == TypeOK /\ AnsweredOnce /\ Ordered /\ OpenRequests /\ Phases /\ Written /\ Checkpoints

\* The mark of a source is the progress of the one run over this opening.
SourceStates ==
  /\ \A s \in Sources : state[s] = base[s] + srcMark[s]
  /\ \A i \in 1..Len(reqs) : Granted(i) /\ reqs[i].kind = "state" => reqs[i].pos <= state[reqs[i].src]

-----------------------------------------------------------------------------
(* Operators.                                                              *)

\* A bounded set of numbers has a largest member.
LEMMA MaxOfBounded ==
  ASSUME NEW S, S \subseteq Nat, S # {}, NEW bound \in Nat, \A x \in S : x <= bound
  PROVE  Max(S) \in S /\ \A y \in S : y <= Max(S)
<1> DEFINE T == {u \in Nat : \A x \in S : x <= u}
<1>1. T # {} /\ T \subseteq Nat
  OBVIOUS
<1>2. PICK u \in T : \A y \in T : ~ (<<y, u>> \in OpToRel(<, Nat))
  <2> HIDE DEF T
  <2> QED BY <1>1, WFMin, NatLessThanWellFounded
<1>3. \A y \in T : ~ (y < u)
  BY <1>2 DEF OpToRel
<1>4. u \in S
  <2> SUFFICES ASSUME u \notin S PROVE FALSE
    OBVIOUS
  <2>1. PICK x \in S : TRUE
    OBVIOUS
  <2>2. u \in Nat /\ u - 1 \in Nat /\ u - 1 < u
    BY <2>1
  <2>3. \A y \in S : y <= u - 1
    OBVIOUS
  <2>4. u - 1 \in T
    BY <2>2, <2>3
  <2> QED BY <1>3, <2>2, <2>4
<1>5. \E x \in S : \A y \in S : x >= y
  BY <1>4
<1> QED BY <1>5 DEF Max

LEMMA ElemsAppend ==
  ASSUME NEW q \in Seq(Ids), NEW i \in Ids
  PROVE  Append(q, i) \in Seq(Ids) /\ Elems(Append(q, i)) = Elems(q) \cup {i}
<1>1. /\ Append(q, i) \in Seq(Ids) /\ Len(Append(q, i)) = Len(q) + 1 /\ Len(q) \in Nat
      /\ \A k \in 1..Len(q) : Append(q, i)[k] = q[k]
      /\ Append(q, i)[Len(q) + 1] = i
  BY AppendProperties
<1>2. 1..Len(Append(q, i)) = (1..Len(q)) \cup {Len(q) + 1}
  BY <1>1
<1> QED BY <1>1, <1>2 DEF Elems

LEMMA ElemsConcat ==
  ASSUME NEW p \in Seq(Ids), NEW q \in Seq(Ids)
  PROVE  /\ p \o q \in Seq(Ids) /\ Elems(p \o q) = Elems(p) \cup Elems(q)
         /\ Increasing(p) /\ Increasing(q) /\ (\A i \in Elems(p), j \in Elems(q) : i < j) => Increasing(p \o q)
<1>1. /\ p \o q \in Seq(Ids) /\ Len(p \o q) = Len(p) + Len(q) /\ Len(p) \in Nat /\ Len(q) \in Nat
      /\ \A k \in 1..Len(p) + Len(q) : (p \o q)[k] = IF k <= Len(p) THEN p[k] ELSE q[k - Len(p)]
  BY ConcatProperties
<1> DEFINE c == p \o q
<1>2. \A k \in 1..Len(p) : k \in 1..Len(c) /\ c[k] = p[k]
  BY <1>1
<1>3. \A k \in 1..Len(q) : k + Len(p) \in 1..Len(c) /\ c[k + Len(p)] = q[k]
  <2> SUFFICES ASSUME NEW k \in 1..Len(q) PROVE k + Len(p) \in 1..Len(c) /\ c[k + Len(p)] = q[k]
    OBVIOUS
  <2>1. k + Len(p) \in 1..Len(p) + Len(q) /\ ~ (k + Len(p) <= Len(p)) /\ k + Len(p) - Len(p) = k
    BY <1>1
  <2> QED BY <1>1, <2>1
<1>4. \A k \in 1..Len(c) : (k \in 1..Len(p) /\ c[k] = p[k]) \/ (k - Len(p) \in 1..Len(q) /\ k > Len(p) /\ c[k] = q[k - Len(p)])
  BY <1>1
<1>0. Len(c) \in Nat
  BY <1>1
<1> HIDE DEF c
<1>5. Elems(c) = Elems(p) \cup Elems(q)
  <2>1. ASSUME NEW x \in Elems(p) PROVE x \in Elems(c)
    BY <1>2 DEF Elems
  <2>2. ASSUME NEW x \in Elems(q) PROVE x \in Elems(c)
    <3>1. PICK k \in 1..Len(q) : x = q[k]
      BY DEF Elems
    <3> QED BY <1>3, <3>1 DEF Elems
  <2>3. ASSUME NEW x \in Elems(c) PROVE x \in Elems(p) \cup Elems(q)
    <3>1. PICK k \in 1..Len(c) : x = c[k]
      BY DEF Elems
    <3> QED BY <1>4, <3>1 DEF Elems
  <2> QED BY <2>1, <2>2, <2>3
<1>6. ASSUME Increasing(p), Increasing(q), \A i \in Elems(p), j \in Elems(q) : i < j PROVE Increasing(c)
  <2> SUFFICES ASSUME NEW a \in 1..Len(c), NEW b \in 1..Len(c), a < b PROVE c[a] < c[b]
    BY DEF Increasing
  <2>1. CASE a \in 1..Len(p) /\ b \in 1..Len(p) /\ c[a] = p[a] /\ c[b] = p[b]
    BY <1>6, <2>1 DEF Increasing
  <2>2. CASE a \in 1..Len(p) /\ c[a] = p[a] /\ b - Len(p) \in 1..Len(q) /\ c[b] = q[b - Len(p)]
    BY <1>6, <2>2 DEF Elems
  <2>3. CASE a - Len(p) \in 1..Len(q) /\ c[a] = q[a - Len(p)] /\ b - Len(p) \in 1..Len(q) /\ c[b] = q[b - Len(p)]
    <3>1. a - Len(p) < b - Len(p)
      BY <1>0, <1>1
    <3> QED BY <1>6, <2>3, <3>1 DEF Increasing
  <2>4. ~ (b \in 1..Len(p) /\ a > Len(p))
    BY <1>0, <1>1
  <2> QED BY <1>4, <2>1, <2>2, <2>3, <2>4
<1> QED BY <1>1, <1>5, <1>6 DEF c

\* The appends of one transaction are the first ones, the others follow.
LEMMA ChunkFacts ==
  ASSUME appends \in Seq(Ids)
  PROVE  /\ Taken \in 0..Len(appends) /\ Chunk \in Seq(Ids) /\ Len(Chunk) = Taken
         /\ \A k \in 1..Taken : Chunk[k] = appends[k]
         /\ Elems(Chunk) = {appends[k] : k \in 1..Taken}
         /\ Increasing(appends) => Increasing(Chunk)
<1>1. Len(appends) \in Nat /\ Taken \in 0..Len(appends) /\ \A k \in 1..Len(appends) : appends[k] \in Ids
  BY StoreWriterAssumption, LenProperties, ElementOfSeq DEF Taken
<1>2. Chunk = SubSeq(appends, 1, Taken)
  BY DEF Chunk, Taken
<1>3. /\ Chunk \in Seq(Ids) /\ Len(Chunk) = Taken
      /\ \A k \in 1..Taken : Chunk[k] = appends[k]
  <2>1. 1 \in Int /\ Taken \in Int /\ \A k \in 1..Taken : appends[k] \in Ids
    BY <1>1
  <2>2. /\ SubSeq(appends, 1, Taken) \in Seq(Ids)
        /\ Len(SubSeq(appends, 1, Taken)) = IF 1 <= Taken THEN Taken - 1 + 1 ELSE 0
        /\ \A k \in 1..Taken - 1 + 1 : SubSeq(appends, 1, Taken)[k] = appends[1 + k - 1]
    <3> HIDE DEF Taken
    <3> QED BY <2>1, SubSeqProperties
  <2> QED BY <1>1, <1>2, <2>2
<1>4. Elems(Chunk) = {appends[k] : k \in 1..Taken}
  BY <1>3 DEF Elems
<1>5. Increasing(appends) => Increasing(Chunk)
  BY <1>1, <1>3 DEF Increasing
<1> QED BY <1>1, <1>3, <1>4, <1>5

\* What Answer leaves of the appends.
LEMMA RestFacts ==
  ASSUME appends \in Seq(Ids), NEW q, q = SubSeq(appends, Len(Chunk) + 1, Len(appends))
  PROVE  /\ q \in Seq(Ids) /\ Elems(q) = {appends[k] : k \in Taken + 1..Len(appends)}
         /\ Increasing(appends) => Increasing(q)
<1>1. Len(appends) \in Nat /\ Taken \in 0..Len(appends) /\ Len(Chunk) = Taken
      /\ \A k \in 1..Len(appends) : appends[k] \in Ids
  BY ChunkFacts, LenProperties, ElementOfSeq
<1> HIDE DEF Taken
<1>2. /\ q \in Seq(Ids) /\ Len(q) = IF Taken + 1 <= Len(appends) THEN Len(appends) - (Taken + 1) + 1 ELSE 0
      /\ \A k \in 1..Len(appends) - (Taken + 1) + 1 : q[k] = appends[Taken + 1 + k - 1]
  <2>1. Taken + 1 \in Int /\ Len(appends) \in Int /\ \A k \in Taken + 1..Len(appends) : appends[k] \in Ids
    BY <1>1
  <2>2. q = SubSeq(appends, Taken + 1, Len(appends))
    BY <1>1
  <2> QED BY <2>1, <2>2, SubSeqProperties
<1>3. Len(q) = Len(appends) - Taken
  BY <1>1, <1>2
<1>4. \A k \in 1..Len(q) : q[k] = appends[k + Taken] /\ k + Taken \in Taken + 1..Len(appends)
  BY <1>1, <1>2, <1>3
<1>5. \A k \in Taken + 1..Len(appends) : k - Taken \in 1..Len(q) /\ q[k - Taken] = appends[k]
  <2> SUFFICES ASSUME NEW k \in Taken + 1..Len(appends) PROVE k - Taken \in 1..Len(q) /\ q[k - Taken] = appends[k]
    OBVIOUS
  <2>1. k - Taken \in 1..Len(q) /\ (k - Taken) + Taken = k
    BY <1>1, <1>3
  <2> QED BY <1>4, <2>1
<1>6. Elems(q) = {appends[k] : k \in Taken + 1..Len(appends)}
  <2>1. ASSUME NEW x \in Elems(q) PROVE \E k \in Taken + 1..Len(appends) : x = appends[k]
    <3>1. PICK k \in 1..Len(q) : x = q[k]
      BY DEF Elems
    <3> QED BY <1>4, <3>1
  <2>2. ASSUME NEW k \in Taken + 1..Len(appends) PROVE appends[k] \in Elems(q)
    <3>1. k - Taken \in 1..Len(q) /\ q[k - Taken] = appends[k]
      BY <1>5
    <3> QED BY <3>1 DEF Elems
  <2> QED BY <2>1, <2>2
<1>7. Increasing(appends) => Increasing(q)
  <2> SUFFICES ASSUME Increasing(appends), NEW a \in 1..Len(q), NEW b \in 1..Len(q), a < b PROVE q[a] < q[b]
    BY DEF Increasing
  <2>1. a + Taken \in 1..Len(appends) /\ b + Taken \in 1..Len(appends) /\ a + Taken < b + Taken
    BY <1>1, <1>3, <1>4
  <2> QED BY <1>4, <2>1 DEF Increasing
<1> QED BY <1>2, <1>6, <1>7

\* planWriteBatch: the appends of the group in its order, and nothing else.
LEMMA PlanFacts ==
  ASSUME TypeOK, Increasing(batch), planWriteBatch
  PROVE  /\ appends' \in Seq(Ids) /\ Increasing(appends)'
         /\ Elems(appends)' = {i \in Elems(batch) : reqs[i].kind = "append"}
         /\ stmts' = {i \in Elems(batch) : reqs[i].kind # "append"}
<1> DEFINE places == {k \in 1..Len(batch) : reqs[batch[k]].kind = "append"}
           n == Cardinality(places)
<1>1. Len(batch) \in Nat /\ \A k \in 1..Len(batch) : batch[k] \in Ids
  BY LenProperties, ElementOfSeq DEF TypeOK
<1>2. n \in Nat
  <2>1. IsFiniteSet(1..Len(batch)) /\ places \subseteq 1..Len(batch)
    BY <1>1, FS_Interval
  <2>2. IsFiniteSet(places)
    BY <2>1, FS_Subset
  <2> HIDE DEF places
  <2> QED BY <2>2, FS_CardinalityType
<1>3. PICK kept \in Bijection(1..n, places) :
        /\ \A a, b \in DOMAIN kept : a < b => kept[a] < kept[b]
        /\ appends' = [k \in DOMAIN kept |-> batch[kept[k]]]
  BY DEF planWriteBatch
<1> HIDE DEF n
<1>4. kept \in [1..n -> places] /\ \A t \in places : \E k \in 1..n : kept[k] = t
  <2> HIDE DEF places
  <2> QED BY <1>3 DEF Bijection, Injection, Surjection
<1>5. appends' = [k \in 1..n |-> batch[kept[k]]]
  BY <1>3, <1>4
<1>6. \A k \in 1..n : kept[k] \in 1..Len(batch) /\ batch[kept[k]] \in Ids /\ reqs[batch[kept[k]]].kind = "append"
  BY <1>1, <1>4
<1>7. appends' \in Seq(Ids) /\ Len(appends') = n
  BY <1>2, <1>5, <1>6
<1>8. Increasing(appends)'
  <2> SUFFICES ASSUME NEW a \in 1..n, NEW b \in 1..n, a < b PROVE appends'[a] < appends'[b]
    BY <1>7 DEF Increasing
  <2>1. kept[a] < kept[b]
    BY <1>3, <1>4
  <2>2. batch[kept[a]] < batch[kept[b]]
    BY <1>6, <2>1 DEF Increasing
  <2> QED BY <1>5, <2>2
<1>9. Elems(appends') = {i \in Elems(batch) : reqs[i].kind = "append"}
  <2>1. ASSUME NEW k \in 1..n PROVE appends'[k] \in Elems(batch) /\ reqs[appends'[k]].kind = "append"
    BY <1>5, <1>6 DEF Elems
  <2>2. ASSUME NEW i \in Elems(batch), reqs[i].kind = "append" PROVE \E k \in 1..n : appends'[k] = i
    <3>1. PICK t \in 1..Len(batch) : batch[t] = i
      BY DEF Elems
    <3>2. t \in places
      BY <2>2, <3>1
    <3>3. PICK k \in 1..n : kept[k] = t
      BY <1>4, <3>2
    <3> QED BY <1>5, <3>1, <3>3
  <2>3. Elems(appends') = {appends'[k] : k \in 1..n}
    BY <1>7 DEF Elems
  <2> QED BY <2>1, <2>2, <2>3
<1>10. stmts' = {i \in Elems(batch) : reqs[i].kind # "append"}
  BY <1>9 DEF planWriteBatch
<1> QED BY <1>7, <1>8, <1>9, <1>10 DEF Elems

\* The checkpoint of the group is the largest one asked for.
LEMMA CoalescedCpFacts ==
  ASSUME TypeOK, OpenRequests
  PROVE  /\ CoalescedCp \in Nat
         /\ \A i \in Of(stmts, "checkpoint") : reqs[i].val <= CoalescedCp
         /\ CoalescedCp # 0 => CoalescedCp > cpBase
<1> DEFINE S == {0} \cup {reqs[i].val : i \in Of(stmts, "checkpoint")}
<1>1. \A i \in Of(stmts, "checkpoint") : reqs[i].val \in Nat /\ reqs[i].val <= cpBase + MaxVal /\ cpBase < reqs[i].val
  <2> SUFFICES ASSUME NEW i \in Of(stmts, "checkpoint")
               PROVE  reqs[i].val \in Nat /\ reqs[i].val <= cpBase + MaxVal /\ cpBase < reqs[i].val
    OBVIOUS
  <2>1. i \in stmts /\ reqs[i].kind = "checkpoint"
    BY DEF Of
  <2>2. Open1(i)
    BY <2>1 DEF OpenRequests, InFlight, Group
  <2>3. reqs[i] \in Request
    BY <2>2, ElementOfSeq DEF Open1, TypeOK
  <2> QED BY <2>1, <2>2, <2>3 DEF Open1, Request
<1>2. S \subseteq Nat /\ S # {} /\ \A x \in S : x <= cpBase + MaxVal
  BY <1>1, StoreWriterAssumption DEF TypeOK
<1>3. cpBase + MaxVal \in Nat
  BY StoreWriterAssumption DEF TypeOK
<1>4. CoalescedCp \in S /\ \A x \in S : x <= CoalescedCp
  <2> HIDE DEF S
  <2>1. Max(S) \in S /\ \A x \in S : x <= Max(S)
    BY <1>2, <1>3, MaxOfBounded
  <2>2. CoalescedCp = Max(S)
    BY DEF CoalescedCp, S
  <2> QED BY <2>1, <2>2
<1> QED BY <1>1, <1>2, <1>4

\* The state of a source that the group writes is the one of its largest frontier.
LEMMA NewestFacts ==
  ASSUME TypeOK, OpenRequests, NEW s \in Sources, OfSource(stmts, s) # {}
  PROVE  /\ Newest(OfSource(stmts, s)) \in OfSource(stmts, s)
         /\ \A j \in OfSource(stmts, s) : reqs[j].val <= reqs[Newest(OfSource(stmts, s))].val
<1> DEFINE ids == OfSource(stmts, s)
           V == {reqs[i].val : i \in ids}
           v == Max(V)
           K == {i \in ids : reqs[i].val = v}
           k == Max(K)
<1>1. \A i \in ids : i \in Nat /\ i <= MaxReqs /\ reqs[i].val \in Nat /\ reqs[i].val <= MaxVal
  <2> SUFFICES ASSUME NEW i \in ids PROVE i \in Nat /\ i <= MaxReqs /\ reqs[i].val \in Nat /\ reqs[i].val <= MaxVal
    OBVIOUS
  <2>1. i \in stmts /\ reqs[i].kind = "state"
    BY DEF OfSource, Of
  <2>2. Open1(i)
    BY <2>1 DEF OpenRequests, InFlight, Group
  <2>3. reqs[i] \in Request
    BY <2>2, ElementOfSeq DEF Open1, TypeOK
  <2>4. i \in 1..MaxReqs
    BY <2>1 DEF TypeOK, Ids
  <2> QED BY <2>1, <2>2, <2>3, <2>4, StoreWriterAssumption DEF Open1, Request
<1> HIDE DEF ids
<1>2. ids # {}
  BY DEF ids
<1>3. v \in V /\ \A y \in V : y <= v
  <2>1. V \subseteq Nat /\ V # {} /\ \A x \in V : x <= MaxVal
    BY <1>1, <1>2
  <2> HIDE DEF V
  <2> QED BY <2>1, MaxOfBounded, StoreWriterAssumption
<1> HIDE DEF v
<1>4. k \in K /\ \A y \in K : y <= k
  <2>1. K \subseteq Nat /\ K # {} /\ \A x \in K : x <= MaxReqs
    BY <1>1, <1>3
  <2> HIDE DEF K
  <2> QED BY <2>1, MaxOfBounded, StoreWriterAssumption
<1> HIDE DEF k
<1>5. k \in ids /\ \A j \in ids \ {k} : reqs[k].val > reqs[j].val \/ (reqs[k].val = reqs[j].val /\ k > j)
  <2> SUFFICES ASSUME NEW j \in ids \ {k}
               PROVE  k \in ids /\ (reqs[k].val > reqs[j].val \/ (reqs[k].val = reqs[j].val /\ k > j))
    BY <1>4
  <2>1. k \in ids /\ reqs[k].val = v /\ v \in Nat /\ k \in Nat /\ j \in Nat /\ reqs[j].val \in Nat /\ reqs[j].val <= v
    BY <1>1, <1>3, <1>4
  <2>2. CASE reqs[j].val = v
    BY <1>4, <2>1, <2>2
  <2>3. CASE reqs[j].val # v
    BY <2>1, <2>3
  <2> QED BY <2>2, <2>3
<1>6. /\ Newest(ids) \in ids
      /\ \A j \in ids \ {Newest(ids)} : reqs[Newest(ids)].val > reqs[j].val \/ (reqs[Newest(ids)].val = reqs[j].val /\ Newest(ids) > j)
  BY <1>5, Zenon DEF Newest
<1>7. \A j \in ids : reqs[j].val <= reqs[Newest(ids)].val
  BY <1>1, <1>6
<1> QED BY <1>6, <1>7 DEF ids

\* What resolveSatisfied answers is durable.
LEMMA SatisfiedFacts ==
  ASSUME StoreInv
  PROVE  /\ Satisfied \subseteq stmts
         /\ \A i \in Satisfied : \/ reqs[i].kind = "checkpoint" /\ reqs[i].val <= cp
                                 \/ reqs[i].kind = "state" /\ reqs[i].val <= srcMark[reqs[i].src]
<1>1. TypeOK /\ OpenRequests /\ Checkpoints
  BY DEF StoreInv
<1>2. CoalescedCp \in Nat /\ \A i \in Of(stmts, "checkpoint") : reqs[i].val <= CoalescedCp
  BY <1>1, CoalescedCpFacts
<1>3. cpMark <= cp /\ cpMark \in Nat /\ cp \in Nat
  BY <1>1 DEF TypeOK, Checkpoints
<1>4. \A i \in stmts : reqs[i] \in Request
  <2> SUFFICES ASSUME NEW i \in stmts PROVE reqs[i] \in Request
    OBVIOUS
  <2>1. i \in 1..Len(reqs)
    BY <1>1 DEF OpenRequests, InFlight, Group, Open1
  <2> QED BY <1>1, <2>1, ElementOfSeq DEF TypeOK
<1>5. ASSUME NEW i \in Of(stmts, "checkpoint"), CoalescedCp <= cpMark PROVE reqs[i].val <= cp
  <2>1. reqs[i].val \in Nat
    BY <1>4 DEF Of, Request
  <2> QED BY <1>2, <1>3, <1>5, <2>1
<1>6. ASSUME NEW i \in Of(stmts, "state"), reqs[Newest(OfSource(stmts, reqs[i].src))].val <= srcMark[reqs[i].src]
      PROVE  reqs[i].val <= srcMark[reqs[i].src]
  <2> DEFINE s == reqs[i].src
             w == Newest(OfSource(stmts, s))
  <2>1. s \in Sources /\ reqs[i].val \in Nat /\ i \in OfSource(stmts, s)
    BY <1>4 DEF Of, OfSource, Request
  <2>2. w \in OfSource(stmts, s) /\ reqs[i].val <= reqs[w].val
    <3> HIDE DEF s
    <3> QED BY <1>1, <2>1, NewestFacts
  <2>3. reqs[w].val \in Nat /\ srcMark[s] \in Nat
    <3>1. w \in stmts
      BY <2>2 DEF OfSource, Of
    <3> HIDE DEF w, s
    <3> QED BY <1>1, <1>4, <2>1, <3>1 DEF Request, TypeOK
  <2>4. reqs[w].val <= srcMark[s]
    BY <1>6
  <2> HIDE DEF w
  <2> QED BY <2>1, <2>2, <2>3, <2>4
<1> QED BY <1>5, <1>6 DEF Satisfied, Of

-----------------------------------------------------------------------------
(* The invariant.                                                          *)

LEMMA StoreStart == Init => StoreInv
<1> SUFFICES ASSUME Init PROVE StoreInv
  OBVIOUS
<1>1. /\ Elems(rows) = {} /\ Elems(queue) = {} /\ Elems(batch) = {} /\ Elems(appends) = {} /\ stmts = {}
      /\ Coming = {} /\ ~ Landed
  BY DEF Init, Elems, Coming, Landed
<1>2. InFlight = {}
  BY <1>1 DEF InFlight, Group
<1>3. TypeOK
  <2>1. Len(reqs) = 0 /\ reqs \in Seq(Request) /\ Len(reqs) <= MaxReqs
    BY StoreWriterAssumption DEF Init
  <2>2. opens \in 1..MaxOpens /\ runs \in 1..RunsPerOpen
    BY StoreWriterAssumption DEF Init
  <2>3. /\ answer \in [Ids -> {"none", "ok", "refused", "lost"}] /\ resolves \in [Ids -> 0..1]
    BY DEF Init
  <2>4. rows \in Seq(Ids) /\ queue \in Seq(Ids) /\ batch \in Seq(Ids) /\ appends \in Seq(Ids)
    BY DEF Init
  <2>5. state \in [Sources -> Nat] /\ srcMark \in [Sources -> Nat] /\ base \in [Sources -> Nat]
    BY DEF Init
  <2> QED BY <2>1, <2>2, <2>3, <2>4, <2>5 DEF Init, TypeOK
<1>4. AnsweredOnce
  BY DEF Init, AnsweredOnce
<1>5. Ordered
  BY <1>1 DEF Init, Ordered, Increasing
<1>6. OpenRequests /\ Phases
  BY <1>1, <1>2 DEF Init, OpenRequests, Phases
<1>7. Written /\ Checkpoints
  BY <1>1 DEF Init, Written, Checkpoints
<1> QED BY <1>3, <1>4, <1>5, <1>6, <1>7 DEF StoreInv

\* The writer or a caller moves on, and neither the tables nor a request change.
LEMMA StoreQuiet ==
  ASSUME StoreInv, TypeOK', Phases', Landed' = Landed,
         UNCHANGED <<rows, cp, records, queue, batch, appends, stmts, cpMark, cpBase, base, reqs, answer, resolves>>
  PROVE  StoreInv'
<1>1. /\ Elems(rows)' = Elems(rows) /\ Elems(queue)' = Elems(queue) /\ Elems(batch)' = Elems(batch)
      /\ Elems(appends)' = Elems(appends) /\ Coming' = Coming /\ InTx' = InTx
  BY DEF Elems, Coming, Taken, InTx, Chunk
<1>2. InFlight' = InFlight /\ Group' = Group
  BY <1>1 DEF InFlight, Group
<1>3. AnsweredOnce'
  BY DEF StoreInv, AnsweredOnce
<1>4. Ordered'
  BY <1>1, <1>2 DEF StoreInv, Ordered, Increasing
<1>5. OpenRequests'
  BY <1>2 DEF StoreInv, OpenRequests, Open1
<1>6. Written' /\ Checkpoints'
  BY <1>1 DEF StoreInv, Written, Checkpoints, Granted
<1> QED BY <1>3, <1>4, <1>5, <1>6 DEF StoreInv

LEMMA EnqueueStep ==
  ASSUME StoreInv, Enqueue
  PROVE  /\ StoreInv'
         /\ \A i \in 1..Len(reqs') : Granted(i)' => i \in 1..Len(reqs) /\ Granted(i) /\ reqs'[i] = reqs[i]
<1>0. TypeOK /\ AnsweredOnce /\ Ordered /\ OpenRequests /\ Phases /\ Written /\ Checkpoints
  BY DEF StoreInv
<1>a. PICK n : n = Len(reqs) + 1
  OBVIOUS
<1>1. PICK r \in Wanted : reqs' = Append(reqs, r)
  BY DEF Enqueue
<1>2. UNCHANGED <<tables, closed, wake, wpc, group, marks, runVars>> /\ Len(reqs) < MaxReqs
  BY DEF Enqueue
<1>3. /\ r \in Request /\ (r.kind = "checkpoint" => cpBase < r.val /\ r.val <= cpBase + MaxVal)
      /\ r.kind = "state" => 1 <= r.val /\ r.val <= MaxVal /\ r.pos = base[r.src] + r.val
  <2>1. (CHOOSE x \in Sources : TRUE) \in Sources
    BY StoreWriterAssumption
  <2>2. CASE r \in {[kind |-> k, val |-> 0, src |-> s, pos |-> 0] : k \in {"append", "rest"},
                                                    s \in {CHOOSE x \in Sources : TRUE}}
    BY <2>1, <2>2 DEF Request, Kinds
  <2>3. CASE r \in {[kind |-> "checkpoint", val |-> cpBase + v, src |-> s, pos |-> 0] :
                      v \in 1..MaxVal, s \in {CHOOSE x \in Sources : TRUE}}
    <3>1. PICK v \in 1..MaxVal, s \in Sources : r = [kind |-> "checkpoint", val |-> cpBase + v, src |-> s, pos |-> 0]
      BY <2>1, <2>3
    <3>2. cpBase \in Nat /\ v \in Nat /\ cpBase + v \in Nat /\ cpBase < cpBase + v /\ cpBase + v <= cpBase + MaxVal
      BY <1>0, StoreWriterAssumption DEF TypeOK
    <3> QED BY <3>1, <3>2 DEF Request, Kinds
  <2>4. CASE r \in {[kind |-> "state", val |-> v, src |-> s, pos |-> base[s] + v] : v \in 1..MaxVal, s \in Sources}
    <3>1. PICK v \in 1..MaxVal, s \in Sources : r = [kind |-> "state", val |-> v, src |-> s, pos |-> base[s] + v]
      BY <2>4
    <3>2. base[s] \in Nat /\ v \in Nat /\ base[s] + v \in Nat
      BY <1>0 DEF TypeOK
    <3> QED BY <3>1, <3>2 DEF Request, Kinds
  <2> QED BY <1>1, <2>2, <2>3, <2>4 DEF Wanted
<1>4. /\ reqs' \in Seq(Request) /\ Len(reqs') = n /\ Len(reqs) \in Nat /\ n \in Ids
      /\ \A i \in 1..Len(reqs) : reqs'[i] = reqs[i]
      /\ reqs'[n] = r
  <2>1. reqs \in Seq(Request)
    BY <1>0 DEF TypeOK
  <2>2. /\ reqs' \in Seq(Request) /\ Len(reqs') = Len(reqs) + 1 /\ Len(reqs) \in Nat
        /\ \A i \in 1..Len(reqs) : reqs'[i] = reqs[i]
        /\ reqs'[Len(reqs) + 1] = r
    BY <1>1, <1>3, <2>1, AppendProperties, LenProperties
  <2> QED BY <1>a, <1>2, <2>2, StoreWriterAssumption DEF Ids
<1>5. n \notin 1..Len(reqs) /\ 1..n = (1..Len(reqs)) \cup {n} /\ answer[n] = "none" /\ n > Len(reqs)
  BY <1>0, <1>a, <1>4 DEF AnsweredOnce
<1>6. \A i \in InFlight \cup Elems(rows) \cup records : i \in 1..Len(reqs) /\ reqs'[i] = reqs[i] /\ i < n /\ i # n
  <2> SUFFICES ASSUME NEW i \in InFlight \cup Elems(rows) \cup records PROVE i \in 1..Len(reqs)
    BY <1>a, <1>4
  <2> QED BY <1>0 DEF OpenRequests, Open1, Written
<1>7. /\ Landed' = Landed /\ Coming' = Coming /\ Elems(rows)' = Elems(rows) /\ Elems(batch)' = Elems(batch)
      /\ Elems(appends)' = Elems(appends) /\ stmts' = stmts /\ InTx' = InTx /\ Group' = Group
      /\ UNCHANGED <<rows, cp, records, batch, appends, cpMark, cpBase, base, wpc>>
  BY <1>2 DEF tables, group, marks, runVars, Landed, Coming, Taken, Elems, InTx, Chunk, Group
<1>8. InTx \subseteq InFlight /\ Coming \subseteq InFlight
  <2>1. Elems(Chunk) = {appends[k] : k \in 1..Taken} /\ Taken \in 0..Len(appends) /\ Len(appends) \in Nat
    BY <1>0, ChunkFacts, LenProperties DEF TypeOK
  <2> HIDE DEF Taken
  <2>2. Elems(Chunk) \subseteq Elems(appends) /\ Coming \subseteq Elems(appends)
    BY <2>1 DEF Elems, Coming
  <2> QED BY <2>2 DEF InTx, InFlight, Group
<1>9. Phases'
  <2>1. \A i \in Elems(appends) \cup stmts : reqs'[i] = reqs[i]
    BY <1>6 DEF InFlight, Group
  <2> QED BY <1>0, <1>7, <2>1 DEF Phases
<1>10. CASE closed
  <2>1. Resolve({n}, "refused") /\ queue' = queue /\ unsent' = unsent
    BY <1>a, <1>10 DEF Enqueue
  <2>2. /\ answer' = [i \in Ids |-> IF i = n THEN "refused" ELSE answer[i]]
        /\ resolves' = [i \in Ids |-> IF i = n THEN resolves[i] + 1 ELSE resolves[i]]
    BY <2>1 DEF Resolve
  <2>3. TypeOK'
    <3>1. answer' \in [Ids -> {"none", "ok", "refused", "lost"}]
      BY <1>0, <2>2 DEF TypeOK
    <3>2. resolves' \in [Ids -> 0..1]
      <4>1. resolves[n] = 0 /\ \A i \in Ids : resolves[i] \in 0..1
        BY <1>0, <1>4, <1>5 DEF TypeOK, AnsweredOnce
      <4>2. \A i \in Ids : (IF i = n THEN resolves[i] + 1 ELSE resolves[i]) \in 0..1
        BY <4>1
      <4> QED BY <2>2, <4>2
    <3>3. Len(reqs') <= MaxReqs
      BY <1>2, <1>4, <1>a, StoreWriterAssumption
    <3> QED BY <1>0, <1>2, <1>4, <2>1, <3>1, <3>2, <3>3 DEF TypeOK, tables, group, marks, runVars
  <2>4. AnsweredOnce'
    <3> SUFFICES ASSUME NEW i \in Ids
                 PROVE  /\ resolves'[i] = IF answer'[i] \in {"ok", "refused"} THEN 1 ELSE 0
                        /\ i > n => answer'[i] = "none"
      BY <1>4 DEF AnsweredOnce
    <3>1. resolves[n] = 0
      BY <1>0, <1>4, <1>5 DEF AnsweredOnce
    <3>2. i > n => i > Len(reqs) /\ i # n
      BY <1>a, <1>4 DEF Ids
    <3> QED BY <1>0, <1>4, <2>2, <3>1, <3>2 DEF AnsweredOnce
  <2>5. Elems(queue)' = Elems(queue) /\ InFlight' = InFlight
    BY <1>7, <2>1 DEF Elems, InFlight
  <2>6. Ordered'
    BY <1>0, <1>7, <2>1, <2>5 DEF Ordered, Increasing
  <2>7. \A i \in Ids \ {n} : answer'[i] = answer[i]
    BY <2>2
  <2>8. \A i \in 1..Len(reqs) : i \in Ids /\ i # n
    BY <1>a, <1>2, <1>4, <1>5, StoreWriterAssumption DEF Ids
  <2>9. OpenRequests'
    BY <1>0, <1>4, <1>5, <1>6, <1>7, <2>5, <2>7, <2>8 DEF OpenRequests, Open1
  <2>10. Written'
    BY <1>0, <1>4, <1>5, <1>6, <1>7, <2>7, <2>8 DEF Written
  <2>11. Checkpoints'
    <3>1. \A i \in 1..Len(reqs) : answer'[i] = answer[i] /\ reqs'[i] = reqs[i]
      BY <1>4, <2>7, <2>8
    <3>2. ~ Granted(n)'
      BY <1>4, <1>6, <1>7, <1>8, <2>2 DEF Granted
    <3> QED BY <1>0, <1>4, <1>5, <1>7, <3>1, <3>2 DEF Checkpoints, Granted
  <2>12. ~ Granted(n)'
    BY <1>4, <1>6, <1>7, <1>8, <2>2 DEF Granted
  <2>13. \A i \in 1..Len(reqs) : (Granted(i)' => Granted(i)) /\ reqs'[i] = reqs[i]
    BY <1>4, <1>7, <2>7, <2>8 DEF Granted
  <2> QED BY <1>4, <1>5, <1>9, <2>3, <2>4, <2>6, <2>9, <2>10, <2>11, <2>12, <2>13 DEF StoreInv
<1>11. CASE ~ closed
  <2>1. queue' = Append(queue, n) /\ unsent' = unsent \cup {n} /\ UNCHANGED <<answer, resolves>>
    BY <1>a, <1>11 DEF Enqueue, answers
  <2>2. queue' \in Seq(Ids) /\ Elems(queue)' = Elems(queue) \cup {n}
    <3>1. queue \in Seq(Ids)
      BY <1>0 DEF TypeOK
    <3>2. Append(queue, n) \in Seq(Ids) /\ Elems(Append(queue, n)) = Elems(queue) \cup {n}
      BY <1>4, <3>1, ElemsAppend
    <3> QED BY <2>1, <3>2 DEF Elems
  <2>3. TypeOK'
    <3>1. Len(reqs') <= MaxReqs
      BY <1>2, <1>4, <1>a, StoreWriterAssumption
    <3> QED BY <1>0, <1>2, <1>4, <2>1, <2>2, <3>1 DEF TypeOK, tables, group, marks, runVars
  <2>4. AnsweredOnce'
    <3>1. \A i \in Ids : i > n => i > Len(reqs)
      BY <1>a, <1>4 DEF Ids
    <3> QED BY <1>0, <1>4, <2>1, <3>1 DEF AnsweredOnce
  <2>5. InFlight' = InFlight \cup {n}
    BY <1>7, <2>2 DEF InFlight
  <2>6. Increasing(queue)'
    <3>1. queue \in Seq(Ids) /\ Increasing(queue)
      BY <1>0 DEF TypeOK, Ordered
    <3>2. /\ Len(queue') = Len(queue) + 1 /\ Len(queue) \in Nat
          /\ \A k \in 1..Len(queue) : queue'[k] = queue[k] /\ queue[k] < n
          /\ queue'[Len(queue) + 1] = n
      <4>1. \A k \in 1..Len(queue) : queue[k] \in InFlight
        BY DEF InFlight, Elems
      <4> QED BY <1>4, <1>6, <2>1, <3>1, <4>1, AppendProperties, LenProperties
    <3> QED BY <3>1, <3>2 DEF Increasing
  <2>7. Ordered'
    <3>1. \A i \in Elems(queue)', j \in Group' : j < i
      BY <1>0, <1>6, <1>7, <2>2 DEF Ordered, InFlight
    <3>2. \A x \in Elems(rows)', i \in (Elems(queue) \cup Elems(batch) \cup Coming)' : x < i
      BY <1>0, <1>6, <1>7, <2>2 DEF Ordered
    <3>3. Increasing(rows)' /\ Increasing(batch)' /\ Increasing(appends)'
      BY <1>0, <1>7 DEF Ordered, Increasing
    <3> QED BY <2>6, <3>1, <3>2, <3>3 DEF Ordered
  <2>8. OpenRequests'
    <3>1. \A i \in InFlight : Open1(i)'
      BY <1>0, <1>4, <1>5, <1>6, <1>7, <2>1 DEF OpenRequests, Open1
    <3>2. Open1(n)'
      BY <1>3, <1>4, <1>5, <1>7, <2>1 DEF Open1
    <3> QED BY <2>5, <3>1, <3>2 DEF OpenRequests
  <2>9. Written'
    BY <1>0, <1>4, <1>5, <1>6, <1>7, <2>1 DEF Written
  <2>10. Checkpoints'
    <3>1. ~ Granted(n)'
      BY <1>5, <1>6, <1>7, <1>8, <2>1 DEF Granted
    <3> QED BY <1>0, <1>4, <1>5, <1>7, <2>1, <3>1 DEF Checkpoints, Granted
  <2>11. ~ Granted(n)'
    BY <1>5, <1>6, <1>7, <1>8, <2>1 DEF Granted
  <2>12. \A i \in 1..Len(reqs) : (Granted(i)' => Granted(i)) /\ reqs'[i] = reqs[i]
    BY <1>4, <1>7, <2>1 DEF Granted
  <2> QED BY <1>4, <1>5, <1>9, <2>3, <2>4, <2>7, <2>8, <2>9, <2>10, <2>11, <2>12 DEF StoreInv
<1> QED BY <1>10, <1>11

\* Requests that have no answer yet are answered.
LEMMA Resolved ==
  ASSUME TypeOK, AnsweredOnce, NEW ids, NEW outcome \in {"ok", "refused"}, Resolve(ids, outcome), UNCHANGED reqs,
         \A i \in ids : i \in 1..Len(reqs) /\ answer[i] = "none"
  PROVE  /\ answer' \in [Ids -> {"none", "ok", "refused", "lost"}] /\ resolves' \in [Ids -> 0..1]
         /\ AnsweredOnce' /\ ids \subseteq Ids
         /\ \A i \in ids : answer'[i] = outcome
         /\ \A i \in Ids \ ids : answer'[i] = answer[i]
<1>1. /\ answer' = [i \in Ids |-> IF i \in ids THEN outcome ELSE answer[i]]
      /\ resolves' = [i \in Ids |-> IF i \in ids THEN resolves[i] + 1 ELSE resolves[i]]
  BY DEF Resolve
<1>2. Len(reqs) \in Nat /\ Len(reqs) <= MaxReqs
  BY LenProperties DEF TypeOK
<1>3. ids \subseteq Ids
  BY <1>2, StoreWriterAssumption DEF Ids
<1>4. \A i \in Ids : resolves[i] \in 0..1 /\ (i \in ids => resolves[i] = 0)
  BY <1>3 DEF TypeOK, AnsweredOnce
<1>5. answer' \in [Ids -> {"none", "ok", "refused", "lost"}]
  BY <1>1 DEF TypeOK
<1>6. resolves' \in [Ids -> 0..1]
  <2>1. \A i \in Ids : (IF i \in ids THEN resolves[i] + 1 ELSE resolves[i]) \in 0..1
    BY <1>4
  <2> QED BY <1>1, <2>1
<1>7. AnsweredOnce'
  <2> SUFFICES ASSUME NEW i \in Ids
               PROVE  /\ resolves'[i] = IF answer'[i] \in {"ok", "refused"} THEN 1 ELSE 0
                      /\ i > Len(reqs) => answer'[i] = "none"
    BY DEF AnsweredOnce
  <2>1. CASE i \in ids
    BY <1>1, <1>2, <1>4, <2>1
  <2>2. CASE i \notin ids
    BY <1>1, <2>2 DEF AnsweredOnce
  <2> QED BY <2>1, <2>2
<1> QED BY <1>1, <1>3, <1>5, <1>6, <1>7

\* The parts of the appends.
LEMMA PartsOfAppends ==
  ASSUME TypeOK, Increasing(appends)
  PROVE  /\ Elems(Chunk) \subseteq Elems(appends) /\ Coming \subseteq Elems(appends)
         /\ Elems(appends) = Elems(Chunk) \cup {appends[k] : k \in Taken + 1..Len(appends)}
         /\ \A i \in Elems(Chunk), j \in {appends[k] : k \in Taken + 1..Len(appends)} : i < j
         /\ ~ Landed => Coming = Elems(appends)
         /\ Landed => Coming = {appends[k] : k \in Taken + 1..Len(appends)}
<1>1. Elems(Chunk) = {appends[k] : k \in 1..Taken} /\ Taken \in 0..Len(appends) /\ Len(appends) \in Nat
  BY ChunkFacts, LenProperties DEF TypeOK
<1> HIDE DEF Taken
<1>2. 1..Len(appends) = (1..Taken) \cup (Taken + 1..Len(appends))
  BY <1>1
<1>3. \A a \in 1..Taken, b \in Taken + 1..Len(appends) : appends[a] < appends[b]
  BY <1>1, <1>2 DEF Increasing
<1> QED BY <1>1, <1>2, <1>3 DEF Elems, Coming

LEMMA NextRunStep == ASSUME StoreInv, NextRun PROVE StoreInv'
<1>0. TypeOK /\ AnsweredOnce /\ Ordered /\ OpenRequests /\ Phases /\ Written /\ Checkpoints
  BY DEF StoreInv
<1>1. /\ UNCHANGED <<rows, cp, state, records, queue, closed, wake, wpc, batch, appends, stmts, failed, cpMark, srcMark, opens, reqs, unsent, answer, resolves>>
      /\ Waiting = {} /\ runs < RunsPerOpen /\ runs' = runs + 1 /\ cpBase' = cp /\ base' = state
  BY DEF NextRun, tables, group, marks, client, answers
<1>2. InFlight = {}
  BY <1>0, <1>1 DEF OpenRequests, Open1, Waiting
<1>3. /\ Elems(rows)' = Elems(rows) /\ Elems(queue)' = Elems(queue) /\ Elems(batch)' = Elems(batch)
      /\ Elems(appends)' = Elems(appends) /\ Coming' = Coming /\ InTx' = InTx /\ Landed' = Landed
  BY <1>1 DEF Elems, Coming, Taken, InTx, Chunk, Landed
<1>4. InFlight' = {} /\ Group' = Group
  BY <1>1, <1>2, <1>3 DEF InFlight, Group
<1>5. TypeOK'
  <2>1. runs' \in 1..RunsPerOpen
    BY <1>0, <1>1, StoreWriterAssumption DEF TypeOK
  <2> QED BY <1>0, <1>1, <2>1 DEF TypeOK
<1>6. AnsweredOnce' /\ Phases'
  BY <1>0, <1>1, <1>3 DEF AnsweredOnce, Phases
<1>7. Ordered'
  BY <1>0, <1>1, <1>3, <1>4 DEF Ordered, Increasing
<1>8. OpenRequests' /\ Written'
  BY <1>0, <1>1, <1>3, <1>4 DEF OpenRequests, Written
<1>9. Checkpoints'
  BY <1>0, <1>1, <1>3 DEF Checkpoints, Granted, TypeOK
<1> QED BY <1>5, <1>6, <1>7, <1>8, <1>9 DEF StoreInv

\* takeAll, Collect and planWriteBatch move requests on and answer none.
LEMMA TakenOn ==
  ASSUME StoreInv, TypeOK', Phases', ~ Landed, ~ Landed', InFlight' = InFlight,
         (Elems(queue) \cup Elems(batch) \cup Elems(appends))' \subseteq Elems(queue) \cup Elems(batch) \cup Elems(appends),
         Increasing(queue)', Increasing(batch)', Increasing(appends)',
         \A i \in Elems(queue)', j \in Group' : j < i,
         UNCHANGED <<rows, cp, records, cpMark, cpBase, base, reqs, answer, resolves>>
  PROVE  StoreInv'
<1>0. TypeOK /\ AnsweredOnce /\ Ordered /\ OpenRequests /\ Written /\ Checkpoints
  BY DEF StoreInv
<1>1. Elems(rows)' = Elems(rows)
  BY DEF Elems
<1>2. Coming' \subseteq Elems(appends)' /\ Coming = Elems(appends)
  BY <1>0, PartsOfAppends DEF Coming, Elems, Ordered
<1>3. AnsweredOnce'
  BY <1>0 DEF AnsweredOnce
<1>4. Ordered'
  <2>1. \A r \in Elems(rows)', i \in (Elems(queue) \cup Elems(batch) \cup Coming)' : r < i
    BY <1>0, <1>1, <1>2 DEF Ordered
  <2>2. Increasing(rows)'
    BY <1>0 DEF Ordered, Increasing
  <2> QED BY <2>1, <2>2 DEF Ordered
<1>5. OpenRequests'
  BY <1>0 DEF OpenRequests, Open1
<1>6. Written'
  BY <1>0, <1>1 DEF Written
<1>7. Checkpoints'
  BY <1>0, <1>1 DEF Checkpoints, Granted
<1> QED BY <1>3, <1>4, <1>5, <1>6, <1>7 DEF StoreInv

LEMMA TakeStep == ASSUME StoreInv, takeAll \/ Collect \/ planWriteBatch PROVE StoreInv'
<1>0. TypeOK /\ Ordered /\ OpenRequests /\ Phases
  BY DEF StoreInv
<1>1. UNCHANGED <<rows, cp, state, records, closed, wake, failed, cpMark, srcMark, opens, runs, cpBase, base, reqs, unsent, answer, resolves>>
  BY DEF takeAll, Collect, planWriteBatch, tables, marks, runVars, client, answers
<1>2. <<>> \in Seq(Ids) /\ Elems(<<>>) = {} /\ Increasing(<<>>)
  BY DEF Elems, Increasing
<1>3. CASE takeAll
  <2>1. /\ batch' = queue /\ queue' = <<>> /\ UNCHANGED <<appends, stmts>> /\ wpc = "take"
        /\ wpc' = IF queue # <<>> THEN "collect" ELSE IF closed THEN "exited" ELSE "sleep"
    BY <1>3 DEF takeAll
  <2>2. batch = <<>> /\ appends = <<>> /\ stmts = {}
    BY <1>0, <2>1 DEF Phases
  <2>3. TypeOK'
    BY <1>0, <1>1, <1>2, <2>1 DEF TypeOK
  <2>4. Elems(queue)' = {} /\ Elems(batch)' = Elems(queue) /\ Elems(appends)' = {} /\ Elems(batch) = {} /\ Elems(appends) = {}
    BY <1>2, <2>1, <2>2 DEF Elems
  <2>5. Phases'
    BY <2>1, <2>2, <2>4 DEF Phases
  <2>6. ~ Landed /\ ~ Landed'
    BY <2>1 DEF Landed
  <2>7. InFlight' = InFlight
    BY <2>1, <2>4 DEF InFlight, Group
  <2>8. Increasing(queue)' /\ Increasing(batch)' /\ Increasing(appends)'
    BY <1>0, <1>2, <2>1, <2>2 DEF Ordered, Increasing
  <2> QED BY <1>1, <2>3, <2>4, <2>5, <2>6, <2>7, <2>8, TakenOn
<1>4. CASE Collect
  <2>1. batch' = batch \o queue /\ queue' = <<>> /\ UNCHANGED <<appends, stmts, wpc>> /\ wpc = "collect"
    BY <1>4 DEF Collect, Joined
  <2>2. appends = <<>> /\ stmts = {} /\ batch \in Seq(Ids) /\ queue \in Seq(Ids)
    BY <1>0, <2>1 DEF Phases, TypeOK
  <2>3. Elems(appends) = {} /\ Elems(appends)' = {} /\ Elems(queue)' = {}
    BY <1>2, <2>1, <2>2 DEF Elems
  <2>4. Increasing(batch) /\ Increasing(queue) /\ \A i \in Elems(batch), j \in Elems(queue) : i < j
    BY <1>0 DEF Ordered, Group
  <2>5. batch \o queue \in Seq(Ids) /\ Elems(batch \o queue) = Elems(batch) \cup Elems(queue) /\ Increasing(batch \o queue)
    BY <2>2, <2>4, ElemsConcat
  <2>6. batch' \in Seq(Ids) /\ Elems(batch)' = Elems(batch) \cup Elems(queue) /\ Increasing(batch)'
    BY <2>1, <2>5 DEF Elems, Increasing
  <2>7. TypeOK'
    BY <1>0, <1>1, <1>2, <2>1, <2>6 DEF TypeOK
  <2>8. Phases'
    BY <2>1, <2>2, <2>3 DEF Phases
  <2>9. ~ Landed /\ ~ Landed'
    BY <2>1 DEF Landed
  <2>10. InFlight' = InFlight
    BY <2>1, <2>3, <2>6 DEF InFlight, Group
  <2>11. Increasing(queue)' /\ Increasing(appends)'
    BY <1>2, <2>1, <2>2 DEF Increasing
  <2> QED BY <1>1, <2>3, <2>6, <2>7, <2>8, <2>9, <2>10, <2>11, TakenOn
<1>5. CASE planWriteBatch
  <2>1. batch' = <<>> /\ queue' = queue /\ wpc = "collect" /\ wpc' = "satisfy"
    BY <1>5 DEF planWriteBatch
  <2>2. appends = <<>> /\ stmts = {} /\ batch \in Seq(Ids) /\ Increasing(batch)
    BY <1>0, <2>1 DEF Phases, TypeOK, Ordered
  <2>3. /\ appends' \in Seq(Ids) /\ Increasing(appends)'
        /\ Elems(appends)' = {i \in Elems(batch) : reqs[i].kind = "append"}
        /\ stmts' = {i \in Elems(batch) : reqs[i].kind # "append"}
    BY <1>0, <1>5, <2>2, PlanFacts
  <2>4. Elems(appends) = {} /\ Elems(batch)' = {} /\ Elems(queue)' = Elems(queue) /\ Elems(batch) \subseteq Ids
    <3>1. \A k \in 1..Len(batch) : batch[k] \in Ids
      BY <2>2, ElementOfSeq
    <3> QED BY <1>2, <2>1, <2>2, <3>1 DEF Elems
  <2>5. TypeOK'
    BY <1>0, <1>1, <1>2, <2>1, <2>3, <2>4 DEF TypeOK
  <2>6. Phases'
    BY <1>1, <2>1, <2>3 DEF Phases
  <2>7. ~ Landed /\ ~ Landed'
    BY <2>1 DEF Landed
  <2>8. InFlight' = InFlight /\ Group' = Group
    BY <2>2, <2>3, <2>4 DEF InFlight, Group
  <2>9. Increasing(queue)' /\ Increasing(batch)' /\ \A i \in Elems(queue)', j \in Group' : j < i
    BY <1>0, <1>2, <2>1, <2>4, <2>8 DEF Ordered, Increasing
  <2> QED BY <1>1, <2>3, <2>4, <2>5, <2>6, <2>7, <2>8, <2>9, TakenOn
<1> QED BY <1>3, <1>4, <1>5

LEMMA SatisfyStep == ASSUME StoreInv, resolveSatisfied PROVE StoreInv'
<1>0. TypeOK /\ AnsweredOnce /\ Ordered /\ OpenRequests /\ Phases /\ Written /\ Checkpoints
  BY DEF StoreInv
<1>1. /\ UNCHANGED <<rows, cp, state, records, queue, closed, wake, batch, appends, failed, cpMark, srcMark, opens, runs, cpBase, base, reqs, unsent>>
      /\ Resolve(Satisfied, "ok") /\ stmts' = stmts \ Satisfied /\ wpc = "satisfy" /\ wpc' = "begin"
  BY DEF resolveSatisfied, Unlinked, tables, marks, runVars, client
<1>2. PICK ids : ids = Satisfied
  OBVIOUS
<1>3. ids \subseteq stmts /\ \A i \in ids : reqs[i].kind \in {"checkpoint", "state"} /\ (reqs[i].kind = "checkpoint" => reqs[i].val <= cp)
  BY <1>2, SatisfiedFacts
<1>4. \A i \in InFlight : i \in 1..Len(reqs) /\ answer[i] = "none"
  BY <1>0 DEF OpenRequests, Open1
<1>5. ids \subseteq InFlight
  BY <1>3 DEF InFlight, Group
<1>6. /\ answer' \in [Ids -> {"none", "ok", "refused", "lost"}] /\ resolves' \in [Ids -> 0..1]
      /\ AnsweredOnce' /\ ids \subseteq Ids
      /\ \A i \in ids : answer'[i] = "ok"
      /\ \A i \in Ids \ ids : answer'[i] = answer[i]
  BY <1>0, <1>1, <1>2, <1>4, <1>5, Resolved
<1>7. /\ Elems(rows)' = Elems(rows) /\ Elems(queue)' = Elems(queue) /\ Elems(batch)' = Elems(batch)
      /\ Elems(appends)' = Elems(appends) /\ Coming' = Coming /\ ~ Landed /\ ~ Landed'
  BY <1>1 DEF Elems, Coming, Taken, Landed
<1>8. Group' \subseteq Group /\ InFlight' \subseteq InFlight /\ \A i \in InFlight' : i \notin ids
  <2>1. \A i \in Elems(queue) : i \notin stmts
    <3>1. \A i \in Elems(queue) : i \in Ids
      BY <1>0, ElementOfSeq DEF Elems, TypeOK
    <3>2. \A i \in Elems(queue), j \in stmts : j < i
      BY <1>0 DEF Ordered, Group
    <3> QED BY <3>1, <3>2 DEF Ids
  <2>2. batch = <<>> /\ Elems(batch) = {} /\ \A i \in Elems(appends) : i \notin stmts
    BY <1>0, <1>1 DEF Phases, Elems
  <2> QED BY <1>1, <1>2, <1>3, <1>7, <2>1, <2>2 DEF Group, InFlight
<1>9. \A i \in 1..Len(reqs) : i \in Ids
  BY <1>0, LenProperties, StoreWriterAssumption DEF TypeOK, Ids
<1>10. TypeOK'
  BY <1>0, <1>1, <1>6 DEF TypeOK
<1>11. Ordered'
  BY <1>0, <1>1, <1>7, <1>8 DEF Ordered, Increasing
<1>12. OpenRequests'
  BY <1>0, <1>1, <1>4, <1>6, <1>8, <1>9 DEF OpenRequests, Open1
<1>13. Phases'
  BY <1>0, <1>1, <1>7 DEF Phases
<1>14. Written'
  BY <1>0, <1>1, <1>6, <1>7, <1>9 DEF Written
<1>15. Checkpoints'
  BY <1>0, <1>1, <1>3, <1>6, <1>7, <1>9 DEF Checkpoints, Granted
<1> QED BY <1>6, <1>10, <1>11, <1>12, <1>13, <1>14, <1>15 DEF StoreInv

LEMMA CommitStep == ASSUME StoreInv, TxCommit PROVE StoreInv' /\ cp <= cp'
<1>0. TypeOK /\ AnsweredOnce /\ Ordered /\ OpenRequests /\ Phases /\ Written /\ Checkpoints
  BY DEF StoreInv
<1>1. /\ UNCHANGED <<queue, closed, wake, batch, appends, stmts, opens, runs, cpBase, base, reqs, unsent, answer, resolves>>
      /\ rows' = rows \o Chunk /\ records' = records \cup Of(stmts, "rest") /\ wpc = "commit" /\ wpc' = "answer" /\ failed' = FALSE
  BY DEF TxCommit, runVars, client, answers
<1>2. /\ ~ Landed /\ Landed' /\ Elems(queue)' = Elems(queue) /\ Elems(batch)' = Elems(batch) /\ Elems(appends)' = Elems(appends)
      /\ Chunk' = Chunk /\ InTx' = InTx /\ Taken' = Taken
  BY <1>1 DEF Landed, Elems, InTx, Chunk, Taken
<1>3. InFlight' = InFlight /\ Group' = Group
  BY <1>1, <1>2 DEF InFlight, Group
<1>4. /\ Elems(Chunk) \subseteq Elems(appends) /\ Coming = Elems(appends)
      /\ Coming' \subseteq Elems(appends) /\ \A i \in Elems(Chunk), j \in Coming' : i < j
  <2> DEFINE rest == {appends[k] : k \in Taken + 1..Len(appends)}
  <2>1. /\ Elems(Chunk) \subseteq Elems(appends) /\ Coming = Elems(appends)
        /\ Elems(appends) = Elems(Chunk) \cup rest /\ \A i \in Elems(Chunk), j \in rest : i < j
    BY <1>0, <1>2, PartsOfAppends DEF Ordered
  <2>2. Coming' = rest
    BY <1>1, <1>2 DEF Coming
  <2> HIDE DEF rest
  <2> QED BY <2>1, <2>2
<1>5. batch = <<>> /\ Elems(batch) = {} /\ rows \in Seq(Ids) /\ Chunk \in Seq(Ids) /\ Increasing(Chunk) /\ Increasing(rows)
  BY <1>0, <1>1, ChunkFacts DEF Phases, Elems, TypeOK, Ordered
<1>6. rows' \in Seq(Ids) /\ Elems(rows)' = Elems(rows) \cup Elems(Chunk) /\ Increasing(rows)'
  <2>1. \A i \in Elems(rows), j \in Elems(Chunk) : i < j
    BY <1>0, <1>4 DEF Ordered
  <2>2. rows \o Chunk \in Seq(Ids) /\ Elems(rows \o Chunk) = Elems(rows) \cup Elems(Chunk) /\ Increasing(rows \o Chunk)
    BY <1>5, <2>1, ElemsConcat
  <2> QED BY <1>1, <2>2 DEF Elems, Increasing
<1>7. /\ CoalescedCp \in Nat /\ (CoalescedCp # 0 => CoalescedCp > cpBase)
      /\ \A i \in Of(stmts, "checkpoint") : reqs[i].val <= CoalescedCp
  BY <1>0, CoalescedCpFacts
<1>8. PICK C \in Nat : C = CoalescedCp
  BY <1>7
<1>9. /\ cp' = IF C > cpMark THEN C ELSE cp
      /\ cpMark' = IF C > cpMark THEN C ELSE cpMark
  BY <1>8 DEF TxCommit, Marked
<1>10. /\ cp' \in Nat /\ cpMark' \in Nat /\ cp <= cp' /\ C <= cp' /\ cpBase <= cp'
       /\ cpMark' = cp' \/ (cpMark' = 0 /\ cp' = cpBase)
  <2>1. cp \in Nat /\ cpMark \in Nat /\ cpBase \in Nat /\ cpBase <= cp /\ (cpMark = cp \/ (cpMark = 0 /\ cp = cpBase))
    BY <1>0 DEF TypeOK, Checkpoints
  <2>2. C # 0 => C > cpBase
    BY <1>7, <1>8
  <2> QED BY <1>9, <2>1, <2>2
<1>11. \A i \in stmts : reqs[i] \in Request
  <2> SUFFICES ASSUME NEW i \in stmts PROVE reqs[i] \in Request
    OBVIOUS
  <2>1. i \in 1..Len(reqs)
    BY <1>0 DEF OpenRequests, InFlight, Group, Open1
  <2> QED BY <1>0, <2>1, ElementOfSeq DEF TypeOK
<1>12. TypeOK'
  <2>1. \A s \in Sources : OfSource(stmts, s) # {} => Coalesced(s).val \in Nat /\ Coalesced(s).pos \in Nat
    <3> SUFFICES ASSUME NEW s \in Sources, OfSource(stmts, s) # {} PROVE Coalesced(s).val \in Nat /\ Coalesced(s).pos \in Nat
      OBVIOUS
    <3>1. Newest(OfSource(stmts, s)) \in stmts
      BY <1>0, NewestFacts DEF OfSource, Of
    <3> QED BY <1>11, <3>1 DEF Coalesced, Request
  <2>2. state' \in [Sources -> Nat] /\ srcMark' \in [Sources -> Nat]
    <3>1. \A s \in Sources : state[s] \in Nat /\ srcMark[s] \in Nat
      BY <1>0 DEF TypeOK
    <3>2. \A s \in Sources :
            (IF OfSource(stmts, s) # {} /\ Coalesced(s).val > srcMark[s] THEN Coalesced(s).pos ELSE state[s]) \in Nat
      BY <2>1, <3>1
    <3>3. \A s \in Sources :
            (IF OfSource(stmts, s) = {} THEN srcMark[s] ELSE Marked(srcMark[s], Coalesced(s).val)) \in Nat
      BY <2>1, <3>1 DEF Marked
    <3> QED BY <3>2, <3>3 DEF TxCommit
  <2>3. records' \subseteq Ids
    BY <1>0, <1>1 DEF TypeOK, Of
  <2> QED BY <1>0, <1>1, <1>6, <1>10, <2>2, <2>3 DEF TypeOK
<1>13. AnsweredOnce' /\ OpenRequests' /\ Phases'
  BY <1>0, <1>1, <1>2, <1>3 DEF AnsweredOnce, OpenRequests, Open1, Phases
<1>14. Ordered'
  <2>1. \A r \in Elems(rows)', i \in (Elems(queue) \cup Elems(batch) \cup Coming)' : r < i
    BY <1>0, <1>2, <1>4, <1>5, <1>6 DEF Ordered, Group
  <2> QED BY <1>0, <1>1, <1>2, <1>3, <1>6, <2>1 DEF Ordered, Increasing
<1>15. Written'
  <2>1. \A i \in InTx : i \in 1..Len(reqs)
    BY <1>0, <1>4 DEF InTx, OpenRequests, InFlight, Group, Open1
  <2>2. Elems(rows)' \cup records' \subseteq Elems(rows) \cup records \cup InTx
    BY <1>1, <1>6 DEF InTx, Of
  <2> QED BY <1>0, <1>1, <1>2, <2>1, <2>2 DEF Written
<1>16. Checkpoints'
  <2> SUFFICES ASSUME NEW i \in 1..Len(reqs), Granted(i)'
               PROVE  /\ reqs[i].kind = "append" => i \in Elems(rows)'
                      /\ reqs[i].kind = "rest" => i \in records'
                      /\ reqs[i].kind = "checkpoint" => reqs[i].val <= cp'
    BY <1>1, <1>10 DEF Checkpoints
  <2>1. CASE answer[i] = "ok"
    <3>1. reqs[i].val \in Nat /\ cp \in Nat
      <4>1. reqs[i] \in Request
        BY <1>0, ElementOfSeq DEF TypeOK
      <4> QED BY <1>0, <4>1 DEF TypeOK, Request
    <3> QED BY <1>0, <1>1, <1>6, <1>10, <2>1, <3>1 DEF Checkpoints, Granted
  <2>2. CASE i \in InTx
    <3>1. CASE i \in Elems(Chunk)
      BY <1>0, <1>4, <1>6, <3>1 DEF Phases
    <3>2. CASE i \in stmts
      <4>1. reqs[i].kind # "append" /\ reqs[i].val \in Nat
        BY <1>0, <1>11, <3>2 DEF Phases, Request
      <4>2. reqs[i].kind = "checkpoint" => reqs[i].val <= C
        BY <1>7, <1>8, <3>2 DEF Of
      <4> QED BY <1>1, <1>10, <3>2, <4>1, <4>2 DEF Of
    <3> QED BY <2>2, <3>1, <3>2 DEF InTx
  <2> QED BY <1>1, <1>2, <2>1, <2>2 DEF Granted
<1> QED BY <1>10, <1>12, <1>13, <1>14, <1>15, <1>16 DEF StoreInv

LEMMA AnswerStep ==
  ASSUME StoreInv, Answer
  PROVE  StoreInv' /\ \A i \in 1..Len(reqs) : Granted(i)' => Granted(i)
<1>0. TypeOK /\ AnsweredOnce /\ Ordered /\ OpenRequests /\ Phases /\ Written /\ Checkpoints
  BY DEF StoreInv
<1>1. /\ UNCHANGED <<rows, cp, state, records, queue, closed, wake, batch, failed, cpMark, srcMark, opens, runs, cpBase, base, reqs, unsent>>
      /\ Resolve(InTx, IF failed THEN "refused" ELSE "ok") /\ stmts' = {} /\ wpc = "answer"
      /\ appends' = SubSeq(appends, Len(Chunk) + 1, Len(appends))
      /\ wpc' = IF appends' = <<>> THEN "take" ELSE "begin"
  BY DEF Answer, tables, marks, runVars, client
<1>2. PICK ids : ids = InTx
  OBVIOUS
<1>2a. PICK outcome \in {"ok", "refused"} : outcome = IF failed THEN "refused" ELSE "ok"
  <2>1. (IF failed THEN "refused" ELSE "ok") \in {"ok", "refused"}
    BY Zenon
  <2> QED BY <2>1, Zenon
<1> DEFINE rest == {appends[k] : k \in Taken + 1..Len(appends)}
<1>3. /\ Elems(Chunk) \subseteq Elems(appends) /\ Elems(appends) = Elems(Chunk) \cup rest
      /\ \A i \in Elems(Chunk), j \in rest : i < j
      /\ rest \subseteq Coming
  BY <1>0, PartsOfAppends DEF Ordered
<1>4. appends' \in Seq(Ids) /\ Elems(appends)' = rest /\ Increasing(appends)'
  <2>1. PICK q : q = SubSeq(appends, Len(Chunk) + 1, Len(appends))
    OBVIOUS
  <2>2. q \in Seq(Ids) /\ Elems(q) = rest /\ Increasing(q)
    BY <1>0, <2>1, RestFacts DEF TypeOK, Ordered
  <2>3. appends' = q
    BY <1>1, <2>1
  <2> HIDE DEF rest
  <2> QED BY <2>2, <2>3 DEF Elems, Increasing
<1> HIDE DEF rest
<1>5. ~ Landed' /\ Elems(rows)' = Elems(rows) /\ Elems(queue)' = Elems(queue) /\ batch = <<>> /\ Elems(batch) = {} /\ Elems(batch)' = {}
  BY <1>0, <1>1 DEF Landed, Elems, Phases
<1>6. ids \subseteq InFlight /\ ids = Elems(Chunk) \cup stmts
  BY <1>2, <1>3 DEF InTx, InFlight, Group
<1>7. \A i \in InFlight : i \in 1..Len(reqs) /\ answer[i] = "none"
  BY <1>0 DEF OpenRequests, Open1
<1>8. /\ answer' \in [Ids -> {"none", "ok", "refused", "lost"}] /\ resolves' \in [Ids -> 0..1]
      /\ AnsweredOnce' /\ ids \subseteq Ids
      /\ \A i \in ids : answer'[i] = outcome
      /\ \A i \in Ids \ ids : answer'[i] = answer[i]
  BY <1>0, <1>1, <1>2, <1>2a, <1>6, <1>7, Resolved
<1>9. \A i \in 1..Len(reqs) : i \in Ids /\ i \in Nat
  BY <1>0, LenProperties, StoreWriterAssumption DEF TypeOK, Ids
<1>10. Group' = rest /\ InFlight' = Elems(queue) \cup rest /\ Group' \subseteq Group /\ InFlight' \subseteq InFlight
  BY <1>1, <1>3, <1>4, <1>5 DEF InFlight, Group
<1>11. \A i \in InFlight' : i \notin ids
  <2>1. \A i \in Elems(queue), j \in ids : j < i
    BY <1>0, <1>3, <1>6 DEF Ordered, Group
  <2>2. \A i \in rest : i \notin stmts
    BY <1>0, <1>3 DEF Phases
  <2> QED BY <1>3, <1>6, <1>7, <1>9, <1>10, <2>1, <2>2
<1>12. TypeOK'
  BY <1>0, <1>1, <1>4, <1>8 DEF TypeOK
<1>13. Coming' \subseteq rest
  <2>1. Coming' = {appends'[k] : k \in 1..Len(appends')}
    BY <1>5 DEF Coming
  <2> QED BY <1>4, <2>1 DEF Elems
<1>14. Ordered'
  <2>1. \A r \in Elems(rows)', i \in (Elems(queue) \cup Elems(batch) \cup Coming)' : r < i
    BY <1>0, <1>3, <1>5, <1>13 DEF Ordered
  <2> QED BY <1>0, <1>1, <1>4, <1>5, <1>10, <2>1 DEF Ordered, Increasing
<1>15. OpenRequests'
  BY <1>0, <1>1, <1>7, <1>8, <1>9, <1>10, <1>11 DEF OpenRequests, Open1
<1>16. Phases'
  BY <1>0, <1>1, <1>3, <1>4, <1>5 DEF Phases
<1>17. Written'
  <2> SUFFICES ASSUME NEW i \in Elems(rows) \cup records PROVE i \in 1..Len(reqs) /\ answer'[i] \in {"ok", "lost"}
    BY <1>1, <1>5 DEF Written
  <2>1. i \in 1..Len(reqs) /\ (answer[i] \in {"ok", "lost"} \/ (Landed /\ i \in ids))
    BY <1>0, <1>2 DEF Written
  <2>2. CASE i \in ids
    <3>1. Landed
      BY <1>6, <1>7, <2>1, <2>2
    <3> QED BY <1>2a, <1>8, <2>1, <2>2, <3>1 DEF Landed
  <2>3. CASE i \notin ids
    BY <1>8, <1>9, <2>1, <2>3
  <2> QED BY <2>2, <2>3
<1>17a. \A i \in 1..Len(reqs) : Granted(i)' => Granted(i)
  BY <1>1, <1>2, <1>2a, <1>5, <1>8, <1>9 DEF Granted, Landed
<1>18. Checkpoints'
  BY <1>0, <1>1, <1>5, <1>17a DEF Checkpoints
<1> QED BY <1>17a, <1>8, <1>12, <1>14, <1>15, <1>16, <1>17, <1>18 DEF StoreInv

LEMMA CloseStep ==
  ASSUME StoreInv, Close
  PROVE  StoreInv' /\ \A i \in 1..Len(reqs) : Granted(i)' => Granted(i)
<1>0. TypeOK /\ AnsweredOnce /\ Ordered /\ OpenRequests /\ Phases /\ Written /\ Checkpoints
  BY DEF StoreInv
<1>1. /\ UNCHANGED <<rows, cp, state, records, wpc, batch, appends, stmts, failed, cpMark, srcMark, opens, runs, cpBase, base, reqs, unsent>>
      /\ Resolve(Elems(queue), "refused") /\ queue' = <<>> /\ closed' = TRUE /\ wake' = TRUE
  BY DEF Close, Pending, tables, group, marks, runVars, client
<1>2. PICK ids : ids = Elems(queue)
  OBVIOUS
<1>3. \A i \in InFlight : i \in 1..Len(reqs) /\ answer[i] = "none"
  BY <1>0 DEF OpenRequests, Open1
<1>4. ids \subseteq InFlight
  BY <1>2 DEF InFlight
<1>5. /\ answer' \in [Ids -> {"none", "ok", "refused", "lost"}] /\ resolves' \in [Ids -> 0..1]
      /\ AnsweredOnce' /\ ids \subseteq Ids
      /\ \A i \in ids : answer'[i] = "refused"
      /\ \A i \in Ids \ ids : answer'[i] = answer[i]
  BY <1>0, <1>1, <1>2, <1>3, <1>4, Resolved
<1>6. \A i \in 1..Len(reqs) : i \in Ids /\ i \in Nat
  BY <1>0, LenProperties, StoreWriterAssumption DEF TypeOK, Ids
<1>7. /\ Elems(rows)' = Elems(rows) /\ Elems(queue)' = {} /\ Elems(batch)' = Elems(batch) /\ Elems(appends)' = Elems(appends)
      /\ Coming' = Coming /\ InTx' = InTx /\ Landed' = Landed
  BY <1>1 DEF Elems, Coming, Taken, InTx, Chunk, Landed
<1>8. Group' = Group /\ InFlight' = Group /\ Group \subseteq InFlight
  BY <1>1, <1>7 DEF InFlight, Group
<1>9. InTx \subseteq Group
  <2>1. Elems(Chunk) \subseteq Elems(appends)
    BY <1>0, PartsOfAppends DEF Ordered
  <2> QED BY <2>1 DEF InTx, Group
<1>10. \A i \in Group : i \notin ids
  <2>1. \A i \in ids, j \in Group : j < i
    BY <1>0, <1>2 DEF Ordered
  <2> QED BY <1>3, <1>4, <1>6, <1>8, <2>1
<1>11. TypeOK'
  BY <1>0, <1>1, <1>5 DEF TypeOK
<1>12. Ordered'
  BY <1>0, <1>1, <1>7, <1>8 DEF Ordered, Increasing
<1>13. OpenRequests'
  BY <1>0, <1>1, <1>3, <1>5, <1>6, <1>8, <1>10 DEF OpenRequests, Open1
<1>14. Phases'
  BY <1>0, <1>1, <1>7 DEF Phases
<1>15. Written'
  <2> SUFFICES ASSUME NEW i \in Elems(rows) \cup records
               PROVE  i \in 1..Len(reqs) /\ (answer'[i] \in {"ok", "lost"} \/ (Landed /\ i \in InTx))
    BY <1>1, <1>7 DEF Written
  <2>1. i \in 1..Len(reqs) /\ (answer[i] \in {"ok", "lost"} \/ (Landed /\ i \in InTx))
    BY <1>0 DEF Written
  <2>2. i \notin ids
    BY <1>3, <1>4, <1>9, <1>10, <2>1
  <2> QED BY <1>5, <1>6, <2>1, <2>2
<1>16. \A i \in 1..Len(reqs) : Granted(i)' => Granted(i)
  BY <1>5, <1>6, <1>7 DEF Granted
<1>17. Checkpoints'
  BY <1>0, <1>1, <1>7, <1>16 DEF Checkpoints
<1> QED BY <1>5, <1>11, <1>12, <1>13, <1>14, <1>15, <1>16, <1>17 DEF StoreInv

\* The next opening finds the tables; what was under way is answered or lost.
LEMMA ReopenStep ==
  ASSUME StoreInv, Open \/ Crash
  PROVE  StoreInv' /\ \A i \in 1..Len(reqs) : Granted(i)' => Granted(i)
<1>0. TypeOK /\ AnsweredOnce /\ Ordered /\ OpenRequests /\ Phases /\ Written /\ Checkpoints
  BY DEF StoreInv
<1>1. /\ UNCHANGED <<rows, cp, state, records, reqs, resolves>>
      /\ opens < MaxOpens /\ opens' = opens + 1 /\ runs' = 1 /\ cpBase' = cp /\ base' = state
      /\ queue' = <<>> /\ closed' = FALSE /\ wake' = FALSE /\ wpc' = "take"
      /\ batch' = <<>> /\ appends' = <<>> /\ stmts' = {} /\ failed' = FALSE
      /\ cpMark' = 0 /\ srcMark' = [s \in Sources |-> 0] /\ unsent' = {}
  BY DEF Open, Crash, Reopened, tables, client, answers
<1>2. /\ \A i \in Ids : answer'[i] = answer[i] \/ (answer[i] = "none" /\ answer'[i] = "lost" /\ i \in 1..Len(reqs))
      /\ answer' \in [Ids -> {"none", "ok", "refused", "lost"}]
      /\ Landed => \A i \in 1..Len(reqs) : answer'[i] # "none"
  <2>1. \A i \in 1..Len(reqs) : i \in Ids
    BY <1>0, LenProperties, StoreWriterAssumption DEF TypeOK, Ids
  <2>2. CASE Open
    BY <1>0, <2>2 DEF Open, answers, TypeOK, Landed
  <2>3. CASE Crash
    BY <1>0, <2>1, <2>3 DEF Crash, Waiting, TypeOK
  <2> QED BY <2>2, <2>3
<1>3. \A i \in 1..Len(reqs) : i \in Ids
  BY <1>0, LenProperties, StoreWriterAssumption DEF TypeOK, Ids
<1>4. /\ Elems(rows)' = Elems(rows) /\ Elems(queue)' = {} /\ Elems(batch)' = {} /\ Elems(appends)' = {}
      /\ Coming' = {} /\ ~ Landed'
  BY <1>1 DEF Elems, Coming, Landed
<1>5. InFlight' = {} /\ Group' = {}
  BY <1>1, <1>4 DEF InFlight, Group
<1>6. TypeOK'
  <2>1. opens' \in 1..MaxOpens /\ runs' \in 1..RunsPerOpen
    BY <1>0, <1>1, StoreWriterAssumption DEF TypeOK
  <2>2. queue' \in Seq(Ids) /\ batch' \in Seq(Ids) /\ appends' \in Seq(Ids) /\ srcMark' \in [Sources -> Nat]
    BY <1>1
  <2> QED BY <1>0, <1>1, <1>2, <2>1, <2>2 DEF TypeOK
<1>7. AnsweredOnce'
  <2> SUFFICES ASSUME NEW i \in Ids
               PROVE  /\ resolves[i] = IF answer'[i] \in {"ok", "refused"} THEN 1 ELSE 0
                      /\ i > Len(reqs) => answer'[i] = "none"
    BY <1>1 DEF AnsweredOnce
  <2>1. Len(reqs) \in Nat
    BY <1>0, LenProperties DEF TypeOK
  <2> QED BY <1>0, <1>2, <2>1 DEF AnsweredOnce
<1>8. Ordered'
  BY <1>0, <1>1, <1>4, <1>5 DEF Ordered, Increasing
<1>9. OpenRequests' /\ Phases'
  BY <1>1, <1>4, <1>5 DEF OpenRequests, Phases
<1>10. Written'
  <2> SUFFICES ASSUME NEW i \in Elems(rows) \cup records PROVE i \in 1..Len(reqs) /\ answer'[i] \in {"ok", "lost"}
    BY <1>1, <1>4 DEF Written
  <2>1. i \in 1..Len(reqs) /\ (answer[i] \in {"ok", "lost"} \/ (Landed /\ i \in InTx))
    BY <1>0 DEF Written
  <2>2. InTx \subseteq InFlight
    <3>1. Elems(Chunk) \subseteq Elems(appends)
      BY <1>0, PartsOfAppends DEF Ordered
    <3> QED BY <3>1 DEF InTx, InFlight, Group
  <2>3. i \in InTx => answer[i] = "none"
    BY <1>0, <2>2 DEF OpenRequests, Open1
  <2> QED BY <1>2, <1>3, <2>1, <2>3
<1>11. \A i \in 1..Len(reqs) : Granted(i)' => Granted(i)
  BY <1>2, <1>3, <1>4 DEF Granted
<1>12. Checkpoints'
  BY <1>0, <1>1, <1>4, <1>11 DEF Checkpoints, TypeOK
<1> QED BY <1>6, <1>7, <1>8, <1>9, <1>10, <1>11, <1>12 DEF StoreInv

LEMMA QuietStep ==
  ASSUME StoreInv, Wake \/ Sleep \/ TxRefused \/ TxReady \/ CommitFails \/ UNCHANGED vars
  PROVE  StoreInv' /\ \A i \in 1..Len(reqs) : Granted(i)' => Granted(i)
<1>0. TypeOK /\ Phases
  BY DEF StoreInv
<1>1. /\ UNCHANGED <<rows, cp, state, records, queue, closed, batch, appends, stmts, cpMark, srcMark, opens, runs, cpBase, base, reqs, answer, resolves>>
      /\ wake' \in {TRUE, FALSE, wake} /\ unsent' \subseteq unsent
      /\ \/ wpc' = wpc /\ failed' = failed
         \/ wpc = "sleep" /\ wpc' = "take" /\ failed' = failed
         \/ wpc = "begin" /\ wpc' = "answer" /\ failed' = TRUE
         \/ wpc = "begin" /\ wpc' = "commit" /\ failed' = failed
         \/ wpc = "commit" /\ wpc' = "answer" /\ failed' = TRUE
  <2>1. CASE Wake
    BY <2>1 DEF Wake, tables, group, marks, runVars, answers
  <2>2. CASE Sleep
    BY <2>2 DEF Sleep, tables, group, marks, runVars, answers, client
  <2>3. CASE TxRefused
    BY <2>3 DEF TxRefused, tables, group, marks, runVars, answers, client
  <2>4. CASE TxReady
    BY <2>4 DEF TxReady, tables, group, marks, runVars, answers, client
  <2>5. CASE CommitFails
    BY <2>5 DEF CommitFails, tables, group, marks, runVars, answers, client
  <2>6. CASE UNCHANGED vars
    BY <2>6 DEF vars, tables, group, marks, runVars, answers, client
  <2> QED BY <2>1, <2>2, <2>3, <2>4, <2>5, <2>6
<1>2. TypeOK'
  BY <1>0, <1>1 DEF TypeOK
<1>3. Elems(appends)' = Elems(appends)
  BY <1>1 DEF Elems
<1>4. Phases'
  BY <1>0, <1>1, <1>3 DEF Phases
<1>5. Landed' = Landed
  BY <1>1 DEF Landed
<1>6. InTx' = InTx
  BY <1>1 DEF InTx, Chunk, Elems
<1>7. StoreInv'
  BY <1>1, <1>2, <1>4, <1>5, StoreQuiet
<1> QED BY <1>1, <1>5, <1>6, <1>7 DEF Granted

LEMMA StoreStep == StoreInv /\ [Next]_vars => StoreInv'
BY EnqueueStep, NextRunStep, TakeStep, SatisfyStep, CommitStep, AnswerStep, CloseStep, ReopenStep, QuietStep, Zenon
   DEF Next, Writer

\* The store's types, for any number of engine runs over one opening: in particular no
\* caller is answered twice, which would panic (resolve).
THEOREM StoreTypes == Spec => []TypeOK
<1>1. StoreInv => TypeOK
  BY DEF StoreInv
<1> QED BY <1>1, StoreStart, StoreStep, PTL DEF Spec

-----------------------------------------------------------------------------
(* Source states, for one engine run per opening.                          *)

\* What is written of a request that was refused: nothing, since what is in the tables
\* was answered ok or is in the transaction whose callers still wait.
LEMMA RefusalFacts == StoreInv => RefusedMeansAbsent /\ SpoolInQueueOrder
<1> SUFFICES ASSUME StoreInv PROVE RefusedMeansAbsent /\ SpoolInQueueOrder
  OBVIOUS
<1>1. TypeOK /\ OpenRequests /\ Written /\ Ordered
  BY DEF StoreInv
<1>2. RefusedMeansAbsent
  <2> SUFFICES ASSUME NEW i \in 1..Len(reqs), answer[i] = "refused", i \in Elems(rows) \cup records PROVE FALSE
    BY DEF RefusedMeansAbsent
  <2>1. i \in InTx
    BY <1>1 DEF Written
  <2>2. Elems(Chunk) \subseteq Elems(appends)
    BY <1>1, PartsOfAppends DEF Ordered
  <2>3. i \in InFlight
    BY <2>1, <2>2 DEF InTx, InFlight, Group
  <2> QED BY <1>1, <2>3 DEF OpenRequests, Open1
<1>3. SpoolInQueueOrder
  BY <1>1 DEF Ordered, Increasing, SpoolInQueueOrder
<1> QED BY <1>2, <1>3

\* A caller that is told of an error has left nothing, and the rows of the spool are in
\* the order in which they were queued, however many engine runs share the opening.
THEOREM RefusalSound == Spec => [](RefusedMeansAbsent /\ SpoolInQueueOrder)
<1>1. Init => StoreInv
  BY StoreStart
<1>2. StoreInv /\ [Next]_vars => StoreInv'
  BY StoreStep
<1>3. StoreInv => RefusedMeansAbsent /\ SpoolInQueueOrder
  BY RefusalFacts
<1> QED BY <1>1, <1>2, <1>3, PTL DEF Spec

\* Who may say ok: only a commit and resolveSatisfied grant anything new.
LEMMA GrantStep ==
  ASSUME StoreInv, [Next]_vars, ~ TxCommit, ~ resolveSatisfied
  PROVE  \A i \in 1..Len(reqs') : Granted(i)' => i \in 1..Len(reqs) /\ Granted(i) /\ reqs'[i] = reqs[i]
<1>1. CASE Enqueue
  BY <1>1, EnqueueStep
<1>2. ASSUME reqs' = reqs, \A i \in 1..Len(reqs) : Granted(i)' => Granted(i)
      PROVE  \A i \in 1..Len(reqs') : Granted(i)' => i \in 1..Len(reqs) /\ Granted(i) /\ reqs'[i] = reqs[i]
  BY <1>2
<1>3. CASE takeAll \/ Collect \/ planWriteBatch \/ NextRun
  <2>1. CASE NextRun
    <3>1. reqs' = reqs /\ UNCHANGED <<answer, wpc, failed, appends, stmts>>
      BY <2>1 DEF NextRun, client, answers, group
    <3>2. \A i \in 1..Len(reqs) : Granted(i)' => Granted(i)
      BY <3>1 DEF Granted, Landed, InTx, Chunk, Elems
    <3> QED BY <1>2, <3>1, <3>2
  <2>2. CASE takeAll \/ Collect \/ planWriteBatch
    <3>1. reqs' = reqs /\ answer' = answer /\ ~ Landed'
      BY <2>2 DEF takeAll, Collect, planWriteBatch, client, answers, Landed
    <3>2. \A i \in 1..Len(reqs) : Granted(i)' => Granted(i)
      BY <3>1 DEF Granted
    <3> QED BY <1>2, <3>1, <3>2
  <2> QED BY <1>3, <2>1, <2>2
<1>4. CASE Answer
  <2>1. reqs' = reqs
    BY <1>4 DEF Answer, client
  <2> QED BY <1>2, <1>4, <2>1, AnswerStep
<1>5. CASE Close
  <2>1. reqs' = reqs
    BY <1>5 DEF Close, client
  <2> QED BY <1>2, <1>5, <2>1, CloseStep
<1>6. CASE Open \/ Crash
  <2>1. reqs' = reqs
    BY <1>6 DEF Open, Crash, client
  <2> QED BY <1>2, <1>6, <2>1, ReopenStep
<1>7. CASE Wake \/ Sleep \/ TxRefused \/ TxReady \/ CommitFails \/ UNCHANGED vars
  <2>1. reqs' = reqs
    BY <1>7 DEF Wake, Sleep, TxRefused, TxReady, CommitFails, client, vars
  <2> QED BY <1>2, <1>7, <2>1, QuietStep
<1> QED BY <1>1, <1>3, <1>4, <1>5, <1>6, <1>7, Zenon DEF Next, Writer

\* A commit moves the states forward and covers what it carried.
LEMMA StatesCommitted ==
  ASSUME StoreInv, SourceStates, TxCommit
  PROVE  SourceStates' /\ \A s \in Sources : state[s] <= state'[s]
<1>0. TypeOK /\ OpenRequests /\ Phases
  BY DEF StoreInv
<1>1. /\ UNCHANGED <<base, reqs, answer, appends, stmts>> /\ wpc = "commit" /\ wpc' = "answer" /\ failed' = FALSE
      /\ state' = [s \in Sources |->
            IF OfSource(stmts, s) # {} /\ Coalesced(s).val > srcMark[s] THEN Coalesced(s).pos ELSE state[s]]
      /\ srcMark' = [s \in Sources |->
            IF OfSource(stmts, s) = {} THEN srcMark[s] ELSE Marked(srcMark[s], Coalesced(s).val)]
  BY DEF TxCommit, runVars, client, answers
<1>2. \A i \in stmts : reqs[i] \in Request /\ Open1(i)
  <2> SUFFICES ASSUME NEW i \in stmts PROVE reqs[i] \in Request /\ Open1(i)
    OBVIOUS
  <2>1. Open1(i)
    BY <1>0 DEF OpenRequests, InFlight, Group
  <2> QED BY <1>0, <2>1, ElementOfSeq DEF TypeOK, Open1
<1>3. ASSUME NEW s \in Sources, OfSource(stmts, s) # {}
      PROVE  /\ Coalesced(s).val \in Nat /\ Coalesced(s).pos = base[s] + Coalesced(s).val
             /\ \A j \in OfSource(stmts, s) : reqs[j].val <= Coalesced(s).val
  <2>1. /\ Newest(OfSource(stmts, s)) \in OfSource(stmts, s)
        /\ \A j \in OfSource(stmts, s) : reqs[j].val <= reqs[Newest(OfSource(stmts, s))].val
    BY <1>0, <1>3, NewestFacts
  <2>2. PICK w \in OfSource(stmts, s) : w = Newest(OfSource(stmts, s))
    BY <2>1
  <2>3. w \in stmts /\ reqs[w].kind = "state" /\ reqs[w].src = s /\ Coalesced(s) = reqs[w]
    BY <2>2 DEF OfSource, Of, Coalesced
  <2>4. reqs[w].val \in Nat /\ reqs[w].pos = base[s] + reqs[w].val
    BY <1>2, <2>3 DEF Open1, Request
  <2> QED BY <2>1, <2>2, <2>3, <2>4
<1>4. \A s \in Sources : state[s] \in Nat /\ srcMark[s] \in Nat /\ base[s] \in Nat /\ state[s] = base[s] + srcMark[s]
  BY <1>0 DEF TypeOK, SourceStates
<1>5. ASSUME NEW s \in Sources
      PROVE  /\ state'[s] = base'[s] + srcMark'[s] /\ state[s] <= state'[s] /\ state'[s] \in Nat
             /\ \A j \in OfSource(stmts, s) : reqs[j].pos <= state'[s]
  <2>1. CASE OfSource(stmts, s) = {}
    BY <1>1, <1>4, <2>1
  <2>2. CASE OfSource(stmts, s) # {}
    <3>1. /\ state'[s] = IF Coalesced(s).val > srcMark[s] THEN Coalesced(s).pos ELSE state[s]
          /\ srcMark'[s] = IF Coalesced(s).val > srcMark[s] THEN Coalesced(s).val ELSE srcMark[s]
      BY <1>1, <2>2 DEF Marked
    <3>2. /\ Coalesced(s).val \in Nat /\ Coalesced(s).pos = base[s] + Coalesced(s).val
          /\ \A j \in OfSource(stmts, s) : reqs[j].val <= Coalesced(s).val
      BY <1>3, <2>2
    <3>3. \A j \in OfSource(stmts, s) : reqs[j].val \in Nat /\ reqs[j].pos = base[s] + reqs[j].val
      BY <1>2 DEF OfSource, Of, Open1, Request
    <3>4. PICK v \in Nat : v = Coalesced(s).val
      BY <3>2
    <3>5. state'[s] = base[s] + srcMark'[s] /\ state[s] <= state'[s] /\ state'[s] \in Nat /\ base[s] + v <= state'[s]
      BY <1>4, <3>1, <3>2, <3>4
    <3>6. ASSUME NEW j \in OfSource(stmts, s) PROVE reqs[j].pos <= state'[s]
      <4>1. reqs[j].val <= v /\ reqs[j].val \in Nat /\ reqs[j].pos = base[s] + reqs[j].val
        BY <3>2, <3>3, <3>4
      <4> QED BY <1>4, <3>5, <4>1
    <3> QED BY <1>1, <3>5, <3>6
  <2> QED BY <2>1, <2>2
<1>6. ASSUME NEW i \in 1..Len(reqs), Granted(i)', reqs[i].kind = "state" PROVE reqs[i].pos <= state'[reqs[i].src]
  <2>1. reqs[i] \in Request
    BY <1>0, ElementOfSeq DEF TypeOK
  <2>2. reqs[i].src \in Sources /\ reqs[i].pos \in Nat
    BY <2>1 DEF Request
  <2>3. CASE answer[i] = "ok"
    <3>1. reqs[i].pos <= state[reqs[i].src]
      BY <1>6, <2>3 DEF SourceStates, Granted
    <3> QED BY <1>4, <1>5, <2>2, <3>1
  <2>4. CASE i \in InTx
    <3>1. Elems(Chunk) \subseteq Elems(appends)
      BY <1>0, PartsOfAppends DEF StoreInv, Ordered
    <3>2. i \in stmts
      BY <1>0, <1>6, <2>4, <3>1 DEF InTx, Phases
    <3>3. i \in OfSource(stmts, reqs[i].src)
      BY <1>6, <3>2 DEF OfSource, Of
    <3> QED BY <1>5, <2>2, <3>3
  <2>5. InTx' = InTx
    BY <1>1 DEF InTx, Chunk, Elems
  <2> QED BY <1>1, <1>6, <2>3, <2>4, <2>5 DEF Granted
<1> QED BY <1>1, <1>5, <1>6 DEF SourceStates

LEMMA StatesStep ==
  ASSUME RunsPerOpen = 1, StoreInv, SourceStates, [Next]_vars
  PROVE  SourceStates' /\ \A s \in Sources : state[s] <= state'[s]
<1>0. TypeOK
  BY DEF StoreInv
<1>1. \A s \in Sources : state[s] \in Nat
  BY <1>0 DEF TypeOK
<1>2. CASE TxCommit
  BY <1>2, StatesCommitted
<1>3. CASE resolveSatisfied
  <2>1. UNCHANGED <<reqs, state, base, srcMark, appends>> /\ ~ Landed' /\ Resolve(Satisfied, "ok")
    BY <1>3 DEF resolveSatisfied, tables, marks, runVars, client, Landed
  <2>2. ASSUME NEW i \in 1..Len(reqs), Granted(i)', reqs[i].kind = "state" PROVE reqs[i].pos <= state[reqs[i].src]
    <3>1. i \in Ids
      BY <1>0, LenProperties, StoreWriterAssumption DEF TypeOK, Ids
    <3>2. i \in Satisfied \/ answer[i] = "ok"
      BY <2>1, <2>2, <3>1 DEF Granted, Resolve
    <3>3. CASE answer[i] = "ok"
      BY <2>2, <3>3 DEF SourceStates, Granted
    <3>4. CASE i \in Satisfied
      <4>1. i \in stmts /\ reqs[i].val <= srcMark[reqs[i].src]
        BY <2>2, <3>4, SatisfiedFacts
      <4>2. reqs[i].pos = base[reqs[i].src] + reqs[i].val
        BY <2>2, <4>1 DEF StoreInv, OpenRequests, InFlight, Group, Open1
      <4>3. reqs[i] \in Request
        BY <1>0, ElementOfSeq DEF TypeOK
      <4>4. PICK s \in Sources, v \in Nat : s = reqs[i].src /\ v = reqs[i].val
        BY <4>3 DEF Request
      <4>5. base[s] \in Nat /\ srcMark[s] \in Nat /\ state[s] = base[s] + srcMark[s]
        BY <1>0 DEF TypeOK, SourceStates
      <4> QED BY <4>1, <4>2, <4>4, <4>5
    <3> QED BY <3>2, <3>3, <3>4
  <2> QED BY <1>1, <2>1, <2>2 DEF SourceStates
<1>4. CASE ~ TxCommit /\ ~ resolveSatisfied
  <2>1. \A i \in 1..Len(reqs') : Granted(i)' => i \in 1..Len(reqs) /\ Granted(i) /\ reqs'[i] = reqs[i]
    BY <1>4, GrantStep
  <2>2. ~ NextRun
    BY <1>0 DEF NextRun, TypeOK
  <2>3. /\ state' = state
        /\ \/ UNCHANGED <<base, srcMark>>
           \/ base' = state /\ srcMark' = [s \in Sources |-> 0]
    BY <1>4, <2>2 DEF Next, Writer, Enqueue, Wake, takeAll, Sleep, planWriteBatch, TxRefused, TxReady, CommitFails, Answer,
       Collect, Close, Open, Crash, Reopened, tables, marks, runVars, vars
  <2>4. \A s \in Sources : state'[s] = base'[s] + srcMark'[s]
    BY <1>1, <2>3 DEF SourceStates
  <2>5. \A i \in 1..Len(reqs') : Granted(i)' /\ reqs'[i].kind = "state" => reqs'[i].pos <= state'[reqs'[i].src]
    BY <2>1, <2>3 DEF SourceStates
  <2> QED BY <1>1, <2>3, <2>4, <2>5 DEF SourceStates
<1> QED BY <1>2, <1>3, <1>4

\* A caller that is told ok finds its row, its record, its checkpoint and its state, or
\* a later one, in the store; one that is refused has left nothing; and rows are in the
\* order of the queue - whatever the writer groups, coalesces, fails, closes or loses
\* in a crash, for any number of callers, with one engine run per opening.
THEOREM AnswersSound == ASSUME RunsPerOpen = 1 PROVE Spec => []AnswersAreTrue
<1>1. Init => StoreInv /\ SourceStates
  <2> SUFFICES ASSUME Init PROVE SourceStates
    BY StoreStart
  <2>1. \A i \in 1..Len(reqs) : FALSE
    BY DEF Init
  <2> QED BY <2>1 DEF Init, SourceStates
<1>2. StoreInv /\ SourceStates /\ [Next]_vars => (StoreInv /\ SourceStates)'
  BY StoreStep, StatesStep
<1>3. StoreInv /\ SourceStates => AnswersAreTrue
  <2> SUFFICES ASSUME StoreInv, SourceStates PROVE AnswersAreTrue
    OBVIOUS
  <2>1. TypeOK /\ OpenRequests /\ Written /\ Checkpoints /\ Ordered
    BY DEF StoreInv
  <2>2. OkMeansDurable
    <3> SUFFICES ASSUME NEW i \in 1..Len(reqs), answer[i] = "ok"
                 PROVE  LET r == reqs[i] IN
                          CASE r.kind = "append"     -> i \in Elems(rows)
                            [] r.kind = "rest"       -> i \in records
                            [] r.kind = "checkpoint" -> cp >= r.val
                            [] r.kind = "state"      -> state[r.src] >= r.pos
      BY DEF OkMeansDurable
    <3>1. reqs[i] \in Request
      BY <2>1, ElementOfSeq DEF TypeOK
    <3>2. /\ reqs[i].kind = "append" => i \in Elems(rows)
          /\ reqs[i].kind = "rest" => i \in records
          /\ reqs[i].kind = "checkpoint" => reqs[i].val <= cp
          /\ reqs[i].kind = "state" => reqs[i].pos <= state[reqs[i].src]
      BY <2>1 DEF Checkpoints, Granted, SourceStates
    <3>3. reqs[i].kind \in {"append", "checkpoint", "state", "rest"} /\ reqs[i].val \in Nat /\ reqs[i].pos \in Nat
          /\ cp \in Nat /\ state[reqs[i].src] \in Nat
      BY <2>1, <3>1 DEF Request, Kinds, TypeOK
    <3>4. /\ reqs[i].kind = "checkpoint" => cp >= reqs[i].val
          /\ reqs[i].kind = "state" => state[reqs[i].src] >= reqs[i].pos
      BY <3>2, <3>3
    <3> QED BY <3>2, <3>3, <3>4
  <2>3. RefusedMeansAbsent /\ SpoolInQueueOrder
    BY RefusalFacts
  <2> QED BY <2>2, <2>3 DEF AnswersAreTrue
<1> QED BY <1>1, <1>2, <1>3, PTL DEF Spec

\* The checkpoint and the states of the sources never move back in the store.
THEOREM StoreNeverRegresses == ASSUME RunsPerOpen = 1 PROVE Spec => NeverRegresses
<1>1. Init => StoreInv /\ SourceStates
  <2> SUFFICES ASSUME Init PROVE SourceStates
    BY StoreStart
  <2>1. \A i \in 1..Len(reqs) : FALSE
    BY DEF Init
  <2> QED BY <2>1 DEF Init, SourceStates
<1>2. StoreInv /\ SourceStates /\ [Next]_vars => (StoreInv /\ SourceStates)'
  BY StoreStep, StatesStep
<1>3. StoreInv /\ SourceStates /\ [Next]_vars => [cp' >= cp /\ \A s \in Sources : state'[s] >= state[s]]_vars
  <2> SUFFICES ASSUME StoreInv, SourceStates, [Next]_vars
               PROVE  cp' >= cp /\ \A s \in Sources : state'[s] >= state[s]
    OBVIOUS
  <2>1. TypeOK /\ TypeOK' /\ \A s \in Sources : state[s] <= state'[s]
    BY StoreStep, StatesStep DEF StoreInv
  <2>2. cp <= cp'
    <3>1. CASE TxCommit
      BY <3>1, CommitStep
    <3>2. CASE ~ TxCommit
      <4>1. cp' = cp
        BY <3>2 DEF Next, Writer, Enqueue, Wake, NextRun, takeAll, Sleep, planWriteBatch, resolveSatisfied, TxRefused, TxReady,
           CommitFails, Answer, Collect, Close, Open, Crash, Reopened, tables, vars
      <4> QED BY <2>1, <4>1 DEF TypeOK
    <3> QED BY <3>1, <3>2
  <2>3. cp \in Nat /\ cp' \in Nat /\ \A s \in Sources : state[s] \in Nat /\ state'[s] \in Nat
    BY <2>1 DEF TypeOK
  <2> QED BY <2>1, <2>2, <2>3
<1> QED BY <1>1, <1>2, <1>3, PTL DEF Spec, NeverRegresses
=============================================================================
